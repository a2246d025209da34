SPECIFICATION Spec
CONSTANTS
  Inputs <- FieldInputs
  Unnamed <- MCUnnamed
  Bad <- MCBad
  MaxChain <- MCMaxChain
  MaxPeel <- MCMaxPeel
  MaxNesting <- MCMaxNesting
INVARIANT AccessesCompile
CHECK_DEADLOCK FALSE
