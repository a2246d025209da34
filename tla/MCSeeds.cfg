SPECIFICATION FairSpec
CONSTANTS
  Inputs <- MCInputs
  Unnamed <- MCUnnamed
  Bad <- MCBad
  MaxChain <- MCMaxChain
  MaxPeel <- MCMaxPeel
  MaxNesting <- MCMaxNesting
INVARIANTS SeedsAreRequirements WitnessIsExact RootsExact AccessesCompile FailuresAreReal
PROPERTY Terminates
CHECK_DEADLOCK FALSE
