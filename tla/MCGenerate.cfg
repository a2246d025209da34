SPECIFICATION MCSpec
CONSTANTS
  NamedBases <- MCNamedBases
  MinCap = 2
INVARIANTS
  DefinedOnce
  CyclesAreReal
PROPERTIES
  GeneratesHeader
  GenerateReturns
CHECK_DEADLOCK FALSE
