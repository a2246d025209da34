SPECIFICATION FairSpec
CONSTANTS
  Bases <- MCBases
  MinCap = 1
INVARIANTS
  ClosedWhenOk
  OnlyNeeded
  WorklistIsSet
  FitsCapacity
  FailuresAreReal
PROPERTIES
  ImplementsClosure
  Terminates
CHECK_DEADLOCK FALSE
