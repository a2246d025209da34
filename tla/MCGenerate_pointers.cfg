SPECIFICATION GenerateSpec
CONSTANTS
  NamedBases <- BehindPointers
  MinCap = 2
INVARIANTS
  HeaderIsComplete
CHECK_DEADLOCK FALSE
