SPECIFICATION Spec
CONSTANTS
  Headers <- MCHeaders
  RecSizes <- MCRecSizes
  Counts <- MCCounts
  Insns <- MCInsns
  Width = 16
  HeaderSize = 2
  U32Size = 2
  MinRecSize <- MCMinRecSize
INVARIANTS
  ReadsInBounds
  VerdictIsRight
  LocationIsNearest
PROPERTY
  Terminates
CHECK_DEADLOCK FALSE
