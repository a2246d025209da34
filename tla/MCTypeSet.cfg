SPECIFICATION Spec
CONSTANTS
  WordBits = 2
  Counts <- MCCounts
  Args <- MCArgs
INVARIANTS
  TypeOK
  EnumerationIsComplete
PROPERTY
  IsIdSet
