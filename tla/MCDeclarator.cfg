SPECIFICATION Spec
CONSTANTS
  Declarations <- MCDeclarations
  MaxDeclarator = 8
  MaxMask = 32
INVARIANTS
  TypeOK
  ReadsBack
CHECK_DEADLOCK FALSE
