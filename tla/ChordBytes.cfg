SPECIFICATION Spec
INVARIANTS
  TypeOK
  CompareIsGeq
  IndexHashIsSum
CONSTANTS
  Bytes = 3
  Bits = 2
CHECK_DEADLOCK FALSE
