SPECIFICATION Spec
INVARIANTS
  OneVerdict
  DecidedInTime
CONSTANTS
  Timeout = 2
  MaxPing = 3
  MaxTime = 7
CHECK_DEADLOCK FALSE
