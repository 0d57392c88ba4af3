SPECIFICATION MCSpec
INVARIANTS
  TypeOK
  ScriptKept
PROPERTIES
  ImplementsQueue
  AcceptedExecuted
CONSTANTS
  Word <- MCWord
  Milliseconds <- MCMilliseconds
  Line <- MCLine
  Scripts <- MCScripts
  MaxTyped = 3
  MaxScanDelay = 5
  MaxNotReady = 3
CHECK_DEADLOCK FALSE
