SPECIFICATION Spec
INVARIANTS
  TypeOK
  ShortestWhenDone
  AgreesWithHops
PROPERTIES
  Terminates
CONSTANTS
  a = a
  b = b
  c = c
  d = d
  e = e
  Node = {a, b, c, d, e}
  NeighborSets <- MCNeighborSets
  Databases <- MCDatabases
CHECK_DEADLOCK FALSE
