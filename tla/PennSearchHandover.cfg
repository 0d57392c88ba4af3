SPECIFICATION PacedSpec
INVARIANTS
  TypeOK
  NothingLost
  KeysPlaced
  SearchSound
CONSTANTS
  n1 = n1
  n2 = n2
  n3 = n3
  d1 = d1
  d2 = d2
  Node = {n1, n2, n3}
  Asker = {n1}
  Doc = {d1, d2}
  M = 4
  Digest <- MCDigest
  Key = {3, 8, 13}
  File <- MCFile
  KeyList <- MCKeyList
  MaxKeys = 2
  MaxCommand = 2
  MaxChange = 6
CHECK_DEADLOCK FALSE
