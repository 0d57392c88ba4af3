SPECIFICATION CalmSpec
INVARIANTS
  TypeOK
  OneFingerChain
  JoinReplyNamesMember
  FingerChainAlive
  ConnectedToLandmark
  OrderedRing
PROPERTIES
  SuccessorApproaches
  Converges
  FingersConverge
CONSTANTS
  n1 = n1
  n2 = n2
  n3 = n3
  Node = {n1, n2, n3}
  Landmark = n1
  AnyAddr = AnyAddr
  NoEntry = NoEntry
  M = 5
  Digest <- SparseDigest
  KeyId = {11}
  Budget <- MCBudget
  MaxJoin = 4
  MaxLeave = 1
  MaxRingstate = 0
  MaxLookup = 0
  MaxLoss = 1
CHECK_DEADLOCK FALSE
