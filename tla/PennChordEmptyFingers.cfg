SPECIFICATION PacedSpec
INVARIANTS
  NeverAborts
CONSTANTS
  n1 = n1
  n2 = n2
  n3 = n3
  Node = {n1, n2, n3}
  Landmark = n1
  AnyAddr = AnyAddr
  NoEntry = NoEntry
  M = 5
  Digest <- SparseDigest
  KeyId = {11}
  Budget <- MCBudget
  MaxJoin = 3
  MaxLeave = 0
  MaxRingstate = 0
  MaxLookup = 0
  MaxLoss = 0
CHECK_DEADLOCK FALSE
