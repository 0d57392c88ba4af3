SPECIFICATION SteadySpec
PROPERTIES
  ImplementsOverlay
  LookupsAnswered
  
CONSTANTS
  n1 = n1
  n2 = n2
  n3 = n3
  Node = {n1, n2, n3}
  Landmark = n1
  AnyAddr = AnyAddr
  NoEntry = NoEntry
  M = 5
  Digest <- SparseDigest
  KeyId = {11, 25}
  Budget <- MCBudget
  MaxJoin = 3
  MaxLeave = 1
  MaxRingstate = 1
  MaxLookup = 1
  MaxLoss = 0
CHECK_DEADLOCK FALSE
