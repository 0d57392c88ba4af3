SPECIFICATION FlapSpec
INVARIANTS
  TypeOK
  RoutesCurrent
  DatabaseFaithful
PROPERTIES
  RoutesConverge
  PacketsArrive
  FloodsEnd
CONSTANTS
  a = a
  b = b
  c = c
  ab = ab
  bc = bc
  ac = ac
  ab2 = ab2
  Node = {a, b, c}
  Link = {ab, bc, ac, ab2}
  Ends <- MCEnds
  MaxChange = 2
