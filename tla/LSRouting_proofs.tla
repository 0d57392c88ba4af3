--------------------------- MODULE LSRouting_proofs ---------------------------
(***************************************************************************)
(* The tables of the link-state protocol on any network, under any link     *)
(* operations: their types, the currency of the routes and the truth of the *)
(* database.                                                               *)
(***************************************************************************)
EXTENDS LSRoutingProperties, SequenceTheorems, FiniteSetTheorems, TLAPS

(* A message that, if it is an LSP, is one its originator flooded. *)
Genuine ==
  {m \in Message : m.type = "LSP" => /\ m.seq < Len(flooded[m.origin])
                                     /\ m.neighbors = flooded[m.origin][m.seq + 1]}

Carried == wire \in [Link -> [Node -> Seq(Genuine)]]

(* Every node has each table. *)
HasTables ==
  /\ DOMAIN neighborTable = Node /\ DOMAIN current = Node
  /\ DOMAIN seqTable = Node /\ DOMAIN routeMap = Node /\ DOMAIN routeTable = Node

IInv == TypeOK /\ HasTables /\ RoutesCurrent /\ DatabaseFaithful /\ Carried

-----------------------------------------------------------------------------
LEMMA NoEntries ==
  /\ DOMAIN <<>> = {}
  /\ \A S : <<>> \in Seq(S) /\ <<>> \in [DOMAIN <<>> -> S]
  BY EmptySeq

LEMMA MessageType ==
  /\ \A n \in Node : NdReq(n) \in Message /\ NdReq(n).type = "ND_REQ"
  /\ \A n, d \in Node : NdRsp(n, d) \in Message /\ NdRsp(n, d).type = "ND_RSP"
  /\ \A o \in Node, s \in Nat, nbrs \in SUBSET Node :
       /\ Lsp(o, s, nbrs) \in Message
       /\ Lsp(o, s, nbrs).origin = o /\ Lsp(o, s, nbrs).seq = s /\ Lsp(o, s, nbrs).neighbors = nbrs
  BY DEF Message, NdReq, NdRsp, Lsp

LEMMA MessageFields ==
  ASSUME NEW m \in Message
  PROVE  /\ m.type = "ND_REQ" => m.from \in Node
         /\ m.type = "ND_RSP" => m.from \in Node
         /\ m.type = "LSP" => m.origin \in Node /\ m.seq \in Nat /\ m.neighbors \in SUBSET Node
  BY DEF Message

(* Only packets of S come onto the wires. *)
LEMMA PutCarries ==
  ASSUME NEW S, NEW w \in [Link -> [Node -> Seq(S)]], NEW n, NEW links, NEW m \in S
  PROVE  Put(w, n, links, m) \in [Link -> [Node -> Seq(S)]]
<1>1. ASSUME NEW l \in Link, NEW d \in Node
      PROVE  Append(w[l][d], m) \in Seq(S)
  BY AppendProperties
<1> QED
  BY <1>1 DEF Put

LEMMA TakenCarries ==
  ASSUME NEW S, wire \in [Link -> [Node -> Seq(S)]],
         NEW l \in Link, NEW n \in Node, wire[l][n] # <<>>
  PROVE  Taken(l, n) \in [Link -> [Node -> Seq(S)]] /\ Head_(l, n) \in S
<1>1. wire[l][n] \in Seq(S)
  OBVIOUS
<1>2. Head(wire[l][n]) \in S /\ Tail(wire[l][n]) \in Seq(S)
  BY <1>1, HeadTailProperties
<1> QED
  BY <1>2 DEF Taken, Head_

LEMMA CarriesMore ==
  ASSUME NEW S, NEW T, S \subseteq T, NEW w \in [Link -> [Node -> Seq(S)]]
  PROVE  w \in [Link -> [Node -> Seq(T)]]
<1>1. ASSUME NEW s \in Seq(S)
      PROVE  s \in Seq(T)
  <2>1. Len(s) \in Nat /\ s \in [1 .. Len(s) -> S]
    BY LenProperties
  <2>2. s \in [1 .. Len(s) -> T]
    BY <2>1
  <2> QED
    BY <2>1, <2>2
<1> QED
  BY <1>1

-----------------------------------------------------------------------------
(* A result of DijkstraAlgo is shortest, and it is a table of routes. *)
LEMMA Shortest ==
  ASSUME NEW nbrs, NEW db, NEW q \in ShortestRoutes(nbrs, db)
  PROVE  /\ IsShortest(nbrs, db, q)
         /\ q = [d \in DOMAIN q |-> [nextHop |-> q[d].nextHop, cost |-> q[d].cost]]
         /\ \A d \in DOMAIN q : q[d].nextHop \in nbrs /\ q[d].cost \in Nat
<1> DEFINE L == Layers(nbrs, db)
           reach == UNION {L[k] : k \in DOMAIN L}
           cost == [d \in reach |-> CHOOSE k \in DOMAIN L : d \in L[k]]
<1>1. PICK hop \in [reach -> nbrs] :
        q = [d \in reach |-> [nextHop |-> hop[d], cost |-> cost[d]]]
  BY DEF ShortestRoutes
<1>2. IsShortest(nbrs, db, q)
  BY DEF ShortestRoutes
<1>3. DOMAIN L = 1 .. Cardinality(Node) /\ Cardinality(Node) \in Nat
  BY NodeAssumption, FS_CardinalityType DEF Layers
<1>4. \A d \in reach : cost[d] \in DOMAIN L
  <2> HIDE DEF L
  <2> QED
    OBVIOUS
<1>5. \A d \in reach : cost[d] \in Nat
  BY <1>3, <1>4
<1> HIDE DEF cost, reach
<1>6. DOMAIN q = reach /\ \A d \in reach : q[d].nextHop = hop[d] /\ q[d].cost = cost[d]
  BY <1>1
<1> QED
  BY <1>1, <1>2, <1>5, <1>6

LEMMA RouteTableShortest ==
  ASSUME NEW t, NEW db, NEW r \in RouteTables(t, db)
  PROVE  IsShortest(DOMAIN t, db,
                    [d \in DOMAIN r |-> [nextHop |-> r[d].nextHop, cost |-> r[d].cost]])
<1>1. PICK q \in ShortestRoutes(DOMAIN t, db) :
        r = [d \in DOMAIN q |-> [nextHop |-> q[d].nextHop,
                                 interface |-> t[q[d].nextHop],
                                 cost |-> q[d].cost]]
  BY DEF RouteTables
<1>2. /\ IsShortest(DOMAIN t, db, q)
      /\ q = [d \in DOMAIN q |-> [nextHop |-> q[d].nextHop, cost |-> q[d].cost]]
  BY Shortest
<1>3. [d \in DOMAIN r |-> [nextHop |-> r[d].nextHop, cost |-> r[d].cost]]
        = [d \in DOMAIN q |-> [nextHop |-> q[d].nextHop, cost |-> q[d].cost]]
  BY <1>1
<1> QED
  BY <1>2, <1>3

LEMMA RouteTableType ==
  ASSUME NEW n \in Node, NEW t, IsTable(t, Interfaces(n)), NEW db, IsTable(db, SUBSET Node),
         NEW r \in RouteTables(t, db)
  PROVE  IsTable(r, Route)
<1>1. PICK q \in ShortestRoutes(DOMAIN t, db) :
        r = [d \in DOMAIN q |-> [nextHop |-> q[d].nextHop,
                                 interface |-> t[q[d].nextHop],
                                 cost |-> q[d].cost]]
  BY DEF RouteTables
<1>2. /\ IsShortest(DOMAIN t, db, q)
      /\ \A d \in DOMAIN q : q[d].nextHop \in DOMAIN t /\ q[d].cost \in Nat
  BY Shortest
<1>3. DOMAIN q \subseteq Node
  BY <1>2 DEF IsShortest, Connected, IsTable
<1>4. \A d \in DOMAIN q : t[q[d].nextHop] \in Link
  BY <1>2 DEF IsTable, Interfaces
<1> QED
  BY <1>1, <1>2, <1>3, <1>4 DEF IsTable, Route

(* The routes of n are computed, the others keep theirs. *)
LEMMA Computed ==
  ASSUME TypeOK, HasTables, NEW n \in Node, NEW t, IsTable(t, Interfaces(n)),
         NEW db, IsTable(db, SUBSET Node), DijkstraAlgo(n, t, db)
  PROVE  /\ DOMAIN routeTable' = Node
         /\ \A m \in Node : IsTable(routeTable'[m], Route)
         /\ \A m \in Node \ {n} : routeTable'[m] = routeTable[m]
         /\ IsShortest(DOMAIN t, db,
                       [d \in DOMAIN routeTable'[n] |-> [nextHop |-> routeTable'[n][d].nextHop,
                                                         cost |-> routeTable'[n][d].cost]])
<1>1. PICK r \in RouteTables(t, db) : routeTable' = [routeTable EXCEPT ![n] = r]
  BY DEF DijkstraAlgo
<1>2. IsTable(r, Route)
  BY RouteTableType
<1>3. DOMAIN routeTable' = Node /\ routeTable'[n] = r
      /\ \A m \in Node \ {n} : routeTable'[m] = routeTable[m]
  BY <1>1 DEF HasTables
<1>4. \A m \in Node : IsTable(routeTable'[m], Route)
  BY <1>2, <1>3 DEF TypeOK
<1> QED
  BY <1>3, <1>4, RouteTableShortest

(* The routes of a node stay as they are while its neighbours and its database *)
(* do.                                                                       *)
LEMMA RoutesKept ==
  ASSUME RoutesCurrent, NEW n \in Node,
         DOMAIN neighborTable'[n] = DOMAIN neighborTable[n],
         routeMap'[n] = routeMap[n], routeTable'[n] = routeTable[n]
  PROVE  IsShortest(DOMAIN neighborTable'[n], routeMap'[n],
                    [d \in DOMAIN routeTable'[n] |-> [nextHop |-> routeTable'[n][d].nextHop,
                                                      cost |-> routeTable'[n][d].cost]])
  BY DEF RoutesCurrent, Plain

(* What a node flooded is not taken back. *)
LEMMA StaysGenuine ==
  ASSUME flooded \in [Node -> Seq(SUBSET Node)], NEW n \in Node, NEW nbrs \in SUBSET Node,
         flooded' = [flooded EXCEPT ![n] = Append(@, nbrs)]
  PROVE  /\ flooded' \in [Node -> Seq(SUBSET Node)]
         /\ \A o \in Node, s \in Nat : s < Len(flooded[o]) =>
              s < Len(flooded'[o]) /\ flooded'[o][s + 1] = flooded[o][s + 1]
         /\ Genuine \subseteq Genuine'
         /\ Lsp(n, Len(flooded[n]), nbrs) \in Genuine'
<1>1. flooded[n] \in Seq(SUBSET Node) /\ Len(flooded[n]) \in Nat
  BY LenProperties
<1>2. /\ flooded'[n] \in Seq(SUBSET Node)
      /\ Len(flooded'[n]) = Len(flooded[n]) + 1
      /\ \A i \in 1 .. Len(flooded[n]) : flooded'[n][i] = flooded[n][i]
      /\ flooded'[n][Len(flooded[n]) + 1] = nbrs
  BY <1>1, AppendProperties
<1>3. flooded' \in [Node -> Seq(SUBSET Node)] /\ \A o \in Node \ {n} : flooded'[o] = flooded[o]
  BY <1>2
<1>4. ASSUME NEW o \in Node, NEW s \in Nat, s < Len(flooded[o])
      PROVE  s < Len(flooded'[o]) /\ flooded'[o][s + 1] = flooded[o][s + 1]
  <2>1. CASE o = n
    BY <1>1, <1>2, <1>4, <2>1
  <2>2. CASE o # n
    BY <1>3, <1>4, <2>2
  <2> QED
    BY <2>1, <2>2
<1>5. ASSUME NEW m \in Genuine
      PROVE  m \in Genuine'
  <2>1. m \in Message
    BY DEF Genuine
  <2>2. CASE m.type = "LSP"
    <3>1. m.origin \in Node /\ m.seq \in Nat
      BY <2>1, <2>2, MessageFields
    <3> QED
      BY <1>4, <2>1, <2>2, <3>1 DEF Genuine
  <2>3. CASE m.type # "LSP"
    BY <2>1, <2>3 DEF Genuine
  <2> QED
    BY <2>2, <2>3
<1>6. Lsp(n, Len(flooded[n]), nbrs) \in Genuine'
  BY <1>1, <1>2, MessageType DEF Genuine
<1> QED
  BY <1>3, <1>4, <1>5, <1>6

-----------------------------------------------------------------------------
LEMMA StartIInv ==
  ASSUME NEW f \in [Node -> SUBSET Link], \A n \in Node : f[n] \subseteq Interfaces(n), StartWith(f)
  PROVE  IInv
<1> USE DEF StartWith
<1>1. TypeOK
  BY NoEntries DEF TypeOK, IsTable
<1>2. HasTables
  BY DEF HasTables
<1>3. RoutesCurrent
  BY NoEntries DEF RoutesCurrent, Plain, IsShortest
<1>4. DatabaseFaithful
  BY NoEntries DEF DatabaseFaithful
<1>5. Carried
  BY NoEntries DEF Carried
<1> QED
  BY <1>1, <1>2, <1>3, <1>4, <1>5 DEF IInv

LEMMA InitIInv == Init => IInv
  BY StartIInv DEF Init, Interfaces

(* A step that leaves all tables alone and puts no untrue packet on a wire. *)
LEMMA SameTables ==
  ASSUME IInv, UNCHANGED tables,
         up' \in [Node -> SUBSET Link], \A n \in Node : up'[n] \subseteq Interfaces(n),
         wire' \in [Link -> [Node -> Seq(Genuine)]], due' \subseteq Node, changes' \in Nat
  PROVE  IInv'
<1> USE DEF tables
<1>1. Genuine' = Genuine /\ Genuine \subseteq Message
  BY DEF Genuine
<1>2. wire' \in [Link -> [Node -> Seq(Message)]]
  BY <1>1, CarriesMore
<1>3. TypeOK'
  BY <1>2 DEF IInv, TypeOK, IsTable
<1>4. HasTables'
  BY DEF IInv, HasTables
<1>5. RoutesCurrent'
  BY DEF IInv, RoutesCurrent, Plain
<1>6. DatabaseFaithful'
  BY DEF IInv, DatabaseFaithful
<1>7. Carried'
  BY <1>1 DEF Carried
<1> QED
  BY <1>3, <1>4, <1>5, <1>6, <1>7 DEF IInv

LEMMA RequestsGenuine ==
  ASSUME NEW n \in Node
  PROVE  NdReq(n) \in Genuine /\ \A d \in Node : NdRsp(n, d) \in Genuine
  BY MessageType DEF Genuine

LEMMA StepTwoSeconds ==
  ASSUME IInv, TwoSeconds
  PROVE  IInv'
  BY SameTables DEF TwoSeconds, IInv, TypeOK, Carried

LEMMA StepProcessNdReq ==
  ASSUME IInv, NEW l \in Link, NEW n \in Node, ProcessNdReq(l, n)
  PROVE  IInv'
<1>1. Taken(l, n) \in [Link -> [Node -> Seq(Genuine)]] /\ Head_(l, n) \in Genuine
  BY TakenCarries DEF IInv, Carried, ProcessNdReq, Arrives
<1>2. Head_(l, n).from \in Node
  BY <1>1, MessageFields DEF ProcessNdReq, Arrives, Genuine
<1>3. wire' \in [Link -> [Node -> Seq(Genuine)]]
  BY <1>1, <1>2, RequestsGenuine, PutCarries DEF ProcessNdReq
<1> QED
  BY <1>3, SameTables DEF ProcessNdReq, IInv, TypeOK

LEMMA StepDropDown ==
  ASSUME IInv, NEW l \in Link, NEW n \in Node, DropDown(l, n)
  PROVE  IInv'
<1>1. wire' \in [Link -> [Node -> Seq(Genuine)]]
  BY TakenCarries DEF IInv, Carried, DropDown
<1> QED
  BY <1>1, SameTables DEF DropDown, IInv, TypeOK

LEMMA StepSetInterfaces ==
  ASSUME IInv, NEW f, NEW isUp \in BOOLEAN, \A n \in Node : f[n] \subseteq Interfaces(n),
         SetInterfaces(f, isUp)
  PROVE  IInv'
<1>1. /\ up' \in [Node -> SUBSET Link]
      /\ \A n \in Node : up'[n] \subseteq Interfaces(n)
  <2>1. \A n \in Node : (IF isUp THEN up[n] \cup f[n] ELSE up[n] \ f[n]) \subseteq Interfaces(n)
                        /\ Interfaces(n) \subseteq Link
    BY DEF IInv, TypeOK, Interfaces
  <2> QED
    BY <2>1 DEF SetInterfaces
<1>2. UNCHANGED tables /\ UNCHANGED <<wire, due>> /\ changes' \in Nat
  BY DEF SetInterfaces, IInv, TypeOK
<1>3. wire' \in [Link -> [Node -> Seq(Genuine)]] /\ due' \subseteq Node
  BY <1>2 DEF IInv, TypeOK, Carried
<1> QED
  BY <1>1, <1>2, <1>3, SameTables

LEMMA StepOperation ==
  ASSUME IInv, Operation
  PROVE  IInv'
<1>1. ASSUME NEW isUp \in BOOLEAN, NEW l \in Link, LinkOperation(l, isUp)
      PROVE  IInv'
  <2> DEFINE f == [n \in Node |-> {l} \cap Interfaces(n)]
  <2>1. SetInterfaces(f, isUp) /\ \A n \in Node : f[n] \subseteq Interfaces(n)
    BY <1>1 DEF LinkOperation
  <2> QED
    BY <2>1, StepSetInterfaces
<1>2. ASSUME NEW isUp \in BOOLEAN, NEW a \in Node, NEW b \in Node, P2POperation(a, b, isUp)
      PROVE  IInv'
  <2> DEFINE f == [n \in Node |-> {l \in Link : Ends[l] = {a, b}} \cap Interfaces(n)]
  <2>1. SetInterfaces(f, isUp) /\ \A n \in Node : f[n] \subseteq Interfaces(n)
    BY <1>2 DEF P2POperation
  <2> QED
    BY <2>1, StepSetInterfaces
<1>3. ASSUME NEW isUp \in BOOLEAN, NEW a \in Node, AllInterfacesOperation(a, isUp)
      PROVE  IInv'
  <2> DEFINE f == [n \in Node |-> IF n = a THEN Interfaces(a) ELSE {}]
  <2>1. SetInterfaces(f, isUp) /\ \A n \in Node : f[n] \subseteq Interfaces(n)
    BY <1>3 DEF AllInterfacesOperation
  <2> QED
    BY <2>1, StepSetInterfaces
<1> QED
  BY <1>1, <1>2, <1>3 DEF Operation

(* The timer: neighbours are replaced, and when their set differs the new one *)
(* is flooded and worked into the routes.                                    *)
LEMMA StepNdRequests ==
  ASSUME IInv, NEW n \in Node, NdRequests(n)
  PROVE  IInv'
<1> DEFINE nbrs == DOMAIN current[n]
           lsp == Lsp(n, Len(flooded[n]), nbrs)
<1>1. nbrs \in SUBSET Node /\ IsTable(current[n], Interfaces(n)) /\ IsTable(routeMap[n], SUBSET Node)
      /\ flooded \in [Node -> Seq(SUBSET Node)]
  BY DEF IInv, TypeOK, IsTable
<1>2. /\ due' \subseteq Node /\ UNCHANGED <<up, seqTable, routeMap, changes>>
      /\ DOMAIN neighborTable' = Node /\ DOMAIN current' = Node
      /\ neighborTable'[n] = current[n] /\ \A m \in Node \ {n} : neighborTable'[m] = neighborTable[m]
      /\ current'[n] = <<>> /\ \A m \in Node \ {n} : current'[m] = current[m]
  BY DEF NdRequests, ClearedNeighbors, IInv, HasTables, TypeOK
<1>3. \A m \in Node : IsTable(neighborTable'[m], Interfaces(m)) /\ IsTable(current'[m], Interfaces(m))
  BY <1>1, <1>2, NoEntries DEF IInv, TypeOK, IsTable
<1>4. NdReq(n) \in Genuine /\ Genuine \subseteq Message
  BY RequestsGenuine DEF Genuine
<1>5. CASE NeighborsChanged(n)
  <2>1. /\ flooded' = [flooded EXCEPT ![n] = Append(@, nbrs)]
        /\ wire' = Broadcast(Broadcast(wire, n, lsp), n, NdReq(n))
        /\ DijkstraAlgo(n, current[n], routeMap[n])
    BY <1>5 DEF NdRequests
  <2>2. /\ flooded' \in [Node -> Seq(SUBSET Node)]
        /\ \A o \in Node, s \in Nat : s < Len(flooded[o]) =>
             s < Len(flooded'[o]) /\ flooded'[o][s + 1] = flooded[o][s + 1]
        /\ Genuine \subseteq Genuine' /\ lsp \in Genuine'
    BY <1>1, <2>1, StaysGenuine
  <2>3. /\ DOMAIN routeTable' = Node
        /\ \A m \in Node : IsTable(routeTable'[m], Route)
        /\ \A m \in Node \ {n} : routeTable'[m] = routeTable[m]
        /\ IsShortest(DOMAIN current[n], routeMap[n],
                      [d \in DOMAIN routeTable'[n] |-> [nextHop |-> routeTable'[n][d].nextHop,
                                                        cost |-> routeTable'[n][d].cost]])
    BY <1>1, <2>1, Computed DEF IInv
  <2>4. wire' \in [Link -> [Node -> Seq(Genuine')]]
    <3> DEFINE w == Put(wire, n, Interfaces(n), lsp)
    <3>1. wire \in [Link -> [Node -> Seq(Genuine')]]
      BY <2>2, CarriesMore DEF IInv, Carried
    <3>2. w \in [Link -> [Node -> Seq(Genuine')]]
      BY <2>2, <3>1, PutCarries
    <3>3. Put(w, n, Interfaces(n), NdReq(n)) \in [Link -> [Node -> Seq(Genuine')]]
      <4> HIDE DEF w
      <4> QED
        BY <1>4, <2>2, <3>2, PutCarries
    <3> QED
      BY <2>1, <3>3 DEF Broadcast
  <2>5. TypeOK'
    <3>1. wire' \in [Link -> [Node -> Seq(Message)]]
      BY <2>4, CarriesMore DEF Genuine
    <3> QED
      BY <1>2, <1>3, <2>2, <2>3, <3>1 DEF IInv, TypeOK
  <2>6. HasTables'
    BY <1>2, <2>3 DEF IInv, HasTables
  <2>7. RoutesCurrent'
    <3> SUFFICES ASSUME NEW m \in Node
                 PROVE  IsShortest(DOMAIN neighborTable'[m], routeMap'[m],
                                   [d \in DOMAIN routeTable'[m] |->
                                     [nextHop |-> routeTable'[m][d].nextHop,
                                      cost |-> routeTable'[m][d].cost]])
      BY DEF RoutesCurrent, Plain
    <3>1. CASE m = n
      BY <1>2, <2>3, <3>1
    <3>2. CASE m # n
      BY <1>2, <2>3, <3>2, RoutesKept DEF IInv
    <3> QED
      BY <3>1, <3>2
  <2>8. DatabaseFaithful'
    <3> SUFFICES ASSUME NEW m \in Node
                 PROVE  /\ DOMAIN routeMap[m] = DOMAIN seqTable[m]
                        /\ \A o \in DOMAIN routeMap[m] :
                             /\ seqTable[m][o] < Len(flooded'[o])
                             /\ routeMap[m][o] = flooded'[o][seqTable[m][o] + 1]
      BY <1>2 DEF DatabaseFaithful
    <3>1. \A o \in DOMAIN routeMap[m] : o \in Node /\ o \in DOMAIN seqTable[m] /\ seqTable[m][o] \in Nat
      BY DEF IInv, TypeOK, IsTable, DatabaseFaithful
    <3> QED
      BY <2>2, <3>1 DEF IInv, DatabaseFaithful
  <2>9. Carried'
    BY <2>4 DEF Carried
  <2> QED
    BY <2>5, <2>6, <2>7, <2>8, <2>9 DEF IInv
<1>6. CASE ~NeighborsChanged(n)
  <2>1. wire' = Broadcast(wire, n, NdReq(n)) /\ UNCHANGED <<flooded, routeTable>>
    BY <1>6 DEF NdRequests
  <2>2. DOMAIN neighborTable'[n] = DOMAIN neighborTable[n]
    BY <1>2, <1>6 DEF NeighborsChanged
  <2>3. Genuine' = Genuine
    BY <2>1 DEF Genuine
  <2>4. wire' \in [Link -> [Node -> Seq(Genuine)]]
    BY <1>4, <2>1, PutCarries DEF Broadcast, IInv, Carried
  <2>5. TypeOK'
    <3>1. wire' \in [Link -> [Node -> Seq(Message)]]
      BY <1>4, <2>4, CarriesMore
    <3> QED
      BY <1>2, <1>3, <2>1, <3>1 DEF IInv, TypeOK
  <2>6. HasTables'
    BY <1>2, <2>1 DEF IInv, HasTables
  <2>7. RoutesCurrent'
    <3> SUFFICES ASSUME NEW m \in Node
                 PROVE  IsShortest(DOMAIN neighborTable'[m], routeMap'[m],
                                   [d \in DOMAIN routeTable'[m] |->
                                     [nextHop |-> routeTable'[m][d].nextHop,
                                      cost |-> routeTable'[m][d].cost]])
      BY DEF RoutesCurrent, Plain
    <3>1. DOMAIN neighborTable'[m] = DOMAIN neighborTable[m]
      BY <1>2, <2>2
    <3> QED
      BY <1>2, <2>1, <3>1, RoutesKept DEF IInv
  <2>8. DatabaseFaithful'
    BY <1>2, <2>1 DEF IInv, DatabaseFaithful
  <2>9. Carried'
    BY <2>3, <2>4 DEF Carried
  <2> QED
    BY <2>5, <2>6, <2>7, <2>8, <2>9 DEF IInv
<1> QED
  BY <1>5, <1>6

LEMMA StepProcessNdRsp ==
  ASSUME IInv, NEW l \in Link, NEW n \in Node, ProcessNdRsp(l, n)
  PROVE  IInv'
<1> DEFINE m == Head_(l, n)
<1>1. Taken(l, n) \in [Link -> [Node -> Seq(Genuine)]] /\ m \in Genuine
  BY TakenCarries DEF IInv, Carried, ProcessNdRsp, Arrives
<1>2. m.from \in Node
  BY <1>1, MessageFields DEF ProcessNdRsp, Arrives, Genuine
<1>3. /\ wire' = Taken(l, n) /\ l \in up[n]
      /\ UNCHANGED <<up, neighborTable, seqTable, routeMap, routeTable, flooded, due, changes>>
  BY DEF ProcessNdRsp, Arrives
<1>4. Genuine' = Genuine /\ Genuine \subseteq Message
  BY <1>3 DEF Genuine
<1>5. DOMAIN current' = Node /\ \A x \in Node : IsTable(current'[x], Interfaces(x))
  <2>1. CASE m.to # n
    BY <2>1 DEF ProcessNdRsp, IInv, TypeOK, HasTables
  <2>2. CASE m.to = n
    <3> DEFINE t == [d \in DOMAIN current[n] \cup {m.from} |-> IF d = m.from THEN l ELSE current[n][d]]
    <3>1. current' = [current EXCEPT ![n] = t]
      BY <2>2 DEF ProcessNdRsp
    <3>2. IsTable(t, Interfaces(n))
      BY <1>2, <1>3 DEF IInv, TypeOK, IsTable
    <3> HIDE DEF t
    <3> QED
      BY <3>1, <3>2 DEF IInv, TypeOK, HasTables
  <2> QED
    BY <2>1, <2>2
<1>6. TypeOK'
  <2>1. wire' \in [Link -> [Node -> Seq(Message)]]
    BY <1>1, <1>3, <1>4, CarriesMore
  <2> QED
    BY <1>3, <1>5, <2>1 DEF IInv, TypeOK
<1>7. HasTables'
  BY <1>3, <1>5 DEF IInv, HasTables
<1>8. RoutesCurrent'
  BY <1>3 DEF IInv, RoutesCurrent, Plain
<1>9. DatabaseFaithful'
  BY <1>3 DEF IInv, DatabaseFaithful
<1>10. Carried'
  BY <1>1, <1>3, <1>4 DEF Carried
<1> QED
  BY <1>6, <1>7, <1>8, <1>9, <1>10 DEF IInv

(* An LSP that is news is entered whole, with its sequence number, and its     *)
(* news are in the routes.                                                   *)
LEMMA StepProcessLsp ==
  ASSUME IInv, NEW l \in Link, NEW n \in Node, ProcessLsp(l, n)
  PROVE  IInv'
<1> DEFINE m == Head_(l, n)
           db == UpdateMap(n, m)
<1>1. Taken(l, n) \in [Link -> [Node -> Seq(Genuine)]] /\ m \in Genuine /\ m.type = "LSP"
  BY TakenCarries DEF IInv, Carried, ProcessLsp, Arrives
<1>2. /\ UNCHANGED <<up, neighborTable, current, flooded, due, changes>>
      /\ Genuine' = Genuine /\ Genuine \subseteq Message
  BY DEF ProcessLsp, Genuine
<1>3. /\ m.origin \in Node /\ m.seq \in Nat /\ m.neighbors \in SUBSET Node
      /\ m.seq < Len(flooded[m.origin]) /\ m.neighbors = flooded[m.origin][m.seq + 1]
  BY <1>1, MessageFields DEF Genuine
<1>4. CASE Known(n, m)
  <2>1. wire' = Taken(l, n) /\ UNCHANGED <<seqTable, routeMap, routeTable>>
    BY <1>4 DEF ProcessLsp
  <2> QED
    BY <1>1, <1>2, <2>1, SameTables DEF tables, IInv, TypeOK
<1>5. CASE ~Known(n, m)
  <2>1. /\ seqTable' = [seqTable EXCEPT ![n] = Entered(@, m.origin, m.seq)]
        /\ wire' = Put(Taken(l, n), n, Interfaces(n) \ {l}, m)
        /\ routeMap' = [routeMap EXCEPT ![n] = db]
        /\ DijkstraAlgo(n, neighborTable[n], db)
    BY <1>5 DEF ProcessLsp
  <2>2. /\ IsTable(routeMap[n], SUBSET Node) /\ IsTable(seqTable[n], Nat)
        /\ IsTable(neighborTable[n], Interfaces(n))
    BY DEF IInv, TypeOK
  <2>3. /\ IsTable(db, SUBSET Node) /\ DOMAIN db = DOMAIN routeMap[n] \cup {m.origin}
        /\ db[m.origin] = m.neighbors
        /\ \A x \in DOMAIN routeMap[n] \ {m.origin} : db[x] = routeMap[n][x]
    BY <1>3, <2>2 DEF UpdateMap, Entered, IsTable
  <2> DEFINE sq == Entered(seqTable[n], m.origin, m.seq)
  <2>4. /\ IsTable(sq, Nat) /\ DOMAIN sq = DOMAIN seqTable[n] \cup {m.origin}
        /\ sq[m.origin] = m.seq
        /\ \A x \in DOMAIN seqTable[n] \ {m.origin} : sq[x] = seqTable[n][x]
    BY <1>3, <2>2 DEF Entered, IsTable
  <2> HIDE DEF db, sq
  <2>5. /\ DOMAIN routeMap' = Node /\ routeMap'[n] = db
        /\ \A x \in Node \ {n} : routeMap'[x] = routeMap[x]
        /\ DOMAIN seqTable' = Node /\ seqTable'[n] = sq
        /\ \A x \in Node \ {n} : seqTable'[x] = seqTable[x]
    BY <2>1 DEF IInv, HasTables, sq
  <2>6. /\ DOMAIN routeTable' = Node
        /\ \A x \in Node : IsTable(routeTable'[x], Route)
        /\ \A x \in Node \ {n} : routeTable'[x] = routeTable[x]
        /\ IsShortest(DOMAIN neighborTable[n], db,
                      [d \in DOMAIN routeTable'[n] |-> [nextHop |-> routeTable'[n][d].nextHop,
                                                        cost |-> routeTable'[n][d].cost]])
    BY <2>1, <2>2, <2>3, Computed DEF IInv
  <2>7. wire' \in [Link -> [Node -> Seq(Genuine)]]
    BY <1>1, <2>1, PutCarries
  <2>8. TypeOK'
    <3>1. wire' \in [Link -> [Node -> Seq(Message)]]
      BY <1>2, <2>7, CarriesMore
    <3>2. \A x \in Node : IsTable(seqTable'[x], Nat) /\ IsTable(routeMap'[x], SUBSET Node)
      BY <2>3, <2>4, <2>5 DEF IInv, TypeOK
    <3> QED
      BY <1>2, <2>6, <3>1, <3>2 DEF IInv, TypeOK
  <2>9. HasTables'
    BY <1>2, <2>5, <2>6 DEF IInv, HasTables
  <2>10. RoutesCurrent'
    <3> SUFFICES ASSUME NEW x \in Node
                 PROVE  IsShortest(DOMAIN neighborTable'[x], routeMap'[x],
                                   [d \in DOMAIN routeTable'[x] |->
                                     [nextHop |-> routeTable'[x][d].nextHop,
                                      cost |-> routeTable'[x][d].cost]])
      BY DEF RoutesCurrent, Plain
    <3>1. CASE x = n
      BY <1>2, <2>5, <2>6, <3>1
    <3>2. CASE x # n
      BY <1>2, <2>5, <2>6, <3>2, RoutesKept DEF IInv
    <3> QED
      BY <3>1, <3>2
  <2>11. DatabaseFaithful'
    <3> SUFFICES ASSUME NEW x \in Node
                 PROVE  /\ DOMAIN routeMap'[x] = DOMAIN seqTable'[x]
                        /\ \A o \in DOMAIN routeMap'[x] :
                             /\ seqTable'[x][o] < Len(flooded[o])
                             /\ routeMap'[x][o] = flooded[o][seqTable'[x][o] + 1]
      BY <1>2 DEF DatabaseFaithful
    <3>1. CASE x = n
      <4>1. DOMAIN db = DOMAIN sq
        BY <2>3, <2>4 DEF IInv, DatabaseFaithful
      <4>2. ASSUME NEW o \in DOMAIN db
            PROVE  sq[o] < Len(flooded[o]) /\ db[o] = flooded[o][sq[o] + 1]
        <5>1. CASE o = m.origin
          BY <1>3, <2>3, <2>4, <5>1
        <5>2. CASE o # m.origin
          <6>1. o \in DOMAIN routeMap[n] /\ o \in DOMAIN seqTable[n]
                /\ db[o] = routeMap[n][o] /\ sq[o] = seqTable[n][o]
            BY <2>3, <2>4, <4>1, <5>2
          <6> QED
            BY <6>1 DEF IInv, DatabaseFaithful
        <5> QED
          BY <5>1, <5>2
      <4> QED
        BY <2>5, <3>1, <4>1, <4>2
    <3>2. CASE x # n
      BY <2>5, <3>2 DEF IInv, DatabaseFaithful
    <3> QED
      BY <3>1, <3>2
  <2>12. Carried'
    BY <1>2, <2>7 DEF Carried
  <2> QED
    BY <2>8, <2>9, <2>10, <2>11, <2>12 DEF IInv
<1> QED
  BY <1>4, <1>5

LEMMA StepIInv == IInv /\ [Next]_vars => IInv'
<1> SUFFICES ASSUME IInv, [Next]_vars PROVE IInv'
  OBVIOUS
<1>1. CASE UNCHANGED vars
  BY <1>1, SameTables DEF vars, tables, IInv, TypeOK, Carried
<1>2. CASE Event
  BY <1>2, StepTwoSeconds, StepNdRequests, StepProcessNdReq, StepProcessNdRsp, StepProcessLsp,
     StepDropDown DEF Event, RecvLSMessage
<1>3. CASE Operation
  BY <1>3, StepOperation
<1> QED
  BY <1>1, <1>2, <1>3 DEF Next

-----------------------------------------------------------------------------
(* The tables, the packets and the counters keep their types, on any network. *)
THEOREM TypeCorrect == Spec => []TypeOK
<1>1. IInv => TypeOK
  BY DEF IInv
<1> QED
  BY InitIInv, StepIInv, <1>1, PTL DEF Spec

(* On any network and under any link operations the routes of a node are      *)
(* shortest routes for the neighbours and the database it has at that moment  *)
(* (NdRequests 602-636, ProcessLsp 666-685).                                  *)
THEOREM AlwaysCurrent == Spec => []RoutesCurrent
<1>1. IInv => RoutesCurrent
  BY DEF IInv
<1> QED
  BY InitIInv, StepIInv, <1>1, PTL DEF Spec

(* On any network a database holds whole LSPs that were flooded, each under   *)
(* its number (ProcessLsp 666-685, UpdateMap 702-715).                        *)
THEOREM AlwaysFaithful == Spec => []DatabaseFaithful
<1>1. IInv => DatabaseFaithful
  BY DEF IInv
<1> QED
  BY InitIInv, StepIInv, <1>1, PTL DEF Spec
=============================================================================
