------------------------------ MODULE LSRouting ------------------------------
(***************************************************************************)
(* LSRoutingProtocol on every node of a network of point-to-point links:    *)
(* neighbour discovery, flooding of link-state packets (LSPs), the database *)
(* and the routes computed from it, while the script takes links and        *)
(* interfaces down and up.                                                 *)
(*                                                                         *)
(* An interface of a node is named by its link, an address by its node.     *)
(* The pings of the protocol are in PingTracker, DijkstraAlgo itself is in   *)
(* LSDijkstra; a step here takes any result that one may have.               *)
(***************************************************************************)
EXTENDS LinkGraph, Sequences

CONSTANTS
  Link,       \* point-to-point links
  Ends,       \* the two nodes of each link
  MaxChange   \* bound on the link operations of the script

ASSUME LinkAssumption == Ends \in [Link -> {S \in SUBSET Node : Cardinality(S) = 2}]

ASSUME ChangeAssumption == MaxChange \in Nat

VARIABLES
  up,             \* interfaces that are up, for each node
  neighborTable,  \* m_neighborTable: neighbour -> interface
  current,        \* m_currentneighborTable: the answers since the last timer
  seqTable,       \* m_lspSequenceNumberTable: originator -> sequence number
  routeMap,       \* m_routeMap: originator -> its neighbours
  routeTable,     \* m_routeTable: destination -> next hop, interface and cost
  flooded,        \* the neighbours in each LSP a node originated; its length is
                  \* m_lspSequenceNumber
  wire,           \* wire[l][n]: packets on link l on their way to n
  due,            \* nodes whose m_ndTimer is about to expire
  changes         \* link operations so far

vars == <<up, neighborTable, current, seqTable, routeMap, routeTable, flooded, wire, due, changes>>
tables == <<neighborTable, current, seqTable, routeMap, routeTable, flooded>>

-----------------------------------------------------------------------------
Interfaces(n) == {l \in Link : n \in Ends[l]}

NdReq(n) == [type |-> "ND_REQ", from |-> n]
NdRsp(n, d) == [type |-> "ND_RSP", from |-> n, to |-> d]
Lsp(o, s, nbrs) == [type |-> "LSP", origin |-> o, seq |-> s, neighbors |-> nbrs]

Message ==
  [type : {"ND_REQ"}, from : Node]
    \cup [type : {"ND_RSP"}, from : Node, to : Node]
    \cup [type : {"LSP"}, origin : Node, seq : Nat, neighbors : SUBSET Node]

(* A table with keys in S. *)
IsTable(t, S) == DOMAIN t \subseteq Node /\ t \in [DOMAIN t -> S]

Route == [nextHop : Node, interface : Link, cost : Nat]

TypeOK ==
  /\ up \in [Node -> SUBSET Link]
  /\ \A n \in Node :
       /\ up[n] \subseteq Interfaces(n)
       /\ IsTable(neighborTable[n], Interfaces(n))
       /\ IsTable(current[n], Interfaces(n))
       /\ IsTable(seqTable[n], Nat)
       /\ IsTable(routeMap[n], SUBSET Node)
       /\ IsTable(routeTable[n], Route)
  /\ flooded \in [Node -> Seq(SUBSET Node)]
  /\ wire \in [Link -> [Node -> Seq(Message)]]
  /\ due \subseteq Node
  /\ changes \in Nat

-----------------------------------------------------------------------------
(* Sending.  A packet leaves an interface only while that is up. *)
Put(w, n, links, m) ==
  [l \in Link |-> [d \in Node |->
     IF l \in links \cap up[n] /\ d \in Ends[l] \ {n} THEN Append(w[l][d], m) ELSE w[l][d]]]

(* BroadcastPacket: on every socket. *)
Broadcast(w, n, m) == Put(w, n, Interfaces(n), m)

(* The packet at the head of the wire from l to n is taken off. *)
Taken(l, n) == [wire EXCEPT ![l][n] = Tail(@)]

Head_(l, n) == Head(wire[l][n])

(* What n may have routed with the neighbours t and the database db: the      *)
(* interface is looked up in m_neighborTable.                                 *)
RouteTables(t, db) ==
  {[d \in DOMAIN r |-> [nextHop |-> r[d].nextHop,
                        interface |-> t[r[d].nextHop],
                        cost |-> r[d].cost]] : r \in ShortestRoutes(DOMAIN t, db)}

(* Mutant: the routes are computed before the LSP is entered. *)
DijkstraBefore(n, t, db) ==
  \E r \in RouteTables(t, routeMap[n]) : routeTable' = [routeTable EXCEPT ![n] = r]

DijkstraAlgo(n, t, db) ==
  \E r \in RouteTables(t, db) : routeTable' = [routeTable EXCEPT ![n] = r]

-----------------------------------------------------------------------------
(* Every node started at the same time, so all timers expire at one instant,  *)
(* every 2 s, before any packet they send has crossed a link (2 ms,            *)
(* simulator-main.cc:976); within the 2 s every exchange and every flood ends. *)
Drained == \A l \in Link, n \in Node : wire[l][n] = <<>>

TwoSeconds ==
  /\ due = {}
  /\ Drained
  /\ due' = Node
  /\ UNCHANGED <<up, tables, wire, changes>>

(* The interfaces are compared too, but each with itself. *)
NeighborsChanged(n) == DOMAIN neighborTable[n] # DOMAIN current[n]

(* Mutant: the answers are kept for the next two seconds. *)
KeptNeighbors(n) == current

(* m_currentneighborTable.clear () *)
ClearedNeighbors(n) == [current EXCEPT ![n] = <<>>]

(* m_ndTimer: the answers of the last two seconds become the neighbours.      *)
NdRequests(n) ==
  /\ n \in due
  /\ due' = due \ {n}
  /\ neighborTable' = [neighborTable EXCEPT ![n] = current[n]]
  /\ current' = ClearedNeighbors(n)
  /\ IF NeighborsChanged(n)
     THEN LET nbrs == DOMAIN current[n]
              lsp == Lsp(n, Len(flooded[n]), nbrs)
          IN  /\ flooded' = [flooded EXCEPT ![n] = Append(@, nbrs)]
              /\ wire' = Broadcast(Broadcast(wire, n, lsp), n, NdReq(n))
              /\ DijkstraAlgo(n, current[n], routeMap[n])
     ELSE /\ wire' = Broadcast(wire, n, NdReq(n))
          /\ UNCHANGED <<flooded, routeTable>>
  /\ UNCHANGED <<up, seqTable, routeMap, changes>>

Arrives(l, n, type) ==
  /\ due = {}
  /\ wire[l][n] # <<>>
  /\ l \in up[n]
  /\ Head_(l, n).type = type

(* The answer goes out on the interface the request came in by. *)
ProcessNdReq(l, n) ==
  /\ Arrives(l, n, "ND_REQ")
  /\ wire' = Put(Taken(l, n), n, {l}, NdRsp(n, Head_(l, n).from))
  /\ UNCHANGED <<up, tables, due, changes>>

ProcessNdRsp(l, n) ==
  LET m == Head_(l, n)
  IN  /\ Arrives(l, n, "ND_RSP")
      /\ wire' = Taken(l, n)
      /\ current' = IF m.to # n THEN current
                    ELSE [current EXCEPT ![n] = [d \in DOMAIN @ \cup {m.from} |->
                                                   IF d = m.from THEN l ELSE @[d]]]
      /\ UNCHANGED <<up, neighborTable, seqTable, routeMap, routeTable, flooded, due, changes>>

(* Mutant: an LSP that was received before is news again. *)
KnownOlder(n, m) == m.origin \in DOMAIN seqTable[n] /\ m.seq < seqTable[n][m.origin]

(* Dropped as old. *)
Known(n, m) == m.origin \in DOMAIN seqTable[n] /\ m.seq <= seqTable[n][m.origin]

Entered(t, o, v) == [x \in DOMAIN t \cup {o} |-> IF x = o THEN v ELSE t[x]]

(* Mutant: the neighbours of the LSP are added to the old ones. *)
UpdateMapAdding(n, m) ==
  Entered(routeMap[n], m.origin,
          m.neighbors \cup IF m.origin \in DOMAIN routeMap[n] THEN routeMap[n][m.origin] ELSE {})

UpdateMap(n, m) == Entered(routeMap[n], m.origin, m.neighbors)

(* An LSP that is news is recorded, passed on by all the other interfaces,    *)
(* entered in the database and worked into the routes.  So is the node's own  *)
(* LSP when it comes round a cycle.                                          *)
ProcessLsp(l, n) ==
  LET m == Head_(l, n)
      db == UpdateMap(n, m)
  IN  /\ Arrives(l, n, "LSP")
      /\ IF Known(n, m)
         THEN /\ wire' = Taken(l, n)
              /\ UNCHANGED <<seqTable, routeMap, routeTable>>
         ELSE /\ seqTable' = [seqTable EXCEPT ![n] = Entered(@, m.origin, m.seq)]
              /\ wire' = Put(Taken(l, n), n, Interfaces(n) \ {l}, m)
              /\ routeMap' = [routeMap EXCEPT ![n] = db]
              /\ DijkstraAlgo(n, neighborTable[n], db)
      /\ UNCHANGED <<up, neighborTable, current, flooded, due, changes>>

(* A packet that reaches an interface that is down is dropped. *)
DropDown(l, n) ==
  /\ due = {}
  /\ wire[l][n] # <<>>
  /\ l \notin up[n]
  /\ wire' = Taken(l, n)
  /\ UNCHANGED <<up, tables, due, changes>>

-----------------------------------------------------------------------------
(* Mutant: the interface is taken from m_routeTable. *)
RouteOutputStored(n, d) ==
  [gateway |-> routeTable[n][d].nextHop, interface |-> routeTable[n][d].interface]

(* RouteOutput and RouteInput: where n sends a packet for d that it has a      *)
(* route for.  The interface is looked up again, not taken from m_routeTable. *)
RouteOutput(n, d) ==
  LET gateway == routeTable[n][d].nextHop
  IN  [gateway |-> gateway, interface |-> neighborTable[n][gateway]]

-----------------------------------------------------------------------------
(* SetUp or SetDown of the interfaces f[n]. *)
SetInterfaces(f, isUp) ==
  /\ changes < MaxChange
  /\ changes' = changes + 1
  /\ up' = [n \in Node |-> IF isUp THEN up[n] \cup f[n] ELSE up[n] \ f[n]]
  /\ UNCHANGED <<tables, wire, due>>

(* Mutant: every node has the interface. *)
LinkOperationEverywhere(l, isUp) == SetInterfaces([n \in Node |-> {l}], isUp)

(* LINK UP | DOWN l *)
LinkOperation(l, isUp) == SetInterfaces([n \in Node |-> {l} \cap Interfaces(n)], isUp)

(* LINK UP | DOWN a b *)
P2POperation(a, b, isUp) ==
  LET between == {l \in Link : Ends[l] = {a, b}}
  IN  SetInterfaces([n \in Node |-> between \cap Interfaces(n)], isUp)

(* NODELINKS UP | DOWN a: the interfaces of a only. *)
AllInterfacesOperation(a, isUp) ==
  SetInterfaces([n \in Node |-> IF n = a THEN Interfaces(a) ELSE {}], isUp)

-----------------------------------------------------------------------------
(* DoStart of every node, with the interfaces f[n] up. *)
StartWith(f) ==
  /\ up = f
  /\ neighborTable = [n \in Node |-> <<>>]
  /\ current = [n \in Node |-> <<>>]
  /\ seqTable = [n \in Node |-> <<>>]
  /\ routeMap = [n \in Node |-> <<>>]
  /\ routeTable = [n \in Node |-> <<>>]
  /\ flooded = [n \in Node |-> <<>>]
  /\ wire = [l \in Link |-> [n \in Node |-> <<>>]]
  /\ due = {}
  /\ changes = 0

Init == StartWith([n \in Node |-> Interfaces(n)])

RecvLSMessage(l, n) ==
  \/ ProcessNdReq(l, n)
  \/ ProcessNdRsp(l, n)
  \/ ProcessLsp(l, n)
  \/ DropDown(l, n)

Operation ==
  \E isUp \in BOOLEAN :
    \/ \E l \in Link : LinkOperation(l, isUp)
    \/ \E a, b \in Node : P2POperation(a, b, isUp)
    \/ \E a \in Node : AllInterfacesOperation(a, isUp)

(* What the event scheduler runs by itself. *)
Event ==
  \/ TwoSeconds
  \/ \E n \in Node : NdRequests(n)
  \/ \E l \in Link, n \in Node : RecvLSMessage(l, n)

Next == Event \/ Operation

(* The scheduler never stops while an event is queued. *)
Spec == Init /\ [][Next]_vars /\ WF_vars(Event)
=============================================================================
