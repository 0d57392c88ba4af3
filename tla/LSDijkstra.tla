----------------------------- MODULE LSDijkstra -----------------------------
(***************************************************************************)
(* LSRoutingProtocol::DijkstraAlgo, one pass of its loop after the other,   *)
(* on any neighbour table and any database.  Its priority queue returns the *)
(* greatest cost first (CompareCost orders a max-heap), so a node may be    *)
(* visited at a cost that is lowered later; every improvement enters the    *)
(* queue again.  All links cost 1 (UpdateMap).                              *)
(***************************************************************************)
EXTENDS LinkGraph

CONSTANTS
  NeighborSets,   \* the neighbour tables it is run on
  Databases       \* and the databases

ASSUME InputAssumption ==
  NeighborSets \subseteq SUBSET Node /\ \A g \in Databases : IsDatabase(g)

VARIABLES
  nbrs,         \* the keys of m_neighborTable
  db,           \* m_routeMap
  CostMap,      \* cost of the nodes that have one below UINT32_MAX
  NextHopMap,   \* next hop, for the same nodes
  Queue         \* pairs of a node and a cost

vars == <<nbrs, db, CostMap, NextHopMap, Queue>>

TypeOK ==
  /\ nbrs \subseteq Node
  /\ IsDatabase(db)
  /\ DOMAIN CostMap \subseteq Node
  /\ CostMap \in [DOMAIN CostMap -> Nat]
  /\ NextHopMap \in [DOMAIN CostMap -> nbrs]
  /\ Queue \subseteq Node \X Nat

-----------------------------------------------------------------------------
Init ==
  /\ nbrs \in NeighborSets
  /\ db \in Databases
  /\ CostMap = [n \in nbrs |-> 1]
  /\ NextHopMap = [n \in nbrs |-> n]
  /\ Queue = nbrs \X {1}

(* Queue.top (): the order among equal costs is the library's. *)
Top == {e \in Queue : \A f \in Queue : f[2] <= e[2]}

(* Mutant: a node that has a cost is never improved. *)
ImprovedOnce(n) == {v \in Node : Connected(db, n, v) /\ v \notin DOMAIN CostMap}

(* The nodes next to n whose cost a route over n improves.  One absent from *)
(* CostMap has cost UINT32_MAX.                                             *)
Improved(n) ==
  {v \in Node : /\ Connected(db, n, v)
                /\ v \in DOMAIN CostMap => CostMap[v] > CostMap[n] + 1}

(* Mutant: the next hop is the node before the destination. *)
HopItself(n) == n

(* The route over n begins as the route to n does. *)
HopOver(n) == NextHopMap[n]

(* Mutant: the top entry is read but stays in the queue. *)
PeekedOnly(e) == Queue

(* Queue.pop () *)
Popped(e) == Queue \ {e}

(* Mutant: only a node seen for the first time enters the queue. *)
PushedOnce(n) == (Improved(n) \ DOMAIN CostMap) \X {CostMap[n] + 1}

(* Every improvement enters the queue, with its new cost. *)
Pushed(n) == Improved(n) \X {CostMap[n] + 1}

(* One pass of the loop: the node of the top entry is read, with the cost and *)
(* the next hop it has by now, and its links are relaxed.                    *)
Visit(e) ==
  LET n == e[1]
      better == Improved(n)
      known == DOMAIN CostMap \cup better
  IN  /\ e \in Top
      /\ CostMap' = [v \in known |-> IF v \in better THEN CostMap[n] + 1 ELSE CostMap[v]]
      /\ NextHopMap' = [v \in known |-> IF v \in better THEN HopOver(n) ELSE NextHopMap[v]]
      /\ Queue' = Popped(e) \cup Pushed(n)
      /\ UNCHANGED <<nbrs, db>>

Next == \E e \in Queue : Visit(e)

Spec == Init /\ [][Next]_vars /\ WF_vars(Next)

-----------------------------------------------------------------------------
Done == Queue = {}

(* m_routeTable, as the loop leaves it. *)
RouteTable == [d \in DOMAIN CostMap |-> [nextHop |-> NextHopMap[d], cost |-> CostMap[d]]]

(* When the queue is empty the routes are shortest, although the heap is the  *)
(* wrong way round: every route is exact and continues that of the node      *)
(* before its destination (DijkstraAlgo, lines 746-791).                      *)
ShortestWhenDone == Done => IsShortest(nbrs, db, RouteTable)

(* And they are the routes a search by distance finds: the same destinations, *)
(* each at its number of hops, over a neighbour that is one hop nearer to it.  *)
AgreesWithHops ==
  Done => /\ DOMAIN CostMap = Reachable(nbrs, db)
          /\ \A d \in DOMAIN CostMap :
               /\ CostMap[d] = Hops(nbrs, db, d)
               /\ d \in Layers({NextHopMap[d]}, db)[CostMap[d]]

(* The loop ends: costs only fall, so a node enters the queue finitely often. *)
Terminates == <>Done
=============================================================================
