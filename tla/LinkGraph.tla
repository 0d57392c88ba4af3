------------------------------ MODULE LinkGraph ------------------------------
(***************************************************************************)
(* The graph a node knows from its neighbour table and its database of     *)
(* link-state packets, and the shortest routes through it.  This is what    *)
(* DijkstraAlgo promises; LSDijkstra is how it computes it.                 *)
(***************************************************************************)
EXTENDS Naturals, FiniteSets

CONSTANT Node

ASSUME NodeAssumption == IsFiniteSet(Node)

(* m_routeMap: the nodes one has heard from, each with its neighbours. *)
IsDatabase(db) == DOMAIN db \subseteq Node /\ db \in [DOMAIN db -> SUBSET Node]

(* An edge counts when the nodes at both of its ends report it. *)
Connected(db, u, v) ==
  /\ u \in DOMAIN db /\ v \in DOMAIN db
  /\ v \in db[u]
  /\ u \in db[v]

(* After a layer and all up to it: the next layer and all up to that. *)
Beyond(db, p) ==
  LET next == {v \in Node \ p[2] : \E u \in p[1] : Connected(db, u, v)}
  IN  <<next, p[2] \cup next>>

(* Layers(nbrs, db)[k]: the nodes k hops away from one whose neighbours are   *)
(* nbrs.                                                                     *)
Layers(nbrs, db) ==
  LET L[k \in 1 .. Cardinality(Node)] == IF k = 1 THEN <<nbrs, nbrs>> ELSE Beyond(db, L[k - 1])
  IN  [k \in 1 .. Cardinality(Node) |-> L[k][1]]

Reachable(nbrs, db) == UNION {Layers(nbrs, db)[k] : k \in 1 .. Cardinality(Node)}

Hops(nbrs, db, d) == CHOOSE k \in 1 .. Cardinality(Node) : d \in Layers(nbrs, db)[k]

(* r has no route that is longer than one over a node it has a route to, and  *)
(* every route continues the route to a node next to its destination.         *)
IsShortest(nbrs, db, r) ==
  /\ nbrs \subseteq DOMAIN r
  /\ \A d \in DOMAIN r :
       \/ d \in nbrs /\ r[d] = [nextHop |-> d, cost |-> 1]
       \/ /\ d \notin nbrs
          /\ \E u \in DOMAIN r : /\ Connected(db, u, d)
                                 /\ r[d].cost = r[u].cost + 1
                                 /\ r[d].nextHop = r[u].nextHop
  /\ \A u \in DOMAIN r, v \in Node :
       Connected(db, u, v) => v \in DOMAIN r /\ r[v].cost <= r[u].cost + 1

(* Every result DijkstraAlgo may have; they differ where next hops tie. *)
ShortestRoutes(nbrs, db) ==
  LET L == Layers(nbrs, db)
      reach == UNION {L[k] : k \in DOMAIN L}
      cost == [d \in reach |-> CHOOSE k \in DOMAIN L : d \in L[k]]
      Routes(hop) == [d \in reach |-> [nextHop |-> hop[d], cost |-> cost[d]]]
  IN  {r \in {Routes(hop) : hop \in [reach -> nbrs]} : IsShortest(nbrs, db, r)}
=============================================================================
