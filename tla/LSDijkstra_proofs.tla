-------------------------- MODULE LSDijkstra_proofs --------------------------
(***************************************************************************)
(* DijkstraAlgo returns shortest routes for any number of nodes, any        *)
(* neighbours and any database, although its queue is the wrong way round.  *)
(***************************************************************************)
EXTENDS LSDijkstra, FiniteSetTheorems, FunctionTheorems, WellFoundedInduction, TLAPS

InQueue(n) == \E e \in Queue : e[1] = n

(* No link of n improves a node. *)
Relaxed(n) ==
  \A v \in Node : Connected(db, n, v) => v \in DOMAIN CostMap /\ CostMap[v] <= CostMap[n] + 1

QueueHasCosts ==
  \A e \in Queue : e[1] \in DOMAIN CostMap

NeighborsFirst ==
  /\ nbrs \subseteq DOMAIN CostMap
  /\ \A v \in nbrs : CostMap[v] = 1 /\ NextHopMap[v] = v
  /\ \A v \in DOMAIN CostMap : CostMap[v] >= 1

(* The route to v goes over u: it continues the route u has, or u has become  *)
(* cheaper since and waits to tell v.                                        *)
Over(u, v) ==
  /\ Connected(db, u, v)
  /\ \/ CostMap[v] = CostMap[u] + 1 /\ NextHopMap[v] = NextHopMap[u]
     \/ CostMap[v] > CostMap[u] + 1 /\ InQueue(u)

RoutesContinue == \A v \in DOMAIN CostMap \ nbrs : \E u \in DOMAIN CostMap : Over(u, v)

(* A node that waits no more has told everybody. *)
WaitsOrRelaxed == \A u \in DOMAIN CostMap : InQueue(u) \/ Relaxed(u)

IInv == TypeOK /\ QueueHasCosts /\ NeighborsFirst /\ RoutesContinue /\ WaitsOrRelaxed

-----------------------------------------------------------------------------
LEMMA InitIInv == Init => IInv
<1> SUFFICES ASSUME Init PROVE IInv
  OBVIOUS
<1>1. TypeOK
  BY InputAssumption DEF Init, TypeOK
<1>2. QueueHasCosts /\ NeighborsFirst
  BY DEF Init, QueueHasCosts, NeighborsFirst
<1>3. RoutesContinue
  BY DEF Init, RoutesContinue
<1>4. WaitsOrRelaxed
  <2> SUFFICES ASSUME NEW u \in nbrs PROVE InQueue(u)
    BY DEF Init, WaitsOrRelaxed
  <2>1. <<u, 1>> \in Queue /\ <<u, 1>>[1] = u
    BY DEF Init
  <2> QED
    BY <2>1 DEF InQueue
<1> QED
  BY <1>1, <1>2, <1>3, <1>4 DEF IInv

(* What one pass leaves of the costs and of the queue. *)
LEMMA Visited ==
  ASSUME IInv, NEW e \in Queue, Visit(e), NEW n, n = e[1]
  PROVE  /\ n \in DOMAIN CostMap /\ n \in Node /\ n \notin Improved(n)
         /\ CostMap[n] \in Nat \ {0} /\ NextHopMap[n] \in nbrs
         /\ Improved(n) \subseteq Node \ nbrs
         /\ DOMAIN CostMap' = DOMAIN CostMap \cup Improved(n)
         /\ \A v \in DOMAIN CostMap' :
              IF v \in Improved(n)
              THEN CostMap'[v] = CostMap[n] + 1 /\ NextHopMap'[v] = NextHopMap[n]
              ELSE CostMap'[v] = CostMap[v] /\ NextHopMap'[v] = NextHopMap[v]
         /\ \A v \in DOMAIN CostMap : CostMap'[v] <= CostMap[v]
         /\ \A v \in DOMAIN CostMap : CostMap[v] \in Nat
<1>1. n \in DOMAIN CostMap /\ n \in Node /\ CostMap[n] \in Nat \ {0} /\ NextHopMap[n] \in nbrs
      /\ \A v \in DOMAIN CostMap : CostMap[v] \in Nat
  BY DEF IInv, QueueHasCosts, TypeOK, NeighborsFirst
<1>2. n \notin Improved(n)
  BY <1>1 DEF Improved
<1>3. Improved(n) \subseteq Node \ nbrs
  <2> SUFFICES ASSUME NEW v \in Improved(n), v \in nbrs PROVE FALSE
    BY DEF Improved
  <2>1. CostMap[v] = 1 /\ v \in DOMAIN CostMap
    BY DEF IInv, NeighborsFirst
  <2> QED
    BY <1>1, <2>1 DEF Improved
<1>4. DOMAIN CostMap' = DOMAIN CostMap \cup Improved(n)
  BY DEF Visit
<1>5. \A v \in DOMAIN CostMap' :
        IF v \in Improved(n)
        THEN CostMap'[v] = CostMap[n] + 1 /\ NextHopMap'[v] = NextHopMap[n]
        ELSE CostMap'[v] = CostMap[v] /\ NextHopMap'[v] = NextHopMap[v]
  BY DEF Visit, HopOver
<1>6. \A v \in DOMAIN CostMap : CostMap'[v] <= CostMap[v]
  <2> SUFFICES ASSUME NEW v \in DOMAIN CostMap PROVE CostMap'[v] <= CostMap[v]
    OBVIOUS
  <2>1. CASE v \in Improved(n)
    BY <1>1, <1>4, <1>5, <2>1 DEF Improved
  <2>2. CASE v \notin Improved(n)
    BY <1>1, <1>4, <1>5, <2>2
  <2> QED
    BY <2>1, <2>2
<1> QED
  BY <1>1, <1>2, <1>3, <1>4, <1>5, <1>6

(* The node of the entry leaves the queue, the improved nodes enter it. *)
LEMMA QueueVisited ==
  ASSUME IInv, NEW e \in Queue, Visit(e), NEW n, n = e[1]
  PROVE  /\ \A u : InQueue(u) /\ u # n => InQueue(u)'
         /\ \A u \in Improved(n) : InQueue(u)'
         /\ Queue' \subseteq Queue \cup (Improved(n) \X {CostMap[n] + 1})
<1>1. Queue' = (Queue \ {e}) \cup (Improved(n) \X {CostMap[n] + 1})
  BY DEF Visit, Popped, Pushed
<1>2. ASSUME NEW u, InQueue(u), u # n
      PROVE  InQueue(u)'
  <2>1. PICK f \in Queue : f[1] = u
    BY <1>2 DEF InQueue
  <2>2. f # e
    BY <1>2, <2>1
  <2> QED
    BY <1>1, <2>1, <2>2 DEF InQueue
<1>3. ASSUME NEW u \in Improved(n)
      PROVE  InQueue(u)'
  <2>1. <<u, CostMap[n] + 1>> \in Queue' /\ <<u, CostMap[n] + 1>>[1] = u
    BY <1>1
  <2> QED
    BY <2>1 DEF InQueue
<1> QED
  BY <1>1, <1>2, <1>3

LEMMA StepTypeOK ==
  ASSUME IInv, NEW e \in Queue, Visit(e)
  PROVE  TypeOK' /\ QueueHasCosts' /\ NeighborsFirst'
<1> DEFINE n == e[1]
<1> HIDE DEF n
<1>1. UNCHANGED <<nbrs, db>>
  BY DEF Visit
<1>2. /\ n \in DOMAIN CostMap /\ n \in Node
      /\ CostMap[n] \in Nat \ {0} /\ NextHopMap[n] \in nbrs
      /\ Improved(n) \subseteq Node \ nbrs
      /\ DOMAIN CostMap' = DOMAIN CostMap \cup Improved(n)
      /\ \A v \in DOMAIN CostMap' :
           IF v \in Improved(n)
           THEN CostMap'[v] = CostMap[n] + 1 /\ NextHopMap'[v] = NextHopMap[n]
           ELSE CostMap'[v] = CostMap[v] /\ NextHopMap'[v] = NextHopMap[v]
  BY Visited DEF n
<1>3. Queue' \subseteq Queue \cup (Improved(n) \X {CostMap[n] + 1})
  BY QueueVisited DEF n
<1>4. /\ CostMap' = [v \in DOMAIN CostMap \cup Improved(n) |-> CostMap'[v]]
      /\ NextHopMap' = [v \in DOMAIN CostMap \cup Improved(n) |-> NextHopMap'[v]]
  BY DEF Visit, n
<1>5. TypeOK'
  <2>1. nbrs' \subseteq Node /\ IsDatabase(db')
    BY <1>1 DEF IInv, TypeOK
  <2>2. DOMAIN CostMap' \subseteq Node
    BY <1>2 DEF IInv, TypeOK
  <2>3. \A v \in DOMAIN CostMap' : CostMap'[v] \in Nat /\ NextHopMap'[v] \in nbrs
    BY <1>2 DEF IInv, TypeOK
  <2>4. CostMap' \in [DOMAIN CostMap' -> Nat] /\ NextHopMap' \in [DOMAIN CostMap' -> nbrs']
    BY <1>1, <1>2, <1>4, <2>3
  <2>5. Queue' \subseteq Node \X Nat
    BY <1>2, <1>3 DEF IInv, TypeOK
  <2> QED
    BY <2>1, <2>2, <2>4, <2>5 DEF TypeOK
<1>6. QueueHasCosts'
  BY <1>2, <1>3 DEF IInv, QueueHasCosts
<1>7. NeighborsFirst'
  BY <1>1, <1>2 DEF IInv, NeighborsFirst
<1> QED
  BY <1>5, <1>6, <1>7

LEMMA StepRoutesContinue ==
  ASSUME IInv, NEW e \in Queue, Visit(e)
  PROVE  RoutesContinue'
<1> DEFINE n == e[1]
<1> HIDE DEF n
<1>1. UNCHANGED <<nbrs, db>>
  BY DEF Visit
<1>2. /\ n \in DOMAIN CostMap /\ n \in Node /\ n \notin Improved(n)
      /\ CostMap[n] \in Nat \ {0}
      /\ DOMAIN CostMap' = DOMAIN CostMap \cup Improved(n)
      /\ \A v \in DOMAIN CostMap' :
           IF v \in Improved(n)
           THEN CostMap'[v] = CostMap[n] + 1 /\ NextHopMap'[v] = NextHopMap[n]
           ELSE CostMap'[v] = CostMap[v] /\ NextHopMap'[v] = NextHopMap[v]
      /\ \A v \in DOMAIN CostMap : CostMap'[v] <= CostMap[v]
      /\ \A v \in DOMAIN CostMap : CostMap[v] \in Nat
  BY Visited DEF n
<1>3. /\ \A u : InQueue(u) /\ u # n => InQueue(u)'
      /\ \A u \in Improved(n) : InQueue(u)'
  BY QueueVisited DEF n
<1> SUFFICES ASSUME NEW v \in DOMAIN CostMap' \ nbrs
             PROVE  \E u \in DOMAIN CostMap' : Over(u, v)'
  BY <1>1 DEF RoutesContinue
<1>4. CASE v \in Improved(n)
  <2>1. Connected(db', n, v)
    BY <1>1, <1>4 DEF Improved
  <2>2. n \in DOMAIN CostMap' /\ CostMap'[n] = CostMap[n] /\ NextHopMap'[n] = NextHopMap[n]
    BY <1>2
  <2>3. CostMap'[v] = CostMap[n] + 1 /\ NextHopMap'[v] = NextHopMap[n]
    BY <1>2, <1>4
  <2> QED
    BY <2>1, <2>2, <2>3 DEF Over
<1>5. CASE v \notin Improved(n)
  <2>1. v \in DOMAIN CostMap \ nbrs /\ v \in Node
        /\ CostMap'[v] = CostMap[v] /\ NextHopMap'[v] = NextHopMap[v]
    BY <1>2, <1>5 DEF IInv, TypeOK
  <2>2. PICK u \in DOMAIN CostMap : Over(u, v)
    BY <2>1 DEF IInv, RoutesContinue
  <2>3. u \in DOMAIN CostMap' /\ Connected(db', u, v)
    BY <1>1, <1>2, <2>2 DEF Over
  <2>4. CASE u \in Improved(n)
    <3>1. CostMap[u] > CostMap[n] + 1 /\ CostMap'[u] = CostMap[n] + 1
      BY <1>2, <2>4 DEF Improved
    <3>2. CostMap[v] >= CostMap[u] + 1
      BY <1>2, <2>1, <2>2 DEF Over
    <3>3. CostMap'[v] > CostMap'[u] + 1
      BY <1>2, <2>1, <3>1, <3>2
    <3> QED
      BY <1>3, <2>3, <2>4, <3>3 DEF Over
  <2>5. CASE u \notin Improved(n)
    <3>1. CostMap'[u] = CostMap[u] /\ NextHopMap'[u] = NextHopMap[u]
      BY <1>2, <2>5
    <3>2. CASE CostMap[v] = CostMap[u] + 1 /\ NextHopMap[v] = NextHopMap[u]
      BY <2>1, <2>3, <3>1, <3>2 DEF Over
    <3>3. CASE CostMap[v] > CostMap[u] + 1 /\ InQueue(u)
      <4>1. u # n
        BY <1>5, <2>1, <2>2, <3>3 DEF Improved, Over
      <4> QED
        BY <1>3, <2>1, <2>3, <3>1, <3>3, <4>1 DEF Over
    <3> QED
      BY <2>2, <3>2, <3>3 DEF Over
  <2> QED
    BY <2>4, <2>5
<1> QED
  BY <1>4, <1>5

LEMMA StepWaitsOrRelaxed ==
  ASSUME IInv, NEW e \in Queue, Visit(e)
  PROVE  WaitsOrRelaxed'
<1> DEFINE n == e[1]
<1> HIDE DEF n
<1>1. UNCHANGED <<nbrs, db>>
  BY DEF Visit
<1>2. /\ n \in DOMAIN CostMap /\ n \in Node /\ n \notin Improved(n)
      /\ CostMap[n] \in Nat \ {0}
      /\ DOMAIN CostMap' = DOMAIN CostMap \cup Improved(n)
      /\ \A v \in DOMAIN CostMap' :
           IF v \in Improved(n)
           THEN CostMap'[v] = CostMap[n] + 1 /\ NextHopMap'[v] = NextHopMap[n]
           ELSE CostMap'[v] = CostMap[v] /\ NextHopMap'[v] = NextHopMap[v]
      /\ \A v \in DOMAIN CostMap : CostMap'[v] <= CostMap[v]
      /\ \A v \in DOMAIN CostMap : CostMap[v] \in Nat
  BY Visited DEF n
<1>3. /\ \A u : InQueue(u) /\ u # n => InQueue(u)'
      /\ \A u \in Improved(n) : InQueue(u)'
  BY QueueVisited DEF n
<1> SUFFICES ASSUME NEW u \in DOMAIN CostMap'
             PROVE  InQueue(u)' \/ Relaxed(u)'
  BY DEF WaitsOrRelaxed
<1>4. CASE u = n
  <2> SUFFICES ASSUME NEW v \in Node, Connected(db, n, v)
               PROVE  v \in DOMAIN CostMap' /\ CostMap'[v] <= CostMap[n] + 1
    BY <1>1, <1>2, <1>4 DEF Relaxed
  <2>1. CASE v \in Improved(n)
    BY <1>2, <2>1
  <2>2. CASE v \notin Improved(n)
    <3>1. v \in DOMAIN CostMap /\ ~(CostMap[v] > CostMap[n] + 1)
      BY <2>2 DEF Improved
    <3> QED
      BY <1>2, <2>2, <3>1
  <2> QED
    BY <2>1, <2>2
<1>5. CASE u \in Improved(n)
  BY <1>3, <1>5
<1>6. CASE u # n /\ u \notin Improved(n)
  <2>1. u \in DOMAIN CostMap /\ CostMap'[u] = CostMap[u]
    BY <1>2, <1>6
  <2>2. CASE InQueue(u)
    BY <1>3, <1>6, <2>2
  <2>3. CASE Relaxed(u)
    <3> SUFFICES ASSUME NEW v \in Node, Connected(db, u, v)
                 PROVE  v \in DOMAIN CostMap' /\ CostMap'[v] <= CostMap[u] + 1
      BY <1>1, <2>1 DEF Relaxed
    <3>1. v \in DOMAIN CostMap /\ CostMap[v] <= CostMap[u] + 1 /\ CostMap'[v] <= CostMap[v]
      BY <1>2, <2>3 DEF Relaxed
    <3>2. CostMap[v] \in Nat /\ CostMap[u] \in Nat /\ v \in DOMAIN CostMap' /\ CostMap'[v] \in Nat
      BY <1>2, <2>1, <3>1
    <3> QED
      BY <3>1, <3>2
  <2> QED
    BY <2>1, <2>2, <2>3 DEF IInv, WaitsOrRelaxed
<1> QED
  BY <1>4, <1>5, <1>6

LEMMA StepIInv == IInv /\ [Next]_vars => IInv'
<1> SUFFICES ASSUME IInv, [Next]_vars PROVE IInv'
  OBVIOUS
<1>1. CASE UNCHANGED vars
  BY <1>1 DEF vars, IInv, TypeOK, QueueHasCosts, NeighborsFirst, RoutesContinue, Over,
              WaitsOrRelaxed, Relaxed, InQueue
<1>2. ASSUME NEW e \in Queue, Visit(e)
      PROVE  IInv'
  BY <1>2, StepTypeOK, StepRoutesContinue, StepWaitsOrRelaxed DEF IInv
<1> QED
  BY <1>1, <1>2 DEF Next

-----------------------------------------------------------------------------
(* Costs, next hops and the queue keep their types, whatever the database     *)
(* holds (DijkstraAlgo 729-772).                                             *)
THEOREM TypeCorrect == Spec => []TypeOK
<1>1. IInv => TypeOK
  BY DEF IInv
<1> QED
  BY InitIInv, StepIInv, <1>1, PTL DEF Spec

(* With an empty queue nobody waits, so every link is relaxed and every route *)
(* continues the route of a node before its destination.                     *)
LEMMA DoneIsShortest == IInv => ShortestWhenDone
<1> SUFFICES ASSUME IInv, Done PROVE IsShortest(nbrs, db, RouteTable)
  BY DEF ShortestWhenDone
<1>1. \A u : ~InQueue(u)
  BY DEF Done, InQueue
<1>2. /\ DOMAIN RouteTable = DOMAIN CostMap
      /\ \A v \in DOMAIN CostMap : RouteTable[v] = [nextHop |-> NextHopMap[v], cost |-> CostMap[v]]
  BY DEF RouteTable
<1>3. nbrs \subseteq DOMAIN RouteTable
  BY <1>2 DEF IInv, NeighborsFirst
<1>4. ASSUME NEW v \in DOMAIN RouteTable
      PROVE  \/ v \in nbrs /\ RouteTable[v] = [nextHop |-> v, cost |-> 1]
             \/ /\ v \notin nbrs
                /\ \E u \in DOMAIN RouteTable : /\ Connected(db, u, v)
                                                /\ RouteTable[v].cost = RouteTable[u].cost + 1
                                                /\ RouteTable[v].nextHop = RouteTable[u].nextHop
  <2>1. CASE v \in nbrs
    BY <1>2, <2>1 DEF IInv, NeighborsFirst
  <2>2. CASE v \notin nbrs
    <3>1. PICK u \in DOMAIN CostMap : Over(u, v)
      BY <1>2, <2>2 DEF IInv, RoutesContinue
    <3>2. Connected(db, u, v) /\ CostMap[v] = CostMap[u] + 1 /\ NextHopMap[v] = NextHopMap[u]
      BY <1>1, <3>1 DEF Over
    <3>3. RouteTable[v].cost = RouteTable[u].cost + 1 /\ RouteTable[v].nextHop = RouteTable[u].nextHop
      BY <1>2, <3>2
    <3> QED
      BY <1>2, <2>2, <3>2, <3>3
  <2> QED
    BY <2>1, <2>2
<1>5. ASSUME NEW u \in DOMAIN RouteTable, NEW v \in Node, Connected(db, u, v)
      PROVE  v \in DOMAIN RouteTable /\ RouteTable[v].cost <= RouteTable[u].cost + 1
  <2>1. v \in DOMAIN CostMap /\ CostMap[v] <= CostMap[u] + 1
    BY <1>1, <1>2, <1>5 DEF IInv, WaitsOrRelaxed, Relaxed
  <2> QED
    BY <1>2, <2>1
<1> QED
  BY <1>3, <1>4, <1>5 DEF IsShortest

(* The routes are shortest when the loop ends, for any number of nodes        *)
(* (DijkstraAlgo 746-791).                                                   *)
THEOREM RoutesShortest == Spec => []ShortestWhenDone
  BY InitIInv, StepIInv, DoneIsShortest, PTL DEF Spec

-----------------------------------------------------------------------------
(* The layers of a search by distance. *)

(* A least number stands in for an induction. *)
LEMMA Smallest ==
  ASSUME NEW T, T \subseteq Nat, T # {}
  PROVE  \E x \in T : \A y \in T : x <= y
<1>1. PICK x \in T : \A y \in T : ~ (<<y, x>> \in OpToRel(<, Nat))
  BY NatLessThanWellFounded, WFMin
<1>2. \A y \in T : <<y, x>> \in OpToRel(<, Nat) <=> y < x
  BY DEF OpToRel
<1>3. \A y \in T : x \in Nat /\ y \in Nat /\ ~ (y < x)
  BY <1>1, <1>2
<1> QED
  BY <1>3

LayersUpTo(f, S, g, n) ==
  f = [k \in 1 .. n |-> IF k = 1 THEN <<S, S>> ELSE Beyond(g, f[k - 1])]

LEMMA LayersExist ==
  ASSUME NEW S, NEW g, NEW n \in Nat
  PROVE  \E f : LayersUpTo(f, S, g, n)
<1> DEFINE T == {k \in Nat : ~ \E f : LayersUpTo(f, S, g, k)}
<1> SUFFICES ASSUME T # {} PROVE FALSE
  OBVIOUS
<1>a. T \subseteq Nat /\ T # {}
  OBVIOUS
<1> HIDE DEF T
<1>1. PICK k \in T : \A j \in T : k <= j
  BY <1>a, Smallest
<1> USE DEF T
<1>2. CASE k = 0
  <2> DEFINE e == [j \in 1 .. 0 |-> 0]
  <2>1. e = [j \in 1 .. 0 |-> IF j = 1 THEN <<S, S>> ELSE Beyond(g, e[j - 1])]
    OBVIOUS
  <2> HIDE DEF e
  <2>2. LayersUpTo(e, S, g, 0)
    BY <2>1 DEF LayersUpTo
  <2> QED
    BY <1>2, <2>2
<1>3. CASE k # 0
  <2>1. k - 1 \in Nat /\ k - 1 \notin T
    BY <1>1, <1>3
  <2>2. PICK f : LayersUpTo(f, S, g, k - 1)
    BY <2>1
  <2> DEFINE h == [j \in 1 .. k |-> IF j = 1 THEN <<S, S>> ELSE Beyond(g, f[j - 1])]
  <2>3. ASSUME NEW j \in 1 .. k, j # k
        PROVE  h[j] = f[j]
    <3>1. j \in 1 .. k - 1
      BY <2>1, <2>3
    <3> QED
      BY <2>2, <3>1 DEF LayersUpTo
  <2>4. ASSUME NEW j \in 1 .. k, j # 1
        PROVE  j - 1 \in 1 .. k /\ h[j - 1] = f[j - 1]
    <3>1. j - 1 \in 1 .. k /\ j - 1 # k
      BY <2>1, <2>4
    <3> QED
      BY <2>3, <3>1
  <2>5. \A j \in 1 .. k : h[j] = IF j = 1 THEN <<S, S>> ELSE Beyond(g, h[j - 1])
    BY <2>4
  <2>6. h = [j \in 1 .. k |-> h[j]]
    OBVIOUS
  <2> HIDE DEF h
  <2>7. h = [j \in 1 .. k |-> IF j = 1 THEN <<S, S>> ELSE Beyond(g, h[j - 1])]
    BY <2>5, <2>6
  <2> QED
    BY <2>7 DEF LayersUpTo
<1> QED
  BY <1>2, <1>3

(* seen[k] is all that the first k layers hold. *)
IsSearch(lay, seen, S, g) ==
  /\ DOMAIN lay = 1 .. Cardinality(Node)
  /\ 1 \in DOMAIN lay => lay[1] = S /\ seen[1] = S
  /\ \A k \in DOMAIN lay : k # 1 =>
       /\ lay[k] = {v \in Node \ seen[k - 1] : \E u \in lay[k - 1] : Connected(g, u, v)}
       /\ seen[k] = seen[k - 1] \cup lay[k]

LEMMA LayersSearch ==
  ASSUME NEW S, NEW g
  PROVE  \E seen : IsSearch(Layers(S, g), seen, S, g)
<1> DEFINE N == Cardinality(Node)
           L == CHOOSE L : L = [k \in 1 .. N |-> IF k = 1 THEN <<S, S>> ELSE Beyond(g, L[k - 1])]
<1>0. N \in Nat
  BY NodeAssumption, FS_CardinalityType
<1>1. L = [k \in 1 .. N |-> IF k = 1 THEN <<S, S>> ELSE Beyond(g, L[k - 1])]
  <2>1. PICK f : LayersUpTo(f, S, g, N)
    BY <1>0, LayersExist
  <2> QED
    BY <2>1 DEF LayersUpTo
<1>2. Layers(S, g) = [k \in 1 .. N |-> L[k][1]]
  BY DEF Layers
<1> HIDE DEF L
<1> DEFINE seen == [k \in 1 .. N |-> L[k][2]]
<1>3. \A k \in 1 .. N : L[k] = IF k = 1 THEN <<S, S>> ELSE Beyond(g, L[k - 1])
  BY <1>1
<1>4. ASSUME NEW k \in 1 .. N, k # 1
      PROVE  /\ L[k][1] = {v \in Node \ L[k - 1][2] : \E u \in L[k - 1][1] : Connected(g, u, v)}
             /\ L[k][2] = L[k - 1][2] \cup L[k][1]
             /\ k - 1 \in 1 .. N
  <2>1. L[k] = Beyond(g, L[k - 1])
    BY <1>3, <1>4
  <2> QED
    BY <1>0, <1>4, <2>1 DEF Beyond
<1>5. 1 \in 1 .. N => L[1][1] = S /\ L[1][2] = S
  BY <1>3
<1>6. IsSearch(Layers(S, g), seen, S, g)
  BY <1>2, <1>4, <1>5 DEF IsSearch
<1> QED
  BY <1>6

(* What all layers up to k hold is in one of them, and they do not overlap. *)
LEMMA SeenInLayer ==
  ASSUME NEW S, NEW g, NEW lay, NEW seen, IsSearch(lay, seen, S, g),
         NEW k \in DOMAIN lay, NEW v \in seen[k]
  PROVE  \E j \in DOMAIN lay : j <= k /\ v \in lay[j]
<1>0. Cardinality(Node) \in Nat
  BY NodeAssumption, FS_CardinalityType
<1> DEFINE T == {i \in Nat : i \in DOMAIN lay /\ i <= k /\ v \in seen[i]}
<1>1. k \in T
  BY <1>0 DEF IsSearch
<1> HIDE DEF T
<1>a. T \subseteq Nat /\ T # {}
  BY <1>1 DEF T
<1>2. PICK i \in T : \A j \in T : i <= j
  BY <1>a, Smallest
<1>3. i \in Nat /\ i \in DOMAIN lay /\ i <= k /\ v \in seen[i]
  BY <1>2 DEF T
<1>4. CASE i = 1
  BY <1>3, <1>4 DEF IsSearch
<1>5. CASE i # 1
  <2>1. i - 1 \in Nat /\ i - 1 \in DOMAIN lay /\ i - 1 <= k
    BY <1>0, <1>3, <1>5 DEF IsSearch
  <2>2. v \notin seen[i - 1]
    BY <1>2, <1>3, <2>1 DEF T
  <2>3. v \in lay[i]
    BY <1>3, <1>5, <2>2 DEF IsSearch
  <2> QED
    BY <1>3, <2>3
<1> QED
  BY <1>4, <1>5

LEMMA LayerInSeen ==
  ASSUME NEW S, NEW g, NEW lay, NEW seen, IsSearch(lay, seen, S, g),
         NEW j \in DOMAIN lay, NEW v \in lay[j]
  PROVE  \A k \in DOMAIN lay : j <= k => v \in seen[k]
<1>0. Cardinality(Node) \in Nat
  BY NodeAssumption, FS_CardinalityType
<1> DEFINE T == {k \in Nat : k \in DOMAIN lay /\ j <= k /\ v \notin seen[k]}
<1> SUFFICES ASSUME T # {} PROVE FALSE
  BY <1>0 DEF IsSearch
<1>a. T \subseteq Nat /\ T # {}
  OBVIOUS
<1> HIDE DEF T
<1>1. PICK k \in T : \A i \in T : k <= i
  BY <1>a, Smallest
<1>2. k \in Nat /\ k \in DOMAIN lay /\ j <= k /\ v \notin seen[k]
  BY <1>1 DEF T
<1>3. j \in Nat /\ j >= 1
  BY <1>0 DEF IsSearch
<1>4. CASE j = k
  BY <1>2, <1>4 DEF IsSearch
<1>5. CASE j # k
  <2>1. k - 1 \in Nat /\ k - 1 \in DOMAIN lay /\ j <= k - 1 /\ k # 1
    BY <1>0, <1>2, <1>3, <1>5 DEF IsSearch
  <2>2. k - 1 \notin T
    BY <1>1, <1>2, <2>1
  <2>3. v \in seen[k - 1]
    BY <2>1, <2>2 DEF T
  <2> QED
    BY <1>2, <2>1, <2>3 DEF IsSearch
<1> QED
  BY <1>4, <1>5

LEMMA LayersApart ==
  ASSUME NEW S, NEW g, NEW lay, NEW seen, IsSearch(lay, seen, S, g),
         NEW j \in DOMAIN lay, NEW k \in DOMAIN lay, NEW v, v \in lay[j], v \in lay[k]
  PROVE  j = k
<1>0. Cardinality(Node) \in Nat /\ j \in Nat /\ k \in Nat
  BY NodeAssumption, FS_CardinalityType DEF IsSearch
<1>1. ASSUME NEW i \in DOMAIN lay, NEW n \in DOMAIN lay, i < n, v \in lay[i], v \in lay[n]
      PROVE  FALSE
  <2>1. n # 1 /\ n - 1 \in DOMAIN lay /\ i <= n - 1
    BY <1>0, <1>1 DEF IsSearch
  <2>2. v \in seen[n - 1]
    BY <1>1, <2>1, LayerInSeen
  <2> QED
    BY <1>1, <2>1, <2>2 DEF IsSearch
<1> QED
  BY <1>0, <1>1

-----------------------------------------------------------------------------
(* Shortest routes and layers. *)

IsTable(adj, r) ==
  /\ DOMAIN r \subseteq Node
  /\ \A d \in DOMAIN r : r[d] \in [nextHop : adj, cost : Nat \ {0}]

(* A node in layer k of a search from nodes at cost 1 has cost k at most. *)
LEMMA LayerBoundsCost ==
  ASSUME NEW adj, NEW g, NEW r, IsTable(adj, r), IsShortest(adj, g, r),
         NEW S, S \subseteq DOMAIN r, \A s \in S : r[s].cost = 1,
         NEW lay, NEW seen, IsSearch(lay, seen, S, g)
  PROVE  \A k \in DOMAIN lay : \A d \in lay[k] : d \in DOMAIN r /\ r[d].cost <= k
<1>0. Cardinality(Node) \in Nat
  BY NodeAssumption, FS_CardinalityType
<1> DEFINE T == {k \in Nat : k \in DOMAIN lay /\ \E d \in lay[k] : ~(d \in DOMAIN r /\ r[d].cost <= k)}
<1> SUFFICES ASSUME T # {} PROVE FALSE
  BY <1>0 DEF IsSearch
<1>a. T \subseteq Nat /\ T # {}
  OBVIOUS
<1> HIDE DEF T
<1>1. PICK k \in T : \A j \in T : k <= j
  BY <1>a, Smallest
<1>2. k \in Nat /\ k \in DOMAIN lay
  BY <1>1 DEF T
<1>3. PICK d \in lay[k] : ~(d \in DOMAIN r /\ r[d].cost <= k)
  BY <1>1 DEF T
<1>4. k # 1
  BY <1>2, <1>3 DEF IsSearch
<1>5. k - 1 \in Nat /\ k - 1 \in DOMAIN lay /\ k - 1 \notin T
  BY <1>0, <1>1, <1>2, <1>4 DEF IsSearch
<1>6. d \in Node /\ \E u \in lay[k - 1] : Connected(g, u, d)
  BY <1>2, <1>3, <1>4 DEF IsSearch
<1>7. PICK u \in lay[k - 1] : Connected(g, u, d)
  BY <1>6
<1>8. u \in DOMAIN r /\ r[u].cost <= k - 1
  BY <1>5, <1>7 DEF T
<1>9. d \in DOMAIN r /\ r[d].cost <= r[u].cost + 1
  BY <1>6, <1>7, <1>8 DEF IsShortest
<1>10. r[u].cost \in Nat /\ r[d].cost \in Nat
  BY <1>8, <1>9 DEF IsTable
<1> QED
  BY <1>2, <1>3, <1>8, <1>9, <1>10

(* Below every cost there are nodes at all costs, each with the next hop of a  *)
(* given one.                                                                *)
LEMMA Predecessor ==
  ASSUME NEW adj, NEW g, NEW r, IsTable(adj, r), IsShortest(adj, g, r),
         NEW d \in DOMAIN r
  PROVE  \/ d \in adj /\ r[d].cost = 1 /\ r[d].nextHop = d
         \/ \E u \in DOMAIN r : /\ Connected(g, u, d)
                                /\ r[d].cost = r[u].cost + 1
                                /\ r[d].nextHop = r[u].nextHop
  BY DEF IsShortest

LEMMA CostBelowCardinality ==
  ASSUME NEW adj, NEW g, NEW r, IsTable(adj, r), IsShortest(adj, g, r),
         NEW d \in DOMAIN r
  PROVE  r[d].cost \in 1 .. Cardinality(Node)
<1> DEFINE C == r[d].cost
           S == {v \in DOMAIN r : r[v].cost <= C}
           f == [v \in S |-> r[v].cost]
           T == {k \in Nat : k < C /\ ~ \E v \in DOMAIN r : r[v].cost = C - k}
<1>0. /\ Cardinality(Node) \in Nat /\ C \in Nat \ {0}
      /\ \A v \in DOMAIN r : r[v].cost \in Nat \ {0}
  BY NodeAssumption, FS_CardinalityType DEF IsTable
<1>1. T = {}
  <2> SUFFICES ASSUME T # {} PROVE FALSE
    OBVIOUS
  <2>a. T \subseteq Nat /\ T # {}
    OBVIOUS
  <2> HIDE DEF T
  <2>1. PICK k \in T : \A j \in T : k <= j
    BY <2>a, Smallest
  <2>2. k \in Nat /\ k < C /\ ~ \E v \in DOMAIN r : r[v].cost = C - k
    BY <2>1 DEF T
  <2> HIDE DEF C
  <2>3. k # 0
    BY <1>0, <2>2 DEF C
  <2>4. k - 1 \in Nat /\ k - 1 \notin T /\ k - 1 < C
    BY <1>0, <2>1, <2>2, <2>3
  <2>5. PICK v \in DOMAIN r : r[v].cost = C - (k - 1)
    BY <2>4 DEF T
  <2>6. r[v].cost # 1
    BY <1>0, <2>2, <2>5
  <2>7. PICK u \in DOMAIN r : r[v].cost = r[u].cost + 1
    BY <2>6, Predecessor
  <2>8. r[u].cost = C - k
    BY <1>0, <2>2, <2>5, <2>7
  <2> QED
    BY <2>2, <2>8
<1>2. IsFiniteSet(S) /\ Cardinality(S) <= Cardinality(Node)
  <2>1. S \in SUBSET Node
    BY DEF IsTable
  <2> QED
    BY <2>1, NodeAssumption, FS_Subset
<1>3. f \in Surjection(S, 1 .. C)
  <2>1. f \in [S -> 1 .. C]
    BY <1>0
  <2>2. ASSUME NEW k \in 1 .. C
        PROVE  \E v \in S : f[v] = k
    <3>1. C - k \in Nat /\ C - k < C /\ C - (C - k) = k
      BY <1>0
    <3>2. C - k \notin T
      BY <1>1
    <3>3. PICK v \in DOMAIN r : r[v].cost = k
      BY <3>1, <3>2
    <3>4. v \in S
      BY <1>0, <3>3
    <3> QED
      BY <3>3, <3>4
  <2> HIDE DEF f, S, C, T
  <2> QED
    BY <2>1, <2>2 DEF Surjection
<1> HIDE DEF f, S, C, T
<1>4. Cardinality(1 .. C) <= Cardinality(S)
  BY <1>2, <1>3, FS_Surjection
<1>5. Cardinality(1 .. C) = C
  BY <1>0, FS_Interval
<1>6. Cardinality(S) \in Nat
  BY <1>2, FS_CardinalityType
<1>7. C \in 1 .. Cardinality(Node)
  BY <1>0, <1>2, <1>4, <1>5, <1>6
<1> QED
  BY <1>7 DEF C

(* And a node at cost k is in layer k, of the search from all the neighbours   *)
(* and of that from its next hop alone.                                      *)
LEMMA CostIsLayer ==
  ASSUME NEW adj, NEW g, NEW r, IsTable(adj, r), IsShortest(adj, g, r),
         NEW S, S \subseteq DOMAIN r, \A s \in S : r[s].cost = 1,
         NEW lay, NEW seen, IsSearch(lay, seen, S, g)
  PROVE  \A d \in DOMAIN r : r[d].nextHop \in S => r[d].cost \in DOMAIN lay /\ d \in lay[r[d].cost]
<1>0. \A v \in DOMAIN r : r[v].cost \in 1 .. Cardinality(Node) /\ r[v].cost \in Nat
  BY CostBelowCardinality, NodeAssumption, FS_CardinalityType
<1>1. \A v \in DOMAIN r : r[v].cost \in DOMAIN lay
  BY <1>0 DEF IsSearch
<1> DEFINE T == {k \in Nat : \E v \in DOMAIN r : r[v].nextHop \in S /\ r[v].cost = k /\ v \notin lay[k]}
<1> SUFFICES ASSUME T # {} PROVE FALSE
  BY <1>0, <1>1
<1>a. T \subseteq Nat /\ T # {}
  OBVIOUS
<1> HIDE DEF T
<1>2. PICK k \in T : \A j \in T : k <= j
  BY <1>a, Smallest
<1>3. PICK d \in DOMAIN r : r[d].nextHop \in S /\ r[d].cost = k /\ d \notin lay[k]
  BY <1>2 DEF T
<1>4. k \in Nat /\ k \in DOMAIN lay
  BY <1>0, <1>1, <1>3
<1>5. CASE d \in adj /\ r[d].cost = 1 /\ r[d].nextHop = d
  BY <1>3, <1>4, <1>5 DEF IsSearch
<1>6. ASSUME NEW u \in DOMAIN r, Connected(g, u, d), r[d].cost = r[u].cost + 1,
             r[d].nextHop = r[u].nextHop
      PROVE  FALSE
  <2>1. r[u].cost \in Nat /\ r[u].cost = k - 1 /\ k - 1 \in Nat /\ k # 1
    BY <1>0, <1>3, <1>6
  <2>2. k - 1 \notin T
    BY <1>2, <1>4, <2>1
  <2>3. u \in lay[k - 1]
    BY <1>3, <1>6, <2>1, <2>2 DEF T
  <2>4. k - 1 \in DOMAIN lay
    BY <1>1, <2>1
  <2>5. d \notin seen[k - 1]
    <3> SUFFICES ASSUME d \in seen[k - 1] PROVE FALSE
      OBVIOUS
    <3>1. PICK j \in DOMAIN lay : j <= k - 1 /\ d \in lay[j]
      BY <2>4, SeenInLayer
    <3>2. r[d].cost <= j
      BY <3>1, LayerBoundsCost
    <3>3. j \in Nat
      BY <3>1 DEF IsSearch
    <3> QED
      BY <1>3, <1>4, <3>1, <3>2, <3>3
  <2>6. d \in Node
    BY <1>3 DEF IsTable
  <2>7. lay[k] = {v \in Node \ seen[k - 1] : \E w \in lay[k - 1] : Connected(g, w, v)}
    BY <1>4, <2>1 DEF IsSearch
  <2> QED
    BY <1>3, <1>6, <2>3, <2>5, <2>6, <2>7
<1> QED
  BY <1>5, <1>6, Predecessor

(* So what DijkstraAlgo promises determines the destinations and their costs.  *)
LEMMA TableIsSearch ==
  ASSUME NEW adj, NEW g, NEW r, IsTable(adj, r), IsShortest(adj, g, r)
  PROVE  /\ DOMAIN r = Reachable(adj, g)
         /\ DOMAIN Layers(adj, g) = 1 .. Cardinality(Node)
         /\ \A d \in DOMAIN r : \A k \in 1 .. Cardinality(Node) :
              d \in Layers(adj, g)[k] <=> k = r[d].cost
         /\ \A d \in DOMAIN r :
              /\ r[d].cost \in 1 .. Cardinality(Node)
              /\ d \in Layers({r[d].nextHop}, g)[r[d].cost]
<1>1. PICK seen : IsSearch(Layers(adj, g), seen, adj, g)
  BY LayersSearch
<1>2. DOMAIN Layers(adj, g) = 1 .. Cardinality(Node)
  BY <1>1 DEF IsSearch
<1>3. adj \subseteq DOMAIN r /\ \A n \in adj : r[n].cost = 1 /\ r[n].nextHop = n
  <2>1. adj \subseteq DOMAIN r
    BY DEF IsShortest
  <2>2. ASSUME NEW n \in adj
        PROVE  r[n].cost = 1 /\ r[n].nextHop = n
    <3>1. r[n] = [nextHop |-> n, cost |-> 1]
      BY <2>1 DEF IsShortest
    <3> QED
      BY <3>1
  <2> QED
    BY <2>1, <2>2
<1>4. \A d \in DOMAIN r : r[d].cost \in 1 .. Cardinality(Node)
  BY CostBelowCardinality
<1>5. ASSUME NEW d \in DOMAIN r
      PROVE  d \in Layers(adj, g)[r[d].cost]
  <2>1. r[d].nextHop \in adj
    BY DEF IsTable
  <2> QED
    BY <1>1, <1>3, <2>1, CostIsLayer
<1>6. ASSUME NEW d \in DOMAIN r, NEW k \in 1 .. Cardinality(Node), d \in Layers(adj, g)[k]
      PROVE  k = r[d].cost
  BY <1>1, <1>2, <1>4, <1>5, <1>6, LayersApart
<1>7. DOMAIN r = Reachable(adj, g)
  <2>1. ASSUME NEW d \in DOMAIN r
        PROVE  d \in Reachable(adj, g)
    BY <1>4, <1>5 DEF Reachable
  <2>2. ASSUME NEW d \in Reachable(adj, g)
        PROVE  d \in DOMAIN r
    <3>1. PICK k \in 1 .. Cardinality(Node) : d \in Layers(adj, g)[k]
      BY DEF Reachable
    <3> QED
      BY <1>1, <1>2, <1>3, <3>1, LayerBoundsCost
  <2> QED
    BY <2>1, <2>2
<1>8. ASSUME NEW d \in DOMAIN r
      PROVE  d \in Layers({r[d].nextHop}, g)[r[d].cost]
  <2> DEFINE h == r[d].nextHop
  <2>1. h \in adj
    BY DEF IsTable
  <2>2. {h} \subseteq DOMAIN r /\ \A s \in {h} : r[s].cost = 1
    BY <1>3, <2>1
  <2>3. PICK all : IsSearch(Layers({h}, g), all, {h}, g)
    BY LayersSearch
  <2>4. r[d].nextHop \in {h}
    OBVIOUS
  <2> HIDE DEF h
  <2>5. d \in Layers({h}, g)[r[d].cost]
    BY <2>2, <2>3, <2>4, CostIsLayer
  <2> QED
    BY <2>5 DEF h
<1> QED
  BY <1>2, <1>4, <1>5, <1>6, <1>7, <1>8

LEMMA RouteTableIsTable ==
  ASSUME IInv
  PROVE  /\ IsTable(nbrs, RouteTable)
         /\ DOMAIN RouteTable = DOMAIN CostMap
         /\ \A d \in DOMAIN CostMap : RouteTable[d] = [nextHop |-> NextHopMap[d], cost |-> CostMap[d]]
<1>1. DOMAIN CostMap \subseteq Node
      /\ \A d \in DOMAIN CostMap : NextHopMap[d] \in nbrs /\ CostMap[d] \in Nat \ {0}
  BY DEF IInv, TypeOK, NeighborsFirst
<1> QED
  BY <1>1 DEF RouteTable, IsTable

LEMMA DoneAgreesWithHops == IInv => AgreesWithHops
<1> SUFFICES ASSUME IInv, Done
             PROVE  /\ DOMAIN CostMap = Reachable(nbrs, db)
                    /\ \A d \in DOMAIN CostMap :
                         /\ CostMap[d] = Hops(nbrs, db, d)
                         /\ d \in Layers({NextHopMap[d]}, db)[CostMap[d]]
  BY DEF AgreesWithHops
<1>1. IsShortest(nbrs, db, RouteTable)
  BY DoneIsShortest DEF ShortestWhenDone
<1>2. /\ DOMAIN RouteTable = Reachable(nbrs, db)
      /\ \A d \in DOMAIN RouteTable : \A k \in 1 .. Cardinality(Node) :
           d \in Layers(nbrs, db)[k] <=> k = RouteTable[d].cost
      /\ \A d \in DOMAIN RouteTable :
           /\ RouteTable[d].cost \in 1 .. Cardinality(Node)
           /\ d \in Layers({RouteTable[d].nextHop}, db)[RouteTable[d].cost]
  BY <1>1, RouteTableIsTable, TableIsSearch
<1>3. ASSUME NEW d \in DOMAIN CostMap
      PROVE  /\ CostMap[d] = Hops(nbrs, db, d)
             /\ d \in Layers({NextHopMap[d]}, db)[CostMap[d]]
  <2>1. RouteTable[d].cost = CostMap[d] /\ RouteTable[d].nextHop = NextHopMap[d]
        /\ d \in DOMAIN RouteTable
    BY RouteTableIsTable
  <2>2. \A k \in 1 .. Cardinality(Node) : d \in Layers(nbrs, db)[k] <=> k = CostMap[d]
    BY <1>2, <2>1
  <2>3. CostMap[d] \in 1 .. Cardinality(Node)
    BY <1>2, <2>1
  <2>4. CostMap[d] = Hops(nbrs, db, d)
    BY <2>2, <2>3 DEF Hops
  <2> QED
    BY <1>2, <2>1, <2>4
<1> QED
  BY <1>2, <1>3, RouteTableIsTable

(* When the loop ends there is a route to every node that can be reached and  *)
(* to no other, each as long as the distance and over a neighbour that is one *)
(* hop nearer, for any number of nodes (DijkstraAlgo 746-791).               *)
THEOREM RoutesAgreeWithHops == Spec => []AgreesWithHops
  BY InitIInv, StepIInv, DoneAgreesWithHops, PTL DEF Spec

LEMMA DoneIsResult == IInv => (Done => RouteTable \in ShortestRoutes(nbrs, db))
<1> SUFFICES ASSUME IInv, Done PROVE RouteTable \in ShortestRoutes(nbrs, db)
  OBVIOUS
<1>1. IsShortest(nbrs, db, RouteTable)
  BY DoneIsShortest DEF ShortestWhenDone
<1>2. /\ DOMAIN RouteTable = Reachable(nbrs, db)
      /\ DOMAIN Layers(nbrs, db) = 1 .. Cardinality(Node)
      /\ \A d \in DOMAIN RouteTable : \A k \in 1 .. Cardinality(Node) :
           d \in Layers(nbrs, db)[k] <=> k = RouteTable[d].cost
      /\ \A d \in DOMAIN RouteTable :
           /\ RouteTable[d].cost \in 1 .. Cardinality(Node)
           /\ d \in Layers({RouteTable[d].nextHop}, db)[RouteTable[d].cost]
  BY <1>1, RouteTableIsTable, TableIsSearch
<1> DEFINE L == Layers(nbrs, db)
           reach == UNION {L[k] : k \in DOMAIN L}
           cost == [d \in reach |-> CHOOSE k \in DOMAIN L : d \in L[k]]
           Routes(hop) == [d \in reach |-> [nextHop |-> hop[d], cost |-> cost[d]]]
<1>3. reach = DOMAIN RouteTable /\ reach = DOMAIN CostMap
  BY <1>2, RouteTableIsTable DEF Reachable
<1>4. ASSUME NEW d \in reach
      PROVE  cost[d] = CostMap[d]
  <2>1. RouteTable[d].cost = CostMap[d]
    BY <1>3, RouteTableIsTable
  <2>2. \A k \in DOMAIN L : d \in L[k] <=> k = CostMap[d]
    BY <1>2, <1>3, <2>1
  <2>3. CostMap[d] \in DOMAIN L
    BY <1>2, <1>3, <2>1
  <2> HIDE DEF L
  <2> QED
    BY <2>2, <2>3
<1>5. NextHopMap \in [reach -> nbrs]
  BY <1>3 DEF IInv, TypeOK
<1>6. RouteTable = Routes(NextHopMap)
  <2> HIDE DEF reach, cost
  <2> QED
    BY <1>3, <1>4 DEF RouteTable
<1>7. RouteTable \in {Routes(hop) : hop \in [reach -> nbrs]}
  <2> HIDE DEF reach, cost
  <2> QED
    BY <1>5, <1>6
<1> QED
  BY <1>1, <1>7 DEF ShortestRoutes

(* Every table the loop ends with is one that LSRouting's nodes may take when  *)
(* they recompute: the step there stands for this loop (DijkstraAlgo 729-799).  *)
THEOREM LoopGivesResult == Spec => [](Done => RouteTable \in ShortestRoutes(nbrs, db))
  BY InitIInv, StepIInv, DoneIsResult, PTL DEF Spec
=============================================================================
