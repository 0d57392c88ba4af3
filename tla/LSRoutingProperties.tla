------------------------- MODULE LSRoutingProperties -------------------------
(***************************************************************************)
(* What the link-state protocol keeps at every moment, and what it reaches  *)
(* once the links are left alone.                                          *)
(***************************************************************************)
EXTENDS LSRouting

(* The routes of n, without the interfaces. *)
Plain(n, dests) ==
  [d \in dests |-> [nextHop |-> routeTable[n][d].nextHop, cost |-> routeTable[n][d].cost]]

(* Whatever the network does, the routes of a node are shortest routes for    *)
(* the neighbours and the database it has at that moment; above all, the next *)
(* hop is a neighbour, which RouteOutput takes for granted when it            *)
(* dereferences m_neighborTable.find (204).  Neighbours are replaced by a      *)
(* timer, the database by packets, and only some of these recompute.          *)
RoutesCurrent ==
  \A n \in Node :
    IsShortest(DOMAIN neighborTable[n], routeMap[n], Plain(n, DOMAIN routeTable[n]))

(* What a node holds of another is one LSP that one really flooded, whole, and *)
(* the recorded sequence number is its number: forwarding, overtaking on       *)
(* another path and echoes never mix two of them (ProcessLsp, UpdateMap).      *)
DatabaseFaithful ==
  \A n \in Node :
    /\ DOMAIN routeMap[n] = DOMAIN seqTable[n]
    /\ \A o \in DOMAIN routeMap[n] :
         /\ seqTable[n][o] < Len(flooded[o])
         /\ routeMap[n][o] = flooded[o][seqTable[n][o] + 1]

-----------------------------------------------------------------------------
(* The links over which packets pass now. *)
Adjacent(n) ==
  {m \in Node \ {n} : \E l \in Link : Ends[l] = {n, m} /\ l \in up[n] /\ l \in up[m]}

(* The routes of n to the others are the shortest there are, and there is none *)
(* to a node that is cut off.                                                *)
Exact(n) ==
  LET others == [m \in Node \ {n} |-> Adjacent(m) \ {n}]
  IN  IsShortest(Adjacent(n), others, Plain(n, DOMAIN routeTable[n] \ {n}))

(* "Allow the routing protocol to stabilize" (scenarios/10-ls.sce:12): after   *)
(* the last change of the links the routes of every node become exact and     *)
(* stay so.                                                                  *)
RoutesConverge == <>[](\A n \in Node : Exact(n))

(* Where a packet for d is that n sent and that was forwarded k times.  It     *)
(* stays where there is no route, or only one over a link that is down.        *)
Forwarded(n, d) ==
  LET Onward(m) ==
        IF m = d \/ d \notin DOMAIN routeTable[m] THEN m
        ELSE LET out == RouteOutput(m, d)
             IN  IF out.interface \in up[m] \cap up[out.gateway] THEN out.gateway ELSE m
      At[k \in Nat] == IF k = 0 THEN n ELSE Onward(At[k - 1])
  IN  At

(* "PINGs are unicast packets and supposed to traverse multiple hops"          *)
(* (scenarios/10-ls.sce:43): in the end every packet reaches a destination     *)
(* that is not cut off, over interfaces that are up.  A neighbour that answers *)
(* on another interface than before is not noticed by NdRequests (617): the    *)
(* interface in m_routeTable stays the old one.                               *)
PacketsArrive ==
  <>[](\A n, d \in Node :
         d \in Reachable(Adjacent(n), [m \in Node |-> Adjacent(m)])
           => Forwarded(n, d)[Cardinality(Node)] = d)

(* Every flood ends: from some time on, no LSP is on its way.  Nothing but the *)
(* sequence number stops a packet that goes round a cycle; the TTL is lowered *)
(* (678) and never looked at.                                                *)
FloodsEnd == <>[](\A l \in Link, n \in Node : \A i \in DOMAIN wire[l][n] : wire[l][n][i].type # "LSP")
=============================================================================
