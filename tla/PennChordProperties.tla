-------------------------- MODULE PennChordProperties --------------------------
(***************************************************************************)
(* What the Chord overlay should do: the finger chain that may never fork, *)
(* the shape of the ring, and the lookups over it; and how its users pace   *)
(* their commands.                                                         *)
(***************************************************************************)
EXTENDS PennChord

CONSTANT Landmark      \* the node that founds a ring when there is none

ASSUME LandmarkAssumption == Landmark \in Node

(* The digest of a key is not the digest of an address. *)
ASSUME KeyAssumption == \A n \in Node : Digest[n] \notin KeyId

-----------------------------------------------------------------------------
(* Vocabulary *)

Members == {n \in Node : status[n]}

(* The member an ideal ring makes responsible for t: the first one at or past *)
(* t going clockwise.                                                         *)
Owner(t) ==
  CHOOSE m \in Members :
    \A o \in Members : Clockwise(t, Digest[m]) <= Clockwise(t, Digest[o])

(* The first member strictly past n, n itself when it is alone. *)
NextMember(n) ==
  IF Members \subseteq {n} THEN n
  ELSE CHOOSE m \in Members \ {n} :
         \A o \in Members \ {n} :
           Clockwise(Digest[n], Digest[m]) <= Clockwise(Digest[n], Digest[o])

IdealSuccessors == \A n \in Members : succ[n] = NextMember(n)

IdealRing ==
  /\ IdealSuccessors
  /\ Cardinality(Members) > 1 => \A n \in Members : pred[NextMember(n)] = n

IdealFingers ==
  \A n \in Members : succ[n] # n =>
    \A i \in FingerIndex : finger[n][i] = Owner(IndexHash(Digest[n], i))

Drained == \A s, d \in Node : net[s][d] = <<>>

(* Every member that is not alone has run FixFinger since it joined. *)
FingersStarted == \A n \in Members : succ[n] # n => Entries(n) # {}

NobodyLeft == used["LEAVE"] = 0

(* Nodes reached from n along successor pointers, n included: those no set *)
(* that n is in and the pointers do not lead out of goes without.           *)
Closed(S) == \A x \in S : succ[x] \in Node => succ[x] \in S

Reach(n) == {x \in Node : \A S \in SUBSET Node : n \in S /\ Closed(S) => x \in S}

OnRing(n) == n \in Members /\ succ[n] \in Node /\ n \in Reach(succ[n])

-----------------------------------------------------------------------------
(* The finger chain.  A FIND_FINGER on behalf of n, or its answer to n, is *)
(* the token that keeps FixFinger of n going: a message m sent to d carries *)
(* it.  ch is a state of the network.                                       *)
Carries(n, d, m) ==
  \/ m.type = "FIND_FINGER" /\ m.addr = n
  \/ m.type = "FIND_FINGER_SUCCESS" /\ d = n

Token(ch, n, s, d, i) == i \in DOMAIN ch[s][d] /\ Carries(n, d, ch[s][d][i])

NoToken(ch, n) ==
  \A s, d \in Node : \A i \in DOMAIN ch[s][d] : ~Token(ch, n, s, d, i)

OneToken(ch, n) ==
  \A s1, s2, d1, d2 \in Node :
    \A i1 \in DOMAIN ch[s1][d1], i2 \in DOMAIN ch[s2][d2] :
      Token(ch, n, s1, d1, i1) /\ Token(ch, n, s2, d2, i2)
        => s1 = s2 /\ d1 = d2 /\ i1 = i2

SingleChain(ch, running) ==
  \A n \in Node : OneToken(ch, n) /\ (running[n] => NoToken(ch, n))

(* At most one finger chain per node, and none while its timer is running:   *)
(* otherwise the end of the second chain would re-schedule a running timer,  *)
(* which Timer::Schedule answers with NS_FATAL_ERROR, and two chains would   *)
(* overwrite each other's entries.  Joins, leaves, re-joins, losses and      *)
(* forwarding by nodes outside the ring may not break it.                    *)
OneFingerChain == SingleChain(net, ffTimer)

(* While nobody leaves, the maintenance of a node's fingers never stops: its *)
(* timer runs or its token is on the way.  (A node that has left answers a    *)
(* FIND_FINGER with its successor, 0.0.0.0, and the next one is sent there.)  *)
FingerChainAlive ==
  NobodyLeft => \A n \in Node : ffTimer[n] \/ ~NoToken(net, n)

(* The walk of FindNextHop over the finger table ends at the successor       *)
(* ("Reached end of finger table", penn-chord.cc:814), whoever asks and      *)
(* however full the table is; it never faults.                               *)
NeverAborts == ~aborted

(* "The reply is either a yes with the suggested successor or no if the node *)
(* itself isn't in a chord" (penn-chord.cc:160): a JOIN_CHORD_SUCCESS always *)
(* suggests a node.  FindSuccessor answers without asking whether the node is  *)
(* in a ring; only nodes that still are may be asked.                         *)
JoinReplyNamesMember ==
  \A s, d \in Node : \A i \in DOMAIN net[s][d] :
    net[s][d][i].type = "JOIN_CHORD_SUCCESS" => net[s][d][i].addr \in Node

(* Every member has a successor, and following successors leads it to the *)
(* founder: nobody is cut off while the joins are worked into the ring.   *)
Connected(founder) ==
  \A n \in Members : /\ succ[n] \in Node
                     /\ founder \in Members => founder \in Reach(n)

ConnectedToLandmark == NobodyLeft => Connected(Landmark)

(* Members that lie on the cycle of successor pointers follow one another in *)
(* identifier order: a successor pointer never jumps over a ring member.     *)
OrderedRing ==
  \A n, x \in Node :
    OnRing(n) /\ OnRing(x) /\ x # n /\ succ[n] # n =>
      Within(Digest[n], Digest[succ[n]], Digest[x])

(* While nobody leaves, a member's successor only ever moves closer to it, *)
(* whatever NOTIFY and STABILIZE_RESP bring (a founder alone takes anyone). *)
SuccessorApproaches ==
  [][\A n \in Node : status[n] /\ succ[n] # n /\ NobodyLeft' =>
       /\ succ'[n] \in Node
       /\ Within(Digest[n], Digest[succ'[n]], Digest[succ[n]])]_vars

(* Stabilize, NOTIFY and the joins end in the ideal ring. *)
Converges == <>[](aborted \/ IdealRing)

(* Unless somebody leaves, FixFinger ends in finger tables that agree with *)
(* the ring.                                                              *)
FingersConverge == <>[](aborted \/ ~NobodyLeft \/ IdealFingers)

(* A lookup in flight is answered to the node that asked: the hops do not go *)
(* round for ever.                                                           *)
LookupInFlight(n) ==
  \E s, d \in Node : \E i \in DOMAIN net[s][d] :
    net[s][d][i].type = "LOOKUP_PUBLISH" /\ net[s][d][i].addr = n

LookupsAnswered ==
  \A n \in Node :
    LookupInFlight(n) ~> aborted \/ \E u \in upcall : u.type = "lookup" /\ u.node = n

(* A RINGSTATE token disappears: it finds its way back to its initiator. *)
RingstateInFlight ==
  \E s, d \in Node : \E i \in DOMAIN net[s][d] : net[s][d][i].type = "RINGSTATE"

RingstateReturns == RingstateInFlight ~> aborted \/ ~RingstateInFlight
-----------------------------------------------------------------------------
(* PennChord implements Overlay: its members are the nodes in the ring, a     *)
(* query or its answer in flight is a pending lookup.                         *)
LookupQuery == [node : Node, key : KeyId]

PendingQueries ==
  {q \in LookupQuery : \E s, d \in Node : \E i \in DOMAIN net[s][d] :
     LET m == net[s][d][i]
     IN /\ \/ m.type = "LOOKUP_PUBLISH" /\ m.addr = q.node
           \/ m.type = "LOOKUP_PUBLISH_SUCCESS" /\ d = q.node
        /\ m.key = q.key}

OverlayUpcall ==
  {IF u.type = "lookup"
     THEN [type |-> "lookup", query |-> [node |-> u.node, key |-> u.key], addr |-> u.addr]
     ELSE u : u \in upcall}

Ring == INSTANCE Overlay WITH
  Query <- LookupQuery,
  member <- Members,
  pending <- PendingQueries,
  upcall <- OverlayUpcall

(* Whatever node and route an answer comes from, and however old the fingers *)
(* on the way, a lookup issued in a ring that has settled names the owner of *)
(* the key; joining nodes are announced to the member that holds their keys, *)
(* and a leaving node is told of the member that takes over its own.  A ring *)
(* must have absorbed one newcomer before the next one joins: otherwise the  *)
(* NOTIFY of a node that another has come in front of meanwhile may still be *)
(* taken for that of the predecessor.                                        *)
ImplementsOverlay == Ring!Spec

-----------------------------------------------------------------------------
(* The scenario gives its commands 10 s apart (penn-search.sce), longer than *)
(* both maintenance periods (5 s and 8 s).  A paced command finds the network *)
(* empty, a finger table in every member that needs one, and no finger of a   *)
(* member that names a node outside the ring.                                 *)
FingersInRing ==
  \A n \in Members : \A i \in Entries(n) : finger[n][i] \in Members

Settled == Drained /\ FingersStarted /\ FingersInRing

(* The landmark founds a ring only when there is none, and it is where the    *)
(* state of the ring is asked for.  Leaving and looking up come after the     *)
(* joins have been worked into the ring, and lookups are for members of a     *)
(* ring of two or more.  RINGSTATEs and lookups do not meet.                  *)
PacedCommand ==
  /\ Settled
  /\ \E n \in Node :
       \/ n = Landmark /\ Members = {} /\ JoinSelf(n)
       \/ \E d \in Node : JoinVia(n, d)
       \/ n = Landmark /\ used["LOOKUP"] = 0 /\ Ringstate(n)
       \/ IdealRing /\ LeaveAlone(n)
       \/ IdealRing /\ Leave(n)
       \/ /\ IdealRing /\ n \in Members /\ succ[n] # n
          /\ used["RINGSTATE"] = 0
          /\ \E k \in KeyId : LookupPublish(n, k)

PacedNext ==
  /\ ~aborted
  /\ \/ PacedCommand
     \/ \E n \in Node : TimerExpires(n)
     \/ \E n, s \in Node : RecvMessage(n, s)

PacedSpec == Init /\ [][PacedNext]_vars /\ Running

(* The same with no timer expiring in the milliseconds a LEAVE needs to reach *)
(* both neighbours.                                                          *)
LeaveInProgress ==
  \E s, d \in Node : \E i \in DOMAIN net[s][d] :
    net[s][d][i].type \in {"LEAVE_SUCCESSOR", "LEAVE_PREDECESSOR"}

(* Only a round of Stabilize is repeated: a packet of any other type is sent  *)
(* once.  To lose the answer is to lose the request.                          *)
LoseRound(n, s) == Arrives(n, s, "STABILIZE_REQ") /\ Lose(n, s)

CalmNext ==
  /\ ~aborted
  /\ \/ PacedCommand
     \/ ~LeaveInProgress /\ \E n \in Node : TimerExpires(n)
     \/ \E n, s \in Node : RecvMessage(n, s) \/ LoseRound(n, s)

CalmSpec == Init /\ [][CalmNext]_vars /\ Running

(* Ten seconds are two periods of Stabilize: the next node joins a ring that  *)
(* has absorbed the last one.                                               *)
Absorbed == used'["JOIN"] # used["JOIN"] => IdealRing

SteadyNext == CalmNext /\ Absorbed

SteadySpec == Init /\ [][SteadyNext]_vars /\ Running
=============================================================================
