------------------------------ MODULE PennChord ------------------------------
(***************************************************************************)
(* The Chord overlay of Penn-Search (penn-search/penn-chord.cc).           *)
(*                                                                         *)
(* Every node runs the same event-driven object: commands (JOIN, LEAVE,    *)
(* RINGSTATE, a lookup requested by the search layer), two periodic timers *)
(* that matter here (stabilize, fix-fingers) and one handler per message   *)
(* type.  Each of those is one action, executed without interruption, as   *)
(* the ns-3 scheduler does.                                                *)
(*                                                                         *)
(* The UDP network keeps the order of the packets between two nodes (one   *)
(* route, no duplication), may lose them when the run allows it, and drops *)
(* what is sent to 0.0.0.0.                                                *)
(***************************************************************************)
EXTENDS ChordId, Sequences, FiniteSets

CONSTANTS
  Node,       \* nodes that run the application, named by their main address
  AnyAddr,    \* Ipv4Address::GetAny (), 0.0.0.0
  NoEntry,    \* an index the finger table holds no entry for
  Digest,     \* SHA_1 of every address, 0.0.0.0 included
  KeyId,      \* digests of the keys the search layer looks up
  Budget      \* bound on the commands issued, and on the packets lost

Addr == Node \cup {AnyAddr}

Command == {"JOIN", "LEAVE", "RINGSTATE", "LOOKUP", "LOSS"}

ASSUME AddrAssumption == AnyAddr \notin Node /\ NoEntry \notin Addr

ASSUME DigestAssumption ==
  /\ Digest \in [Addr -> Id]
  /\ \A a, b \in Addr : Digest[a] = Digest[b] => a = b   \* no SHA-1 collision
  /\ KeyId \subseteq Id

ASSUME BudgetAssumption == Budget \in [Command -> Nat]

VARIABLES
  status,     \* m_chordStatus
  succ,       \* m_successorAddr   (m_successorDigest is Digest of it)
  pred,       \* m_predecessorAddr
  finger,     \* m_fingerTable
  ffTimer,    \* m_fixFingerTimer is running
  net,        \* net[s][d]: packets sent by s to d and not yet received
  upcall,     \* callbacks the last step made into the search layer
  aborted,    \* the process died inside FindNextHop
  used        \* how much of Budget is spent

vars == <<status, succ, pred, finger, ffTimer, net, upcall, aborted, used>>

local == <<status, succ, pred, finger, ffTimer>>

Message ==
       [type : {"JOIN_CHORD", "JOIN_CHORD_FAIL", "NOTIFY", "STABILIZE_REQ"}]
  \cup [type : {"JOIN_CHORD_SUCCESS", "STABILIZE_RESP", "LEAVE_SUCCESSOR",
                "LEAVE_PREDECESSOR", "FIND_SUCCESSOR", "RINGSTATE"}, addr : Addr]
  \cup [type : {"FIND_FINGER"}, addr : Node, index : FingerIndex]
  \cup [type : {"FIND_FINGER_SUCCESS"}, addr : Addr, index : FingerIndex]
  \cup [type : {"LOOKUP_PUBLISH"}, addr : Addr, key : Id]
  \cup [type : {"LOOKUP_PUBLISH_SUCCESS"}, addr : Addr, key : Id]

Upcall ==
       [type : {"joinNotify", "leaveNotify"}, node : Node, addr : Addr]
  \cup [type : {"lookup"}, node : Node, addr : Addr, key : Id]

TypeOK ==
  /\ status \in [Node -> BOOLEAN]
  /\ succ \in [Node -> Addr]
  /\ pred \in [Node -> Addr]
  /\ finger \in [Node -> [FingerIndex -> Addr \cup {NoEntry}]]
  /\ ffTimer \in [Node -> BOOLEAN]
  /\ net \in [Node -> [Node -> Seq(Message)]]
  /\ upcall \in SUBSET Upcall
  /\ aborted \in BOOLEAN
  /\ used \in [Command -> Nat]

-----------------------------------------------------------------------------
(* Helpers *)

EmptyTable == [i \in FingerIndex |-> NoEntry]

(* SendTo: node n hands packet m for address d to the network ch. *)
Send(ch, n, d, m) ==
  IF d \in Node THEN [ch EXCEPT ![n][d] = Append(@, m)] ELSE ch

(* RecvMessage at n takes the oldest packet from s, of the given type. *)
Arrives(n, s, type) == net[s][n] # <<>> /\ Head(net[s][n]).type = type

Packet(n, s) == Head(net[s][n])

Received(n, s) == [net EXCEPT ![s][n] = Tail(@)]

Spend(c) ==
  /\ used[c] < Budget[c]
  /\ used' = [used EXCEPT ![c] = @ + 1]

(* The node itself takes the arc from its identifier to its successor's for *)
(* its own responsibility.                                                  *)
Responsible(n, t) == InArc(Digest[n], t, Digest[succ[n]])

Alone(n) == succ[n] = n

Entries(n) == {i \in FingerIndex : finger[n][i] # NoEntry}

(* The fingers FindNextHop accepts: it walks down from the last entry, stops *)
(* before the first one, skips the node itself and asks for a finger on the  *)
(* arc from the node to the target.                                          *)
Closer(n, t) ==
  {i \in Entries(n) : /\ \E j \in Entries(n) : j < i
                      /\ finger[n][i] # n
                      /\ InArc(Digest[n], Digest[finger[n][i]], t)}

(* FindNextHop(t) returns h at node n: the accepted finger of highest index, *)
(* or the successor.                                                         *)
NextHop(n, t, h) ==
  IF Closer(n, t) = {}
    THEN h = succ[n]
    ELSE \E i \in Closer(n, t) : /\ \A j \in Closer(n, t) : j <= i
                                 /\ h = finger[n][i]

(* With no entry at all, --m_fingerTable.end () decrements the header of an *)
(* empty tree: every build of it faults.                                    *)
Abort(n) ==
  /\ Entries(n) = {}
  /\ aborted' = TRUE
  /\ upcall' = {}
  /\ UNCHANGED <<local, net>>

(* n forwards m towards t over the network ch, or dies doing so. *)
Forward(ch, n, t, m, calls) ==
  \/ Abort(n)
  \/ /\ Entries(n) # {}
     /\ \E h \in Addr : NextHop(n, t, h) /\ net' = Send(ch, n, h, m)
     /\ upcall' = calls
     /\ UNCHANGED <<local, aborted>>

(* A handler that answers m to d and touches nothing else. *)
Answer(ch, n, d, m) ==
  /\ net' = Send(ch, n, d, m)
  /\ upcall' = {}
  /\ UNCHANGED <<local, aborted>>

-----------------------------------------------------------------------------
(* Commands *)

(* "n JOIN n": n founds a ring of one. *)
JoinSelf(n) ==
  /\ Spend("JOIN")
  /\ ~status[n]
  /\ status' = [status EXCEPT ![n] = TRUE]
  /\ succ' = [succ EXCEPT ![n] = n]
  /\ pred' = [pred EXCEPT ![n] = AnyAddr]
  /\ upcall' = {}
  /\ UNCHANGED <<finger, ffTimer, net, aborted>>

(* "n JOIN d": n asks d; its own state does not change until the reply. *)
JoinVia(n, d) ==
  /\ Spend("JOIN")
  /\ ~status[n]
  /\ d # n
  /\ Answer(net, n, d, [type |-> "JOIN_CHORD"])

Detach(n) ==
  /\ status' = [status EXCEPT ![n] = FALSE]
  /\ succ' = [succ EXCEPT ![n] = AnyAddr]
  /\ pred' = [pred EXCEPT ![n] = AnyAddr]
  /\ finger' = [finger EXCEPT ![n] = EmptyTable]

LeaveAlone(n) ==
  /\ Spend("LEAVE")
  /\ status[n]
  /\ Alone(n)
  /\ Detach(n)
  /\ upcall' = {}
  /\ UNCHANGED <<ffTimer, net, aborted>>

(* n tells its neighbours about each other, the successor only when they are *)
(* two nodes, and the callback hands its keys over to the successor.         *)
(* Mutant: LEAVE_PREDECESSOR is forgotten. *)
FarewellToSuccessor(n) ==
  Send(net, n, succ[n], [type |-> "LEAVE_SUCCESSOR", addr |->
                           IF succ[n] = pred[n] THEN AnyAddr ELSE pred[n]])

Farewell(n) ==
  LET p == IF succ[n] = pred[n] THEN AnyAddr ELSE pred[n]
      toSucc == Send(net, n, succ[n], [type |-> "LEAVE_SUCCESSOR", addr |-> p])
  IN Send(toSucc, n, pred[n], [type |-> "LEAVE_PREDECESSOR", addr |-> succ[n]])

Leave(n) ==
  /\ Spend("LEAVE")
  /\ status[n]
  /\ ~Alone(n)
  /\ net' = Farewell(n)
  /\ Detach(n)
  /\ upcall' = {[type |-> "leaveNotify", node |-> n, addr |-> succ[n]]}
  /\ UNCHANGED <<ffTimer, aborted>>

Ringstate(n) ==
  /\ Spend("RINGSTATE")
  /\ status[n]
  /\ Answer(net, n, succ[n], [type |-> "RINGSTATE", addr |-> n])

(* The search layer asks n for the node responsible for key k.  When n can  *)
(* answer on the spot it does, and sends the query into the ring as well.   *)
LookupPublish(n, k) ==
  /\ Spend("LOOKUP")
  /\ Forward(net, n, k, [type |-> "LOOKUP_PUBLISH", addr |-> n, key |-> k],
             IF Responsible(n, k)
               THEN {[type |-> "lookup", node |-> n, addr |-> succ[n], key |-> k]}
               ELSE {})

-----------------------------------------------------------------------------
(* Joining *)

SendNotify(ch, n, d) == Send(ch, n, d, [type |-> "NOTIFY"])

JoinChordSuccess(a) == [type |-> "JOIN_CHORD_SUCCESS", addr |-> a]

(* d is the joining node; its digest travels with the message. *)
FindSuccessor(ch, n, d) ==
  \/ /\ Responsible(n, Digest[d])
     /\ Answer(ch, n, d, JoinChordSuccess(succ[n]))
  \/ /\ ~Responsible(n, Digest[d])
     /\ Forward(ch, n, Digest[d], [type |-> "FIND_SUCCESSOR", addr |-> d], {})

(* Mutant: whoever is asked inserts the newcomer behind itself. *)
ProcessJoinChordInsert(n, s) ==
  /\ Arrives(n, s, "JOIN_CHORD")
  /\ status[n]
  /\ succ' = [succ EXCEPT ![n] = s]
  /\ net' = SendNotify(Send(Received(n, s), n, s, JoinChordSuccess(succ[n])), n, s)
  /\ upcall' = {}
  /\ UNCHANGED <<status, pred, finger, ffTimer, aborted, used>>

(* Mutant: a node that is in no ring answers too. *)
ProcessJoinChordAnyhow(n, s) ==
  /\ Arrives(n, s, "JOIN_CHORD")
  /\ FindSuccessor(Received(n, s), n, s)
  /\ UNCHANGED used

(* A founder that is alone takes the newcomer for its successor. *)
ProcessJoinChord(n, s) ==
  LET ch == Received(n, s)
  IN /\ Arrives(n, s, "JOIN_CHORD")
     /\ UNCHANGED used
     /\ \/ ~status[n] /\ Answer(ch, n, s, [type |-> "JOIN_CHORD_FAIL"])
        \/ /\ status[n] /\ Alone(n)
           /\ succ' = [succ EXCEPT ![n] = s]
           /\ net' = SendNotify(Send(ch, n, s, JoinChordSuccess(n)), n, s)
           /\ upcall' = {}
           /\ UNCHANGED <<status, pred, finger, ffTimer, aborted>>
        \/ status[n] /\ ~Alone(n) /\ FindSuccessor(ch, n, s)

(* In a ring or not. *)
ProcessFindSuccessor(n, s) ==
  /\ Arrives(n, s, "FIND_SUCCESSOR")
  /\ UNCHANGED used
  /\ FindSuccessor(Received(n, s), n, Packet(n, s).addr)

ProcessJoinChordSuccess(n, s) ==
  LET a == Packet(n, s).addr
  IN /\ Arrives(n, s, "JOIN_CHORD_SUCCESS")
     /\ status' = [status EXCEPT ![n] = TRUE]
     /\ succ' = [succ EXCEPT ![n] = a]
     /\ pred' = [pred EXCEPT ![n] = AnyAddr]
     /\ net' = SendNotify(Received(n, s), n, a)
     /\ upcall' = {}
     /\ UNCHANGED <<finger, ffTimer, aborted, used>>

ProcessJoinChordFail(n, s) ==
  /\ Arrives(n, s, "JOIN_CHORD_FAIL")
  /\ net' = Received(n, s)
  /\ upcall' = {}
  /\ UNCHANGED <<local, aborted, used>>

-----------------------------------------------------------------------------
(* Keeping the ring *)

(* The first predecessor is taken silently, a closer one is reported to the *)
(* search layer, which hands keys over to it.                               *)
Nearer(n, s) == InArc(Digest[pred[n]], Digest[s], Digest[n])

ProcessNotify(n, s) ==
  /\ Arrives(n, s, "NOTIFY")
  /\ net' = Received(n, s)
  /\ pred' = IF pred[n] = AnyAddr \/ Nearer(n, s) THEN [pred EXCEPT ![n] = s] ELSE pred
  /\ upcall' = IF pred[n] # AnyAddr /\ Nearer(n, s)
                 THEN {[type |-> "joinNotify", node |-> n, addr |-> s]}
                 ELSE {}
  /\ UNCHANGED <<status, succ, finger, ffTimer, aborted, used>>

(* An earlier round of n has not been answered yet.  The timeout (5 s) is far *)
(* above a round trip, so the timer is not taken to outrun its own messages;  *)
(* this also bounds the channels.                                             *)
StabilizePending(n) ==
  \E d \in Node : \/ \E i \in DOMAIN net[n][d] : net[n][d][i].type = "STABILIZE_REQ"
                  \/ \E i \in DOMAIN net[d][n] : net[d][n][i].type = "STABILIZE_RESP"

(* The timer always re-arms; in a ring of one, or outside, it does no more. *)
Stabilize(n) ==
  /\ status[n]
  /\ ~Alone(n)
  /\ ~StabilizePending(n)
  /\ UNCHANGED used
  /\ Answer(net, n, succ[n], [type |-> "STABILIZE_REQ"])

(* No predecessor, no answer. *)
ProcessStabilizeReq(n, s) ==
  /\ Arrives(n, s, "STABILIZE_REQ")
  /\ net' = IF pred[n] = AnyAddr
              THEN Received(n, s)
              ELSE Send(Received(n, s), n, s,
                        [type |-> "STABILIZE_RESP", addr |-> pred[n]])
  /\ upcall' = {}
  /\ UNCHANGED <<local, aborted, used>>

(* Mutant: the test for the node itself is dropped. *)
AdoptsItself(n, a) == a # AnyAddr /\ InArc(Digest[n], Digest[a], Digest[succ[n]])

(* a is adopted, and told so, when it lies between n and its successor, the *)
(* present successor itself included.                                       *)
Adopts(n, a) ==
  /\ a # AnyAddr
  /\ Digest[a] # Digest[n]
  /\ InArc(Digest[n], Digest[a], Digest[succ[n]])

ProcessStabilizeResp(n, s) ==
  LET a == Packet(n, s).addr
  IN /\ Arrives(n, s, "STABILIZE_RESP")
     /\ succ' = IF Adopts(n, a) THEN [succ EXCEPT ![n] = a] ELSE succ
     /\ net' = IF Adopts(n, a) THEN SendNotify(Received(n, s), n, a) ELSE Received(n, s)
     /\ upcall' = {}
     /\ UNCHANGED <<status, pred, finger, ffTimer, aborted, used>>

ProcessLeaveSuccessor(n, s) ==
  /\ Arrives(n, s, "LEAVE_SUCCESSOR")
  /\ pred' = [pred EXCEPT ![n] = Packet(n, s).addr]
  /\ net' = Received(n, s)
  /\ upcall' = {}
  /\ UNCHANGED <<status, succ, finger, ffTimer, aborted, used>>

ProcessLeavePredecessor(n, s) ==
  /\ Arrives(n, s, "LEAVE_PREDECESSOR")
  /\ succ' = [succ EXCEPT ![n] = Packet(n, s).addr]
  /\ net' = Received(n, s)
  /\ upcall' = {}
  /\ UNCHANGED <<status, pred, finger, ffTimer, aborted, used>>

(* Mutant: nobody recognises its own token. *)
ReturnedNever(n, m) == FALSE

(* The token goes round until it meets its initiator again. *)
Returned(n, m) == m.addr = n

ProcessRingstate(n, s) ==
  LET m == Packet(n, s)
  IN /\ Arrives(n, s, "RINGSTATE")
     /\ net' = IF Returned(n, m) THEN Received(n, s)
                                ELSE Send(Received(n, s), n, succ[n], m)
     /\ upcall' = {}
     /\ UNCHANGED <<local, aborted, used>>

-----------------------------------------------------------------------------
(* Fingers *)

(* SendFindFinger(i) of n, over the table tab in which entry i-1 is f: f is  *)
(* copied to every index whose point it already covers, and f is asked for   *)
(* the first one it does not cover; past the last index the timer is armed.  *)
CoversPrevious(n, f, i) ==   \* mutant: tests the point before the index
  InArc(IndexHash(Digest[n], i - 1), IndexHash(Digest[n], i - 1), Digest[f])

Covers(n, f, i) ==
  InArc(IndexHash(Digest[n], i - 1), IndexHash(Digest[n], i), Digest[f])

LastIndexMore == M + 1       \* mutant: off by one at the end of the table

LastIndex == M

RearmedNot(running, n) == running   \* mutant: the timer is not re-armed

Rearmed(running, n) == [running EXCEPT ![n] = TRUE]

SendFindFinger(ch, n, running, tab, f, i) ==
  \E stop \in i .. (LastIndex + 1) :
    /\ \A j \in i .. (stop - 1) : Covers(n, f, j)
    /\ stop > LastIndex \/ ~Covers(n, f, stop)
    /\ finger' = [finger EXCEPT ![n] =
                    [j \in FingerIndex |-> IF j \in i .. (stop - 1) THEN f ELSE tab[j]]]
    /\ IF stop > LastIndex
         THEN ffTimer' = Rearmed(running, n) /\ net' = ch
         ELSE /\ ffTimer' = running
              /\ net' = Send(ch, n, f,
                             [type |-> "FIND_FINGER", addr |-> n, index |-> stop])

(* The expired timer stays off until the chain of FIND_FINGERs ends.  Outside *)
(* a ring, or alone in one, it is re-armed at once and nothing changes.       *)
ExpiredNot(n) == ffTimer     \* mutant: the timer goes on while the chain runs

Expired(n) == [ffTimer EXCEPT ![n] = FALSE]

FixFinger(n) ==
  /\ ffTimer[n]
  /\ status[n]
  /\ ~Alone(n)
  /\ SendFindFinger(net, n, Expired(n),
                    [finger[n] EXCEPT ![1] = succ[n]], succ[n], 2)
  /\ upcall' = {}
  /\ UNCHANGED <<status, succ, pred, aborted, used>>

ReplyFindFinger(ch, n, m) ==
  Answer(ch, n, m.addr,
         [type |-> "FIND_FINGER_SUCCESS", addr |-> succ[n], index |-> m.index])

(* Any node answers, in a ring or not; addr is the node whose finger it is. *)
ProcessFindFinger(n, s) ==
  LET m == Packet(n, s)
      ch == Received(n, s)
      t == IndexHash(Digest[m.addr], m.index)
  IN /\ Arrives(n, s, "FIND_FINGER")
     /\ UNCHANGED used
     /\ \/ Responsible(n, t) /\ ReplyFindFinger(ch, n, m)
        \/ /\ ~Responsible(n, t)
           /\ Forward(ch, n, t, m, {})

ProcessFindFingerSuccess(n, s) ==
  LET m == Packet(n, s)
  IN /\ Arrives(n, s, "FIND_FINGER_SUCCESS")
     /\ SendFindFinger(Received(n, s), n, ffTimer,
                       [finger[n] EXCEPT ![m.index] = m.addr], m.addr, m.index + 1)
     /\ upcall' = {}
     /\ UNCHANGED <<status, succ, pred, aborted, used>>

-----------------------------------------------------------------------------
(* Lookups *)

(* Mutants: the answer names the node itself; it goes to the successor. *)
ReplyLookupSelf(ch, n, m) ==
  Answer(ch, n, m.addr, [type |-> "LOOKUP_PUBLISH_SUCCESS", addr |-> n, key |-> m.key])

ReplyLookupToSuccessor(ch, n, m) ==
  Answer(ch, n, succ[n],
         [type |-> "LOOKUP_PUBLISH_SUCCESS", addr |-> succ[n], key |-> m.key])

ReplyLookupPublishSuccess(ch, n, m) ==
  Answer(ch, n, m.addr,
         [type |-> "LOOKUP_PUBLISH_SUCCESS", addr |-> succ[n], key |-> m.key])

ProcessLookupPublish(n, s) ==
  LET m == Packet(n, s)
      ch == Received(n, s)
  IN /\ Arrives(n, s, "LOOKUP_PUBLISH")
     /\ UNCHANGED used
     /\ \/ Responsible(n, m.key) /\ ReplyLookupPublishSuccess(ch, n, m)
        \/ /\ ~Responsible(n, m.key)
           /\ Forward(ch, n, m.key, m, {})

ProcessLookupPublishSuccess(n, s) ==
  LET m == Packet(n, s)
  IN /\ Arrives(n, s, "LOOKUP_PUBLISH_SUCCESS")
     /\ net' = Received(n, s)
     /\ upcall' = {[type |-> "lookup", node |-> n, addr |-> m.addr, key |-> m.key]}
     /\ UNCHANGED <<local, aborted, used>>

-----------------------------------------------------------------------------
(* The network loses the oldest packet of a channel. *)
Lose(n, s) ==
  /\ Spend("LOSS")
  /\ net[s][n] # <<>>
  /\ net' = Received(n, s)
  /\ upcall' = {}
  /\ UNCHANGED <<local, aborted>>

Init ==
  /\ status = [n \in Node |-> FALSE]
  /\ succ = [n \in Node |-> AnyAddr]
  /\ pred = [n \in Node |-> AnyAddr]
  /\ finger = [n \in Node |-> EmptyTable]
  /\ ffTimer = [n \in Node |-> TRUE]
  /\ net = [s \in Node |-> [d \in Node |-> <<>>]]
  /\ upcall = {}
  /\ aborted = FALSE
  /\ used = [c \in Command |-> 0]

UserCommand ==
  \E n \in Node :
    \/ JoinSelf(n)
    \/ \E d \in Node : JoinVia(n, d)
    \/ LeaveAlone(n)
    \/ Leave(n)
    \/ Ringstate(n)
    \/ \E k \in KeyId : LookupPublish(n, k)

RecvMessage(n, s) ==
  \/ ProcessJoinChord(n, s)
  \/ ProcessFindSuccessor(n, s)
  \/ ProcessJoinChordSuccess(n, s)
  \/ ProcessJoinChordFail(n, s)
  \/ ProcessNotify(n, s)
  \/ ProcessStabilizeReq(n, s)
  \/ ProcessStabilizeResp(n, s)
  \/ ProcessLeaveSuccessor(n, s)
  \/ ProcessLeavePredecessor(n, s)
  \/ ProcessRingstate(n, s)
  \/ ProcessFindFinger(n, s)
  \/ ProcessFindFingerSuccess(n, s)
  \/ ProcessLookupPublish(n, s)
  \/ ProcessLookupPublishSuccess(n, s)

TimerExpires(n) == Stabilize(n) \/ FixFinger(n)

Next ==
  /\ ~aborted
  /\ \/ UserCommand
     \/ \E n \in Node : TimerExpires(n)
     \/ \E n, s \in Node : RecvMessage(n, s) \/ Lose(n, s)

Spec == Init /\ [][Next]_vars

(* The scheduler runs every event it has queued: packets arrive and both *)
(* timers expire.  Commands and losses are nobody's duty.                *)
Running ==
  /\ \A n \in Node : WF_vars(~aborted /\ Stabilize(n)) /\ WF_vars(~aborted /\ FixFinger(n))
  /\ \A n, s \in Node : WF_vars(~aborted /\ RecvMessage(n, s))

FairSpec == Spec /\ Running
=============================================================================
