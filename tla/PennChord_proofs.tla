--------------------------- MODULE PennChord_proofs ---------------------------
(***************************************************************************)
(* Theorems about PennChord, for every set of nodes, every size of the     *)
(* identifier circle, every placement of the nodes on it and every budget: *)
(* the state is well typed, and a node never has two finger chains; of the  *)
(* rings that commands paced by CalmSpec build, that they stay connected and *)
(* ordered and that their finger chains never end; and of those that         *)
(* SteadySpec builds, that they implement Overlay.                           *)
(***************************************************************************)
EXTENDS PennChordProperties, ChordId_proofs, SequenceTheorems, TLAPS

Net == [Node -> [Node -> Seq(Message)]]

-----------------------------------------------------------------------------
(* The network *)

(* Send hands over a message and keeps the channels well typed. *)
LEMMA SendType ==
  ASSUME NEW ch \in Net, NEW n \in Node, NEW d, NEW m \in Message
  PROVE  Send(ch, n, d, m) \in Net
<1>1. CASE d \in Node
  <2>1. Append(ch[n][d], m) \in Seq(Message)
    BY <1>1 DEF Net
  <2> QED
    BY <1>1, <2>1 DEF Net, Send
<1>2. CASE d \notin Node
  BY <1>2 DEF Send
<1> QED
  BY <1>1, <1>2

(* Taking the oldest packet of a channel yields a message and keeps the *)
(* channels well typed.                                                 *)
LEMMA ReceivedType ==
  ASSUME TypeOK, NEW n \in Node, NEW s \in Node, net[s][n] # <<>>
  PROVE  Packet(n, s) \in Message /\ Received(n, s) \in Net
<1>1. net \in Net /\ net[s][n] \in Seq(Message)
  BY DEF TypeOK, Net
<1>2. Head(net[s][n]) \in Message /\ Tail(net[s][n]) \in Seq(Message)
  BY <1>1
<1> QED
  BY <1>1, <1>2 DEF Net, Packet, Received

(* Spend only counts. *)
LEMMA SpendType ==
  ASSUME TypeOK, NEW c \in Command, Spend(c)
  PROVE  used' \in [Command -> Nat]
BY DEF TypeOK, Spend

(* What a node says goes out; what it answers changes nothing else. *)
LEMMA AnswerType ==
  ASSUME TypeOK, NEW ch \in Net, NEW n \in Node, NEW d, NEW m \in Message,
         Answer(ch, n, d, m), used' \in [Command -> Nat]
  PROVE  TypeOK'
<1>1. net' \in Net
  BY SendType DEF Answer
<1> QED
  BY <1>1 DEF Answer, TypeOK, Net, local

(* Forwarding keeps every type, whether it sends the packet or dies. *)
LEMMA ForwardType ==
  ASSUME TypeOK, NEW ch \in Net, NEW n \in Node, NEW t, NEW m \in Message,
         NEW calls \in SUBSET Upcall,
         Forward(ch, n, t, m, calls), used' \in [Command -> Nat]
  PROVE  TypeOK'
<1>1. CASE Abort(n)
  BY <1>1 DEF Abort, TypeOK, local
<1>2. CASE /\ \E h \in Addr : NextHop(n, t, h) /\ net' = Send(ch, n, h, m)
           /\ upcall' = calls
           /\ UNCHANGED <<local, aborted>>
  <2>1. net' \in Net
    BY <1>2, SendType
  <2> QED
    BY <1>2, <2>1 DEF TypeOK, Net, local
<1> QED
  BY <1>1, <1>2 DEF Forward

(* SendFindFinger fills entries with nodes and asks for an index of the table. *)
LEMMA SendFindFingerType ==
  ASSUME TypeOK, NEW ch \in Net, NEW n \in Node,
         NEW running \in [Node -> BOOLEAN],
         NEW tab \in [FingerIndex -> Addr \cup {NoEntry}],
         NEW f \in Addr, NEW i \in Nat \ {0},
         SendFindFinger(ch, n, running, tab, f, i)
  PROVE  /\ finger' \in [Node -> [FingerIndex -> Addr \cup {NoEntry}]]
         /\ ffTimer' \in [Node -> BOOLEAN]
         /\ net' \in Net
<1>1. PICK stop \in i .. (LastIndex + 1) :
        /\ finger' = [finger EXCEPT ![n] =
             [j \in FingerIndex |-> IF j \in i .. (stop - 1) THEN f ELSE tab[j]]]
        /\ IF stop > LastIndex
             THEN ffTimer' = Rearmed(running, n) /\ net' = ch
             ELSE /\ ffTimer' = running
                  /\ net' = Send(ch, n, f, [type |-> "FIND_FINGER", addr |-> n,
                                            index |-> stop])
  BY DEF SendFindFinger
<1>2. finger' \in [Node -> [FingerIndex -> Addr \cup {NoEntry}]]
  BY <1>1 DEF TypeOK
<1>3. CASE stop > LastIndex
  BY <1>1, <1>2, <1>3 DEF Rearmed
<1>4. CASE ~(stop > LastIndex)
  <2>1. stop \in FingerIndex
    BY <1>4, MAssumption DEF FingerIndex, LastIndex
  <2>2. [type |-> "FIND_FINGER", addr |-> n, index |-> stop] \in Message
    BY <2>1 DEF Message, Addr
  <2> QED
    BY <1>1, <1>2, <1>4, <2>2, SendType
<1> QED
  BY <1>3, <1>4

(* FindSuccessor answers or forwards, and keeps every type. *)
LEMMA FindSuccessorType ==
  ASSUME TypeOK, NEW ch \in Net, NEW n \in Node, NEW d \in Addr,
         FindSuccessor(ch, n, d), used' \in [Command -> Nat]
  PROVE  TypeOK'
<1>1. succ[n] \in Addr
  BY DEF TypeOK
<1>2. JoinChordSuccess(succ[n]) \in Message
  BY <1>1 DEF JoinChordSuccess, Message
<1>3. [type |-> "FIND_SUCCESSOR", addr |-> d] \in Message
  BY DEF Message
<1> QED
  BY <1>2, <1>3, AnswerType, ForwardType DEF FindSuccessor

-----------------------------------------------------------------------------
(* Type correctness *)

(* Init is well typed. *)
LEMMA InitType == Init => TypeOK
<1> SUFFICES ASSUME Init PROVE TypeOK
  OBVIOUS
<1>1. EmptyTable \in [FingerIndex -> Addr \cup {NoEntry}]
  BY DEF EmptyTable
<1>2. finger \in [Node -> [FingerIndex -> Addr \cup {NoEntry}]]
  BY <1>1 DEF Init
<1>3. <<>> \in Seq(Message)
  OBVIOUS
<1>4. net \in [Node -> [Node -> Seq(Message)]]
  BY <1>3, Zenon DEF Init
<1> QED
  BY <1>2, <1>4 DEF Init, TypeOK, Addr

(* A command keeps every type. *)
LEMMA CommandType ==
  ASSUME TypeOK, NEW n \in Node,
         \/ JoinSelf(n)
         \/ \E d \in Node : JoinVia(n, d)
         \/ LeaveAlone(n)
         \/ Leave(n)
         \/ Ringstate(n)
         \/ \E k \in KeyId : LookupPublish(n, k)
  PROVE  TypeOK'
<1>0. net \in Net /\ succ[n] \in Addr /\ pred[n] \in Addr /\ AnyAddr \in Addr /\ n \in Addr
  BY DEF TypeOK, Net, Addr
<1>1. CASE JoinSelf(n)
  <2>1. used' \in [Command -> Nat]
    BY <1>1, SpendType DEF JoinSelf, Command
  <2> QED
    BY <1>0, <1>1, <2>1 DEF JoinSelf, TypeOK
<1>2. CASE \E d \in Node : JoinVia(n, d)
  <2>1. used' \in [Command -> Nat]
    BY <1>2, SpendType DEF JoinVia, Command
  <2>2. [type |-> "JOIN_CHORD"] \in Message
    BY DEF Message
  <2> QED
    BY <1>0, <1>2, <2>1, <2>2, AnswerType DEF JoinVia
<1>3. CASE LeaveAlone(n)
  <2>1. used' \in [Command -> Nat]
    BY <1>3, SpendType DEF LeaveAlone, Command
  <2> QED
    BY <1>0, <1>3, <2>1 DEF LeaveAlone, Detach, EmptyTable, TypeOK
<1>4. CASE Leave(n)
  <2>1. used' \in [Command -> Nat]
    BY <1>4, SpendType DEF Leave, Command
  <2> DEFINE p == IF succ[n] = pred[n] THEN AnyAddr ELSE pred[n]
             toSucc == Send(net, n, succ[n], [type |-> "LEAVE_SUCCESSOR", addr |-> p])
  <2>2. p \in Addr
    BY <1>0
  <2>3. /\ [type |-> "LEAVE_SUCCESSOR", addr |-> p] \in Message
        /\ [type |-> "LEAVE_PREDECESSOR", addr |-> succ[n]] \in Message
    BY <1>0, <2>2 DEF Message
  <2>4. toSucc \in Net
    BY <1>0, <2>3, SendType
  <2>5. net' \in Net
    BY <1>4, <2>3, <2>4, SendType DEF Leave, Farewell
  <2>6. upcall' \in SUBSET Upcall
    BY <1>0, <1>4 DEF Leave, Upcall
  <2> QED
    BY <1>0, <1>4, <2>1, <2>5, <2>6 DEF Leave, Detach, EmptyTable, TypeOK, Net
<1>5. CASE Ringstate(n)
  <2>1. used' \in [Command -> Nat]
    BY <1>5, SpendType DEF Ringstate, Command
  <2>2. [type |-> "RINGSTATE", addr |-> n] \in Message
    BY <1>0 DEF Message
  <2> QED
    BY <1>0, <1>5, <2>1, <2>2, AnswerType DEF Ringstate
<1>6. CASE \E k \in KeyId : LookupPublish(n, k)
  <2>1. PICK k \in KeyId : LookupPublish(n, k)
    BY <1>6
  <2>2. k \in Id
    BY DigestAssumption
  <2>3. used' \in [Command -> Nat]
    BY <2>1, SpendType DEF LookupPublish, Command
  <2>4. [type |-> "LOOKUP_PUBLISH", addr |-> n, key |-> k] \in Message
    BY <1>0, <2>2 DEF Message
  <2>5. (IF Responsible(n, k)
           THEN {[type |-> "lookup", node |-> n, addr |-> succ[n], key |-> k]}
           ELSE {}) \in SUBSET Upcall
    BY <1>0, <2>2 DEF Upcall
  <2> QED
    BY <1>0, <2>1, <2>3, <2>4, <2>5, ForwardType DEF LookupPublish
<1> QED
  BY <1>1, <1>2, <1>3, <1>4, <1>5, <1>6

(* A handler keeps every type. *)
LEMMA HandlerType ==
  ASSUME TypeOK, NEW n \in Node, NEW s \in Node, RecvMessage(n, s)
  PROVE  TypeOK'
<1>0. net[s][n] # <<>> /\ used' = used
  BY DEF RecvMessage, Arrives, ProcessJoinChord, ProcessFindSuccessor,
         ProcessJoinChordSuccess, ProcessJoinChordFail, ProcessNotify,
         ProcessStabilizeReq, ProcessStabilizeResp, ProcessLeaveSuccessor,
         ProcessLeavePredecessor, ProcessRingstate, ProcessFindFinger,
         ProcessFindFingerSuccess, ProcessLookupPublish, ProcessLookupPublishSuccess
<1> DEFINE m  == Packet(n, s)
           ch == Received(n, s)
<1>a. m \in Message /\ ch \in Net
  BY <1>0, ReceivedType
<1>b. /\ n \in Addr /\ s \in Addr /\ succ[n] \in Addr /\ pred[n] \in Addr
      /\ used' \in [Command -> Nat]
  BY <1>0 DEF TypeOK, Addr
<1>c. [type |-> "NOTIFY"] \in Message
  BY DEF Message
<1>1. CASE ProcessJoinChord(n, s)
  <2>1. [type |-> "JOIN_CHORD_FAIL"] \in Message
    BY DEF Message
  <2>2. JoinChordSuccess(n) \in Message
    BY <1>b DEF JoinChordSuccess, Message
  <2>3. CASE ~status[n] /\ Answer(ch, n, s, [type |-> "JOIN_CHORD_FAIL"])
    BY <1>a, <1>b, <2>1, <2>3, AnswerType
  <2>4. CASE /\ succ' = [succ EXCEPT ![n] = s]
             /\ net' = SendNotify(Send(ch, n, s, JoinChordSuccess(n)), n, s)
             /\ upcall' = {}
             /\ UNCHANGED <<status, pred, finger, ffTimer, aborted>>
    <3>1. net' \in Net
      BY <1>a, <1>c, <2>2, <2>4, SendType DEF SendNotify
    <3> QED
      BY <1>b, <2>4, <3>1 DEF TypeOK, Net
  <2>5. CASE FindSuccessor(ch, n, s)
    BY <1>a, <1>b, <2>5, FindSuccessorType
  <2> QED
    BY <1>1, <2>3, <2>4, <2>5 DEF ProcessJoinChord
<1>2. CASE ProcessFindSuccessor(n, s)
  <2>1. m.type = "FIND_SUCCESSOR"
    BY <1>2 DEF ProcessFindSuccessor, Arrives, Packet
  <2>2. m.addr \in Addr
    BY <1>a, <2>1 DEF Message
  <2> QED
    BY <1>2, <1>a, <1>b, <2>2, FindSuccessorType DEF ProcessFindSuccessor
<1>3. CASE ProcessJoinChordSuccess(n, s)
  <2>1. m.type = "JOIN_CHORD_SUCCESS"
    BY <1>3 DEF ProcessJoinChordSuccess, Arrives, Packet
  <2>2. m.addr \in Addr
    BY <1>a, <2>1 DEF Message
  <2>3. net' \in Net
    BY <1>3, <1>a, <1>c, SendType DEF ProcessJoinChordSuccess, SendNotify
  <2> QED
    BY <1>3, <1>b, <2>2, <2>3 DEF ProcessJoinChordSuccess, TypeOK, Net, Addr
<1>4. CASE ProcessJoinChordFail(n, s)
  BY <1>4, <1>a DEF ProcessJoinChordFail, TypeOK, Net, local
<1>5. CASE ProcessNotify(n, s)
  <2>1. pred' \in [Node -> Addr]
    BY <1>5, <1>b DEF ProcessNotify, TypeOK
  <2>2. upcall' \in SUBSET Upcall
    BY <1>5, <1>b DEF ProcessNotify, Upcall
  <2> QED
    BY <1>5, <1>a, <2>1, <2>2 DEF ProcessNotify, TypeOK, Net
<1>6. CASE ProcessStabilizeReq(n, s)
  <2>1. [type |-> "STABILIZE_RESP", addr |-> pred[n]] \in Message
    BY <1>b DEF Message
  <2>2. net' \in Net
    BY <1>6, <1>a, <2>1, SendType DEF ProcessStabilizeReq
  <2> QED
    BY <1>6, <2>2 DEF ProcessStabilizeReq, TypeOK, Net, local
<1>7. CASE ProcessStabilizeResp(n, s)
  <2>1. m.type = "STABILIZE_RESP"
    BY <1>7 DEF ProcessStabilizeResp, Arrives, Packet
  <2>2. m.addr \in Addr
    BY <1>a, <2>1 DEF Message
  <2>3. net' \in Net
    BY <1>7, <1>a, <1>c, SendType DEF ProcessStabilizeResp, SendNotify
  <2>4. succ' \in [Node -> Addr]
    BY <1>7, <2>2 DEF ProcessStabilizeResp, TypeOK
  <2> QED
    BY <1>7, <2>3, <2>4 DEF ProcessStabilizeResp, TypeOK, Net
<1>8. CASE ProcessLeaveSuccessor(n, s)
  <2>1. m.type = "LEAVE_SUCCESSOR"
    BY <1>8 DEF ProcessLeaveSuccessor, Arrives, Packet
  <2>2. m.addr \in Addr
    BY <1>a, <2>1 DEF Message
  <2> QED
    BY <1>8, <1>a, <2>2 DEF ProcessLeaveSuccessor, TypeOK, Net
<1>9. CASE ProcessLeavePredecessor(n, s)
  <2>1. m.type = "LEAVE_PREDECESSOR"
    BY <1>9 DEF ProcessLeavePredecessor, Arrives, Packet
  <2>2. m.addr \in Addr
    BY <1>a, <2>1 DEF Message
  <2> QED
    BY <1>9, <1>a, <2>2 DEF ProcessLeavePredecessor, TypeOK, Net
<1>10. CASE ProcessRingstate(n, s)
  <2>1. net' \in Net
    BY <1>10, <1>a, SendType DEF ProcessRingstate
  <2> QED
    BY <1>10, <2>1 DEF ProcessRingstate, TypeOK, Net, local
<1>11. CASE ProcessFindFinger(n, s)
  <2>1. m.type = "FIND_FINGER"
    BY <1>11 DEF ProcessFindFinger, Arrives, Packet
  <2>2. m.index \in FingerIndex
    BY <1>a, <2>1 DEF Message
  <2>3. [type |-> "FIND_FINGER_SUCCESS", addr |-> succ[n], index |-> m.index] \in Message
    BY <1>b, <2>2 DEF Message
  <2>4. CASE ReplyFindFinger(ch, n, m)
    BY <1>a, <1>b, <2>3, <2>4, AnswerType DEF ReplyFindFinger
  <2>5. CASE Forward(ch, n, IndexHash(Digest[m.addr], m.index), m, {})
    BY <1>a, <1>b, <2>5, ForwardType
  <2> QED
    BY <1>11, <2>4, <2>5 DEF ProcessFindFinger
<1>12. CASE ProcessFindFingerSuccess(n, s)
  <2>1. m.type = "FIND_FINGER_SUCCESS"
    BY <1>12 DEF ProcessFindFingerSuccess, Arrives, Packet
  <2>2. m.addr \in Addr /\ m.index \in FingerIndex
    BY <1>a, <2>1 DEF Message
  <2>3. m.index + 1 \in Nat \ {0}
    BY <2>2, MAssumption DEF FingerIndex
  <2>4. /\ [finger[n] EXCEPT ![m.index] = m.addr] \in [FingerIndex -> Addr \cup {NoEntry}]
        /\ ffTimer \in [Node -> BOOLEAN]
    BY <2>2 DEF TypeOK
  <2>5. SendFindFinger(ch, n, ffTimer, [finger[n] EXCEPT ![m.index] = m.addr],
                       m.addr, m.index + 1)
    BY <1>12 DEF ProcessFindFingerSuccess
  <2>6. /\ finger' \in [Node -> [FingerIndex -> Addr \cup {NoEntry}]]
        /\ ffTimer' \in [Node -> BOOLEAN]
        /\ net' \in Net
    BY <1>a, <2>2, <2>3, <2>4, <2>5, SendFindFingerType
  <2> QED
    BY <1>12, <2>6 DEF ProcessFindFingerSuccess, TypeOK, Net
<1>13. CASE ProcessLookupPublish(n, s)
  <2>1. m.type = "LOOKUP_PUBLISH"
    BY <1>13 DEF ProcessLookupPublish, Arrives, Packet
  <2>2. m.key \in Id
    BY <1>a, <2>1 DEF Message
  <2>3. [type |-> "LOOKUP_PUBLISH_SUCCESS", addr |-> succ[n], key |-> m.key] \in Message
    BY <1>b, <2>2 DEF Message
  <2>4. CASE ReplyLookupPublishSuccess(ch, n, m)
    BY <1>a, <1>b, <2>3, <2>4, AnswerType DEF ReplyLookupPublishSuccess
  <2>5. CASE Forward(ch, n, m.key, m, {})
    BY <1>a, <1>b, <2>5, ForwardType
  <2> QED
    BY <1>13, <2>4, <2>5 DEF ProcessLookupPublish
<1>14. CASE ProcessLookupPublishSuccess(n, s)
  <2>1. m.type = "LOOKUP_PUBLISH_SUCCESS"
    BY <1>14 DEF ProcessLookupPublishSuccess, Arrives, Packet
  <2>2. m.addr \in Addr /\ m.key \in Id
    BY <1>a, <2>1 DEF Message
  <2>3. upcall' \in SUBSET Upcall
    BY <1>14, <2>2 DEF ProcessLookupPublishSuccess, Upcall
  <2> QED
    BY <1>14, <1>a, <2>3 DEF ProcessLookupPublishSuccess, TypeOK, Net, local
<1> QED
  BY <1>1, <1>2, <1>3, <1>4, <1>5, <1>6, <1>7, <1>8, <1>9, <1>10, <1>11, <1>12,
     <1>13, <1>14 DEF RecvMessage

(* An expiring timer keeps every type. *)
LEMMA TimerType ==
  ASSUME TypeOK, NEW n \in Node, TimerExpires(n)
  PROVE  TypeOK'
<1>0. /\ net \in Net /\ succ[n] \in Addr
      /\ used' \in [Command -> Nat]
  BY DEF TimerExpires, Stabilize, FixFinger, TypeOK, Net
<1>1. CASE Stabilize(n)
  <2>1. [type |-> "STABILIZE_REQ"] \in Message
    BY DEF Message
  <2> QED
    BY <1>0, <1>1, <2>1, AnswerType DEF Stabilize
<1>2. CASE FixFinger(n)
  <2>0. finger[n] \in [FingerIndex -> Addr \cup {NoEntry}]
    BY DEF TypeOK
  <2>1. [finger[n] EXCEPT ![1] = succ[n]] \in [FingerIndex -> Addr \cup {NoEntry}]
    BY <1>0, <2>0
  <2>3. Expired(n) \in [Node -> BOOLEAN]
    BY DEF TypeOK, Expired
  <2>2. /\ finger' \in [Node -> [FingerIndex -> Addr \cup {NoEntry}]]
        /\ ffTimer' \in [Node -> BOOLEAN]
        /\ net' \in Net
    BY <1>0, <1>2, <2>1, <2>3, SendFindFingerType DEF FixFinger
  <2> QED
    BY <1>2, <2>2 DEF FixFinger, TypeOK, Net
<1> QED
  BY <1>1, <1>2 DEF TimerExpires

(* A lost packet keeps every type. *)
LEMMA LoseType ==
  ASSUME TypeOK, NEW n \in Node, NEW s \in Node, Lose(n, s)
  PROVE  TypeOK'
<1>1. used' \in [Command -> Nat]
  BY SpendType DEF Lose, Command
<1>2. Received(n, s) \in Net
  BY ReceivedType DEF Lose
<1> QED
  BY <1>1, <1>2 DEF Lose, TypeOK, Net, local

(* Every step keeps the types. *)
LEMMA StepType == TypeOK /\ [Next]_vars => TypeOK'
<1> SUFFICES ASSUME TypeOK, [Next]_vars PROVE TypeOK'
  OBVIOUS
<1>1. CASE UserCommand
  BY <1>1, CommandType DEF UserCommand
<1>2. CASE \E n \in Node : TimerExpires(n)
  BY <1>2, TimerType
<1>3. CASE \E n, s \in Node : RecvMessage(n, s) \/ Lose(n, s)
  BY <1>3, HandlerType, LoseType
<1>4. CASE UNCHANGED vars
  BY <1>4 DEF vars, TypeOK
<1> QED
  BY <1>1, <1>2, <1>3, <1>4 DEF Next

(* Type correctness: pointers name a node or 0.0.0.0, finger indices stay in *)
(* the table, and every packet is one the receiving handler can decode.      *)
THEOREM TypeCorrect == Spec => []TypeOK
<1>1. Init => TypeOK
  BY InitType
<1>2. TypeOK /\ [Next]_vars => TypeOK'
  BY StepType
<1> QED
  BY <1>1, <1>2, PTL DEF Spec

-----------------------------------------------------------------------------
(* The finger chain: how the operations on the network move tokens *)

(* A message that is nobody's token. *)
Plain(m) == m.type \notin {"FIND_FINGER", "FIND_FINGER_SUCCESS"}

(* What a channel holds after a Send. *)
LEMMA SendChannel ==
  ASSUME NEW ch \in Net, NEW n \in Node, NEW d \in Node, NEW m \in Message,
         NEW s2 \in Node, NEW d2 \in Node, NEW i \in DOMAIN Send(ch, n, d, m)[s2][d2]
  PROVE  \/ /\ i \in DOMAIN ch[s2][d2]
            /\ Send(ch, n, d, m)[s2][d2][i] = ch[s2][d2][i]
         \/ /\ s2 = n /\ d2 = d
            /\ i = Len(ch[n][d]) + 1
            /\ Send(ch, n, d, m)[s2][d2][i] = m
<1>1. ch[s2][d2] \in Seq(Message) /\ ch[n][d] \in Seq(Message)
  BY DEF Net
<1>2. CASE s2 = n /\ d2 = d
  <2>1. Send(ch, n, d, m)[s2][d2] = Append(ch[n][d], m)
    BY <1>2 DEF Send, Net
  <2>2. i \in 1 .. (Len(ch[n][d]) + 1)
    BY <1>1, <2>1
  <2> QED
    BY <1>1, <1>2, <2>1, <2>2
<1>3. CASE ~(s2 = n /\ d2 = d)
  <2>1. Send(ch, n, d, m)[s2][d2] = ch[s2][d2]
    BY <1>3 DEF Send, Net
  <2> QED
    BY <2>1
<1> QED
  BY <1>2, <1>3

(* What a channel holds after its oldest packet, or another's, is taken. *)
LEMMA ReceivedChannel ==
  ASSUME TypeOK, NEW n \in Node, NEW s \in Node, net[s][n] # <<>>,
         NEW s2 \in Node, NEW d2 \in Node, NEW i \in DOMAIN Received(n, s)[s2][d2]
  PROVE  \/ /\ s2 = s /\ d2 = n
            /\ i \in Nat /\ i >= 1 /\ i + 1 \in DOMAIN net[s][n]
            /\ Received(n, s)[s2][d2][i] = net[s][n][i + 1]
         \/ /\ ~(s2 = s /\ d2 = n)
            /\ i \in DOMAIN net[s2][d2]
            /\ Received(n, s)[s2][d2][i] = net[s2][d2][i]
<1>1. net \in Net /\ net[s][n] \in Seq(Message)
  BY DEF TypeOK, Net
<1>2. CASE s2 = s /\ d2 = n
  <2>1. Received(n, s)[s2][d2] = Tail(net[s][n])
    BY <1>1, <1>2 DEF Received, Net
  <2>2. i \in 1 .. (Len(net[s][n]) - 1)
    BY <1>1, <2>1
  <2> QED
    BY <1>1, <1>2, <2>1, <2>2
<1>3. CASE ~(s2 = s /\ d2 = n)
  <2>1. Received(n, s)[s2][d2] = net[s2][d2]
    BY <1>1, <1>3 DEF Received, Net
  <2> QED
    BY <1>3, <2>1
<1> QED
  BY <1>2, <1>3

(* Taking a packet adds no token. *)
LEMMA ReceivedNoToken ==
  ASSUME TypeOK, NEW n \in Node, NEW s \in Node, net[s][n] # <<>>,
         NEW t \in Node, NoToken(net, t)
  PROVE  NoToken(Received(n, s), t)
<1> SUFFICES ASSUME NEW s2 \in Node, NEW d2 \in Node,
                    NEW i \in DOMAIN Received(n, s)[s2][d2],
                    Token(Received(n, s), t, s2, d2, i)
             PROVE  FALSE
  BY DEF NoToken
<1> QED
  BY ReceivedChannel DEF NoToken, Token

(* Nor does it make two tokens of one. *)
LEMMA ReceivedOneToken ==
  ASSUME TypeOK, NEW n \in Node, NEW s \in Node, net[s][n] # <<>>,
         NEW t \in Node, OneToken(net, t)
  PROVE  OneToken(Received(n, s), t)
<1> SUFFICES ASSUME NEW s1 \in Node, NEW s2 \in Node, NEW d1 \in Node, NEW d2 \in Node,
                    NEW i1 \in DOMAIN Received(n, s)[s1][d1],
                    NEW i2 \in DOMAIN Received(n, s)[s2][d2],
                    Token(Received(n, s), t, s1, d1, i1),
                    Token(Received(n, s), t, s2, d2, i2)
             PROVE  s1 = s2 /\ d1 = d2 /\ i1 = i2
  BY DEF OneToken
<1> DEFINE Was(sx, dx, i, j) ==
      /\ j \in DOMAIN net[sx][dx]
      /\ Received(n, s)[sx][dx][i] = net[sx][dx][j]
      /\ IF sx = s /\ dx = n THEN i \in Nat /\ j = i + 1 ELSE j = i
<1>1. PICK j1 : Was(s1, d1, i1, j1)
  BY ReceivedChannel
<1>2. PICK j2 : Was(s2, d2, i2, j2)
  BY ReceivedChannel
<1>3. Token(net, t, s1, d1, j1) /\ Token(net, t, s2, d2, j2)
  BY <1>1, <1>2 DEF Token
<1>4. s1 = s2 /\ d1 = d2 /\ j1 = j2
  BY <1>1, <1>2, <1>3 DEF OneToken
<1> QED
  BY <1>1, <1>2, <1>4

(* Whoever takes the token has the only one. *)
LEMMA ReceivedToken ==
  ASSUME TypeOK, NEW n \in Node, NEW s \in Node, net[s][n] # <<>>,
         NEW t \in Node, OneToken(net, t), Carries(t, n, Packet(n, s))
  PROVE  NoToken(Received(n, s), t) /\ ~NoToken(net, t)
<1>1. net[s][n] \in Seq(Message)
  BY DEF TypeOK
<1>2. 1 \in DOMAIN net[s][n] /\ Packet(n, s) = net[s][n][1]
  BY <1>1 DEF Packet
<1>3. Token(net, t, s, n, 1)
  BY <1>2 DEF Token
<1>4. ASSUME NEW s2 \in Node, NEW d2 \in Node,
             NEW i \in DOMAIN Received(n, s)[s2][d2],
             Token(Received(n, s), t, s2, d2, i)
      PROVE  FALSE
  <2>1. CASE s2 = s /\ d2 = n
    <3>1. i \in Nat /\ i >= 1 /\ i + 1 \in DOMAIN net[s][n]
          /\ Received(n, s)[s2][d2][i] = net[s][n][i + 1]
      BY <2>1, ReceivedChannel
    <3>2. Token(net, t, s, n, i + 1)
      BY <1>4, <2>1, <3>1 DEF Token
    <3>3. i + 1 = 1
      BY <1>2, <1>3, <3>1, <3>2 DEF OneToken
    <3> QED
      BY <3>1, <3>3
  <2>2. CASE ~(s2 = s /\ d2 = n)
    <3>1. i \in DOMAIN net[s2][d2] /\ Received(n, s)[s2][d2][i] = net[s2][d2][i]
      BY <2>2, ReceivedChannel
    <3>2. Token(net, t, s2, d2, i)
      BY <1>4, <3>1 DEF Token
    <3> QED
      BY <1>2, <1>3, <2>2, <3>1, <3>2 DEF OneToken
  <2> QED
    BY <2>1, <2>2
<1> QED
  BY <1>2, <1>3, <1>4 DEF NoToken

(* A message that is not t's token changes nothing for t. *)
LEMMA SendOther ==
  ASSUME NEW ch \in Net, NEW n \in Node, NEW d, NEW m \in Message,
         NEW t \in Node, ~Carries(t, d, m)
  PROVE  /\ NoToken(ch, t) => NoToken(Send(ch, n, d, m), t)
         /\ OneToken(ch, t) => OneToken(Send(ch, n, d, m), t)
<1>1. CASE d \notin Node
  BY <1>1 DEF Send
<1>2. CASE d \in Node
  <2>1. ASSUME NEW s2 \in Node, NEW d2 \in Node,
               NEW i \in DOMAIN Send(ch, n, d, m)[s2][d2],
               Token(Send(ch, n, d, m), t, s2, d2, i)
        PROVE  i \in DOMAIN ch[s2][d2] /\ Token(ch, t, s2, d2, i)
    BY <1>2, <2>1, SendChannel DEF Token
  <2>2. NoToken(ch, t) => NoToken(Send(ch, n, d, m), t)
    BY <2>1 DEF NoToken
  <2>3. OneToken(ch, t) => OneToken(Send(ch, n, d, m), t)
    BY <2>1 DEF OneToken
  <2> QED
    BY <2>2, <2>3
<1> QED
  BY <1>1, <1>2

(* Where there is no token, one may be sent. *)
LEMMA SendFirst ==
  ASSUME NEW ch \in Net, NEW n \in Node, NEW d, NEW m \in Message,
         NEW t \in Node, NoToken(ch, t)
  PROVE  OneToken(Send(ch, n, d, m), t)
<1>1. CASE d \notin Node
  BY <1>1 DEF Send, NoToken, OneToken
<1>2. CASE d \in Node
  <2>1. ASSUME NEW s2 \in Node, NEW d2 \in Node,
               NEW i \in DOMAIN Send(ch, n, d, m)[s2][d2],
               Token(Send(ch, n, d, m), t, s2, d2, i)
        PROVE  s2 = n /\ d2 = d /\ i = Len(ch[n][d]) + 1
    BY <1>2, <2>1, SendChannel DEF NoToken, Token
  <2> QED
    BY <2>1 DEF OneToken
<1> QED
  BY <1>1, <1>2

(* The same three facts for all nodes at once. *)
LEMMA ReceivedChain ==
  ASSUME TypeOK, NEW n \in Node, NEW s \in Node, net[s][n] # <<>>, OneFingerChain
  PROVE  SingleChain(Received(n, s), ffTimer)
BY ReceivedNoToken, ReceivedOneToken DEF OneFingerChain, SingleChain

(* Sending anything but a token. *)
LEMMA PlainChain ==
  ASSUME NEW ch \in Net, NEW running, NEW n \in Node, NEW d, NEW m \in Message,
         Plain(m), SingleChain(ch, running)
  PROVE  SingleChain(Send(ch, n, d, m), running)
<1>1. \A t \in Node : ~Carries(t, d, m)
  BY DEF Plain, Carries
<1> QED
  BY <1>1, SendOther DEF SingleChain

(* Sending the token of a node that has neither token nor timer. *)
LEMMA TokenChain ==
  ASSUME NEW ch \in Net, NEW running, NEW n \in Node, NEW d, NEW m \in Message,
         SingleChain(ch, running),
         NEW t \in Node, NoToken(ch, t), ~running[t],
         \A u \in Node : Carries(u, d, m) => u = t
  PROVE  SingleChain(Send(ch, n, d, m), running)
<1> SUFFICES ASSUME NEW u \in Node
             PROVE  /\ OneToken(Send(ch, n, d, m), u)
                    /\ running[u] => NoToken(Send(ch, n, d, m), u)
  BY DEF SingleChain
<1>1. CASE u = t
  BY <1>1, SendFirst
<1>2. CASE u # t
  <2>1. ~Carries(u, d, m)
    BY <1>2
  <2>2. OneToken(ch, u) /\ (running[u] => NoToken(ch, u))
    BY DEF SingleChain
  <2> QED
    BY <2>1, <2>2, SendOther
<1> QED
  BY <1>1, <1>2

-----------------------------------------------------------------------------
(* The finger chain: the steps of the program *)

(* What is shown of the next network and timers holds of the next state. *)
LEMMA NextChain ==
  ASSUME NEW ch, NEW running, SingleChain(ch, running), net' = ch, ffTimer' = running
  PROVE  OneFingerChain'
<1>1. SingleChain(net', ffTimer')
  BY Zenon
<1> QED
  BY <1>1, Zenon DEF OneFingerChain, SingleChain, OneToken, NoToken, Token, Carries

(* Answering or forwarding anything but a token. *)
LEMMA AnswerChain ==
  ASSUME NEW ch \in Net, NEW n \in Node, NEW d, NEW m \in Message,
         Plain(m), SingleChain(ch, ffTimer), Answer(ch, n, d, m)
  PROVE  OneFingerChain'
<1>1. SingleChain(Send(ch, n, d, m), ffTimer)
  BY PlainChain
<1>2. net' = Send(ch, n, d, m) /\ ffTimer' = ffTimer
  BY DEF Answer, local
<1> QED
  BY <1>1, <1>2, NextChain

(* Forwarding anything but a token, or dying. *)
LEMMA ForwardChain ==
  ASSUME NEW ch \in Net, NEW n \in Node, NEW t, NEW m \in Message, NEW calls,
         Plain(m), OneFingerChain, SingleChain(ch, ffTimer), Forward(ch, n, t, m, calls)
  PROVE  OneFingerChain'
<1>1. CASE Abort(n)
  BY <1>1, NextChain DEF Abort, local, OneFingerChain
<1>2. CASE \E h \in Addr : net' = Send(ch, n, h, m) /\ ffTimer' = ffTimer
  <2>1. PICK h \in Addr : net' = Send(ch, n, h, m) /\ ffTimer' = ffTimer
    BY <1>2
  <2>2. SingleChain(Send(ch, n, h, m), ffTimer)
    BY PlainChain
  <2> QED
    BY <2>1, <2>2, NextChain
<1> QED
  BY <1>1, <1>2 DEF Forward, local

(* SendFindFinger of a node without token and without timer starts one of *)
(* the two.                                                               *)
LEMMA SendFindFingerChain ==
  ASSUME NEW ch \in Net, NEW n \in Node, NEW running \in [Node -> BOOLEAN],
         NEW tab, NEW f, NEW i \in Nat \ {0},
         SingleChain(ch, running), NoToken(ch, n), ~running[n],
         SendFindFinger(ch, n, running, tab, f, i)
  PROVE  OneFingerChain'
<1>1. PICK stop \in i .. (LastIndex + 1) :
        IF stop > LastIndex
          THEN ffTimer' = Rearmed(running, n) /\ net' = ch
          ELSE /\ ffTimer' = running
               /\ net' = Send(ch, n, f, [type |-> "FIND_FINGER", addr |-> n, index |-> stop])
  BY DEF SendFindFinger
<1>2. CASE stop > LastIndex
  <2>1. SingleChain(ch, Rearmed(running, n))
    BY DEF SingleChain, Rearmed
  <2> QED
    BY <1>1, <1>2, <2>1, NextChain
<1>3. CASE ~(stop > LastIndex)
  <2> DEFINE m == [type |-> "FIND_FINGER", addr |-> n, index |-> stop]
  <2>1. m \in Message
    BY <1>3, MAssumption DEF FingerIndex, LastIndex, Message
  <2>2. \A u \in Node : Carries(u, f, m) => u = n
    BY DEF Carries
  <2>3. SingleChain(Send(ch, n, f, m), running)
    BY <2>1, <2>2, TokenChain
  <2> QED
    BY <1>1, <1>3, <2>3, NextChain
<1> QED
  BY <1>2, <1>3

(* Commands send no token and touch no timer. *)
LEMMA CommandChain ==
  ASSUME TypeOK, OneFingerChain, NEW n \in Node,
         \/ JoinSelf(n)
         \/ \E d \in Node : JoinVia(n, d)
         \/ LeaveAlone(n)
         \/ Leave(n)
         \/ Ringstate(n)
         \/ \E k \in KeyId : LookupPublish(n, k)
  PROVE  OneFingerChain'
<1>0. /\ net \in Net /\ succ[n] \in Addr /\ pred[n] \in Addr /\ AnyAddr \in Addr /\ n \in Addr
      /\ SingleChain(net, ffTimer)
  BY DEF TypeOK, Net, Addr, OneFingerChain
<1>1. CASE JoinSelf(n) \/ LeaveAlone(n)
  BY <1>0, <1>1, NextChain DEF JoinSelf, LeaveAlone
<1>2. CASE \E d \in Node : JoinVia(n, d)
  <2>1. [type |-> "JOIN_CHORD"] \in Message /\ Plain([type |-> "JOIN_CHORD"])
    BY DEF Message, Plain
  <2> QED
    BY <1>0, <1>2, <2>1, AnswerChain DEF JoinVia
<1>3. CASE Leave(n)
  <2> DEFINE p == IF succ[n] = pred[n] THEN AnyAddr ELSE pred[n]
             toSucc == Send(net, n, succ[n], [type |-> "LEAVE_SUCCESSOR", addr |-> p])
  <2>1. p \in Addr
    BY <1>0
  <2>2. /\ [type |-> "LEAVE_SUCCESSOR", addr |-> p] \in Message
        /\ Plain([type |-> "LEAVE_SUCCESSOR", addr |-> p])
    BY <2>1 DEF Message, Plain
  <2>3. /\ [type |-> "LEAVE_PREDECESSOR", addr |-> succ[n]] \in Message
        /\ Plain([type |-> "LEAVE_PREDECESSOR", addr |-> succ[n]])
    BY <1>0 DEF Message, Plain
  <2>4. toSucc \in Net /\ SingleChain(toSucc, ffTimer)
    BY <1>0, <2>2, SendType, PlainChain
  <2>5. SingleChain(Farewell(n), ffTimer)
    BY <2>3, <2>4, PlainChain DEF Farewell
  <2> QED
    BY <1>3, <2>5, NextChain DEF Leave
<1>4. CASE Ringstate(n)
  <2>1. /\ [type |-> "RINGSTATE", addr |-> n] \in Message
        /\ Plain([type |-> "RINGSTATE", addr |-> n])
    BY <1>0 DEF Message, Plain
  <2> QED
    BY <1>0, <1>4, <2>1, AnswerChain DEF Ringstate
<1>5. CASE \E k \in KeyId : LookupPublish(n, k)
  <2>1. PICK k \in KeyId : LookupPublish(n, k)
    BY <1>5
  <2>2. /\ [type |-> "LOOKUP_PUBLISH", addr |-> n, key |-> k] \in Message
        /\ Plain([type |-> "LOOKUP_PUBLISH", addr |-> n, key |-> k])
    BY <1>0, DigestAssumption DEF Message, Plain
  <2> QED
    BY <1>0, <2>1, <2>2, ForwardChain DEF LookupPublish
<1> QED
  BY <1>1, <1>2, <1>3, <1>4, <1>5

(* FixFinger trades the running timer for the token. *)
LEMMA TimerChain ==
  ASSUME TypeOK, OneFingerChain, NEW n \in Node, TimerExpires(n)
  PROVE  OneFingerChain'
<1>0. net \in Net /\ SingleChain(net, ffTimer)
  BY DEF TypeOK, Net, OneFingerChain
<1>1. CASE Stabilize(n)
  <2>1. [type |-> "STABILIZE_REQ"] \in Message /\ Plain([type |-> "STABILIZE_REQ"])
    BY DEF Message, Plain
  <2> QED
    BY <1>0, <1>1, <2>1, AnswerChain DEF Stabilize
<1>2. CASE FixFinger(n)
  <2>1. Expired(n) \in [Node -> BOOLEAN] /\ ~Expired(n)[n]
    BY DEF TypeOK, Expired
  <2>2. NoToken(net, n)
    BY <1>0, <1>2 DEF FixFinger, SingleChain
  <2>3. SingleChain(net, Expired(n))
    BY <1>0 DEF TypeOK, SingleChain, Expired
  <2> QED
    BY <1>0, <1>2, <2>1, <2>2, <2>3, SendFindFingerChain DEF FixFinger
<1> QED
  BY <1>1, <1>2 DEF TimerExpires

(* The handlers of FIND_FINGER pass the token on, to another hop or back to *)
(* its node; the handler of FIND_FINGER_SUCCESS spends it and continues the *)
(* chain; the others leave tokens alone.                                    *)
LEMMA HandlerChain ==
  ASSUME TypeOK, OneFingerChain, NEW n \in Node, NEW s \in Node, RecvMessage(n, s)
  PROVE  OneFingerChain'
<1> DEFINE m  == Packet(n, s)
           ch == Received(n, s)
<1>0. net[s][n] # <<>>
  BY DEF RecvMessage, Arrives, ProcessJoinChord, ProcessFindSuccessor,
         ProcessJoinChordSuccess, ProcessJoinChordFail, ProcessNotify,
         ProcessStabilizeReq, ProcessStabilizeResp, ProcessLeaveSuccessor,
         ProcessLeavePredecessor, ProcessRingstate, ProcessFindFinger,
         ProcessFindFingerSuccess, ProcessLookupPublish, ProcessLookupPublishSuccess
<1>a. m \in Message /\ ch \in Net /\ SingleChain(ch, ffTimer)
  BY <1>0, ReceivedType, ReceivedChain
<1>b. /\ n \in Addr /\ s \in Addr /\ succ[n] \in Addr /\ pred[n] \in Addr
      /\ ffTimer \in [Node -> BOOLEAN]
  BY DEF TypeOK, Addr
<1>c. /\ [type |-> "NOTIFY"] \in Message /\ Plain([type |-> "NOTIFY"])
      /\ \A a \in Addr : JoinChordSuccess(a) \in Message /\ Plain(JoinChordSuccess(a))
  BY DEF Message, Plain, JoinChordSuccess
<1>d. ASSUME NEW d \in Addr, FindSuccessor(ch, n, d)
      PROVE  OneFingerChain'
  <2>1. /\ [type |-> "FIND_SUCCESSOR", addr |-> d] \in Message
        /\ Plain([type |-> "FIND_SUCCESSOR", addr |-> d])
    BY DEF Message, Plain
  <2> QED
    BY <1>a, <1>b, <1>c, <1>d, <2>1, AnswerChain, ForwardChain DEF FindSuccessor
<1>1. CASE ProcessJoinChord(n, s)
  <2>1. CASE Answer(ch, n, s, [type |-> "JOIN_CHORD_FAIL"])
    <3>1. [type |-> "JOIN_CHORD_FAIL"] \in Message /\ Plain([type |-> "JOIN_CHORD_FAIL"])
      BY DEF Message, Plain
    <3> QED
      BY <1>a, <2>1, <3>1, AnswerChain
  <2>2. CASE /\ net' = SendNotify(Send(ch, n, s, JoinChordSuccess(n)), n, s)
             /\ ffTimer' = ffTimer
    <3> DEFINE ch2 == Send(ch, n, s, JoinChordSuccess(n))
    <3>1. ch2 \in Net /\ SingleChain(ch2, ffTimer)
      BY <1>a, <1>b, <1>c, SendType, PlainChain
    <3>2. SingleChain(SendNotify(ch2, n, s), ffTimer)
      BY <1>c, <3>1, PlainChain DEF SendNotify
    <3> QED
      BY <2>2, <3>2, NextChain
  <2>3. CASE FindSuccessor(ch, n, s)
    BY <1>b, <1>d, <2>3
  <2> QED
    BY <1>1, <2>1, <2>2, <2>3 DEF ProcessJoinChord
<1>2. CASE ProcessFindSuccessor(n, s)
  <2>1. m.type = "FIND_SUCCESSOR"
    BY <1>2 DEF ProcessFindSuccessor, Arrives, Packet
  <2>2. m.addr \in Addr
    BY <1>a, <2>1 DEF Message
  <2> QED
    BY <1>2, <1>d, <2>2 DEF ProcessFindSuccessor
<1>3. CASE ProcessJoinChordSuccess(n, s)
  <2>1. SingleChain(SendNotify(ch, n, m.addr), ffTimer)
    BY <1>a, <1>c, PlainChain DEF SendNotify
  <2> QED
    BY <1>3, <2>1, NextChain DEF ProcessJoinChordSuccess
<1>4. CASE \/ ProcessJoinChordFail(n, s)
           \/ ProcessNotify(n, s)
           \/ ProcessLeaveSuccessor(n, s)
           \/ ProcessLeavePredecessor(n, s)
           \/ ProcessLookupPublishSuccess(n, s)
  BY <1>4, <1>a, NextChain
     DEF ProcessJoinChordFail, ProcessNotify, ProcessLeaveSuccessor,
         ProcessLeavePredecessor, ProcessLookupPublishSuccess, local
<1>5. CASE ProcessStabilizeReq(n, s)
  <2>1. /\ [type |-> "STABILIZE_RESP", addr |-> pred[n]] \in Message
        /\ Plain([type |-> "STABILIZE_RESP", addr |-> pred[n]])
    BY <1>b DEF Message, Plain
  <2>2. SingleChain(Send(ch, n, s, [type |-> "STABILIZE_RESP", addr |-> pred[n]]), ffTimer)
    BY <1>a, <2>1, PlainChain
  <2> QED
    BY <1>5, <1>a, <2>2, NextChain DEF ProcessStabilizeReq, local
<1>6. CASE ProcessStabilizeResp(n, s)
  <2>1. SingleChain(SendNotify(ch, n, m.addr), ffTimer)
    BY <1>a, <1>c, PlainChain DEF SendNotify
  <2> QED
    BY <1>6, <1>a, <2>1, NextChain DEF ProcessStabilizeResp
<1>7. CASE ProcessRingstate(n, s)
  <2>1. Plain(m)
    BY <1>7 DEF ProcessRingstate, Arrives, Packet, Plain
  <2>2. SingleChain(Send(ch, n, succ[n], m), ffTimer)
    BY <1>a, <2>1, PlainChain
  <2> QED
    BY <1>7, <1>a, <2>2, NextChain DEF ProcessRingstate, local
<1>8. CASE ProcessFindFinger(n, s)
  <2>1. m.type = "FIND_FINGER"
    BY <1>8 DEF ProcessFindFinger, Arrives, Packet
  <2>2. m.addr \in Node /\ m.index \in FingerIndex
    BY <1>a, <2>1 DEF Message
  <2>3. OneToken(net, m.addr) /\ (ffTimer[m.addr] => NoToken(net, m.addr))
    BY <2>2 DEF OneFingerChain, SingleChain
  <2>4. Carries(m.addr, n, m)
    BY <2>1 DEF Carries
  <2>5. NoToken(ch, m.addr) /\ ~ffTimer[m.addr]
    BY <1>0, <2>2, <2>3, <2>4, ReceivedToken
  <2>6. CASE ReplyFindFinger(ch, n, m)
    <3> DEFINE r == [type |-> "FIND_FINGER_SUCCESS", addr |-> succ[n], index |-> m.index]
    <3>1. r \in Message
      BY <1>b, <2>2 DEF Message
    <3>2. \A u \in Node : Carries(u, m.addr, r) => u = m.addr
      BY DEF Carries
    <3>3. SingleChain(Send(ch, n, m.addr, r), ffTimer)
      BY <1>a, <2>2, <2>5, <3>1, <3>2, TokenChain
    <3> QED
      BY <2>6, <3>3, NextChain DEF ReplyFindFinger, Answer, local
  <2>7. CASE Forward(ch, n, IndexHash(Digest[m.addr], m.index), m, {})
    <3>1. CASE Abort(n)
      BY <3>1, NextChain DEF Abort, local, OneFingerChain
    <3>2. CASE \E h \in Addr : net' = Send(ch, n, h, m) /\ ffTimer' = ffTimer
      <4>1. PICK h \in Addr : net' = Send(ch, n, h, m) /\ ffTimer' = ffTimer
        BY <3>2
      <4>2. \A u \in Node : Carries(u, h, m) => u = m.addr
        BY <2>1 DEF Carries
      <4>3. SingleChain(Send(ch, n, h, m), ffTimer)
        BY <1>a, <2>2, <2>5, <4>2, TokenChain
      <4> QED
        BY <4>1, <4>3, NextChain
    <3> QED
      BY <2>7, <3>1, <3>2 DEF Forward, local
  <2> QED
    BY <1>8, <2>6, <2>7 DEF ProcessFindFinger
<1>9. CASE ProcessFindFingerSuccess(n, s)
  <2>1. m.type = "FIND_FINGER_SUCCESS"
    BY <1>9 DEF ProcessFindFingerSuccess, Arrives, Packet
  <2>2. m.index + 1 \in Nat \ {0}
    BY <1>a, <2>1, MAssumption DEF Message, FingerIndex
  <2>3. OneToken(net, n) /\ (ffTimer[n] => NoToken(net, n))
    BY DEF OneFingerChain, SingleChain
  <2>4. Carries(n, n, m)
    BY <2>1 DEF Carries
  <2>5. NoToken(ch, n) /\ ~ffTimer[n]
    BY <1>0, <2>3, <2>4, ReceivedToken
  <2> QED
    BY <1>9, <1>a, <1>b, <2>2, <2>5, SendFindFingerChain DEF ProcessFindFingerSuccess
<1>10. CASE ProcessLookupPublish(n, s)
  <2>1. m.type = "LOOKUP_PUBLISH"
    BY <1>10 DEF ProcessLookupPublish, Arrives, Packet
  <2>2. m.key \in Id /\ Plain(m)
    BY <1>a, <2>1 DEF Message, Plain
  <2> DEFINE r == [type |-> "LOOKUP_PUBLISH_SUCCESS", addr |-> succ[n], key |-> m.key]
  <2>3. r \in Message /\ Plain(r)
    BY <1>b, <2>2 DEF Message, Plain
  <2>4. CASE ReplyLookupPublishSuccess(ch, n, m)
    BY <1>a, <2>3, <2>4, AnswerChain DEF ReplyLookupPublishSuccess
  <2>5. CASE Forward(ch, n, m.key, m, {})
    BY <1>a, <2>2, <2>5, ForwardChain
  <2> QED
    BY <1>10, <2>4, <2>5 DEF ProcessLookupPublish
<1> QED
  BY <1>1, <1>2, <1>3, <1>4, <1>5, <1>6, <1>7, <1>8, <1>9, <1>10 DEF RecvMessage

(* Every step keeps one chain per node. *)
LEMMA StepChain == TypeOK /\ OneFingerChain /\ [Next]_vars => OneFingerChain'
<1> SUFFICES ASSUME TypeOK, OneFingerChain, [Next]_vars PROVE OneFingerChain'
  OBVIOUS
<1>1. CASE UserCommand
  BY <1>1, CommandChain DEF UserCommand
<1>2. CASE \E n \in Node : TimerExpires(n)
  BY <1>2, TimerChain
<1>3. CASE \E n, s \in Node : RecvMessage(n, s)
  BY <1>3, HandlerChain
<1>4. CASE \E n, s \in Node : Lose(n, s)
  BY <1>4, ReceivedChain, NextChain DEF Lose, local
<1>5. CASE UNCHANGED vars
  BY <1>5, NextChain DEF vars, OneFingerChain
<1> QED
  BY <1>1, <1>2, <1>3, <1>4, <1>5 DEF Next

(* At any time a node has a running fix-finger timer, or one FIND_FINGER or  *)
(* FIND_FINGER_SUCCESS on its way, never both and never two: a timer that is *)
(* running is not scheduled again, in whatever order nodes join and leave,   *)
(* queries are forwarded and packets are lost.                               *)
THEOREM FingerChainSingle == Spec => []OneFingerChain
<1>1. Init => OneFingerChain
  BY DEF Init, OneFingerChain, SingleChain, OneToken, NoToken, Token
<1>2. TypeOK /\ OneFingerChain /\ [Next]_vars => OneFingerChain'
  BY StepChain
<1> QED
  BY <1>1, <1>2, TypeCorrect, PTL DEF Spec

-----------------------------------------------------------------------------
(* The ring invariant.  A ring is calm: all pointers of members, and all that *)
(* packets on their way say, lead from member to member towards one of them,  *)
(* the anchor L, and c says that the same holds of the fingers.  Or its        *)
(* founder m has just taken the first newcomer s for its successor, which is   *)
(* not in the ring yet.  Or a member has left and its neighbours are being     *)
(* told.                                                                      *)

(* The packets of a join and of a RINGSTATE: a command starts one when the *)
(* network is empty, and every handler sends at most one for the one taken. *)
Thread ==
  {"JOIN_CHORD", "JOIN_CHORD_FAIL", "FIND_SUCCESSOR", "JOIN_CHORD_SUCCESS", "RINGSTATE"}

OneThread(ch) ==
  \A s1, s2, d1, d2 \in Node :
    \A i1 \in DOMAIN ch[s1][d1], i2 \in DOMAIN ch[s2][d2] :
      ch[s1][d1][i1].type \in Thread /\ ch[s2][d2][i2].type \in Thread
        => s1 = s2 /\ d1 = d2 /\ i1 = i2

NoThread(ch) ==
  \A s, d \in Node : \A i \in DOMAIN ch[s][d] : ch[s][d][i].type \notin Thread

SomeoneAlone == \E m \in Members : succ[m] = m

(* What a packet x from s to d may say, in a ring of the nodes mem. *)
Sound(mem, alone, L, c, s, d, x) ==
  /\ x.type = "JOIN_CHORD" => c /\ s \notin mem
  /\ x.type = "FIND_SUCCESSOR" => c /\ x.addr \in Node \ mem /\ d \in mem
  /\ x.type = "JOIN_CHORD_SUCCESS" =>
       /\ d \notin mem /\ x.addr \in mem
       /\ Within(Digest[d], Digest[x.addr], Digest[L])
  /\ x.type = "NOTIFY" => s \in mem
  /\ x.type = "STABILIZE_REQ" => s \in mem /\ d \in mem
  /\ x.type = "STABILIZE_RESP" => d \in mem /\ x.addr \in mem
  /\ x.type = "FIND_FINGER" => x.addr \in mem /\ (c => d \in mem)
  /\ x.type = "FIND_FINGER_SUCCESS" => d \in mem /\ (c => x.addr \in mem)
  /\ x.type \notin {"LEAVE_SUCCESSOR", "LEAVE_PREDECESSOR"}
  /\ alone => x.type \in {"JOIN_CHORD", "JOIN_CHORD_FAIL", "RINGSTATE"}

Sounds(ch, mem, alone, L, c) ==
  \A s, d \in Node : \A i \in DOMAIN ch[s][d] : Sound(mem, alone, L, c, s, d, ch[s][d][i])

Anchored(L, c) ==
  /\ L \in Node /\ c \in BOOLEAN
  /\ Members # {} => L \in Members
  /\ NobodyLeft => L = Landmark /\ c

Pointers(L) ==
  \A n \in Members :
    /\ succ[n] \in Members
    /\ succ[n] = n => Members = {n}
    /\ pred[n] \in Members \cup {AnyAddr}
    /\ n # L => Within(Digest[n], Digest[succ[n]], Digest[L])

Outside == \A n \in Node \ Members : succ[n] = AnyAddr /\ Entries(n) = {}

Calm(L, c) ==
  /\ Anchored(L, c) /\ Pointers(L) /\ Outside
  /\ c => FingersInRing
  /\ Sounds(net, Members, SomeoneAlone, L, c)
  /\ OneThread(net)

(* The founder m has taken s for its successor, which does not know yet. *)
FoundingPacket(m, x) ==
  \/ x \in {[type |-> "NOTIFY"], [type |-> "STABILIZE_REQ"]}
  \/ x.type = "FIND_FINGER" /\ x.addr = m

Founding(m, s) ==
  /\ m \in Node /\ s \in Node /\ m # s
  /\ Members = {m} /\ succ[m] = s /\ pred[m] \in {m, AnyAddr}
  /\ NobodyLeft => m = Landmark
  /\ \A i \in Entries(m) : finger[m][i] \in {m, s}
  /\ Outside
  /\ net[m][s] # <<>> /\ Head(net[m][s]) = JoinChordSuccess(m)
  /\ \A a, b \in Node : \A i \in DOMAIN net[a][b] :
       /\ a = m /\ b = s
       /\ i # 1 => FoundingPacket(m, net[a][b][i])

LeaveSuccessor(q) == [type |-> "LEAVE_SUCCESSOR", addr |-> q]
LeavePredecessor(s) == [type |-> "LEAVE_PREDECESSOR", addr |-> s]

InFlight(d, x) == \E a \in Node : \E i \in DOMAIN net[a][d] : net[a][d][i] = x

(* A node between p and s has left; q is what s is told of its predecessor. *)
Parted(p, s, q) ==
  /\ p \in Members /\ s \in Members /\ q \in {AnyAddr, p}
  /\ ~NobodyLeft
  /\ \A a, b \in Node : \A i \in DOMAIN net[a][b] :
       \/ b = s /\ net[a][b][i] = LeaveSuccessor(q)
       \/ b = p /\ net[a][b][i] = LeavePredecessor(s)
  /\ succ[p] = s \/ InFlight(p, LeavePredecessor(s))
  /\ pred[s] = q \/ InFlight(s, LeaveSuccessor(q))
  /\ \A n \in Members \ {p} :
       succ[n] \in Members \ {n} /\ Within(Digest[n], Digest[succ[n]], Digest[p])
  /\ \A n \in Members \ {s} : pred[n] \in Members \cup {AnyAddr}
  /\ Outside
  /\ p = s => Members = {p}

RInv ==
  \/ \E L \in Node, c \in BOOLEAN : Calm(L, c)
  \/ \E m, s \in Node : Founding(m, s)
  \/ \E p, s \in Node, q \in Addr : Parted(p, s, q)

(* Sending adds a packet to what is known of the others. *)
LEMMA SendSounds ==
  ASSUME NEW ch \in Net, NEW n \in Node, NEW d, NEW m \in Message,
         NEW mem, NEW alone, NEW L, NEW c,
         Sounds(ch, mem, alone, L, c),
         d \in Node => Sound(mem, alone, L, c, n, d, m)
  PROVE  Sounds(Send(ch, n, d, m), mem, alone, L, c)
<1>1. CASE d \notin Node
  BY <1>1 DEF Send
<1>2. CASE d \in Node
  <2> SUFFICES ASSUME NEW s2 \in Node, NEW d2 \in Node,
                      NEW i \in DOMAIN Send(ch, n, d, m)[s2][d2]
               PROVE  Sound(mem, alone, L, c, s2, d2, Send(ch, n, d, m)[s2][d2][i])
    BY DEF Sounds
  <2>1. \/ i \in DOMAIN ch[s2][d2] /\ Send(ch, n, d, m)[s2][d2][i] = ch[s2][d2][i]
        \/ s2 = n /\ d2 = d /\ Send(ch, n, d, m)[s2][d2][i] = m
    BY <1>2, SendChannel
  <2>2. CASE i \in DOMAIN ch[s2][d2] /\ Send(ch, n, d, m)[s2][d2][i] = ch[s2][d2][i]
    <3>1. Sound(mem, alone, L, c, s2, d2, ch[s2][d2][i])
      BY <2>2, Zenon DEF Sounds
    <3> QED
      BY <2>2, <3>1
  <2>3. CASE s2 = n /\ d2 = d /\ Send(ch, n, d, m)[s2][d2][i] = m
    BY <1>2, <2>3
  <2> QED
    BY <2>1, <2>2, <2>3
<1> QED
  BY <1>1, <1>2

(* The packet taken was sound, and so are those that stay. *)
LEMMA ReceivedSounds ==
  ASSUME TypeOK, NEW n \in Node, NEW s \in Node, net[s][n] # <<>>,
         NEW mem, NEW alone, NEW L, NEW c,
         Sounds(net, mem, alone, L, c)
  PROVE  /\ Sounds(Received(n, s), mem, alone, L, c)
         /\ Sound(mem, alone, L, c, s, n, Packet(n, s))
<1>1. net[s][n] \in Seq(Message)
  BY DEF TypeOK
<1>2. 1 \in DOMAIN net[s][n] /\ Packet(n, s) = net[s][n][1]
  BY <1>1 DEF Packet
<1>3. Sound(mem, alone, L, c, s, n, net[s][n][1])
  BY <1>2, Zenon DEF Sounds
<1>4. ASSUME NEW s2 \in Node, NEW d2 \in Node,
             NEW i \in DOMAIN Received(n, s)[s2][d2]
      PROVE  Sound(mem, alone, L, c, s2, d2, Received(n, s)[s2][d2][i])
  <2>1. PICK j \in DOMAIN net[s2][d2] : Received(n, s)[s2][d2][i] = net[s2][d2][j]
    BY ReceivedChannel
  <2>2. Sound(mem, alone, L, c, s2, d2, net[s2][d2][j])
    BY <2>1, Zenon DEF Sounds
  <2> QED
    BY <2>1, <2>2
<1> QED
  BY <1>2, <1>3, <1>4 DEF Sounds

(* Threads: as with the tokens of the finger chain. *)
LEMMA SendThread ==
  ASSUME NEW ch \in Net, NEW n \in Node, NEW d, NEW m \in Message
  PROVE  /\ m.type \notin Thread /\ OneThread(ch) => OneThread(Send(ch, n, d, m))
         /\ m.type \notin Thread /\ NoThread(ch) => NoThread(Send(ch, n, d, m))
         /\ NoThread(ch) => OneThread(Send(ch, n, d, m))
<1>1. CASE d \notin Node
  BY <1>1 DEF Send, NoThread, OneThread
<1>2. CASE d \in Node
  <2> DEFINE ch2 == Send(ch, n, d, m)
  <2>1. ASSUME NEW s2 \in Node, NEW d2 \in Node, NEW i \in DOMAIN ch2[s2][d2]
        PROVE  \/ i \in DOMAIN ch[s2][d2] /\ ch2[s2][d2][i] = ch[s2][d2][i]
               \/ s2 = n /\ d2 = d /\ i = Len(ch[n][d]) + 1 /\ ch2[s2][d2][i] = m
    BY <1>2, SendChannel
  <2> HIDE DEF ch2
  <2>2. m.type \notin Thread /\ OneThread(ch) => OneThread(ch2)
    BY <2>1 DEF OneThread
  <2>3. m.type \notin Thread /\ NoThread(ch) => NoThread(ch2)
    BY <2>1 DEF NoThread
  <2>4. NoThread(ch) => OneThread(ch2)
    BY <2>1 DEF NoThread, OneThread
  <2> QED
    BY <2>2, <2>3, <2>4 DEF ch2
<1> QED
  BY <1>1, <1>2

(* Whoever takes the packet of a thread has the only one. *)
LEMMA ReceivedThread ==
  ASSUME TypeOK, NEW n \in Node, NEW s \in Node, net[s][n] # <<>>, OneThread(net)
  PROVE  /\ OneThread(Received(n, s))
         /\ Packet(n, s).type \in Thread => NoThread(Received(n, s))
<1> DEFINE ch == Received(n, s)
<1>1. net[s][n] \in Seq(Message)
  BY DEF TypeOK
<1>2. 1 \in DOMAIN net[s][n] /\ Packet(n, s) = net[s][n][1]
  BY <1>1 DEF Packet
<1>3. ASSUME NEW s2 \in Node, NEW d2 \in Node, NEW i \in DOMAIN ch[s2][d2]
      PROVE  \E j \in DOMAIN net[s2][d2] :
               /\ ch[s2][d2][i] = net[s2][d2][j]
               /\ IF s2 = s /\ d2 = n THEN i \in Nat /\ i >= 1 /\ j = i + 1 ELSE j = i
  BY ReceivedChannel
<1> HIDE DEF ch
<1>4. OneThread(ch)
  <2> SUFFICES ASSUME NEW s1 \in Node, NEW s2 \in Node, NEW d1 \in Node, NEW d2 \in Node,
                      NEW i1 \in DOMAIN ch[s1][d1], NEW i2 \in DOMAIN ch[s2][d2],
                      ch[s1][d1][i1].type \in Thread, ch[s2][d2][i2].type \in Thread
               PROVE  s1 = s2 /\ d1 = d2 /\ i1 = i2
    BY DEF OneThread
  <2>1. PICK j1 \in DOMAIN net[s1][d1] :
          /\ ch[s1][d1][i1] = net[s1][d1][j1]
          /\ IF s1 = s /\ d1 = n THEN i1 \in Nat /\ i1 >= 1 /\ j1 = i1 + 1 ELSE j1 = i1
    BY <1>3
  <2>2. PICK j2 \in DOMAIN net[s2][d2] :
          /\ ch[s2][d2][i2] = net[s2][d2][j2]
          /\ IF s2 = s /\ d2 = n THEN i2 \in Nat /\ i2 >= 1 /\ j2 = i2 + 1 ELSE j2 = i2
    BY <1>3
  <2>3. s1 = s2 /\ d1 = d2 /\ j1 = j2
    BY <2>1, <2>2 DEF OneThread
  <2> QED
    BY <2>1, <2>2, <2>3
<1>5. ASSUME net[s][n][1].type \in Thread PROVE NoThread(ch)
  <2> SUFFICES ASSUME NEW s2 \in Node, NEW d2 \in Node, NEW i \in DOMAIN ch[s2][d2],
                      ch[s2][d2][i].type \in Thread
               PROVE  FALSE
    BY DEF NoThread
  <2>1. PICK j \in DOMAIN net[s2][d2] :
          /\ ch[s2][d2][i] = net[s2][d2][j]
          /\ IF s2 = s /\ d2 = n THEN i \in Nat /\ i >= 1 /\ j = i + 1 ELSE j = i
    BY <1>3
  <2>2. s2 = s /\ d2 = n /\ j = 1
    BY <1>2, <1>5, <2>1 DEF OneThread
  <2> QED
    BY <2>1, <2>2
<1> QED
  BY <1>2, <1>4, <1>5 DEF ch

(* Where nothing is on its way. *)
LEMMA DrainedNet ==
  ASSUME NEW ch, \A s, d \in Node : ch[s][d] = <<>>,
         NEW mem, NEW alone, NEW L, NEW c
  PROVE  NoThread(ch) /\ OneThread(ch) /\ Sounds(ch, mem, alone, L, c)
<1>1. \A s, d \in Node : DOMAIN ch[s][d] = {}
  OBVIOUS
<1> QED
  BY <1>1 DEF NoThread, OneThread, Sounds

-----------------------------------------------------------------------------
(* Geometry *)

(* The circle has a size. *)
LEMMA CircleSize == 2^M \in Nat /\ 2^M > 0
BY MAssumption, PowerOfTwo

(* Whoever is between a and b is no further from b than a is. *)
LEMMA Between ==
  ASSUME NEW a \in Id, NEW x \in Id, NEW b \in Id, a # x,
         Within(a, x, b)
  PROVE  /\ Clockwise(x, b) < Clockwise(a, b)
         /\ Clockwise(a, b) = Clockwise(a, x) + Clockwise(x, b)
BY CircleSize DEF Id, Within, Clockwise

(* A newcomer x between a and its successor y, short of l as y is. *)
LEMMA Inserted ==
  ASSUME NEW a \in Id, NEW x \in Id, NEW y \in Id, NEW l \in Id,
         Within(a, x, y), Within(a, y, l), x # a, x # l
  PROVE  Within(x, y, l)
BY CircleSize DEF Id, Within, Clockwise

(* The same when y is where the way ends. *)
LEMMA InsertedAtAnchor ==
  ASSUME NEW a \in Id, NEW x \in Id, NEW y \in Id,
         Within(a, x, y), x # a
  PROVE  Within(x, y, a)
BY CircleSize DEF Id, Within, Clockwise

(* An arc within an arc. *)
LEMMA WithinTransitive ==
  ASSUME NEW a \in Id, NEW x \in Id, NEW y \in Id, NEW l \in Id,
         Within(a, x, y), Within(a, y, l)
  PROVE  Within(a, x, l)
BY CircleSize DEF Id, Within, Clockwise

(* Addresses are told apart by their digests. *)
LEMMA DigestFacts ==
  /\ \A a \in Addr : Digest[a] \in Id
  /\ \A a, b \in Addr : Digest[a] = Digest[b] => a = b
  /\ \A n \in Node : n \in Addr /\ Digest[n] \in Id /\ n # AnyAddr
BY DigestAssumption, AddrAssumption DEF Addr

-----------------------------------------------------------------------------
(* A calm ring: what carries over to the next state *)

(* A step that moves no successor and lets nobody in or out. *)
LEMMA NextCalm ==
  ASSUME NEW L \in Node, NEW c \in BOOLEAN, Calm(L, c),
         status' = status, succ' = succ, NobodyLeft' => NobodyLeft,
         \A n \in Members : pred'[n] \in Members \cup {AnyAddr},
         c => FingersInRing', Outside',
         NEW ch, net' = ch,
         Sounds(ch, Members, SomeoneAlone, L, c), OneThread(ch)
  PROVE  Calm(L, c)'
<1>1. Members' = Members
  BY DEF Members
<1>2. SomeoneAlone' = SomeoneAlone
  BY <1>1 DEF SomeoneAlone
<1>3. Anchored(L, c)'
  BY <1>1 DEF Calm, Anchored
<1>4. Pointers(L)'
  BY <1>1 DEF Calm, Pointers
<1>5. Sounds(net, Members, SomeoneAlone, L, c)'
  BY <1>1, <1>2 DEF Sounds, Sound
<1>6. OneThread(net)'
  BY DEF OneThread
<1> QED
  BY <1>3, <1>4, <1>5, <1>6 DEF Calm

(* Nothing but the network changes. *)
LEMMA LocalCalm ==
  ASSUME NEW L \in Node, NEW c \in BOOLEAN, Calm(L, c),
         UNCHANGED local, NobodyLeft' => NobodyLeft,
         NEW ch, net' = ch,
         Sounds(ch, Members, SomeoneAlone, L, c), OneThread(ch)
  PROVE  Calm(L, c)'
<1>1. Members' = Members
  BY DEF local, Members
<1>2. Outside'
  BY <1>1 DEF Calm, Outside, Entries, local
<1>3. c => FingersInRing'
  BY <1>1 DEF Calm, FingersInRing, Entries, local
<1>4. \A n \in Members : pred'[n] \in Members \cup {AnyAddr}
  BY DEF Calm, Pointers, local
<1> QED
  BY <1>2, <1>3, <1>4, NextCalm DEF local

(* Sending a packet that is sound, and starts no second thread. *)
LEMMA AnswerCalm ==
  ASSUME NEW L \in Node, NEW c \in BOOLEAN, Calm(L, c),
         NEW ch \in Net, Sounds(ch, Members, SomeoneAlone, L, c), OneThread(ch),
         NEW n \in Node, NEW d, NEW m \in Message,
         d \in Node => Sound(Members, SomeoneAlone, L, c, n, d, m),
         NoThread(ch) \/ m.type \notin Thread,
         Answer(ch, n, d, m), NobodyLeft' => NobodyLeft
  PROVE  Calm(L, c)'
<1>1. Sounds(Send(ch, n, d, m), Members, SomeoneAlone, L, c)
  BY SendSounds
<1>2. OneThread(Send(ch, n, d, m))
  BY SendThread
<1>3. net' = Send(ch, n, d, m) /\ UNCHANGED local
  BY DEF Answer
<1> QED
  BY <1>1, <1>2, <1>3, LocalCalm

(* A member whose fingers are members forwards to a member. *)
LEMMA HopIsMember ==
  ASSUME NEW L \in Node, NEW c \in BOOLEAN, Calm(L, c), c,
         NEW n \in Members, NEW t, NEW h, NextHop(n, t, h)
  PROVE  h \in Members
<1>1. succ[n] \in Members /\ \A i \in Entries(n) : finger[n][i] \in Members
  BY DEF Calm, Pointers, FingersInRing
<1> QED
  BY <1>1 DEF NextHop, Closer

(* Forwarding it, whether the node knows a way or dies. *)
LEMMA ForwardCalm ==
  ASSUME NEW L \in Node, NEW c \in BOOLEAN, Calm(L, c),
         NEW ch \in Net, Sounds(ch, Members, SomeoneAlone, L, c), OneThread(ch),
         NEW n \in Node, NEW t, NEW m \in Message, NEW calls,
         \A h \in Addr : NextHop(n, t, h) /\ h \in Node
                           => Sound(Members, SomeoneAlone, L, c, n, h, m),
         NoThread(ch) \/ m.type \notin Thread,
         Forward(ch, n, t, m, calls), NobodyLeft' => NobodyLeft
  PROVE  Calm(L, c)'
<1>1. CASE Abort(n)
  <2>1. Sounds(net, Members, SomeoneAlone, L, c) /\ OneThread(net)
    BY DEF Calm
  <2>2. net' = net /\ UNCHANGED local
    BY <1>1 DEF Abort
  <2> QED
    BY <2>1, <2>2, LocalCalm
<1>2. CASE /\ \E h \in Addr : NextHop(n, t, h) /\ net' = Send(ch, n, h, m)
           /\ UNCHANGED local
  <2>1. PICK h \in Addr : NextHop(n, t, h) /\ net' = Send(ch, n, h, m)
    BY <1>2
  <2>2. Sounds(Send(ch, n, h, m), Members, SomeoneAlone, L, c)
    BY <2>1, SendSounds
  <2>3. OneThread(Send(ch, n, h, m))
    BY SendThread
  <2> QED
    BY <1>2, <2>1, <2>2, <2>3, LocalCalm
<1> QED
  BY <1>1, <1>2 DEF Forward

(* n has sent no FIND_FINGER over the network ch, or one to f: ch2 results. *)
Asked(ch2, ch, n, f) ==
  \/ ch2 = ch
  \/ \E k \in FingerIndex :
       ch2 = Send(ch, n, f, [type |-> "FIND_FINGER", addr |-> n, index |-> k])

(* What SendFindFinger does to the table and to the network. *)
LEMMA SendFindFingerEffect ==
  ASSUME TypeOK, NEW ch, NEW n \in Node, NEW running, NEW tab, NEW f, NEW i \in Nat \ {0},
         SendFindFinger(ch, n, running, tab, f, i)
  PROVE  /\ \A x \in Node \ {n} : finger'[x] = finger[x]
         /\ \A j \in FingerIndex : finger'[n][j] \in {f, tab[j]}
         /\ Asked(net', ch, n, f)
<1>1. PICK stop \in i .. (LastIndex + 1) :
        /\ finger' = [finger EXCEPT ![n] =
             [j \in FingerIndex |-> IF j \in i .. (stop - 1) THEN f ELSE tab[j]]]
        /\ IF stop > LastIndex
             THEN ffTimer' = Rearmed(running, n) /\ net' = ch
             ELSE /\ ffTimer' = running
                  /\ net' = Send(ch, n, f, [type |-> "FIND_FINGER", addr |-> n,
                                            index |-> stop])
  BY DEF SendFindFinger
<1>2. finger'[n] = [j \in FingerIndex |-> IF j \in i .. (stop - 1) THEN f ELSE tab[j]]
  BY <1>1 DEF TypeOK
<1>3. \A j \in FingerIndex : finger'[n][j] \in {f, tab[j]}
  BY <1>2
<1>4. \A x \in Node \ {n} : finger'[x] = finger[x]
  BY <1>1 DEF TypeOK
<1>5. CASE stop > LastIndex
  BY <1>1, <1>3, <1>4, <1>5 DEF Asked
<1>6. CASE ~(stop > LastIndex)
  <2>1. stop \in FingerIndex
    BY <1>6, MAssumption DEF FingerIndex, LastIndex
  <2> QED
    BY <1>1, <1>3, <1>4, <1>6, <2>1 DEF Asked
<1> QED
  BY <1>5, <1>6

(* The fingers of n after it has put f into its table, at k and after. *)
LEMMA FingerCalm ==
  ASSUME TypeOK, NEW L \in Node, NEW c \in BOOLEAN, Calm(L, c), ~SomeoneAlone,
         NEW ch \in Net, Sounds(ch, Members, SomeoneAlone, L, c), OneThread(ch),
         NEW n \in Members, NEW f \in Addr, c => f \in Members, NEW k \in FingerIndex,
         NEW running, NEW i \in Nat \ {0},
         SendFindFinger(ch, n, running, [finger[n] EXCEPT ![k] = f], f, i),
         UNCHANGED <<status, succ, pred, used>>
  PROVE  Calm(L, c)'
<1> DEFINE tab == [finger[n] EXCEPT ![k] = f]
<1>0. n \in Node
  BY DEF Members
<1>1. finger[n] \in [FingerIndex -> Addr \cup {NoEntry}]
  BY <1>0 DEF TypeOK
<1>2. \A j \in FingerIndex : tab[j] \in {f, finger[n][j]}
  BY <1>1
<1>a. SendFindFinger(ch, n, running, tab, f, i)
  OBVIOUS
<1> HIDE DEF tab
<1>b. \A j \in FingerIndex : finger'[n][j] \in {f, tab[j]}
  BY <1>0, <1>a, SendFindFingerEffect
<1>3. \A j \in FingerIndex : finger'[n][j] \in {f, finger[n][j]}
  BY <1>2, <1>b
<1>4. \A x \in Node \ {n} : finger'[x] = finger[x]
  BY <1>0, <1>a, SendFindFingerEffect
<1>5. Members' = Members
  BY DEF Members
<1>6. \A x \in Node : \A j \in Entries(x)' : /\ j \in FingerIndex
                                             /\ finger'[x][j] # NoEntry
  BY DEF Entries
<1>7. Outside'
  <2> SUFFICES ASSUME NEW x \in Node \ Members PROVE succ'[x] = AnyAddr /\ Entries(x)' = {}
    BY <1>5 DEF Outside
  <2>1. x # n /\ finger'[x] = finger[x]
    BY <1>4
  <2> QED
    BY <2>1 DEF Calm, Outside, Entries
<1>8. c => FingersInRing'
  <2> SUFFICES ASSUME c, NEW x \in Members, NEW j \in Entries(x)'
               PROVE  finger'[x][j] \in Members
    BY <1>5 DEF FingersInRing
  <2>1. j \in FingerIndex /\ finger'[x][j] # NoEntry
    BY <1>6 DEF Members
  <2>2. \A y \in FingerIndex : finger[x][y] # NoEntry => finger[x][y] \in Members
    BY DEF Calm, FingersInRing, Entries
  <2>3. CASE x = n
    BY <1>3, <2>1, <2>2, <2>3
  <2>4. CASE x # n
    BY <1>4, <2>1, <2>2, <2>4 DEF Members
  <2> QED
    BY <2>3, <2>4
<1>9. \A x \in Members : pred'[x] \in Members \cup {AnyAddr}
  BY DEF Calm, Pointers
<1>12. Asked(net', ch, n, f)
  BY <1>0, <1>a, SendFindFingerEffect
<1>10. CASE net' = ch
  BY <1>7, <1>8, <1>9, <1>10, NextCalm DEF NobodyLeft
<1>11. CASE \E j \in FingerIndex :
              net' = Send(ch, n, f, [type |-> "FIND_FINGER", addr |-> n, index |-> j])
  <2>1. PICK j \in FingerIndex :
          net' = Send(ch, n, f, [type |-> "FIND_FINGER", addr |-> n, index |-> j])
    BY <1>11
  <2> DEFINE m == [type |-> "FIND_FINGER", addr |-> n, index |-> j]
  <2>2. m \in Message /\ m.type \notin Thread
    BY <1>0 DEF Message, Thread
  <2>3. Sound(Members, SomeoneAlone, L, c, n, f, m)
    BY DEF Sound
  <2>4. Sounds(Send(ch, n, f, m), Members, SomeoneAlone, L, c) /\ OneThread(Send(ch, n, f, m))
    BY <1>0, <2>2, <2>3, SendSounds, SendThread
  <2> QED
    BY <1>7, <1>8, <1>9, <2>1, <2>4, NextCalm DEF NobodyLeft
<1> QED
  BY <1>10, <1>11, <1>12 DEF Asked

-----------------------------------------------------------------------------
(* A calm ring: the handlers *)

(* A member finds a place for d, or asks the next member to. *)
LEMMA FindSuccessorCalm ==
  ASSUME TypeOK, NEW L \in Node, NEW c \in BOOLEAN, Calm(L, c), c, ~SomeoneAlone,
         NEW ch \in Net, Sounds(ch, Members, SomeoneAlone, L, c), NoThread(ch), OneThread(ch),
         NEW n \in Members, NEW d \in Node \ Members,
         FindSuccessor(ch, n, d), used' = used
  PROVE  Calm(L, c)'
<1>0. /\ n \in Node /\ n \in Addr /\ d \in Addr
      /\ succ[n] \in Members /\ succ[n] \in Addr /\ succ[n] # n /\ L \in Members /\ L \in Addr
      /\ n # L => Within(Digest[n], Digest[succ[n]], Digest[L])
      /\ Members \subseteq Node
      /\ NobodyLeft' => NobodyLeft
  BY DEF Calm, Pointers, Anchored, SomeoneAlone, Members, Addr, NobodyLeft
<1>1. CASE Responsible(n, Digest[d]) /\ Answer(ch, n, d, JoinChordSuccess(succ[n]))
  <2>1. Within(Digest[n], Digest[d], Digest[succ[n]])
    <3>1. Digest[n] # Digest[succ[n]]
      BY <1>0, DigestFacts
    <3> QED
      BY <1>0, <1>1, <3>1, DigestFacts, ArcIsClosed DEF Responsible
  <2>2. Digest[d] # Digest[n] /\ Digest[d] # Digest[L]
    BY <1>0, DigestFacts
  <2>3. Within(Digest[d], Digest[succ[n]], Digest[L])
    <3>1. CASE n = L
      BY <1>0, <2>1, <2>2, <3>1, DigestFacts, InsertedAtAnchor
    <3>2. CASE n # L
      BY <1>0, <2>1, <2>2, <3>2, DigestFacts, Inserted
    <3> QED
      BY <3>1, <3>2
  <2>4. JoinChordSuccess(succ[n]) \in Message
    BY <1>0 DEF JoinChordSuccess, Message
  <2>5. Sound(Members, SomeoneAlone, L, c, n, d, JoinChordSuccess(succ[n]))
    BY <1>0, <2>3 DEF Sound, JoinChordSuccess
  <2> QED
    BY <1>0, <1>1, <2>4, <2>5, AnswerCalm
<1>2. CASE Forward(ch, n, Digest[d], [type |-> "FIND_SUCCESSOR", addr |-> d], {})
  <2> DEFINE m == [type |-> "FIND_SUCCESSOR", addr |-> d]
  <2>1. m \in Message
    BY <1>0 DEF Message
  <2>2. \A h \in Addr : NextHop(n, Digest[d], h) => h \in Members
    BY HopIsMember
  <2>3. \A h \in Members : Sound(Members, SomeoneAlone, L, c, n, h, m)
    BY DEF Sound
  <2> HIDE DEF m
  <2> QED
    BY <1>0, <1>2, <2>1, <2>2, <2>3, ForwardCalm DEF m
<1> QED
  BY <1>1, <1>2 DEF FindSuccessor

(* When somebody is alone, a JOIN_CHORD is the only packet there is. *)
LEMMA OnlyPacket ==
  ASSUME TypeOK, NEW L \in Node, NEW c \in BOOLEAN, Calm(L, c), SomeoneAlone,
         NEW n \in Node, NEW s \in Node, net[s][n] # <<>>, Packet(n, s).type \in Thread
  PROVE  \A a, b \in Node : Received(n, s)[a][b] = <<>>
<1>1. NoThread(Received(n, s))
  BY ReceivedThread DEF Calm
<1>2. Sounds(Received(n, s), Members, SomeoneAlone, L, c)
  BY ReceivedSounds DEF Calm
<1>3. Received(n, s) \in Net
  BY ReceivedType
<1> SUFFICES ASSUME NEW a \in Node, NEW b \in Node, Received(n, s)[a][b] # <<>>
             PROVE  FALSE
  OBVIOUS
<1>4. Received(n, s)[a][b] \in Seq(Message)
  BY <1>3 DEF Net
<1>5. 1 \in DOMAIN Received(n, s)[a][b]
  BY <1>4
<1>6. Received(n, s)[a][b][1].type \notin Thread
  BY <1>1, <1>5 DEF NoThread
<1>7. Sound(Members, SomeoneAlone, L, c, a, b, Received(n, s)[a][b][1])
  BY <1>2, <1>5, Zenon DEF Sounds
<1> QED
  BY <1>6, <1>7 DEF Sound, Thread

(* Two packets to one node on an empty network. *)
LEMMA TwoPackets ==
  ASSUME NEW ch \in Net, \A a, b \in Node : ch[a][b] = <<>>,
         NEW n \in Node, NEW d \in Node, NEW x \in Message, NEW y \in Message,
         NEW r, r = Send(Send(ch, n, d, x), n, d, y)
  PROVE  /\ r[n][d] # <<>> /\ Head(r[n][d]) = x
         /\ \A a, b \in Node : \A i \in DOMAIN r[a][b] :
              a = n /\ b = d /\ (i # 1 => r[a][b][i] = y)
<1> DEFINE r1 == Send(ch, n, d, x)
<1>1. r1 \in Net
  BY SendType
<1>2. r1[n][d] = Append(ch[n][d], x)
  BY DEF Send, Net
<1>3. \A a, b \in Node : ~(a = n /\ b = d) => r1[a][b] = ch[a][b]
  BY DEF Send, Net
<1>4. r = Send(r1, n, d, y)
  OBVIOUS
<1> HIDE DEF r1
<1>5. r[n][d] = Append(r1[n][d], y)
  BY <1>1, <1>4 DEF Send, Net
<1>6. \A a, b \in Node : ~(a = n /\ b = d) => r[a][b] = r1[a][b]
  BY <1>1, <1>4 DEF Send, Net
<1>7. r1[n][d] \in Seq(Message) /\ Len(r1[n][d]) = 1 /\ r1[n][d][1] = x
  <2>1. ch[n][d] \in Seq(Message) /\ Len(ch[n][d]) = 0
    BY DEF Net
  <2> QED
    BY <1>2, <2>1
<1>8. r[n][d] \in Seq(Message) /\ Len(r[n][d]) = 2 /\ r[n][d][1] = x /\ r[n][d][2] = y
  BY <1>5, <1>7
<1>9. \A a, b \in Node : ~(a = n /\ b = d) => r[a][b] = <<>>
  BY <1>3, <1>6
<1>10. r[n][d] # <<>> /\ Head(r[n][d]) = x
  BY <1>8
<1>11. \A a, b \in Node : \A i \in DOMAIN r[a][b] : a = n /\ b = d /\ (i # 1 => r[a][b][i] = y)
  BY <1>8, <1>9
<1> QED
  BY <1>10, <1>11

(* A founder takes the newcomer for its successor. *)
LEMMA FounderCalm ==
  ASSUME TypeOK, NEW L \in Node, NEW c \in BOOLEAN, Calm(L, c),
         NEW n \in Node, NEW s \in Node, Arrives(n, s, "JOIN_CHORD"),
         status[n], Alone(n),
         succ' = [succ EXCEPT ![n] = s],
         net' = SendNotify(Send(Received(n, s), n, s, JoinChordSuccess(n)), n, s),
         UNCHANGED <<status, pred, finger, ffTimer, aborted, used>>
  PROVE  Founding(n, s)'
<1>1. n \in Members /\ succ[n] = n /\ SomeoneAlone
  BY DEF Members, Alone, SomeoneAlone
<1>2. Members = {n} /\ L = n /\ pred[n] \in {n, AnyAddr}
  BY <1>1 DEF Calm, Pointers, Anchored
<1>3. net[s][n] # <<>> /\ Packet(n, s).type = "JOIN_CHORD"
  BY DEF Arrives, Packet
<1>4. Sound(Members, SomeoneAlone, L, c, s, n, Packet(n, s))
  BY <1>3, ReceivedSounds DEF Calm
<1>5. c /\ s \notin Members
  BY <1>3, <1>4 DEF Sound
<1>6. \A i \in Entries(n) : finger[n][i] \in {n, s}
  BY <1>1, <1>2, <1>5 DEF Calm, FingersInRing
<1>7. Received(n, s) \in Net /\ \A a, b \in Node : Received(n, s)[a][b] = <<>>
  BY <1>1, <1>3, ReceivedType, OnlyPacket DEF Thread
<1>8. JoinChordSuccess(n) \in Message /\ [type |-> "NOTIFY"] \in Message
  BY DEF JoinChordSuccess, Message, Addr
<1>9. /\ net'[n][s] # <<>> /\ Head(net'[n][s]) = JoinChordSuccess(n)
      /\ \A a, b \in Node : \A i \in DOMAIN net'[a][b] :
           a = n /\ b = s /\ (i # 1 => net'[a][b][i] = [type |-> "NOTIFY"])
  <2> DEFINE ch == Received(n, s)
             x == JoinChordSuccess(n)
             y == [type |-> "NOTIFY"]
  <2>1. net' = Send(Send(ch, n, s, x), n, s, y)
    BY DEF SendNotify
  <2>2. ch \in Net /\ x \in Message /\ y \in Message /\ \A a, b \in Node : ch[a][b] = <<>>
    BY <1>7, <1>8
  <2> HIDE DEF ch, x, y
  <2>3. /\ net'[n][s] # <<>> /\ Head(net'[n][s]) = x
        /\ \A a, b \in Node : \A i \in DOMAIN net'[a][b] :
             a = n /\ b = s /\ (i # 1 => net'[a][b][i] = y)
    BY <2>1, <2>2, TwoPackets
  <2> QED
    BY <2>3 DEF x, y
<1>10. Members' = Members
  BY DEF Members
<1>11. Outside'
  <2>1. \A x \in Node \ Members : succ'[x] = succ[x]
    BY <1>1 DEF TypeOK
  <2> QED
    BY <1>10, <2>1 DEF Calm, Outside, Entries
<1>12. (NobodyLeft => n = Landmark)'
  BY <1>2 DEF Calm, Anchored, NobodyLeft
<1>13. succ'[n] = s
  BY DEF TypeOK
<1>14. (\A i \in Entries(n) : finger[n][i] \in {n, s})'
  BY <1>6 DEF Entries
<1>15. (\A a, b \in Node : \A i \in DOMAIN net[a][b] :
          a = n /\ b = s /\ (i # 1 => FoundingPacket(n, net[a][b][i])))'
  BY <1>9 DEF FoundingPacket
<1>16. (net[n][s] # <<>> /\ Head(net[n][s]) = JoinChordSuccess(n))'
  BY <1>9 DEF JoinChordSuccess
<1>17. pred'[n] \in {n, AnyAddr} /\ n # s /\ Members' = {n}
  BY <1>2, <1>5, <1>10
<1> QED
  BY <1>11, <1>12, <1>13, <1>14, <1>15, <1>16, <1>17 DEF Founding

(* A newcomer enters behind a member, towards the anchor. *)
LEMMA JoinedCalm ==
  ASSUME TypeOK, NEW L \in Node, NEW c \in BOOLEAN, Calm(L, c),
         NEW n \in Node, NEW s \in Node, ProcessJoinChordSuccess(n, s)
  PROVE  Calm(L, c)'
<1> DEFINE a == Packet(n, s).addr
           ch == Received(n, s)
<1>1. net[s][n] # <<>> /\ Packet(n, s).type = "JOIN_CHORD_SUCCESS"
  BY DEF ProcessJoinChordSuccess, Arrives, Packet
<1>2. Packet(n, s) \in Message /\ ch \in Net
  BY <1>1, ReceivedType
<1>3. Sounds(ch, Members, SomeoneAlone, L, c)
  BY <1>1, ReceivedSounds DEF Calm
<1>4. Sound(Members, SomeoneAlone, L, c, s, n, Packet(n, s))
  BY <1>1, ReceivedSounds DEF Calm
<1>5. NoThread(ch)
  BY <1>1, ReceivedThread DEF Calm, Thread
<1>6. /\ n \notin Members /\ a \in Members /\ ~SomeoneAlone
      /\ Within(Digest[n], Digest[a], Digest[L])
  BY <1>1, <1>4 DEF Sound
<1> HIDE DEF a
<1>7. /\ status' = [status EXCEPT ![n] = TRUE]
      /\ succ' = [succ EXCEPT ![n] = a]
      /\ pred' = [pred EXCEPT ![n] = AnyAddr]
      /\ net' = SendNotify(ch, n, a)
      /\ UNCHANGED <<finger, used>>
  BY DEF ProcessJoinChordSuccess, a
<1> HIDE DEF ch
<1>8. Members' = Members \cup {n}
  BY <1>7 DEF TypeOK, Members
<1>9. /\ succ'[n] = a /\ pred'[n] = AnyAddr
      /\ \A x \in Node \ {n} : succ'[x] = succ[x] /\ pred'[x] = pred[x]
  BY <1>7 DEF TypeOK
<1>10. ~SomeoneAlone'
  <2> SUFFICES ASSUME NEW x \in Members \cup {n}, succ'[x] = x PROVE FALSE
    BY <1>8 DEF SomeoneAlone
  <2>1. x # n
    BY <1>6, <1>9
  <2> QED
    BY <1>6, <1>9, <2>1 DEF SomeoneAlone, Members
<1>11. Anchored(L, c)'
  BY <1>6, <1>7, <1>8 DEF Calm, Anchored, NobodyLeft
<1>12. Pointers(L)'
  <2> SUFFICES ASSUME NEW x \in Members \cup {n}
               PROVE  /\ succ'[x] \in Members \cup {n}
                      /\ succ'[x] # x
                      /\ pred'[x] \in Members \cup {n} \cup {AnyAddr}
                      /\ x # L => Within(Digest[x], Digest[succ'[x]], Digest[L])
    BY <1>8 DEF Pointers
  <2>1. CASE x = n
    BY <1>6, <1>9, <2>1
  <2>2. CASE x # n
    <3>1. x \in Members /\ x \in Node \ {n} /\ succ[x] # x
      BY <1>6, <2>2 DEF Members, SomeoneAlone
    <3> QED
      BY <1>9, <3>1 DEF Calm, Pointers
  <2> QED
    BY <2>1, <2>2
<1>13. Outside'
  <2> SUFFICES ASSUME NEW x \in Node \ (Members \cup {n})
               PROVE  succ'[x] = AnyAddr /\ Entries(x)' = {}
    BY <1>8 DEF Outside
  <2> QED
    BY <1>7, <1>9 DEF Calm, Outside, Entries
<1>14. c => FingersInRing'
  <2>1. Entries(n) = {}
    BY <1>6 DEF Calm, Outside
  <2> QED
    BY <1>7, <1>8, <2>1 DEF Calm, FingersInRing, Entries
<1>15. Sounds(ch, Members \cup {n}, FALSE, L, c)
  <2> SUFFICES ASSUME NEW x \in Node, NEW y \in Node, NEW i \in DOMAIN ch[x][y]
               PROVE  Sound(Members \cup {n}, FALSE, L, c, x, y, ch[x][y][i])
    BY DEF Sounds
  <2>1. Sound(Members, SomeoneAlone, L, c, x, y, ch[x][y][i])
    BY <1>3, Zenon DEF Sounds
  <2>2. ch[x][y][i].type \notin Thread
    BY <1>5 DEF NoThread
  <2> QED
    BY <2>1, <2>2 DEF Sound, Thread
<1>16. [type |-> "NOTIFY"] \in Message /\ a \in Node
  BY <1>6 DEF Message, Members
<1>17. Sound(Members \cup {n}, FALSE, L, c, n, a, [type |-> "NOTIFY"])
  BY DEF Sound
<1>18. Sounds(net', Members \cup {n}, FALSE, L, c)
  BY <1>2, <1>7, <1>15, <1>16, <1>17, SendSounds DEF SendNotify
<1>19. OneThread(net')
  BY <1>2, <1>5, <1>7, <1>16, SendThread DEF SendNotify
<1>20. Sounds(net, Members, SomeoneAlone, L, c)'
  BY <1>8, <1>10, <1>18 DEF Sounds, Sound
<1>21. OneThread(net)'
  BY <1>19 DEF OneThread
<1> QED
  BY <1>11, <1>12, <1>13, <1>14, <1>20, <1>21 DEF Calm

(* STABILIZE_RESP moves a successor to a member in between. *)
LEMMA AdoptedCalm ==
  ASSUME TypeOK, NEW L \in Node, NEW c \in BOOLEAN, Calm(L, c),
         NEW n \in Node, NEW s \in Node, ProcessStabilizeResp(n, s)
  PROVE  Calm(L, c)'
<1> DEFINE a == Packet(n, s).addr
           ch == Received(n, s)
<1>1. net[s][n] # <<>> /\ Packet(n, s).type = "STABILIZE_RESP"
  BY DEF ProcessStabilizeResp, Arrives, Packet
<1>2. Packet(n, s) \in Message /\ ch \in Net
  BY <1>1, ReceivedType
<1>3. Sounds(ch, Members, SomeoneAlone, L, c) /\ OneThread(ch)
  BY <1>1, ReceivedSounds, ReceivedThread DEF Calm
<1>4. Sound(Members, SomeoneAlone, L, c, s, n, Packet(n, s))
  BY <1>1, ReceivedSounds DEF Calm
<1>5. n \in Members /\ a \in Members /\ ~SomeoneAlone /\ Members \subseteq Node
  BY <1>1, <1>4 DEF Sound, Members
<1> HIDE DEF a
<1>6. CASE ~Adopts(n, a)
  <2>1. net' = ch /\ UNCHANGED local /\ used' = used
    BY <1>6 DEF ProcessStabilizeResp, a, local
  <2> QED
    BY <1>3, <2>1, LocalCalm DEF NobodyLeft
<1>7. CASE Adopts(n, a)
  <2>1. /\ succ' = [succ EXCEPT ![n] = a]
        /\ net' = SendNotify(ch, n, a)
        /\ UNCHANGED <<status, pred, finger, ffTimer, aborted, used>>
    BY <1>7 DEF ProcessStabilizeResp, a
  <2> HIDE DEF ch
  <2>2. Members' = Members
    BY <2>1 DEF Members
  <2>3. succ'[n] = a /\ \A x \in Node \ {n} : succ'[x] = succ[x]
    BY <2>1 DEF TypeOK
  <2>4. a # n /\ a \in Addr /\ n \in Addr /\ succ[n] \in Addr /\ succ[n] # n /\ L \in Addr
    BY <1>5, <1>7 DEF Adopts, SomeoneAlone, Addr, TypeOK
  <2>5. Within(Digest[n], Digest[a], Digest[succ[n]])
    BY <1>7, <2>4, DigestFacts, ArcIsClosed DEF Adopts
  <2>6. n # L => Within(Digest[n], Digest[a], Digest[L])
    <3>1. n # L => Within(Digest[n], Digest[succ[n]], Digest[L])
      BY <1>5 DEF Calm, Pointers
    <3> QED
      BY <2>4, <2>5, <3>1, DigestFacts, WithinTransitive
  <2>7. ~SomeoneAlone'
    BY <1>5, <2>2, <2>3, <2>4 DEF SomeoneAlone
  <2>8. Pointers(L)'
    <3> SUFFICES ASSUME NEW x \in Members
                 PROVE  /\ succ'[x] \in Members
                        /\ succ'[x] # x
                        /\ pred'[x] \in Members \cup {AnyAddr}
                        /\ x # L => Within(Digest[x], Digest[succ'[x]], Digest[L])
      BY <2>2 DEF Pointers
    <3>1. pred'[x] \in Members \cup {AnyAddr}
      BY <2>1 DEF Calm, Pointers
    <3>2. CASE x = n
      BY <1>5, <2>3, <2>4, <2>6, <3>1, <3>2
    <3>3. CASE x # n
      <4>1. x \in Node \ {n} /\ succ[x] # x
        BY <1>5, <3>3 DEF SomeoneAlone
      <4> QED
        BY <2>3, <3>1, <4>1 DEF Calm, Pointers
    <3> QED
      BY <3>2, <3>3
  <2>9. Outside'
    <3> SUFFICES ASSUME NEW x \in Node \ Members
                 PROVE  succ'[x] = AnyAddr /\ Entries(x)' = {}
      BY <2>2 DEF Outside
    <3> QED
      BY <1>5, <2>1, <2>3 DEF Calm, Outside, Entries
  <2>10. c => FingersInRing'
    BY <2>1, <2>2 DEF Calm, FingersInRing, Entries
  <2>11. Anchored(L, c)'
    BY <2>1, <2>2 DEF Calm, Anchored, NobodyLeft
  <2>12. [type |-> "NOTIFY"] \in Message /\ [type |-> "NOTIFY"].type \notin Thread
    BY DEF Message, Thread
  <2>13. Sound(Members, SomeoneAlone, L, c, n, a, [type |-> "NOTIFY"])
    BY <1>5 DEF Sound
  <2>14. Sounds(net', Members, SomeoneAlone, L, c) /\ OneThread(net')
    BY <1>2, <1>3, <2>1, <2>12, <2>13, SendSounds, SendThread DEF SendNotify
  <2>15. SomeoneAlone' = SomeoneAlone
    BY <1>5, <2>7 DEF SomeoneAlone
  <2>16. Sounds(net, Members, SomeoneAlone, L, c)'
    BY <2>2, <2>14, <2>15 DEF Sounds, Sound
  <2>17. OneThread(net)'
    BY <2>14 DEF OneThread
  <2> QED
    BY <2>8, <2>9, <2>10, <2>11, <2>16, <2>17 DEF Calm
<1> QED
  BY <1>6, <1>7

(* A handler leaves a calm ring calm, or has a founder take its first *)
(* successor.                                                         *)
LEMMA HandlerCalm ==
  ASSUME TypeOK, NEW L \in Node, NEW c \in BOOLEAN, Calm(L, c),
         NEW n \in Node, NEW s \in Node, RecvMessage(n, s)
  PROVE  Calm(L, c)' \/ Founding(n, s)'
<1> DEFINE m  == Packet(n, s)
           ch == Received(n, s)
<1>0. net[s][n] # <<>> /\ used' = used
  BY DEF RecvMessage, Arrives, ProcessJoinChord, ProcessFindSuccessor,
         ProcessJoinChordSuccess, ProcessJoinChordFail, ProcessNotify,
         ProcessStabilizeReq, ProcessStabilizeResp, ProcessLeaveSuccessor,
         ProcessLeavePredecessor, ProcessRingstate, ProcessFindFinger,
         ProcessFindFingerSuccess, ProcessLookupPublish, ProcessLookupPublishSuccess
<1>a. m \in Message /\ ch \in Net
  BY <1>0, ReceivedType
<1>b. Sounds(ch, Members, SomeoneAlone, L, c) /\ OneThread(ch)
  BY <1>0, ReceivedSounds, ReceivedThread DEF Calm
<1>c. Sound(Members, SomeoneAlone, L, c, s, n, m)
  BY <1>0, ReceivedSounds DEF Calm
<1>d. m.type \in Thread => NoThread(ch)
  BY <1>0, ReceivedThread DEF Calm
<1>e. /\ n \in Addr /\ s \in Addr /\ succ[n] \in Addr /\ pred[n] \in Addr
      /\ NobodyLeft' => NobodyLeft
      /\ Members \subseteq Node
  BY <1>0 DEF TypeOK, Addr, NobodyLeft, Members
<1>f. \A x \in Members : succ[x] \in Members /\ pred[x] \in Members \cup {AnyAddr}
  BY DEF Calm, Pointers
<1>1. CASE ProcessJoinChord(n, s)
  <2>1. m.type = "JOIN_CHORD" /\ NoThread(ch)
    BY <1>1, <1>d DEF ProcessJoinChord, Arrives, Packet, Thread
  <2>2. c /\ s \notin Members
    BY <1>c, <2>1 DEF Sound
  <2>3. CASE Answer(ch, n, s, [type |-> "JOIN_CHORD_FAIL"])
    <3>1. [type |-> "JOIN_CHORD_FAIL"] \in Message
      BY DEF Message
    <3>2. Sound(Members, SomeoneAlone, L, c, n, s, [type |-> "JOIN_CHORD_FAIL"])
      BY DEF Sound
    <3> QED
      BY <1>a, <1>b, <1>e, <2>1, <2>3, <3>1, <3>2, AnswerCalm
  <2>4. CASE status[n] /\ ~Alone(n) /\ FindSuccessor(ch, n, s)
    <3>1. n \in Members /\ ~SomeoneAlone
      BY <2>4 DEF Members, Alone, SomeoneAlone, Calm, Pointers
    <3> QED
      BY <1>0, <1>a, <1>b, <2>1, <2>2, <2>4, <3>1, FindSuccessorCalm
  <2>5. CASE /\ status[n] /\ Alone(n)
             /\ succ' = [succ EXCEPT ![n] = s]
             /\ net' = SendNotify(Send(ch, n, s, JoinChordSuccess(n)), n, s)
             /\ upcall' = {}
             /\ UNCHANGED <<status, pred, finger, ffTimer, aborted>>
    BY <1>0, <1>1, <2>5, FounderCalm DEF ProcessJoinChord
  <2> QED
    BY <1>1, <2>3, <2>4, <2>5 DEF ProcessJoinChord
<1>2. CASE ProcessFindSuccessor(n, s)
  <2>1. m.type = "FIND_SUCCESSOR" /\ NoThread(ch)
    BY <1>2, <1>d DEF ProcessFindSuccessor, Arrives, Packet, Thread
  <2>2. c /\ m.addr \in Node \ Members /\ n \in Members /\ ~SomeoneAlone
    BY <1>c, <2>1 DEF Sound
  <2>3. FindSuccessor(ch, n, m.addr)
    BY <1>2 DEF ProcessFindSuccessor
  <2> QED
    BY <1>0, <1>a, <1>b, <2>1, <2>2, <2>3, FindSuccessorCalm
<1>3. CASE ProcessJoinChordSuccess(n, s)
  BY <1>3, JoinedCalm
<1>4. CASE ProcessJoinChordFail(n, s) \/ ProcessLookupPublishSuccess(n, s)
  <2>1. net' = ch /\ UNCHANGED local
    BY <1>4 DEF ProcessJoinChordFail, ProcessLookupPublishSuccess
  <2> QED
    BY <1>b, <1>e, <2>1, LocalCalm
<1>5. CASE ProcessNotify(n, s)
  <2>1. m.type = "NOTIFY"
    BY <1>5 DEF ProcessNotify, Arrives, Packet
  <2>2. s \in Members
    BY <1>c, <2>1 DEF Sound
  <2>3. /\ pred' \in {[pred EXCEPT ![n] = s], pred} /\ net' = ch
        /\ UNCHANGED <<status, succ, finger>>
    BY <1>5 DEF ProcessNotify
  <2>4. \A x \in Members : pred'[x] \in Members \cup {AnyAddr}
    BY <1>e, <1>f, <2>2, <2>3 DEF TypeOK
  <2>5. Members' = Members
    BY <2>3 DEF Members
  <2>6. (c => FingersInRing') /\ Outside'
    BY <2>3, <2>5 DEF Calm, FingersInRing, Outside, Entries
  <2> QED
    BY <1>b, <1>e, <2>3, <2>4, <2>6, NextCalm
<1>6. CASE ProcessStabilizeReq(n, s)
  <2>1. m.type = "STABILIZE_REQ"
    BY <1>6 DEF ProcessStabilizeReq, Arrives, Packet
  <2>2. n \in Members /\ s \in Members /\ ~SomeoneAlone
    BY <1>c, <2>1 DEF Sound
  <2>3. CASE pred[n] = AnyAddr
    <3>1. net' = ch /\ UNCHANGED local
      BY <1>6, <2>3 DEF ProcessStabilizeReq
    <3> QED
      BY <1>b, <1>e, <3>1, LocalCalm
  <2>4. CASE pred[n] # AnyAddr
    <3> DEFINE r == [type |-> "STABILIZE_RESP", addr |-> pred[n]]
    <3>1. r \in Message /\ r.type \notin Thread
      BY <1>e DEF Message, Thread
    <3>2. pred[n] \in Members
      BY <1>f, <2>2, <2>4
    <3>3. Sound(Members, SomeoneAlone, L, c, n, s, r)
      BY <2>2, <3>2 DEF Sound
    <3>4. Answer(ch, n, s, r)
      BY <1>6, <2>4 DEF ProcessStabilizeReq, Answer
    <3> HIDE DEF r
    <3> QED
      BY <1>a, <1>b, <1>e, <3>1, <3>3, <3>4, AnswerCalm
  <2> QED
    BY <2>3, <2>4
<1>7. CASE ProcessStabilizeResp(n, s)
  BY <1>7, AdoptedCalm
<1>8. CASE ProcessLeaveSuccessor(n, s) \/ ProcessLeavePredecessor(n, s)
  <2>1. m.type \in {"LEAVE_SUCCESSOR", "LEAVE_PREDECESSOR"}
    BY <1>8 DEF ProcessLeaveSuccessor, ProcessLeavePredecessor, Arrives, Packet
  <2> QED
    BY <1>c, <2>1 DEF Sound
<1>9. CASE ProcessRingstate(n, s)
  <2>1. m.type = "RINGSTATE" /\ NoThread(ch)
    BY <1>9, <1>d DEF ProcessRingstate, Arrives, Packet, Thread
  <2>2. CASE net' = ch
    <3>1. UNCHANGED local
      BY <1>9 DEF ProcessRingstate
    <3> QED
      BY <1>b, <1>e, <2>2, <3>1, LocalCalm
  <2>3. CASE net' = Send(ch, n, succ[n], m)
    <3>1. \A d \in Node : Sound(Members, SomeoneAlone, L, c, n, d, m)
      BY <2>1 DEF Sound
    <3>2. Answer(ch, n, succ[n], m)
      BY <1>9, <2>3 DEF ProcessRingstate, Answer
    <3> QED
      BY <1>a, <1>b, <1>e, <2>1, <3>1, <3>2, AnswerCalm
  <2> QED
    BY <1>9, <2>2, <2>3 DEF ProcessRingstate
<1>10. CASE ProcessFindFinger(n, s)
  <2>1. m.type = "FIND_FINGER" /\ m.type \notin Thread
    BY <1>10 DEF ProcessFindFinger, Arrives, Packet, Thread
  <2>2. m.addr \in Members /\ (c => n \in Members) /\ ~SomeoneAlone
    BY <1>c, <2>1 DEF Sound
  <2>3. m.index \in FingerIndex
    BY <1>a, <2>1 DEF Message
  <2>4. CASE ReplyFindFinger(ch, n, m)
    <3> DEFINE r == [type |-> "FIND_FINGER_SUCCESS", addr |-> succ[n], index |-> m.index]
    <3>1. r \in Message /\ r.type \notin Thread
      BY <1>e, <2>3 DEF Message, Thread
    <3>2. Sound(Members, SomeoneAlone, L, c, n, m.addr, r)
      BY <1>f, <2>2 DEF Sound
    <3>3. Answer(ch, n, m.addr, r)
      BY <2>4 DEF ReplyFindFinger
    <3> HIDE DEF r
    <3> QED
      BY <1>a, <1>b, <1>e, <3>1, <3>2, <3>3, AnswerCalm
  <2>5. CASE Forward(ch, n, IndexHash(Digest[m.addr], m.index), m, {})
    <3>1. \A h \in Addr : NextHop(n, IndexHash(Digest[m.addr], m.index), h)
                            => Sound(Members, SomeoneAlone, L, c, n, h, m)
      BY <2>1, <2>2, HopIsMember DEF Sound
    <3> QED
      BY <1>a, <1>b, <1>e, <2>1, <2>5, <3>1, ForwardCalm
  <2> QED
    BY <1>10, <2>4, <2>5 DEF ProcessFindFinger
<1>11. CASE ProcessFindFingerSuccess(n, s)
  <2>1. m.type = "FIND_FINGER_SUCCESS"
    BY <1>11 DEF ProcessFindFingerSuccess, Arrives, Packet
  <2>2. n \in Members /\ (c => m.addr \in Members) /\ ~SomeoneAlone
    BY <1>c, <2>1 DEF Sound
  <2>3. m.index \in FingerIndex /\ m.addr \in Addr
    BY <1>a, <2>1 DEF Message
  <2>4. m.index + 1 \in Nat \ {0}
    BY <2>3, MAssumption DEF FingerIndex
  <2>5. /\ SendFindFinger(ch, n, ffTimer, [finger[n] EXCEPT ![m.index] = m.addr],
                          m.addr, m.index + 1)
        /\ UNCHANGED <<status, succ, pred, used>>
    BY <1>11 DEF ProcessFindFingerSuccess
  <2> QED
    BY <1>a, <1>b, <2>2, <2>3, <2>4, <2>5, FingerCalm
<1>12. CASE ProcessLookupPublish(n, s)
  <2>1. m.type = "LOOKUP_PUBLISH" /\ m.type \notin Thread
    BY <1>12 DEF ProcessLookupPublish, Arrives, Packet, Thread
  <2>2. ~SomeoneAlone
    BY <1>c, <2>1 DEF Sound
  <2>3. m.key \in Id
    BY <1>a, <2>1 DEF Message
  <2>4. CASE ReplyLookupPublishSuccess(ch, n, m)
    <3> DEFINE r == [type |-> "LOOKUP_PUBLISH_SUCCESS", addr |-> succ[n], key |-> m.key]
    <3>1. r \in Message /\ r.type \notin Thread
      BY <1>e, <2>3 DEF Message, Thread
    <3>2. Sound(Members, SomeoneAlone, L, c, n, m.addr, r)
      BY <2>2 DEF Sound
    <3>3. Answer(ch, n, m.addr, r)
      BY <2>4 DEF ReplyLookupPublishSuccess
    <3> HIDE DEF r
    <3> QED
      BY <1>a, <1>b, <1>e, <3>1, <3>2, <3>3, AnswerCalm
  <2>5. CASE Forward(ch, n, m.key, m, {})
    <3>1. \A h \in Addr : Sound(Members, SomeoneAlone, L, c, n, h, m)
      BY <2>1, <2>2 DEF Sound
    <3> QED
      BY <1>a, <1>b, <1>e, <2>1, <2>5, <3>1, ForwardCalm
  <2> QED
    BY <1>12, <2>4, <2>5 DEF ProcessLookupPublish
<1> QED
  BY <1>1, <1>2, <1>3, <1>4, <1>5, <1>6, <1>7, <1>8, <1>9, <1>10, <1>11, <1>12
     DEF RecvMessage

-----------------------------------------------------------------------------
(* A calm ring: timers, lost rounds and commands *)

(* Both timers of a member ask members only. *)
LEMMA TimerCalm ==
  ASSUME TypeOK, NEW L \in Node, NEW c \in BOOLEAN, Calm(L, c),
         NEW n \in Node, TimerExpires(n)
  PROVE  Calm(L, c)'
<1>1. status[n] /\ ~Alone(n) /\ used' = used
  BY DEF TimerExpires, Stabilize, FixFinger
<1>2. n \in Members /\ ~SomeoneAlone
  BY <1>1 DEF Members, Alone, SomeoneAlone, Calm, Pointers
<1>3. succ[n] \in Members /\ succ[n] \in Addr /\ net \in Net
  BY <1>2 DEF Calm, Pointers, TypeOK, Net
<1>4. Sounds(net, Members, SomeoneAlone, L, c) /\ OneThread(net)
  BY DEF Calm
<1>5. CASE Stabilize(n)
  <2> DEFINE m == [type |-> "STABILIZE_REQ"]
  <2>1. m \in Message /\ m.type \notin Thread
    BY DEF Message, Thread
  <2>2. Sound(Members, SomeoneAlone, L, c, n, succ[n], m)
    BY <1>2, <1>3 DEF Sound
  <2>3. Answer(net, n, succ[n], m)
    BY <1>5 DEF Stabilize
  <2> HIDE DEF m
  <2> QED
    BY <1>1, <1>3, <1>4, <2>1, <2>2, <2>3, AnswerCalm DEF NobodyLeft
<1>6. CASE FixFinger(n)
  <2>1. /\ SendFindFinger(net, n, Expired(n), [finger[n] EXCEPT ![1] = succ[n]], succ[n], 2)
        /\ UNCHANGED <<status, succ, pred, used>>
    BY <1>6 DEF FixFinger
  <2>2. 1 \in FingerIndex /\ 2 \in Nat \ {0}
    BY MAssumption DEF FingerIndex
  <2> QED
    BY <1>2, <1>3, <1>4, <2>1, <2>2, FingerCalm
<1> QED
  BY <1>5, <1>6 DEF TimerExpires

(* A lost round of Stabilize. *)
LEMMA LoseCalm ==
  ASSUME TypeOK, NEW L \in Node, NEW c \in BOOLEAN, Calm(L, c),
         NEW n \in Node, NEW s \in Node, LoseRound(n, s)
  PROVE  Calm(L, c)'
<1>1. /\ net[s][n] # <<>> /\ net' = Received(n, s) /\ UNCHANGED local
      /\ used' = [used EXCEPT !["LOSS"] = @ + 1]
  BY DEF LoseRound, Lose, Spend
<1>2. Sounds(Received(n, s), Members, SomeoneAlone, L, c) /\ OneThread(Received(n, s))
  BY <1>1, ReceivedSounds, ReceivedThread DEF Calm
<1>3. used'["LEAVE"] = used["LEAVE"]
  BY <1>1 DEF TypeOK, Command
<1> QED
  BY <1>1, <1>2, <1>3, LocalCalm DEF NobodyLeft

(* Only commands that leave count as such. *)
LEMMA SpendLeft ==
  ASSUME TypeOK, NEW k \in Command, Spend(k)
  PROVE  /\ k # "LEAVE" => used'["LEAVE"] = used["LEAVE"]
         /\ k = "LEAVE" => ~NobodyLeft'
<1>1. used' = [used EXCEPT ![k] = @ + 1] /\ used \in [Command -> Nat]
  BY DEF Spend, TypeOK
<1>2. "LEAVE" \in Command
  BY DEF Command
<1>3. k # "LEAVE" => used'["LEAVE"] = used["LEAVE"]
  BY <1>1, <1>2
<1>4. k = "LEAVE" => used'["LEAVE"] = used["LEAVE"] + 1
  BY <1>1, <1>2
<1> QED
  BY <1>1, <1>2, <1>3, <1>4 DEF NobodyLeft

(* Sending the only packet there is. *)
LEMMA DrainedSend ==
  ASSUME TypeOK, Drained, NEW n \in Node, NEW d, NEW m \in Message,
         NEW mem, NEW alone, NEW L, NEW c,
         d \in Node => Sound(mem, alone, L, c, n, d, m)
  PROVE  Sounds(Send(net, n, d, m), mem, alone, L, c) /\ OneThread(Send(net, n, d, m))
<1>1. net \in Net
  BY DEF TypeOK, Net
<1>2. NoThread(net) /\ Sounds(net, mem, alone, L, c)
  BY DrainedNet DEF Drained
<1> QED
  BY <1>1, <1>2, SendSounds, SendThread

(* The landmark founds a ring. *)
LEMMA FoundedCalm ==
  ASSUME TypeOK, NEW L \in Node, NEW c \in BOOLEAN, Calm(L, c), Settled,
         NEW n \in Node, n = Landmark, Members = {}, JoinSelf(n)
  PROVE  Calm(n, TRUE)'
<1>1. /\ status' = [status EXCEPT ![n] = TRUE]
      /\ succ' = [succ EXCEPT ![n] = n]
      /\ pred' = [pred EXCEPT ![n] = AnyAddr]
      /\ UNCHANGED <<finger, net>>
  BY DEF JoinSelf
<1>2. Members' = {n}
  BY <1>1 DEF TypeOK, Members
<1>3. succ'[n] = n /\ pred'[n] = AnyAddr /\ \A x \in Node \ {n} : succ'[x] = succ[x]
  BY <1>1 DEF TypeOK
<1>4. \A x \in Node : Entries(x)' = {} /\ succ[x] = AnyAddr
  BY <1>1 DEF Calm, Outside, Entries
<1>5. Pointers(n)' /\ Outside' /\ FingersInRing'
  BY <1>2, <1>3, <1>4 DEF Pointers, Outside, FingersInRing
<1>6. Anchored(n, TRUE)'
  BY <1>2 DEF Anchored
<1>7. \A x, y \in Node : net'[x][y] = <<>>
  BY <1>1 DEF Settled, Drained
<1>8. \A x, y \in Node : DOMAIN net'[x][y] = {}
  BY <1>7
<1>9. Sounds(net, Members, SomeoneAlone, n, TRUE)'
  BY <1>8 DEF Sounds
<1>10. OneThread(net)'
  BY <1>8 DEF OneThread
<1> QED
  BY <1>5, <1>6, <1>9, <1>10 DEF Calm

(* When the ring has settled, all fingers are members. *)
LEMMA AskedCalm ==
  ASSUME TypeOK, NEW L \in Node, NEW c \in BOOLEAN, Calm(L, c), Settled,
         NEW n \in Node, NEW d \in Node, JoinVia(n, d)
  PROVE  Calm(L, TRUE)'
<1> DEFINE m == [type |-> "JOIN_CHORD"]
<1>1. Calm(L, TRUE)
  <2>1. Sounds(net, Members, SomeoneAlone, L, TRUE)
    BY DrainedNet DEF Settled, Drained
  <2> QED
    BY <2>1 DEF Calm, Settled, Anchored
<1>2. Spend("JOIN") /\ n \notin Members /\ Answer(net, n, d, m)
  BY DEF JoinVia, Members
<1>3. NobodyLeft' => NobodyLeft
  BY <1>2, SpendLeft DEF Command, NobodyLeft
<1>4. m \in Message
  BY DEF Message
<1>5. Sound(Members, SomeoneAlone, L, TRUE, n, d, m)
  BY <1>2 DEF Sound
<1> HIDE DEF m
<1>6. Sounds(Send(net, n, d, m), Members, SomeoneAlone, L, TRUE) /\ OneThread(Send(net, n, d, m))
  BY <1>4, <1>5, DrainedSend DEF Settled
<1> QED
  BY <1>1, <1>2, <1>3, <1>6, LocalCalm DEF Answer

(* A RINGSTATE goes to the successor. *)
LEMMA RingstateCalm ==
  ASSUME TypeOK, NEW L \in Node, NEW c \in BOOLEAN, Calm(L, c), Settled,
         NEW n \in Node, Ringstate(n)
  PROVE  Calm(L, c)'
<1> DEFINE m == [type |-> "RINGSTATE", addr |-> n]
<1>1. Spend("RINGSTATE") /\ Answer(net, n, succ[n], m)
  BY DEF Ringstate
<1>2. NobodyLeft' => NobodyLeft
  BY <1>1, SpendLeft DEF Command, NobodyLeft
<1>3. m \in Message
  BY DEF Message, Addr
<1>4. Sound(Members, SomeoneAlone, L, c, n, succ[n], m)
  BY DEF Sound
<1> HIDE DEF m
<1>5. Sounds(Send(net, n, succ[n], m), Members, SomeoneAlone, L, c)
      /\ OneThread(Send(net, n, succ[n], m))
  BY <1>3, <1>4, DrainedSend DEF Settled
<1> QED
  BY <1>1, <1>2, <1>5, LocalCalm DEF Answer

(* A lookup goes to the next hop. *)
LEMMA LookupCalm ==
  ASSUME TypeOK, NEW L \in Node, NEW c \in BOOLEAN, Calm(L, c), Settled,
         NEW n \in Members, succ[n] # n, NEW k \in KeyId, LookupPublish(n, k)
  PROVE  Calm(L, c)'
<1> DEFINE m == [type |-> "LOOKUP_PUBLISH", addr |-> n, key |-> k]
<1>1. n \in Node /\ ~SomeoneAlone
  BY DEF Members, SomeoneAlone, Calm, Pointers
<1>2. PICK calls : Forward(net, n, k, m, calls)
  BY DEF LookupPublish
<1>3. NobodyLeft' => NobodyLeft
  BY SpendLeft DEF LookupPublish, Command, NobodyLeft
<1>4. m \in Message /\ m.type \notin Thread
  BY <1>1, DigestAssumption DEF Message, Addr, Thread
<1>5. \A h \in Addr : Sound(Members, SomeoneAlone, L, c, n, h, m)
  BY <1>1 DEF Sound
<1>6. net \in Net /\ Sounds(net, Members, SomeoneAlone, L, c) /\ OneThread(net)
  BY DEF TypeOK, Net, Calm
<1> HIDE DEF m
<1> QED
  BY <1>1, <1>2, <1>3, <1>4, <1>5, <1>6, ForwardCalm

(* The last member leaves. *)
LEMMA LeftAloneCalm ==
  ASSUME TypeOK, NEW L \in Node, NEW c \in BOOLEAN, Calm(L, c), Settled,
         NEW n \in Node, LeaveAlone(n)
  PROVE  Calm(L, c)'
<1>1. /\ Spend("LEAVE") /\ status[n] /\ succ[n] = n
      /\ status' = [status EXCEPT ![n] = FALSE]
      /\ succ' = [succ EXCEPT ![n] = AnyAddr]
      /\ finger' = [finger EXCEPT ![n] = EmptyTable]
      /\ net' = net
  BY DEF LeaveAlone, Detach, Alone
<1>2. Members = {n}
  BY <1>1 DEF Members, Calm, Pointers
<1>3. Members' = {}
  BY <1>1, <1>2 DEF TypeOK, Members
<1>4. ~NobodyLeft'
  BY <1>1, SpendLeft DEF Command
<1>5. Outside'
  <2> SUFFICES ASSUME NEW x \in Node PROVE succ'[x] = AnyAddr /\ Entries(x)' = {}
    BY <1>3 DEF Outside
  <2>1. CASE x = n
    BY <1>1, <2>1 DEF TypeOK, Entries, EmptyTable
  <2>2. CASE x # n
    BY <1>1, <1>2, <2>2 DEF TypeOK, Calm, Outside, Entries
  <2> QED
    BY <2>1, <2>2
<1>6. Anchored(L, c)' /\ Pointers(L)' /\ FingersInRing'
  BY <1>3, <1>4 DEF Anchored, Pointers, FingersInRing
<1>7. \A x, y \in Node : net'[x][y] = <<>>
  BY <1>1 DEF Settled, Drained
<1>8. \A x, y \in Node : DOMAIN net'[x][y] = {}
  BY <1>7
<1>9. Sounds(net, Members, SomeoneAlone, L, c)'
  BY <1>8 DEF Sounds
<1>10. OneThread(net)'
  BY <1>8 DEF OneThread
<1> QED
  BY <1>5, <1>6, <1>9, <1>10 DEF Calm

-----------------------------------------------------------------------------
(* The ideal ring *)

(* Distances on the circle are numbers, and tell places apart. *)
LEMMA Distance ==
  ASSUME NEW a \in Id, NEW b \in Id
  PROVE  /\ Clockwise(a, b) \in Nat
         /\ a # b => Clockwise(a, b) > 0
         /\ \A x \in Id : Clockwise(a, b) = Clockwise(a, x) => b = x
BY CircleSize DEF Id, Clockwise

(* The member after n exists and is no further than any other. *)
LEMMA NextExists ==
  ASSUME NEW n \in Members, ~(Members \subseteq {n})
  PROVE  /\ NextMember(n) \in Members \ {n}
         /\ \A o \in Members \ {n} :
              Within(Digest[n], Digest[NextMember(n)], Digest[o])
<1> DEFINE T == {Clockwise(Digest[n], Digest[o]) : o \in Members \ {n}}
<1>1. Members \subseteq Node
  BY DEF Members
<1>2. T \subseteq Nat /\ T # {}
  BY <1>1, Distance, DigestFacts
<1>3. PICK x \in T : \A y \in T : x <= y
  BY <1>2, Smallest
<1>4. PICK m \in Members \ {n} : x = Clockwise(Digest[n], Digest[m])
  BY <1>3
<1>5. \A o \in Members \ {n} :
        Clockwise(Digest[n], Digest[m]) <= Clockwise(Digest[n], Digest[o])
  BY <1>3, <1>4
<1> QED
  BY <1>4, <1>5 DEF NextMember, Within

(* Each of two or more members is the one after another. *)
LEMMA PreviousExists ==
  ASSUME NEW n \in Members, ~(Members \subseteq {n})
  PROVE  \E p \in Members \ {n} : NextMember(p) = n
<1> DEFINE T == {Clockwise(Digest[o], Digest[n]) : o \in Members \ {n}}
<1>1. Members \subseteq Node
  BY DEF Members
<1>2. T \subseteq Nat /\ T # {}
  BY <1>1, Distance, DigestFacts
<1>3. PICK x \in T : \A y \in T : x <= y
  BY <1>2, Smallest
<1>4. PICK p \in Members \ {n} : x = Clockwise(Digest[p], Digest[n])
  BY <1>3
<1>5. \A o \in Members \ {n} :
        Clockwise(Digest[p], Digest[n]) <= Clockwise(Digest[o], Digest[n])
  BY <1>3, <1>4
<1> HIDE DEF T
<1> DEFINE m == NextMember(p)
<1>6. m \in Members \ {p} /\ Within(Digest[p], Digest[m], Digest[n])
  BY <1>4, NextExists
<1> HIDE DEF m
<1>7. Digest[p] \in Id /\ Digest[m] \in Id /\ Digest[n] \in Id /\ Digest[p] # Digest[m]
  BY <1>1, <1>4, <1>6, DigestFacts
<1>8. Clockwise(Digest[m], Digest[n]) < Clockwise(Digest[p], Digest[n])
  BY <1>6, <1>7, Between
<1>9. m = n
  <2>1. SUFFICES ASSUME m # n PROVE FALSE
    OBVIOUS
  <2>2. Clockwise(Digest[p], Digest[n]) <= Clockwise(Digest[m], Digest[n])
    BY <1>5, <1>6, <2>1
  <2> QED
    BY <1>7, <1>8, <2>2, Distance
<1> QED
  BY <1>4, <1>9 DEF m

(* Digests are finitely many, and so are nodes. *)
LEMMA TwoMembers ==
  ASSUME NEW a \in Members, NEW b \in Members, a # b
  PROVE  Cardinality(Members) > 1
<1>1. IsFiniteSet(Id)
  BY CircleSize, FS_Interval DEF Id
<1> DEFINE f == [x \in Members |-> Digest[x]]
<1>2. f \in Injection(Members, Id)
  BY DigestFacts DEF Injection, IsInjective, Members
<1>3. IsFiniteSet(Members)
  BY <1>1, <1>2, FS_Injection
<1>4. IsFiniteSet({a}) /\ Cardinality({a}) = 1
  BY FS_Singleton
<1>5. {a} \in SUBSET Members /\ Members # {a}
  OBVIOUS
<1>6. Cardinality(Members) \in Nat /\ 1 <= Cardinality(Members) /\ Cardinality(Members) # 1
  BY <1>3, <1>4, <1>5, FS_Subset, FS_CardinalityType
<1> QED
  BY <1>6

(* In the ideal ring of two or more members, neighbours know each other. *)
LEMMA IdealNeighbors ==
  ASSUME IdealRing, NEW n \in Members, succ[n] # n
  PROVE  /\ succ[n] \in Members \ {n} /\ pred[n] \in Members \ {n}
         /\ \A m \in Members : /\ succ[m] \in Members \ {m}
                               /\ succ[m] = NextMember(m)
                               /\ pred[succ[m]] = m
                               /\ succ[pred[m]] = m /\ pred[m] \in Members \ {m}
<1>1. \A m \in Members : succ[m] = NextMember(m)
  BY DEF IdealRing, IdealSuccessors
<1>2. ~(Members \subseteq {n})
  BY <1>1 DEF NextMember
<1>3. \A m \in Members : ~(Members \subseteq {m})
  BY <1>2
<1>4. PICK b \in Members : b # n
  BY <1>2
<1>5. Cardinality(Members) > 1
  BY <1>4, TwoMembers
<1>6. \A m \in Members : pred[NextMember(m)] = m
  BY <1>5 DEF IdealRing
<1>7. \A m \in Members : succ[m] \in Members \ {m} /\ pred[succ[m]] = m
  BY <1>1, <1>3, <1>6, NextExists
<1>8. ASSUME NEW m \in Members
      PROVE  pred[m] \in Members \ {m} /\ succ[pred[m]] = m
  <2>1. PICK p \in Members \ {m} : NextMember(p) = m
    BY <1>3, PreviousExists
  <2>2. pred[m] = p
    BY <1>6, <2>1
  <2> QED
    BY <1>1, <2>1, <2>2
<1> QED
  BY <1>1, <1>7, <1>8

(* What an empty network holds after a Send. *)
LEMMA OnlySent ==
  ASSUME NEW ch \in Net, \A a, b \in Node : ch[a][b] = <<>>,
         NEW n \in Node, NEW d \in Node, NEW m \in Message
  PROVE  \A a, b \in Node : \A i \in DOMAIN Send(ch, n, d, m)[a][b] :
           a = n /\ b = d /\ Send(ch, n, d, m)[a][b][i] = m
<1> SUFFICES ASSUME NEW a \in Node, NEW b \in Node, NEW i \in DOMAIN Send(ch, n, d, m)[a][b]
             PROVE  a = n /\ b = d /\ Send(ch, n, d, m)[a][b][i] = m
  OBVIOUS
<1>1. DOMAIN ch[a][b] = {}
  OBVIOUS
<1> QED
  BY <1>1, SendChannel

(* A member between two others leaves: its neighbours are told. *)
LEMMA LeaveParted ==
  ASSUME TypeOK, NEW L \in Node, NEW c \in BOOLEAN, Calm(L, c), Drained, IdealRing,
         NEW n \in Node, Leave(n),
         NEW p, NEW s, NEW q, p = pred[n], s = succ[n],
         q = IF succ[n] = pred[n] THEN AnyAddr ELSE pred[n]
  PROVE  Parted(p, s, q)' /\ ~Drained'
<1>1. /\ Spend("LEAVE") /\ n \in Members /\ succ[n] # n
      /\ status' = [status EXCEPT ![n] = FALSE]
      /\ succ' = [succ EXCEPT ![n] = AnyAddr]
      /\ pred' = [pred EXCEPT ![n] = AnyAddr]
      /\ finger' = [finger EXCEPT ![n] = EmptyTable]
      /\ net' = Send(Send(net, n, s, LeaveSuccessor(q)), n, p, LeavePredecessor(s))
  BY DEF Leave, Detach, Alone, Members, Farewell, LeaveSuccessor, LeavePredecessor
<1>2. /\ s \in Members \ {n} /\ p \in Members \ {n} /\ Members \subseteq Node
      /\ \A m \in Members : /\ succ[m] \in Members \ {m}
                            /\ succ[m] = NextMember(m)
                            /\ pred[succ[m]] = m
                            /\ succ[pred[m]] = m /\ pred[m] \in Members \ {m}
  BY <1>1, IdealNeighbors DEF Members
<1>3. Members' = Members \ {n}
  BY <1>1 DEF TypeOK, Members
<1>4. /\ \A x \in Node \ {n} : succ'[x] = succ[x] /\ pred'[x] = pred[x]
      /\ succ'[n] = AnyAddr
  BY <1>1 DEF TypeOK
<1>5. ~NobodyLeft'
  BY <1>1, SpendLeft DEF Command
<1>6. q \in {AnyAddr, p}
  OBVIOUS
<1>7. \A m \in (Members \ {n}) \ {p} :
        /\ succ'[m] \in (Members \ {n}) \ {m}
        /\ Within(Digest[m], Digest[succ'[m]], Digest[p])
  <2> SUFFICES ASSUME NEW m \in (Members \ {n}) \ {p}
               PROVE  /\ succ[m] \in (Members \ {n}) \ {m}
                      /\ Within(Digest[m], Digest[succ[m]], Digest[p])
    BY <1>2, <1>4
  <2>1. succ[m] # n
    BY <1>2
  <2>2. ~(Members \subseteq {m})
    BY <1>2
  <2>3. Within(Digest[m], Digest[NextMember(m)], Digest[p])
    BY <1>2, <2>2, NextExists
  <2> QED
    BY <1>2, <2>1, <2>3
<1>8. \A m \in (Members \ {n}) \ {s} : pred'[m] \in Members \ {n}
  <2> SUFFICES ASSUME NEW m \in (Members \ {n}) \ {s} PROVE pred[m] \in Members \ {n}
    BY <1>2, <1>4
  <2>1. succ[pred[m]] = m /\ m # s
    BY <1>2
  <2> QED
    BY <1>2, <2>1
<1>9. Outside'
  <2> SUFFICES ASSUME NEW x \in Node \ (Members \ {n})
               PROVE  succ'[x] = AnyAddr /\ Entries(x)' = {}
    BY <1>3 DEF Outside
  <2>1. CASE x = n
    BY <1>1, <2>1 DEF TypeOK, Entries, EmptyTable
  <2>2. CASE x # n
    BY <1>1, <2>2 DEF TypeOK, Calm, Outside, Entries
  <2> QED
    BY <2>1, <2>2
<1>10. p = s => Members \ {n} = {p}
  <2> SUFFICES ASSUME p = s, NEW o \in Members, o # n, o # p PROVE FALSE
    BY <1>2
  <2>1. /\ p \in Members /\ p # n /\ ~(Members \subseteq {n}) /\ ~(Members \subseteq {p})
        /\ NextMember(n) = p /\ NextMember(p) = n
    BY <1>1, <1>2
  <2>a. Within(Digest[n], Digest[NextMember(n)], Digest[o])
    BY <1>1, <2>1, NextExists
  <2>b. Within(Digest[p], Digest[NextMember(p)], Digest[o])
    BY <2>1, NextExists
  <2>2. Within(Digest[n], Digest[p], Digest[o]) /\ Within(Digest[p], Digest[n], Digest[o])
    BY <2>1, <2>a, <2>b
  <2>3. Digest[n] \in Id /\ Digest[p] \in Id /\ Digest[o] \in Id /\ Digest[n] # Digest[p]
    BY <1>2, DigestFacts
  <2>4. /\ Clockwise(Digest[p], Digest[o]) < Clockwise(Digest[n], Digest[o])
        /\ Clockwise(Digest[n], Digest[o]) < Clockwise(Digest[p], Digest[o])
    BY <2>2, <2>3, Between
  <2> QED
    BY <2>3, <2>4, Distance
<1> DEFINE ch1 == Send(net, n, s, LeaveSuccessor(q))
<1>11. net \in Net /\ LeaveSuccessor(q) \in Message /\ LeavePredecessor(s) \in Message
  BY <1>2 DEF TypeOK, Net, LeaveSuccessor, LeavePredecessor, Message, Addr
<1>12. ch1 \in Net /\ s \in Node /\ p \in Node
  BY <1>2, <1>11, SendType
<1>13. \A a, b \in Node : \A i \in DOMAIN ch1[a][b] : b = s /\ ch1[a][b][i] = LeaveSuccessor(q)
  <2> DEFINE y == LeaveSuccessor(q)
  <2>1. net \in Net /\ y \in Message /\ s \in Node /\ ch1 = Send(net, n, s, y)
    BY <1>11, <1>12
  <2>2. \A a, b \in Node : net[a][b] = <<>>
    BY DEF Drained
  <2> HIDE DEF y, ch1
  <2>3. \A a, b \in Node : \A i \in DOMAIN ch1[a][b] : b = s /\ ch1[a][b][i] = y
    BY <2>1, <2>2, OnlySent
  <2> QED
    BY <2>3 DEF y
<1>14. ch1[n][s] = Append(net[n][s], LeaveSuccessor(q))
  BY <1>11, <1>12 DEF Send, Net
<1>15. \E i \in DOMAIN ch1[n][s] : ch1[n][s][i] = LeaveSuccessor(q)
  <2>1. net[n][s] \in Seq(Message) /\ Len(net[n][s]) = 0
    BY <1>12 DEF Drained, TypeOK
  <2>2. 1 \in DOMAIN ch1[n][s] /\ ch1[n][s][1] = LeaveSuccessor(q)
    BY <1>11, <1>14, <2>1
  <2> QED
    BY <2>2
<1>16. net' = Send(ch1, n, p, LeavePredecessor(s))
  BY <1>1
<1> HIDE DEF ch1
<1>17. \A a, b \in Node : \A i \in DOMAIN net'[a][b] :
         \/ b = s /\ net'[a][b][i] = LeaveSuccessor(q)
         \/ b = p /\ net'[a][b][i] = LeavePredecessor(s)
  <2> SUFFICES ASSUME NEW a \in Node, NEW b \in Node, NEW i \in DOMAIN net'[a][b]
               PROVE  \/ b = s /\ net'[a][b][i] = LeaveSuccessor(q)
                      \/ b = p /\ net'[a][b][i] = LeavePredecessor(s)
    OBVIOUS
  <2> DEFINE y == LeavePredecessor(s)
  <2>1. y \in Message /\ net' = Send(ch1, n, p, y)
    BY <1>11, <1>16
  <2> HIDE DEF y
  <2>2. CASE i \in DOMAIN ch1[a][b] /\ net'[a][b][i] = ch1[a][b][i]
    BY <1>13, <2>2
  <2>3. CASE b = p /\ net'[a][b][i] = y
    BY <2>3 DEF y
  <2> QED
    BY <1>12, <2>1, <2>2, <2>3, SendChannel
<1>18. net'[n][p] = Append(ch1[n][p], LeavePredecessor(s))
  BY <1>12, <1>16 DEF Send, Net
<1>19. \E i \in DOMAIN net'[n][p] : net'[n][p][i] = LeavePredecessor(s)
  <2>1. ch1[n][p] \in Seq(Message)
    BY <1>12 DEF Net
  <2>2. Len(ch1[n][p]) + 1 \in DOMAIN net'[n][p]
        /\ net'[n][p][Len(ch1[n][p]) + 1] = LeavePredecessor(s)
    BY <1>11, <1>18, <2>1
  <2> QED
    BY <2>2
<1>20. \E i \in DOMAIN net'[n][s] : net'[n][s][i] = LeaveSuccessor(q)
  <2>1. PICK i \in DOMAIN ch1[n][s] : ch1[n][s][i] = LeaveSuccessor(q)
    BY <1>15
  <2>2. CASE p = s
    <3>1. ch1[n][s] \in Seq(Message) /\ net'[n][s] = Append(ch1[n][s], LeavePredecessor(s))
      BY <1>12, <1>18, <2>2 DEF Net
    <3>2. i \in DOMAIN net'[n][s] /\ net'[n][s][i] = ch1[n][s][i]
      BY <1>11, <3>1
    <3> QED
      BY <2>1, <3>2
  <2>3. CASE p # s
    <3>1. net'[n][s] = ch1[n][s]
      BY <1>12, <1>16, <2>3 DEF Send, Net
    <3> QED
      BY <2>1, <3>1
  <2> QED
    BY <2>2, <2>3
<1>21. (InFlight(p, LeavePredecessor(s)) /\ InFlight(s, LeaveSuccessor(q)))'
  BY <1>19, <1>20 DEF InFlight, LeavePredecessor, LeaveSuccessor
<1>22. ~Drained'
  BY <1>12, <1>19 DEF Drained
<1>23. (\A a, b \in Node : \A i \in DOMAIN net[a][b] :
         \/ b = s /\ net[a][b][i] = LeaveSuccessor(q)
         \/ b = p /\ net[a][b][i] = LeavePredecessor(s))'
  BY <1>17 DEF LeaveSuccessor, LeavePredecessor
<1>24. (\A m \in Members \ {p} :
          succ[m] \in Members \ {m} /\ Within(Digest[m], Digest[succ[m]], Digest[p]))'
  BY <1>3, <1>7
<1>25. (\A m \in Members \ {s} : pred[m] \in Members \cup {AnyAddr})'
  BY <1>3, <1>8
<1> QED
  BY <1>2, <1>3, <1>5, <1>6, <1>9, <1>10, <1>21, <1>22, <1>23, <1>24, <1>25 DEF Parted

-----------------------------------------------------------------------------
(* A ring being founded, a ring being left *)

(* When both neighbours have been told, the ring is calm again. *)
LEMMA PartedDrained ==
  ASSUME NEW p \in Node, NEW s \in Node, NEW q \in Addr, Parted(p, s, q), Drained
  PROVE  Calm(p, FALSE)
<1>1. \A a, b \in Node : DOMAIN net[a][b] = {}
  BY DEF Drained
<1>2. succ[p] = s /\ pred[s] = q
  BY <1>1 DEF Parted, InFlight
<1>3. Anchored(p, FALSE) /\ Outside
  BY DEF Parted, Anchored
<1>4. Pointers(p)
  <2> SUFFICES ASSUME NEW n \in Members
               PROVE  /\ succ[n] \in Members
                      /\ succ[n] = n => Members = {n}
                      /\ pred[n] \in Members \cup {AnyAddr}
                      /\ n # p => Within(Digest[n], Digest[succ[n]], Digest[p])
    BY DEF Pointers
  <2>1. pred[n] \in Members \cup {AnyAddr}
    BY <1>2 DEF Parted
  <2>2. CASE n = p
    BY <1>2, <2>1, <2>2 DEF Parted
  <2>3. CASE n # p
    BY <2>1, <2>3 DEF Parted
  <2> QED
    BY <2>2, <2>3
<1>5. Sounds(net, Members, SomeoneAlone, p, FALSE) /\ OneThread(net)
  BY <1>1 DEF Sounds, OneThread
<1> QED
  BY <1>3, <1>4, <1>5 DEF Calm

(* Taking a packet leaves the others where they are. *)
LEMMA ReceivedInFlight ==
  ASSUME TypeOK, NEW n \in Node, NEW s \in Node, net[s][n] # <<>>,
         net' = Received(n, s),
         NEW d \in Node, NEW x, InFlight(d, x), ~(d = n /\ Packet(n, s) = x)
  PROVE  \E a \in Node : \E i \in DOMAIN net'[a][d] : net'[a][d][i] = x
<1>1. PICK a \in Node : \E i \in DOMAIN net[a][d] : net[a][d][i] = x
  BY DEF InFlight
<1>2. PICK i \in DOMAIN net[a][d] : net[a][d][i] = x
  BY <1>1
<1>3. net[s][n] \in Seq(Message) /\ net \in Net
  BY DEF TypeOK, Net
<1>4. CASE a = s /\ d = n
  <2>1. net'[a][d] = Tail(net[s][n])
    BY <1>3, <1>4 DEF Received, Net
  <2>2. i \in 1 .. Len(net[s][n]) /\ i # 1
    BY <1>2, <1>3, <1>4 DEF Packet
  <2>3. i - 1 \in DOMAIN net'[a][d] /\ net'[a][d][i - 1] = net[s][n][i]
    BY <1>3, <2>1, <2>2
  <2> QED
    BY <1>2, <1>4, <2>3
<1>5. CASE ~(a = s /\ d = n)
  <2>1. net'[a][d] = net[a][d]
    BY <1>3, <1>5 DEF Received, Net
  <2> QED
    BY <1>2, <2>1
<1> QED
  BY <1>4, <1>5

(* What is left in the network was in it. *)
LEMMA ReceivedWas ==
  ASSUME TypeOK, NEW n \in Node, NEW s \in Node, net[s][n] # <<>>,
         NEW a \in Node, NEW b \in Node, NEW i \in DOMAIN Received(n, s)[a][b]
  PROVE  \E j \in DOMAIN net[a][b] : Received(n, s)[a][b][i] = net[a][b][j]
BY ReceivedChannel

(* The head of a channel is one of its packets. *)
LEMMA PacketIsIn ==
  ASSUME TypeOK, NEW n \in Node, NEW s \in Node, net[s][n] # <<>>
  PROVE  1 \in DOMAIN net[s][n] /\ Packet(n, s) = net[s][n][1]
<1>1. net[s][n] \in Seq(Message)
  BY DEF TypeOK
<1> QED
  BY <1>1 DEF Packet

(* One of the neighbours is told. *)
LEMMA PartedStep ==
  ASSUME TypeOK, NEW p \in Node, NEW s \in Node, NEW q \in Addr, Parted(p, s, q),
         NEW n \in Node, NEW o \in Node, RecvMessage(n, o)
  PROVE  Parted(p, s, q)'
<1>0. net[o][n] # <<>>
  BY DEF RecvMessage, Arrives, ProcessJoinChord, ProcessFindSuccessor,
         ProcessJoinChordSuccess, ProcessJoinChordFail, ProcessNotify,
         ProcessStabilizeReq, ProcessStabilizeResp, ProcessLeaveSuccessor,
         ProcessLeavePredecessor, ProcessRingstate, ProcessFindFinger,
         ProcessFindFingerSuccess, ProcessLookupPublish, ProcessLookupPublishSuccess
<1> DEFINE m == Packet(n, o)
<1>1. \/ n = s /\ m = LeaveSuccessor(q)
      \/ n = p /\ m = LeavePredecessor(s)
  BY <1>0, PacketIsIn DEF Parted
<1>2. Head(net[o][n]) = m
  BY DEF Packet
<1>3. /\ m.type = "LEAVE_SUCCESSOR" => ProcessLeaveSuccessor(n, o)
      /\ m.type = "LEAVE_PREDECESSOR" => ProcessLeavePredecessor(n, o)
  BY <1>2 DEF RecvMessage, Arrives, ProcessJoinChord, ProcessFindSuccessor,
         ProcessJoinChordSuccess, ProcessJoinChordFail, ProcessNotify,
         ProcessStabilizeReq, ProcessStabilizeResp, ProcessLeaveSuccessor,
         ProcessLeavePredecessor, ProcessRingstate, ProcessFindFinger,
         ProcessFindFingerSuccess, ProcessLookupPublish, ProcessLookupPublishSuccess
<1> HIDE DEF m
<1>4. m.type \in {"LEAVE_SUCCESSOR", "LEAVE_PREDECESSOR"}
  BY <1>1 DEF LeaveSuccessor, LeavePredecessor
<1>5. net' = Received(n, o) /\ UNCHANGED <<status, finger, used>>
  BY <1>3, <1>4 DEF ProcessLeaveSuccessor, ProcessLeavePredecessor
<1>6. Members' = Members /\ ~NobodyLeft'
  BY <1>5 DEF Members, NobodyLeft, Parted
<1>7. ASSUME NEW a \in Node, NEW b \in Node, NEW i \in DOMAIN net'[a][b]
      PROVE  \/ b = s /\ net'[a][b][i] = LeaveSuccessor(q)
             \/ b = p /\ net'[a][b][i] = LeavePredecessor(s)
  <2>1. PICK j \in DOMAIN net[a][b] : net'[a][b][i] = net[a][b][j]
    BY <1>0, <1>5, <1>7, ReceivedWas
  <2> QED
    BY <2>1 DEF Parted
<1>8. (\A a, b \in Node : \A i \in DOMAIN net[a][b] :
         \/ b = s /\ net[a][b][i] = LeaveSuccessor(q)
         \/ b = p /\ net[a][b][i] = LeavePredecessor(s))'
  BY <1>7 DEF LeaveSuccessor, LeavePredecessor
<1>9. LeaveSuccessor(q) # LeavePredecessor(s)
  <2>1. LeaveSuccessor(q).type # LeavePredecessor(s).type
    BY DEF LeaveSuccessor, LeavePredecessor
  <2> QED
    BY <2>1
<1>10. CASE n = s /\ m = LeaveSuccessor(q)
  <2>1. ProcessLeaveSuccessor(n, o) /\ m.addr = q
    BY <1>3, <1>10 DEF LeaveSuccessor
  <2>2. pred' = [pred EXCEPT ![s] = q] /\ succ' = succ
    BY <1>10, <2>1 DEF ProcessLeaveSuccessor, m
  <2>3. pred'[s] = q /\ \A x \in Node \ {s} : pred'[x] = pred[x]
    BY <2>2 DEF TypeOK
  <2>4. succ'[p] = s \/ \E a \in Node : \E i \in DOMAIN net'[a][p] : net'[a][p][i] = LeavePredecessor(s)
    BY <1>0, <1>5, <1>9, <1>10, <2>2, ReceivedInFlight DEF Parted, m
  <2>5. (succ[p] = s \/ InFlight(p, LeavePredecessor(s)))'
    BY <2>4 DEF InFlight, LeavePredecessor
  <2>6. (\A x \in Members \ {s} : pred[x] \in Members \cup {AnyAddr})'
    BY <1>6, <2>3 DEF Parted, Members
  <2>7. Outside'
    BY <1>5, <1>6, <2>2 DEF Parted, Outside, Entries
  <2>8. (\A x \in Members \ {p} :
           succ[x] \in Members \ {x} /\ Within(Digest[x], Digest[succ[x]], Digest[p]))'
    BY <1>6, <2>2 DEF Parted
  <2>9. (p \in Members /\ s \in Members /\ q \in {AnyAddr, p} /\ (p = s => Members = {p}))'
    BY <1>6 DEF Parted
  <2> QED
    BY <1>6, <1>8, <2>3, <2>5, <2>6, <2>7, <2>8, <2>9 DEF Parted
<1>11. CASE n = p /\ m = LeavePredecessor(s)
  <2>1. ProcessLeavePredecessor(n, o) /\ m.addr = s
    BY <1>3, <1>11 DEF LeavePredecessor
  <2>2. succ' = [succ EXCEPT ![p] = s] /\ pred' = pred
    BY <1>11, <2>1 DEF ProcessLeavePredecessor, m
  <2>3. succ'[p] = s /\ \A x \in Node \ {p} : succ'[x] = succ[x]
    BY <2>2 DEF TypeOK
  <2>4. pred'[s] = q \/ \E a \in Node : \E i \in DOMAIN net'[a][s] : net'[a][s][i] = LeaveSuccessor(q)
    BY <1>0, <1>5, <1>9, <1>11, <2>2, ReceivedInFlight DEF Parted, m
  <2>5. (pred[s] = q \/ InFlight(s, LeaveSuccessor(q)))'
    BY <2>4 DEF InFlight, LeaveSuccessor
  <2>6. (\A x \in Members \ {s} : pred[x] \in Members \cup {AnyAddr})'
    BY <1>6, <2>2 DEF Parted
  <2>7. Outside'
    BY <1>5, <1>6, <2>3 DEF Parted, Outside, Entries
  <2>8. (\A x \in Members \ {p} :
           succ[x] \in Members \ {x} /\ Within(Digest[x], Digest[succ[x]], Digest[p]))'
    BY <1>6, <2>3 DEF Parted, Members
  <2>9. (p \in Members /\ s \in Members /\ q \in {AnyAddr, p} /\ (p = s => Members = {p}))'
    BY <1>6 DEF Parted
  <2> QED
    BY <1>6, <1>8, <2>3, <2>5, <2>6, <2>7, <2>8, <2>9 DEF Parted
<1> QED
  BY <1>1, <1>10, <1>11

(* While somebody still has to be told, nothing else happens. *)
LEMMA PartedNext ==
  ASSUME TypeOK, NEW p \in Node, NEW s \in Node, NEW q \in Addr, Parted(p, s, q),
         ~Drained, CalmNext
  PROVE  Parted(p, s, q)'
<1>1. PICK a \in Node, b \in Node : net[a][b] # <<>>
  BY DEF Drained
<1>2. /\ 1 \in DOMAIN net[a][b]
      /\ net[a][b][1] = LeaveSuccessor(q) \/ net[a][b][1] = LeavePredecessor(s)
  BY <1>1, PacketIsIn DEF Parted
<1>3. LeaveInProgress
  BY <1>2 DEF LeaveInProgress, LeaveSuccessor, LeavePredecessor
<1>4. ASSUME NEW n \in Node, NEW o \in Node, LoseRound(n, o)
      PROVE  FALSE
  <2>1. net[o][n] # <<>> /\ Packet(n, o).type = "STABILIZE_REQ"
    BY <1>4 DEF LoseRound, Arrives, Packet
  <2>2. Packet(n, o) = LeaveSuccessor(q) \/ Packet(n, o) = LeavePredecessor(s)
    BY <2>1, PacketIsIn DEF Parted
  <2> QED
    BY <2>1, <2>2 DEF LeaveSuccessor, LeavePredecessor
<1>5. PICK n \in Node, o \in Node : RecvMessage(n, o)
  BY <1>3, <1>4 DEF CalmNext, PacedCommand, Settled
<1> QED
  BY <1>5, PartedStep

(* The founder may go on to send to its successor. *)
LEMMA FoundingSend ==
  ASSUME NEW ch \in Net, NEW m \in Node, NEW s \in Node, NEW x \in Message, NEW h,
         ch[m][s] # <<>>, Head(ch[m][s]) = h, FoundingPacket(m, x),
         \A a, b \in Node : \A i \in DOMAIN ch[a][b] :
           a = m /\ b = s /\ (i # 1 => FoundingPacket(m, ch[a][b][i])),
         NEW r, r = Send(ch, m, s, x)
  PROVE  /\ r[m][s] # <<>> /\ Head(r[m][s]) = h
         /\ \A a, b \in Node : \A i \in DOMAIN r[a][b] :
              a = m /\ b = s /\ (i # 1 => FoundingPacket(m, r[a][b][i]))
<1>1. ch[m][s] \in Seq(Message) /\ r[m][s] = Append(ch[m][s], x)
  BY DEF Send, Net
<1>2. r[m][s] # <<>> /\ Head(r[m][s]) = h
  BY <1>1
<1>3. ASSUME NEW a \in Node, NEW b \in Node, NEW i \in DOMAIN r[a][b]
      PROVE  a = m /\ b = s /\ (i # 1 => FoundingPacket(m, r[a][b][i]))
  <2>1. i \in DOMAIN Send(ch, m, s, x)[a][b]
    OBVIOUS
  <2> QED
    BY <1>3, <2>1, SendChannel
<1> QED
  BY <1>2, <1>3

(* The timers of the founder. *)
LEMMA FoundingTimer ==
  ASSUME TypeOK, NEW m \in Node, NEW s \in Node, Founding(m, s),
         NEW n \in Node, TimerExpires(n)
  PROVE  Founding(m, s)'
<1>1. n = m /\ Members = {m} /\ succ[m] = s
  BY DEF TimerExpires, Stabilize, FixFinger, Founding, Members
<1>2. UNCHANGED <<status, succ, pred, used>> /\ Members' = Members
  BY DEF TimerExpires, Stabilize, FixFinger, Answer, local, Members
<1>3. net \in Net /\ s \in Addr /\ m # s /\ s \notin Members
  BY <1>1 DEF TypeOK, Net, Addr, Founding
<1>4. /\ net[m][s] # <<>> /\ Head(net[m][s]) = JoinChordSuccess(m)
      /\ \A a, b \in Node : \A i \in DOMAIN net[a][b] :
           a = m /\ b = s /\ (i # 1 => FoundingPacket(m, net[a][b][i]))
  BY DEF Founding
<1>5. /\ \A i \in FingerIndex : finger'[m][i] # NoEntry => finger'[m][i] \in {m, s}
      /\ \A x \in Node \ {m} : finger'[x] = finger[x]
      /\ \/ net' = net
         \/ \E x \in Message : FoundingPacket(m, x) /\ net' = Send(net, m, s, x)
  <2>1. CASE Stabilize(n)
    <3>1. finger' = finger /\ net' = Send(net, m, s, [type |-> "STABILIZE_REQ"])
      BY <1>1, <2>1 DEF Stabilize, Answer, local
    <3>2. [type |-> "STABILIZE_REQ"] \in Message /\ FoundingPacket(m, [type |-> "STABILIZE_REQ"])
      BY DEF Message, FoundingPacket
    <3> QED
      BY <3>1, <3>2 DEF Founding, Entries
  <2>2. CASE FixFinger(n)
    <3> DEFINE tab == [finger[m] EXCEPT ![1] = s]
    <3>1. SendFindFinger(net, m, Expired(m), tab, s, 2)
      BY <1>1, <2>2 DEF FixFinger
    <3>2. \A j \in FingerIndex : tab[j] # NoEntry => tab[j] \in {m, s}
      <4> SUFFICES ASSUME NEW j \in FingerIndex, tab[j] # NoEntry PROVE tab[j] \in {m, s}
        OBVIOUS
      <4>1. tab[j] \in {s, finger[m][j]}
        BY DEF TypeOK
      <4>2. finger[m][j] # NoEntry => finger[m][j] \in {m, s}
        BY DEF Founding, Entries
      <4> QED
        BY <4>1, <4>2
    <3> HIDE DEF tab
    <3>3. /\ \A x \in Node \ {m} : finger'[x] = finger[x]
          /\ \A j \in FingerIndex : finger'[m][j] \in {s, tab[j]}
          /\ Asked(net', net, m, s)
      BY <3>1, SendFindFingerEffect
    <3>4. \A k \in FingerIndex : /\ [type |-> "FIND_FINGER", addr |-> m, index |-> k] \in Message
                                 /\ FoundingPacket(m, [type |-> "FIND_FINGER", addr |-> m, index |-> k])
      BY DEF Message, FoundingPacket
    <3>5. \/ net' = net
          \/ \E x \in Message : FoundingPacket(m, x) /\ net' = Send(net, m, s, x)
      BY <3>3, <3>4 DEF Asked
    <3> QED
      BY <3>2, <3>3, <3>5
  <2> QED
    BY <2>1, <2>2 DEF TimerExpires
<1>6. /\ net'[m][s] # <<>> /\ Head(net'[m][s]) = JoinChordSuccess(m)
      /\ \A a, b \in Node : \A i \in DOMAIN net'[a][b] :
           a = m /\ b = s /\ (i # 1 => FoundingPacket(m, net'[a][b][i]))
  <2>1. CASE net' = net
    BY <1>4, <2>1
  <2>2. CASE \E x \in Message : FoundingPacket(m, x) /\ net' = Send(net, m, s, x)
    BY <1>3, <1>4, <2>2, FoundingSend
  <2> QED
    BY <1>5, <2>1, <2>2
<1>7. (\A i \in Entries(m) : finger[m][i] \in {m, s})'
  BY <1>5 DEF Entries
<1>8. Outside'
  <2> SUFFICES ASSUME NEW x \in Node \ Members PROVE succ'[x] = AnyAddr /\ Entries(x)' = {}
    BY <1>2 DEF Outside
  <2> QED
    BY <1>1, <1>2, <1>5 DEF Founding, Outside, Entries
<1>9. (\A a, b \in Node : \A i \in DOMAIN net[a][b] :
          a = m /\ b = s /\ (i # 1 => FoundingPacket(m, net[a][b][i])))'
  BY <1>6 DEF FoundingPacket
<1>10. (net[m][s] # <<>> /\ Head(net[m][s]) = JoinChordSuccess(m))'
  BY <1>6 DEF JoinChordSuccess
<1>11. (/\ m # s /\ Members = {m} /\ succ[m] = s /\ pred[m] \in {m, AnyAddr}
        /\ NobodyLeft => m = Landmark)'
  BY <1>2 DEF Founding, NobodyLeft
<1> QED
  BY <1>7, <1>8, <1>9, <1>10, <1>11 DEF Founding

(* The first newcomer is told: the two are a ring. *)
LEMMA FoundingJoined ==
  ASSUME TypeOK, NEW m \in Node, NEW s \in Node, Founding(m, s),
         NEW n \in Node, NEW o \in Node, RecvMessage(n, o)
  PROVE  Calm(m, TRUE)'
<1>0. net[o][n] # <<>>
  BY DEF RecvMessage, Arrives, ProcessJoinChord, ProcessFindSuccessor,
         ProcessJoinChordSuccess, ProcessJoinChordFail, ProcessNotify,
         ProcessStabilizeReq, ProcessStabilizeResp, ProcessLeaveSuccessor,
         ProcessLeavePredecessor, ProcessRingstate, ProcessFindFinger,
         ProcessFindFingerSuccess, ProcessLookupPublish, ProcessLookupPublishSuccess
<1>1. o = m /\ n = s
  BY <1>0, PacketIsIn DEF Founding
<1>2. Head(net[m][s]) = JoinChordSuccess(m)
  BY DEF Founding
<1>3. ProcessJoinChordSuccess(s, m)
  BY <1>1, <1>2 DEF JoinChordSuccess,
         RecvMessage, Arrives, ProcessJoinChord, ProcessFindSuccessor,
         ProcessJoinChordSuccess, ProcessJoinChordFail, ProcessNotify,
         ProcessStabilizeReq, ProcessStabilizeResp, ProcessLeaveSuccessor,
         ProcessLeavePredecessor, ProcessRingstate, ProcessFindFinger,
         ProcessFindFingerSuccess, ProcessLookupPublish, ProcessLookupPublishSuccess
<1> DEFINE ch == Received(s, m)
           y == [type |-> "NOTIFY"]
<1>4. Packet(s, m).addr = m
  BY <1>2 DEF Packet, JoinChordSuccess
<1>5. /\ status' = [status EXCEPT ![s] = TRUE]
      /\ succ' = [succ EXCEPT ![s] = m]
      /\ pred' = [pred EXCEPT ![s] = AnyAddr]
      /\ net' = Send(ch, s, m, y)
      /\ UNCHANGED <<finger, used>>
  BY <1>3, <1>4 DEF ProcessJoinChordSuccess, SendNotify
<1>6. m # s /\ Members = {m}
  BY DEF Founding
<1>7. Members' = {m, s}
  BY <1>5, <1>6 DEF TypeOK, Members
<1>8. /\ succ'[s] = m /\ pred'[s] = AnyAddr
      /\ \A x \in Node \ {s} : succ'[x] = succ[x] /\ pred'[x] = pred[x]
  BY <1>5 DEF TypeOK
<1>9. succ'[m] = s /\ pred'[m] \in {m, AnyAddr}
  BY <1>6, <1>8 DEF Founding
<1>10. ~SomeoneAlone'
  BY <1>6, <1>7, <1>8, <1>9 DEF SomeoneAlone
<1>11. Anchored(m, TRUE)'
  BY <1>5, <1>7 DEF Anchored, Founding, NobodyLeft
<1>12. Pointers(m)'
  <2>1. Digest[s] \in Id /\ Digest[m] \in Id
    BY DigestFacts
  <2>2. Within(Digest[s], Digest[m], Digest[m])
    BY <2>1, Distance DEF Within
  <2> QED
    BY <1>6, <1>7, <1>8, <1>9, <2>2 DEF Pointers
<1>13. Outside'
  <2> SUFFICES ASSUME NEW x \in Node \ {m, s} PROVE succ'[x] = AnyAddr /\ Entries(x)' = {}
    BY <1>7 DEF Outside
  <2> QED
    BY <1>5, <1>6, <1>8 DEF Founding, Outside, Entries
<1>14. FingersInRing'
  <2>1. Entries(s) = {}
    BY <1>6 DEF Founding, Outside
  <2>2. \A i \in Entries(m) : finger[m][i] \in {m, s}
    BY DEF Founding
  <2> QED
    BY <1>5, <1>7, <2>1, <2>2 DEF FingersInRing, Entries
<1>15. ch \in Net
  BY <1>0, <1>1, ReceivedType
<1>16. ASSUME NEW a \in Node, NEW b \in Node, NEW i \in DOMAIN ch[a][b]
       PROVE  a = m /\ b = s /\ FoundingPacket(m, ch[a][b][i])
  BY <1>0, <1>1, <1>16, ReceivedChannel DEF Founding
<1>17. y \in Message /\ y.type \notin Thread
  BY DEF Message, Thread
<1>18. Sound({m, s}, FALSE, m, TRUE, s, m, y)
  BY DEF Sound
<1> HIDE DEF ch, y
<1>19. Sounds(ch, {m, s}, FALSE, m, TRUE)
  <2> SUFFICES ASSUME NEW a \in Node, NEW b \in Node, NEW i \in DOMAIN ch[a][b]
               PROVE  Sound({m, s}, FALSE, m, TRUE, a, b, ch[a][b][i])
    BY DEF Sounds
  <2> QED
    BY <1>16 DEF FoundingPacket, Sound
<1>20. NoThread(ch)
  <2> SUFFICES ASSUME NEW a \in Node, NEW b \in Node, NEW i \in DOMAIN ch[a][b]
               PROVE  ch[a][b][i].type \notin Thread
    BY DEF NoThread
  <2> QED
    BY <1>16 DEF FoundingPacket, Thread
<1>21. Sounds(net', {m, s}, FALSE, m, TRUE) /\ OneThread(net')
  BY <1>5, <1>15, <1>17, <1>18, <1>19, <1>20, SendSounds, SendThread
<1>22. Sounds(net, Members, SomeoneAlone, m, TRUE)'
  BY <1>7, <1>10, <1>21 DEF Sounds, Sound
<1>23. OneThread(net)'
  BY <1>21 DEF OneThread
<1> QED
  BY <1>11, <1>12, <1>13, <1>14, <1>22, <1>23 DEF Calm

(* Between the founder's answer and its arrival, only these happen. *)
LEMMA FoundingNext ==
  ASSUME TypeOK, NEW m \in Node, NEW s \in Node, Founding(m, s), CalmNext
  PROVE  Founding(m, s)' \/ Calm(m, TRUE)'
<1>1. ~Drained
  BY DEF Founding, Drained
<1>2. ASSUME NEW n \in Node, NEW o \in Node, LoseRound(n, o)
      PROVE  FALSE
  <2>1. net[o][n] # <<>> /\ Packet(n, o).type = "STABILIZE_REQ"
    BY <1>2 DEF LoseRound, Arrives, Packet
  <2>2. o = m /\ n = s
    BY <2>1, PacketIsIn DEF Founding
  <2> QED
    BY <2>1, <2>2 DEF Founding, Packet, JoinChordSuccess
<1>3. CASE \E n \in Node : TimerExpires(n)
  BY <1>3, FoundingTimer
<1>4. CASE \E n, o \in Node : RecvMessage(n, o)
  BY <1>4, FoundingJoined
<1> QED
  BY <1>1, <1>2, <1>3, <1>4 DEF CalmNext, PacedCommand, Settled

-----------------------------------------------------------------------------
(* The ring invariant *)

(* Nobody is in the ring. *)
LEMMA RingInit == Init => RInv
<1> SUFFICES ASSUME Init PROVE Calm(Landmark, TRUE)
  BY LandmarkAssumption DEF RInv
<1>1. Members = {}
  BY DEF Init, Members
<1>2. \A a, b \in Node : DOMAIN net[a][b] = {}
  BY DEF Init
<1>3. Sounds(net, Members, SomeoneAlone, Landmark, TRUE) /\ OneThread(net)
  BY <1>2 DEF Sounds, OneThread
<1>4. Anchored(Landmark, TRUE) /\ Pointers(Landmark) /\ FingersInRing
  BY <1>1, LandmarkAssumption DEF Anchored, Pointers, FingersInRing
<1>5. Outside
  BY DEF Init, Outside, Entries, EmptyTable
<1> QED
  BY <1>3, <1>4, <1>5 DEF Calm

(* A step from a calm ring. *)
LEMMA CalmStep ==
  ASSUME TypeOK, NEW L \in Node, NEW c \in BOOLEAN, Calm(L, c), CalmNext
  PROVE  RInv'
<1>1. CASE PacedCommand
  <2>0. Settled
    BY <1>1 DEF PacedCommand
  <2>1. PICK n \in Node :
       \/ n = Landmark /\ Members = {} /\ JoinSelf(n)
       \/ \E d \in Node : JoinVia(n, d)
       \/ n = Landmark /\ used["LOOKUP"] = 0 /\ Ringstate(n)
       \/ IdealRing /\ LeaveAlone(n)
       \/ IdealRing /\ Leave(n)
       \/ /\ IdealRing /\ n \in Members /\ succ[n] # n
          /\ used["RINGSTATE"] = 0
          /\ \E k \in KeyId : LookupPublish(n, k)
    BY <1>1 DEF PacedCommand
  <2>2. CASE n = Landmark /\ Members = {} /\ JoinSelf(n)
    BY <2>0, <2>2, FoundedCalm DEF RInv
  <2>3. CASE \E d \in Node : JoinVia(n, d)
    BY <2>0, <2>3, AskedCalm DEF RInv
  <2>4. CASE Ringstate(n)
    BY <2>0, <2>4, RingstateCalm DEF RInv
  <2>5. CASE LeaveAlone(n)
    BY <2>0, <2>5, LeftAloneCalm DEF RInv
  <2>6. CASE IdealRing /\ Leave(n)
    <3> DEFINE p == pred[n]
               s == succ[n]
               q == IF succ[n] = pred[n] THEN AnyAddr ELSE pred[n]
    <3>1. \E p1, s1 \in Node, q1 \in Addr : Parted(p1, s1, q1)'
      <4>1. n \in Members /\ succ[n] # n
        BY <2>6 DEF Leave, Members, Alone
      <4>2. p \in Node /\ s \in Node /\ q \in Addr
        BY <2>6, <4>1, IdealNeighbors DEF Members, Addr
      <4>3. Drained
        BY <2>0 DEF Settled
      <4>4. \E p1, s1, q1 : p1 = p /\ s1 = s /\ q1 = q
        OBVIOUS
      <4>5. PICK p1, s1, q1 : p1 = p /\ s1 = s /\ q1 = q
        BY <4>4
      <4>6. Parted(p1, s1, q1)'
        BY <2>6, <4>3, <4>5, LeaveParted
      <4> QED
        BY <4>2, <4>5, <4>6
    <3> QED
      BY <3>1 DEF RInv
  <2>7. CASE /\ IdealRing /\ n \in Members /\ succ[n] # n
             /\ \E k \in KeyId : LookupPublish(n, k)
    BY <2>0, <2>7, LookupCalm DEF RInv
  <2> QED
    BY <2>1, <2>2, <2>3, <2>4, <2>5, <2>6, <2>7
<1>2. CASE \E n \in Node : TimerExpires(n)
  BY <1>2, TimerCalm DEF RInv
<1>3. CASE \E n, s \in Node : RecvMessage(n, s)
  BY <1>3, HandlerCalm DEF RInv
<1>4. CASE \E n, s \in Node : LoseRound(n, s)
  BY <1>4, LoseCalm DEF RInv
<1> QED
  BY <1>1, <1>2, <1>3, <1>4 DEF CalmNext

(* Every step keeps the ring invariant. *)
LEMMA RingStep == TypeOK /\ RInv /\ [CalmNext]_vars => RInv'
<1> SUFFICES ASSUME TypeOK, RInv, [CalmNext]_vars PROVE RInv'
  OBVIOUS
<1>1. CASE UNCHANGED vars
  <2>1. UNCHANGED <<status, succ, pred, finger, net, used>>
    BY <1>1 DEF vars
  <2>2. /\ Members' = Members /\ NobodyLeft' = NobodyLeft /\ Outside' = Outside
        /\ SomeoneAlone' = SomeoneAlone /\ OneThread(net)' = OneThread(net)
        /\ FingersInRing' = FingersInRing
    BY <2>1 DEF Members, NobodyLeft, Outside, Entries, SomeoneAlone, OneThread, FingersInRing
  <2>3. ASSUME NEW L \in Node, NEW c \in BOOLEAN, Calm(L, c)
        PROVE  Calm(L, c)'
    <3>1. Sounds(net, Members, SomeoneAlone, L, c)'
      BY <2>1, <2>2, <2>3 DEF Calm, Sounds, Sound
    <3>2. Anchored(L, c)' /\ Pointers(L)'
      BY <2>1, <2>2, <2>3 DEF Calm, Anchored, Pointers
    <3> QED
      BY <2>2, <2>3, <3>1, <3>2 DEF Calm
  <2>4. ASSUME NEW m \in Node, NEW s \in Node, Founding(m, s)
        PROVE  Founding(m, s)'
    BY <2>1, <2>2, <2>4 DEF Founding, FoundingPacket, JoinChordSuccess, Entries
  <2>5. ASSUME NEW p \in Node, NEW s \in Node, NEW q \in Addr, Parted(p, s, q)
        PROVE  Parted(p, s, q)'
    BY <2>1, <2>2, <2>5 DEF Parted, InFlight, LeaveSuccessor, LeavePredecessor
  <2> QED
    BY <2>3, <2>4, <2>5 DEF RInv
<1>2. CASE CalmNext
  <2>1. CASE \E L \in Node, c \in BOOLEAN : Calm(L, c)
    BY <1>2, <2>1, CalmStep
  <2>2. CASE \E m, s \in Node : Founding(m, s)
    BY <1>2, <2>2, FoundingNext DEF RInv
  <2>3. CASE \E p, s \in Node, q \in Addr : Parted(p, s, q)
    <3>1. PICK p \in Node, s \in Node, q \in Addr : Parted(p, s, q)
      BY <2>3
    <3>2. CASE Drained
      BY <1>2, <3>1, <3>2, PartedDrained, CalmStep
    <3>3. CASE ~Drained
      BY <1>2, <3>1, <3>3, PartedNext DEF RInv
    <3> QED
      BY <3>2, <3>3
  <2> QED
    BY <2>1, <2>2, <2>3 DEF RInv
<1> QED
  BY <1>1, <1>2

(* The pace only forbids. *)
LEMMA CalmNextIsNext == CalmNext => Next
BY DEF CalmNext, Next, PacedCommand, UserCommand, LoseRound

(* The ring invariant holds throughout. *)
LEMMA CalmInvariant == CalmSpec => [](TypeOK /\ RInv)
<1>1. Init => TypeOK /\ RInv
  BY InitType, RingInit
<1>2. TypeOK /\ RInv /\ [CalmNext]_vars => (TypeOK /\ RInv)'
  BY CalmNextIsNext, StepType, RingStep
<1> QED
  BY <1>1, <1>2, PTL DEF CalmSpec

-----------------------------------------------------------------------------
(* What the ring invariant says of joins *)

(* Whoever answers a join is in the ring, or was when it answered. *)
LEMMA RingJoinReplies == TypeOK /\ RInv => JoinReplyNamesMember
<1> SUFFICES ASSUME TypeOK, RInv,
                    NEW s \in Node, NEW d \in Node, NEW i \in DOMAIN net[s][d],
                    net[s][d][i].type = "JOIN_CHORD_SUCCESS"
             PROVE  net[s][d][i].addr \in Node
  BY DEF JoinReplyNamesMember
<1>1. CASE \E L \in Node, c \in BOOLEAN : Calm(L, c)
  <2>1. PICK L \in Node, c \in BOOLEAN : Calm(L, c)
    BY <1>1
  <2>2. Sound(Members, SomeoneAlone, L, c, s, d, net[s][d][i])
    BY <2>1, Zenon DEF Calm, Sounds
  <2> QED
    BY <2>2 DEF Sound, Members
<1>2. CASE \E m, o \in Node : Founding(m, o)
  <2>1. PICK m \in Node, o \in Node : Founding(m, o)
    BY <1>2
  <2>2. s = m /\ d = o /\ (i # 1 => FoundingPacket(m, net[s][d][i]))
    BY <2>1 DEF Founding
  <2>3. i = 1
    BY <2>2 DEF FoundingPacket
  <2>4. net[s][d][i] = JoinChordSuccess(m)
    <3>1. net[s][d] \in Seq(Message)
      BY DEF TypeOK
    <3> QED
      BY <2>1, <2>2, <2>3, <3>1 DEF Founding
  <2> QED
    BY <2>4 DEF JoinChordSuccess
<1>3. CASE \E p, o \in Node, q \in Addr : Parted(p, o, q)
  BY <1>3 DEF Parted, LeaveSuccessor, LeavePredecessor
<1> QED
  BY <1>1, <1>2, <1>3 DEF RInv

(* While nobody leaves, the ring hangs together at the landmark: the member *)
(* of a closed set that is the shortest way from it is the landmark itself. *)
LEMMA RingConnected == TypeOK /\ RInv => ConnectedToLandmark
<1> SUFFICES ASSUME TypeOK, RInv, NobodyLeft, NEW n \in Members
             PROVE  /\ succ[n] \in Node
                    /\ Landmark \in Members => Landmark \in Reach(n)
  BY DEF ConnectedToLandmark, Connected
<1>0. n \in Node /\ Members \subseteq Node
  BY DEF Members
<1>1. CASE \E L \in Node, c \in BOOLEAN : Calm(L, c)
  <2>1. PICK c \in BOOLEAN : Calm(Landmark, c)
    BY <1>1 DEF Calm, Anchored
  <2>2. succ[n] \in Node
    BY <1>0, <2>1 DEF Calm, Pointers
  <2>3. ASSUME Landmark \in Members, NEW S \in SUBSET Node, n \in S, Closed(S), Landmark \notin S
        PROVE  FALSE
    <3> DEFINE T == {Clockwise(Digest[y], Digest[Landmark]) : y \in S \cap Members}
    <3>1. T \subseteq Nat /\ T # {}
      BY <2>3, LandmarkAssumption, Distance, DigestFacts
    <3>2. PICK x \in T : \A y \in T : x <= y
      BY <3>1, Smallest
    <3>3. PICK y \in S \cap Members : x = Clockwise(Digest[y], Digest[Landmark])
      BY <3>2
    <3>4. \A z \in S \cap Members : Clockwise(Digest[y], Digest[Landmark])
                                      <= Clockwise(Digest[z], Digest[Landmark])
      BY <3>2, <3>3
    <3> HIDE DEF T
    <3>5. succ[y] \in Members /\ succ[y] # y
          /\ Within(Digest[y], Digest[succ[y]], Digest[Landmark])
      BY <2>1, <2>3, <3>3 DEF Calm, Pointers
    <3>6. succ[y] \in S
      BY <1>0, <2>3, <3>3, <3>5 DEF Closed
    <3>7. y \in Node /\ succ[y] \in Node
      BY <1>0, <3>3, <3>5
    <3>8. Clockwise(Digest[succ[y]], Digest[Landmark]) < Clockwise(Digest[y], Digest[Landmark])
      BY <3>5, <3>7, LandmarkAssumption, Between, DigestFacts
    <3>9. /\ Clockwise(Digest[succ[y]], Digest[Landmark]) \in Nat
          /\ Clockwise(Digest[y], Digest[Landmark]) \in Nat
      BY <3>7, LandmarkAssumption, Distance, DigestFacts
    <3> QED
      BY <3>4, <3>5, <3>6, <3>8, <3>9
  <2> QED
    BY <2>2, <2>3, LandmarkAssumption DEF Reach
<1>2. CASE \E m, s \in Node : Founding(m, s)
  BY <1>0, <1>2 DEF Founding, Reach
<1>3. CASE \E p, s \in Node, q \in Addr : Parted(p, s, q)
  BY <1>3 DEF Parted
<1> QED
  BY <1>1, <1>2, <1>3 DEF RInv

-----------------------------------------------------------------------------
(* The order of the ring *)

(* On the way to a, the distance from a grows. *)
LEMMA FurtherOn ==
  ASSUME NEW a \in Id, NEW y \in Id, NEW z \in Id, y # z, z # a, Within(y, z, a)
  PROVE  Clockwise(a, y) < Clockwise(a, z)
BY CircleSize DEF Id, Clockwise, Within

(* What a pointer on the way to a jumps over lies on that way too. *)
LEMMA JumpedOver ==
  ASSUME NEW a \in Id, NEW n \in Id, NEW z \in Id, NEW x \in Id, x # n,
         Within(n, z, a), ~Within(n, z, x)
  PROVE  /\ Clockwise(a, n) < Clockwise(a, x)
         /\ z # a => Clockwise(a, x) < Clockwise(a, z)
BY CircleSize DEF Id, Clockwise, Within

(* All pointers but that of a member A lead towards A. *)
TowardsAnchor(A) ==
  /\ A \in Members
  /\ \A n \in Members \ {A} :
       succ[n] \in Members \ {n} /\ Within(Digest[n], Digest[succ[n]], Digest[A])
  /\ \A n \in Node \ Members : succ[n] = AnyAddr

Position(A, y) == Clockwise(Digest[A], Digest[y])

(* Following successors, the position grows until A is met. *)
LEMMA PositionGrows ==
  ASSUME NEW A, TowardsAnchor(A)
  PROVE  /\ A \in Node /\ Position(A, A) = 0
         /\ \A y \in Node : Position(A, y) \in Nat
         /\ \A y \in Node : y # A => Position(A, y) > 0
         /\ \A y \in Node : y # A /\ succ[y] \in Node /\ succ[y] # A
                              => Position(A, y) < Position(A, succ[y])
<1>1. A \in Node /\ Members \subseteq Node
  BY DEF TowardsAnchor, Members
<1>2. Position(A, A) = 0
  <2>1. Digest[A] \in Id
    BY <1>1, DigestFacts
  <2> QED
    BY <2>1, CircleSize DEF Position, Clockwise, Id
<1>3. \A y \in Node : Position(A, y) \in Nat /\ (y # A => Position(A, y) > 0)
  BY <1>1, Distance, DigestFacts DEF Position
<1>4. ASSUME NEW y \in Node, y # A, succ[y] \in Node, succ[y] # A
      PROVE  Position(A, y) < Position(A, succ[y])
  <2>1. y \in Members /\ succ[y] # y /\ Within(Digest[y], Digest[succ[y]], Digest[A])
    BY <1>4, DigestFacts DEF TowardsAnchor
  <2>2. /\ Digest[y] \in Id /\ Digest[succ[y]] \in Id /\ Digest[A] \in Id
        /\ Digest[y] # Digest[succ[y]] /\ Digest[succ[y]] # Digest[A]
    BY <1>1, <1>4, <2>1, DigestFacts
  <2> QED
    BY <2>1, <2>2, FurtherOn DEF Position
<1> QED
  BY <1>1, <1>2, <1>3, <1>4

(* Sets the pointers do not lead out of, save at A. *)
ClosedBefore(A, W) == \A y \in W : y # A /\ succ[y] \in Node => succ[y] \in W

(* Every way from y to A that exists passes n first. *)
Passes(A, y, n) == \A W \in SUBSET Node : y \in W /\ ClosedBefore(A, W) => n \in W

(* A's own pointer jumps over no member of a cycle: what lies beyond the *)
(* one it jumped over, and A, would be closed.                           *)
LEMMA OrderedAtAnchor ==
  ASSUME TypeOK, NEW A, TowardsAnchor(A), NEW x \in Node, OnRing(x), x # A, succ[A] # A
  PROVE  Within(Digest[A], Digest[succ[A]], Digest[x])
<1> SUFFICES ASSUME ~Within(Digest[A], Digest[succ[A]], Digest[x])
             PROVE  FALSE
  OBVIOUS
<1> DEFINE T == {A} \cup {y \in Node : Position(A, y) > Position(A, x)}
<1>1. A \in Node /\ succ[A] \in Addr
  BY PositionGrows DEF TypeOK
<1>2. Position(A, succ[A]) > Position(A, x)
  BY <1>1, Distance, DigestFacts DEF Within, Position
<1>3. T \in SUBSET Node /\ x \notin T
  BY <1>1, PositionGrows
<1>4. Closed(T)
  <2> SUFFICES ASSUME NEW y \in T, succ[y] \in Node PROVE succ[y] \in T
    BY DEF Closed
  <2>1. CASE y = A
    BY <1>2, <2>1
  <2>2. CASE y # A /\ succ[y] # A
    BY <2>2, PositionGrows
  <2> QED
    BY <2>1, <2>2
<1>5. succ[x] \in Node /\ succ[x] \in T
  BY PositionGrows DEF OnRing
<1> QED
  BY <1>3, <1>4, <1>5 DEF OnRing, Reach

(* Nor does another's: what lies beyond x, A, and what passes n before it *)
(* meets A would be closed.                                               *)
LEMMA OrderedElsewhere ==
  ASSUME TypeOK, NEW A, TowardsAnchor(A), NEW n \in Node, NEW x \in Node,
         OnRing(n), OnRing(x), x # n, n # A
  PROVE  Within(Digest[n], Digest[succ[n]], Digest[x])
<1> SUFFICES ASSUME ~Within(Digest[n], Digest[succ[n]], Digest[x])
             PROVE  FALSE
  OBVIOUS
<1>1. A \in Node /\ n \in Members /\ succ[n] \in Node /\ succ[x] \in Node
  BY PositionGrows DEF OnRing
<1>2. Within(Digest[n], Digest[succ[n]], Digest[A])
  BY <1>1 DEF TowardsAnchor
<1>3. /\ Position(A, n) < Position(A, x)
      /\ succ[n] # A => Position(A, x) < Position(A, succ[n])
  <2>1. /\ Digest[A] \in Id /\ Digest[n] \in Id /\ Digest[succ[n]] \in Id /\ Digest[x] \in Id
        /\ Digest[x] # Digest[n]
        /\ succ[n] # A => Digest[succ[n]] # Digest[A]
    BY <1>1, DigestFacts
  <2> QED
    BY <1>2, <2>1, JumpedOver DEF Position
<1>4. x # A
  BY <1>1, <1>3, PositionGrows
<1>5. succ[A] \in Node => Passes(A, succ[A], n)
  <2> SUFFICES ASSUME NEW W \in SUBSET Node, succ[A] \in W, ClosedBefore(A, W), n \notin W
               PROVE  FALSE
    BY DEF Passes
  <2> DEFINE U == {A} \cup {y \in Node : Position(A, y) > Position(A, n)} \cup W
  <2>1. U \in SUBSET Node /\ n \notin U
    BY <1>1, PositionGrows
  <2>2. Closed(U)
    <3> SUFFICES ASSUME NEW y \in U, succ[y] \in Node PROVE succ[y] \in U
      BY DEF Closed
    <3>1. CASE y = A
      BY <3>1
    <3>2. CASE y # A /\ y \in W
      BY <3>2 DEF ClosedBefore
    <3>3. CASE y # A /\ y \notin W /\ succ[y] # A
      BY <3>3, PositionGrows
    <3> QED
      BY <3>1, <3>2, <3>3
  <2>3. succ[n] \in U
    BY <1>1, PositionGrows
  <2> QED
    BY <2>1, <2>2, <2>3 DEF OnRing, Reach
<1>6. ~Passes(A, x, n)
  <2> DEFINE W == {A} \cup {y \in Node : Position(A, y) >= Position(A, x)}
  <2>1. W \in SUBSET Node /\ x \in W /\ n \notin W
    BY <1>1, <1>3, PositionGrows
  <2>2. ClosedBefore(A, W)
    <3> SUFFICES ASSUME NEW y \in W, y # A, succ[y] \in Node, succ[y] # A
                 PROVE  Position(A, succ[y]) >= Position(A, x)
      BY DEF ClosedBefore
    <3> QED
      BY PositionGrows
  <2> HIDE DEF W
  <2> QED
    BY <2>1, <2>2 DEF Passes
<1>7. ASSUME NEW y \in Node, y # A, y # n, succ[y] \in Node, Passes(A, y, n)
      PROVE  Passes(A, succ[y], n)
  <2> SUFFICES ASSUME NEW W \in SUBSET Node, succ[y] \in W, ClosedBefore(A, W)
               PROVE  n \in W
    BY DEF Passes
  <2>1. W \cup {y} \in SUBSET Node /\ y \in W \cup {y} /\ ClosedBefore(A, W \cup {y})
    BY DEF ClosedBefore
  <2>2. n \in W \cup {y}
    BY <1>7, <2>1 DEF Passes
  <2> QED
    BY <1>7, <2>2
<1> DEFINE S == {A} \cup {y \in Node : Position(A, y) > Position(A, x)}
                    \cup {y \in Node : Passes(A, y, n)}
<1>8. S \in SUBSET Node /\ x \notin S
  BY <1>1, <1>4, <1>6, PositionGrows
<1>9. Closed(S)
  <2> SUFFICES ASSUME NEW y \in S, succ[y] \in Node PROVE succ[y] \in S
    BY DEF Closed
  <2>1. CASE y = A
    BY <1>5, <2>1
  <2>2. CASE y = n
    BY <1>3, <2>2
  <2>3. CASE y # A /\ y # n /\ Passes(A, y, n)
    BY <1>7, <2>3
  <2>4. CASE y # A /\ y # n /\ ~Passes(A, y, n) /\ succ[y] # A
    BY <2>4, PositionGrows
  <2> QED
    BY <2>1, <2>2, <2>3, <2>4
<1>10. succ[x] \in S
  BY <1>1, <1>4, PositionGrows
<1> QED
  BY <1>8, <1>9, <1>10 DEF OnRing, Reach

(* Whichever way the ring is in, some member is an anchor. *)
LEMMA RingOrdered == TypeOK /\ RInv => OrderedRing
<1> SUFFICES ASSUME TypeOK, RInv, NEW n \in Node, NEW x \in Node,
                    OnRing(n), OnRing(x), x # n, succ[n] # n
             PROVE  Within(Digest[n], Digest[succ[n]], Digest[x])
  BY DEF OrderedRing
<1>1. n \in Members /\ x \in Members
  BY DEF OnRing
<1>2. \E A \in Node : TowardsAnchor(A)
  <2>1. CASE \E L \in Node, c \in BOOLEAN : Calm(L, c)
    <3>1. PICK L \in Node, c \in BOOLEAN : Calm(L, c)
      BY <2>1
    <3>2. TowardsAnchor(L)
      BY <1>1, <3>1 DEF Calm, Anchored, Pointers, Outside, TowardsAnchor
    <3> QED
      BY <3>2
  <2>2. CASE \E m, s \in Node : Founding(m, s)
    BY <1>1, <2>2 DEF Founding
  <2>3. CASE \E p, s \in Node, q \in Addr : Parted(p, s, q)
    <3>1. PICK p \in Node, s \in Node, q \in Addr : Parted(p, s, q)
      BY <2>3
    <3>2. TowardsAnchor(p)
      BY <3>1 DEF Parted, Outside, TowardsAnchor
    <3> QED
      BY <3>2
  <2> QED
    BY <2>1, <2>2, <2>3 DEF RInv
<1>3. PICK A \in Node : TowardsAnchor(A)
  BY <1>2
<1>4. CASE n = A
  BY <1>3, <1>4, OrderedAtAnchor
<1>5. CASE n # A
  BY <1>3, <1>5, OrderedElsewhere
<1> QED
  BY <1>4, <1>5

-----------------------------------------------------------------------------
(* Successors only come nearer *)

(* While nobody leaves, the ring is calm or being founded. *)
Growing == Calm(Landmark, TRUE) \/ \E s \in Node : Founding(Landmark, s)

(* The ring invariant, when nobody has left. *)
LEMMA RingGrows == RInv /\ NobodyLeft => Growing
<1> SUFFICES ASSUME RInv, NobodyLeft PROVE Growing
  OBVIOUS
<1>1. ASSUME NEW L \in Node, NEW c \in BOOLEAN, Calm(L, c)
      PROVE  Growing
  <2>1. L = Landmark /\ c = TRUE
    BY <1>1 DEF Calm, Anchored
  <2> QED
    BY <1>1, <2>1 DEF Growing
<1>2. ASSUME NEW m \in Node, NEW s \in Node, Founding(m, s)
      PROVE  Growing
  <2>1. m = Landmark
    BY <1>2 DEF Founding
  <2> QED
    BY <1>2, <2>1 DEF Growing
<1>3. ASSUME NEW p \in Node, NEW s \in Node, NEW q \in Addr, Parted(p, s, q)
      PROVE  Growing
  BY <1>3 DEF Parted
<1> QED
  BY <1>1, <1>2, <1>3 DEF RInv

(* A LEAVE is for ever. *)
LEMMA LeftBefore == TypeOK /\ [CalmNext]_vars /\ NobodyLeft' => NobodyLeft
<1> SUFFICES ASSUME TypeOK, CalmNext, NobodyLeft' PROVE NobodyLeft
  BY DEF vars, NobodyLeft
<1>1. ASSUME NEW k \in Command, Spend(k) PROVE NobodyLeft
  BY <1>1, SpendLeft DEF NobodyLeft
<1>2. CASE PacedCommand
  BY <1>1, <1>2 DEF PacedCommand, JoinSelf, JoinVia, LeaveAlone, Leave, Ringstate,
                    LookupPublish, Command
<1>3. CASE \E n \in Node : TimerExpires(n)
  BY <1>3 DEF TimerExpires, Stabilize, FixFinger, NobodyLeft
<1>4. CASE \E n, s \in Node : RecvMessage(n, s)
  BY <1>4 DEF NobodyLeft, RecvMessage, ProcessJoinChord, ProcessFindSuccessor,
         ProcessJoinChordSuccess, ProcessJoinChordFail, ProcessNotify,
         ProcessStabilizeReq, ProcessStabilizeResp, ProcessLeaveSuccessor,
         ProcessLeavePredecessor, ProcessRingstate, ProcessFindFinger,
         ProcessFindFingerSuccess, ProcessLookupPublish, ProcessLookupPublishSuccess
<1>5. CASE \E n, s \in Node : LoseRound(n, s)
  BY <1>1, <1>5 DEF LoseRound, Lose, Command
<1> QED
  BY <1>2, <1>3, <1>4, <1>5 DEF CalmNext

(* What n takes for its new successor lies before the present one. *)
Approaches(n, a) == a \in Node /\ Within(Digest[n], Digest[a], Digest[succ[n]])

(* The successor of a member that has another one. *)
LEMMA HandlerApproaches ==
  ASSUME TypeOK, Growing, NEW o \in Members, succ[o] # o,
         NEW n \in Node, NEW s \in Node, RecvMessage(n, s)
  PROVE  succ'[o] = succ[o] \/ Approaches(o, succ'[o])
<1> DEFINE m == Packet(n, s)
<1>0. o \in Node /\ status[o]
  BY DEF Members
<1>1. CASE /\ ~ProcessJoinChord(n, s) /\ ~ProcessJoinChordSuccess(n, s)
           /\ ~ProcessStabilizeResp(n, s) /\ ~ProcessLeavePredecessor(n, s)
  <2>1. succ' = succ
    BY <1>1 DEF RecvMessage, ProcessFindSuccessor, ProcessJoinChordFail, ProcessNotify,
         ProcessStabilizeReq, ProcessLeaveSuccessor, ProcessRingstate, ProcessFindFinger,
         ProcessFindFingerSuccess, ProcessLookupPublish, ProcessLookupPublishSuccess,
         FindSuccessor, Forward, Abort, Answer, ReplyFindFinger, ReplyLookupPublishSuccess,
         local
  <2> QED
    BY <2>1
<1>2. CASE ProcessJoinChord(n, s)
  <2>1. succ' = succ \/ (Alone(n) /\ succ' = [succ EXCEPT ![n] = s])
    BY <1>2 DEF ProcessJoinChord, FindSuccessor, Forward, Abort, Answer, local
  <2> QED
    BY <1>0, <2>1 DEF Alone, TypeOK
<1>3. CASE ProcessJoinChordSuccess(n, s)
  <2>1. net[s][n] # <<>> /\ m.type = "JOIN_CHORD_SUCCESS"
    BY <1>3 DEF ProcessJoinChordSuccess, Arrives, Packet
  <2>2. n \notin Members
    <3>1. CASE Calm(Landmark, TRUE)
      <4>1. Sound(Members, SomeoneAlone, Landmark, TRUE, s, n, m)
        BY <2>1, <3>1, ReceivedSounds DEF Calm
      <4> QED
        BY <2>1, <4>1 DEF Sound
    <3>2. CASE \E t \in Node : Founding(Landmark, t)
      BY <2>1, <3>2, PacketIsIn DEF Founding
    <3> QED
      BY <3>1, <3>2 DEF Growing
  <2> QED
    BY <1>0, <1>3, <2>2 DEF ProcessJoinChordSuccess, TypeOK
<1>4. CASE ProcessStabilizeResp(n, s)
  <2>1. net[s][n] # <<>> /\ m.type = "STABILIZE_RESP"
    BY <1>4 DEF ProcessStabilizeResp, Arrives, Packet
  <2>2. m.addr \in Addr
    BY <2>1, ReceivedType DEF Message
  <2>3. succ' = IF Adopts(n, m.addr) THEN [succ EXCEPT ![n] = m.addr] ELSE succ
    BY <1>4 DEF ProcessStabilizeResp
  <2> HIDE DEF m
  <2>4. CASE n = o /\ Adopts(n, m.addr)
    <3>1. succ'[o] = m.addr /\ m.addr \in Node
      BY <2>2, <2>3, <2>4 DEF TypeOK, Adopts, Addr
    <3>2. succ[o] \in Addr /\ Digest[o] # Digest[succ[o]]
      BY <1>0, DigestFacts DEF TypeOK, Addr
    <3>3. Within(Digest[o], Digest[m.addr], Digest[succ[o]])
      BY <1>0, <2>2, <2>4, <3>2, DigestFacts, ArcIsClosed DEF Adopts
    <3> QED
      BY <3>1, <3>3 DEF Approaches
  <2>5. CASE ~(n = o /\ Adopts(n, m.addr))
    BY <1>0, <2>3, <2>5 DEF TypeOK
  <2> QED
    BY <2>4, <2>5
<1>5. CASE ProcessLeavePredecessor(n, s)
  <2>1. net[s][n] # <<>> /\ m.type = "LEAVE_PREDECESSOR"
    BY <1>5 DEF ProcessLeavePredecessor, Arrives, Packet
  <2>2. CASE Calm(Landmark, TRUE)
    <3>1. Sound(Members, SomeoneAlone, Landmark, TRUE, s, n, m)
      BY <2>1, <2>2, ReceivedSounds DEF Calm
    <3> QED
      BY <2>1, <3>1 DEF Sound
  <2>3. CASE \E t \in Node : Founding(Landmark, t)
    <3>1. PICK t \in Node : Founding(Landmark, t)
      BY <2>3
    <3>2. Head(net[s][n]) = JoinChordSuccess(Landmark)
      BY <2>1, <3>1, PacketIsIn DEF Founding
    <3> QED
      BY <2>1, <3>2 DEF Packet, JoinChordSuccess
  <2> QED
    BY <2>2, <2>3 DEF Growing
<1> QED
  BY <1>1, <1>2, <1>3, <1>4, <1>5

Approach ==
  \A n \in Node : status[n] /\ succ[n] # n /\ NobodyLeft' =>
    /\ succ'[n] \in Node
    /\ Within(Digest[n], Digest[succ'[n]], Digest[succ[n]])

(* Every step brings successors nearer or leaves them. *)
LEMMA RingApproaches == TypeOK /\ RInv /\ [CalmNext]_vars => Approach
<1> SUFFICES ASSUME TypeOK, RInv, [CalmNext]_vars, NobodyLeft',
                    NEW n \in Node, status[n], succ[n] # n
             PROVE  Approaches(n, succ'[n])
  BY DEF Approach, Approaches
<1>1. Growing /\ n \in Members
  BY LeftBefore, RingGrows DEF Members
<1>2. succ[n] \in Node
  BY <1>1 DEF Growing, Calm, Pointers, Founding, Members
<1>3. Approaches(n, succ[n])
  BY <1>2, Distance, DigestFacts DEF Approaches, Within
<1>4. CASE succ' = succ
  BY <1>3, <1>4
<1>5. CASE PacedCommand
  <2>1. PICK o \in Node :
       \/ JoinSelf(o)
       \/ \E d \in Node : JoinVia(o, d)
       \/ Ringstate(o)
       \/ LeaveAlone(o)
       \/ Leave(o)
       \/ \E k \in KeyId : LookupPublish(o, k)
    BY <1>5 DEF PacedCommand
  <2>2. CASE JoinSelf(o)
    <3>1. o # n /\ succ' = [succ EXCEPT ![o] = o]
      BY <2>2 DEF JoinSelf
    <3>2. succ'[n] = succ[n]
      BY <3>1 DEF TypeOK
    <3> QED
      BY <1>3, <3>2
  <2>3. CASE LeaveAlone(o)
    BY <2>3, SpendLeft DEF LeaveAlone, Command
  <2>4. CASE Leave(o)
    BY <2>4, SpendLeft DEF Leave, Command
  <2>5. CASE ~JoinSelf(o) /\ ~LeaveAlone(o) /\ ~Leave(o)
    BY <1>4, <2>1, <2>5 DEF JoinVia, Ringstate, LookupPublish, Answer, Forward, Abort, local
  <2> QED
    BY <2>2, <2>3, <2>4, <2>5
<1>6. CASE \E o \in Node : TimerExpires(o)
  BY <1>4, <1>6 DEF TimerExpires, Stabilize, FixFinger, Answer, local
<1>7. CASE \E o, s \in Node : RecvMessage(o, s)
  BY <1>1, <1>3, <1>7, HandlerApproaches
<1>8. CASE \E o, s \in Node : LoseRound(o, s)
  BY <1>4, <1>8 DEF LoseRound, Lose, local
<1>9. CASE UNCHANGED vars
  BY <1>4, <1>9 DEF vars
<1> QED
  BY <1>5, <1>6, <1>7, <1>8, <1>9 DEF CalmNext

-----------------------------------------------------------------------------
(* The finger chain goes on *)

(* A token on the way. *)
HasToken(ch, n) == \E s, d \in Node : \E i \in DOMAIN ch[s][d] : Carries(n, d, ch[s][d][i])

(* A token is there or it is not. *)
LEMMA TokenOnTheWay ==
  ASSUME NEW ch, NEW n
  PROVE  HasToken(ch, n) <=> ~NoToken(ch, n)
BY DEF HasToken, NoToken, Token

(* Sending takes no token away. *)
LEMMA SendKeepsToken ==
  ASSUME NEW ch \in Net, NEW o, HasToken(ch, o),
         NEW n \in Node, NEW d, NEW m \in Message
  PROVE  HasToken(Send(ch, n, d, m), o)
<1>1. PICK a \in Node, b \in Node : \E i \in DOMAIN ch[a][b] : Carries(o, b, ch[a][b][i])
  BY DEF HasToken
<1>2. PICK i \in DOMAIN ch[a][b] : Carries(o, b, ch[a][b][i])
  BY <1>1
<1>3. ch[a][b] \in Seq(Message)
  BY DEF Net
<1>4. CASE d \in Node /\ a = n /\ b = d
  <2>1. Send(ch, n, d, m)[a][b] = Append(ch[a][b], m)
    BY <1>4 DEF Send, Net
  <2>2. i \in DOMAIN Send(ch, n, d, m)[a][b] /\ Send(ch, n, d, m)[a][b][i] = ch[a][b][i]
    BY <1>2, <1>3, <2>1
  <2> QED
    BY <1>2, <2>2 DEF HasToken
<1>5. CASE ~(d \in Node /\ a = n /\ b = d)
  <2>1. Send(ch, n, d, m)[a][b] = ch[a][b]
    BY <1>5 DEF Send, Net
  <2> QED
    BY <1>2, <2>1 DEF HasToken
<1> QED
  BY <1>4, <1>5

(* A token sent to a node is on its way. *)
LEMMA SendGivesToken ==
  ASSUME NEW ch \in Net, NEW o, NEW n \in Node, NEW d \in Node, NEW m \in Message,
         Carries(o, d, m)
  PROVE  HasToken(Send(ch, n, d, m), o)
<1>1. ch[n][d] \in Seq(Message) /\ Send(ch, n, d, m)[n][d] = Append(ch[n][d], m)
  BY DEF Send, Net
<1>2. /\ Len(ch[n][d]) + 1 \in DOMAIN Send(ch, n, d, m)[n][d]
      /\ Send(ch, n, d, m)[n][d][Len(ch[n][d]) + 1] = m
  BY <1>1
<1> QED
  BY <1>2 DEF HasToken

(* Taking another packet leaves a token where it is. *)
LEMMA ReceivedKeepsToken ==
  ASSUME TypeOK, NEW n \in Node, NEW s \in Node, net[s][n] # <<>>,
         NEW o, HasToken(net, o), ~Carries(o, n, Packet(n, s))
  PROVE  HasToken(Received(n, s), o)
<1>1. PICK a \in Node, b \in Node : \E i \in DOMAIN net[a][b] : Carries(o, b, net[a][b][i])
  BY DEF HasToken
<1>2. PICK i \in DOMAIN net[a][b] : Carries(o, b, net[a][b][i])
  BY <1>1
<1>3. net[s][n] \in Seq(Message) /\ net \in Net
  BY DEF TypeOK, Net
<1>4. CASE a = s /\ b = n
  <2>1. Received(n, s)[a][b] = Tail(net[s][n])
    BY <1>3, <1>4 DEF Received, Net
  <2>2. i \in 1 .. Len(net[s][n]) /\ i # 1
    BY <1>2, <1>3, <1>4 DEF Packet
  <2>3. i - 1 \in DOMAIN Received(n, s)[a][b] /\ Received(n, s)[a][b][i - 1] = net[a][b][i]
    BY <1>3, <1>4, <2>1, <2>2
  <2> QED
    BY <1>2, <2>3 DEF HasToken
<1>5. CASE ~(a = s /\ b = n)
  <2>1. Received(n, s)[a][b] = net[a][b]
    BY <1>3, <1>5 DEF Received, Net
  <2> QED
    BY <1>2, <2>1 DEF HasToken
<1> QED
  BY <1>4, <1>5

(* Every node's chain goes on, over the network ch and with the timers given. *)
Alive(ch, running) == \A o \in Node : running[o] \/ HasToken(ch, o)

(* What is shown of the next network and timers holds of the next state. *)
LEMMA NextAlive ==
  ASSUME NEW ch, NEW running, Alive(ch, running), net' = ch, ffTimer' = running
  PROVE  Alive(net, ffTimer)'
<1>1. Alive(net', ffTimer')
  BY Zenon
<1> QED
  BY <1>1, Zenon DEF Alive, HasToken, Carries

(* Sending, answering and forwarding break no chain. *)
LEMMA SendAlive ==
  ASSUME NEW ch \in Net, NEW running, NEW n \in Node, NEW d, NEW m \in Message,
         Alive(ch, running)
  PROVE  Alive(Send(ch, n, d, m), running)
BY SendKeepsToken DEF Alive

(* An answer, the timers being left alone. *)
LEMMA AnswerAlive ==
  ASSUME NEW ch \in Net, NEW n \in Node, NEW d, NEW m \in Message,
         Alive(ch, ffTimer), Answer(ch, n, d, m)
  PROVE  Alive(net, ffTimer)'
<1>1. Alive(Send(ch, n, d, m), ffTimer)
  BY SendAlive
<1>2. net' = Send(ch, n, d, m) /\ ffTimer' = ffTimer
  BY DEF Answer, local
<1> QED
  BY <1>1, <1>2, NextAlive

(* A packet forwarded to some hop, or the death of the node. *)
LEMMA ForwardAlive ==
  ASSUME NEW ch \in Net, NEW n \in Node, NEW t, NEW m \in Message, NEW calls,
         Alive(net, ffTimer),
         \A h \in Addr : NextHop(n, t, h) => Alive(Send(ch, n, h, m), ffTimer),
         Forward(ch, n, t, m, calls)
  PROVE  Alive(net, ffTimer)'
<1>1. CASE Abort(n)
  BY <1>1, NextAlive DEF Abort, local
<1>2. CASE \E h \in Addr : NextHop(n, t, h) /\ net' = Send(ch, n, h, m) /\ ffTimer' = ffTimer
  <2>1. PICK h \in Addr : NextHop(n, t, h) /\ net' = Send(ch, n, h, m) /\ ffTimer' = ffTimer
    BY <1>2
  <2>2. Alive(Send(ch, n, h, m), ffTimer)
    BY <2>1
  <2> QED
    BY <2>1, <2>2, NextAlive
<1> QED
  BY <1>1, <1>2 DEF Forward, local

(* SendFindFinger(i) of n arms the timer or asks a node. *)
LEMMA SendFindFingerAlive ==
  ASSUME TypeOK, NEW ch \in Net, NEW n \in Node, NEW running \in [Node -> BOOLEAN],
         NEW tab, NEW f \in Node, NEW i \in Nat \ {0},
         \A o \in Node \ {n} : running[o] \/ HasToken(ch, o),
         SendFindFinger(ch, n, running, tab, f, i)
  PROVE  Alive(net, ffTimer)'
<1>1. PICK stop \in i .. (LastIndex + 1) :
        IF stop > LastIndex
          THEN ffTimer' = Rearmed(running, n) /\ net' = ch
          ELSE /\ ffTimer' = running
               /\ net' = Send(ch, n, f, [type |-> "FIND_FINGER", addr |-> n, index |-> stop])
  BY DEF SendFindFinger
<1>2. CASE stop > LastIndex
  <2>1. Alive(ch, Rearmed(running, n))
    BY DEF Alive, Rearmed
  <2> QED
    BY <1>1, <1>2, <2>1, NextAlive
<1>3. CASE ~(stop > LastIndex)
  <2> DEFINE m == [type |-> "FIND_FINGER", addr |-> n, index |-> stop]
  <2>1. m \in Message
    BY <1>3, MAssumption DEF FingerIndex, LastIndex, Message
  <2>2. Carries(n, f, m)
    BY DEF Carries
  <2> HIDE DEF m
  <2>3. HasToken(Send(ch, n, f, m), n)
    BY <2>1, <2>2, SendGivesToken
  <2>4. \A o \in Node \ {n} : HasToken(ch, o) => HasToken(Send(ch, n, f, m), o)
    BY <2>1, SendKeepsToken
  <2>5. Alive(Send(ch, n, f, m), running)
    BY <2>3, <2>4 DEF Alive
  <2>6. net' = Send(ch, n, f, m) /\ ffTimer' = running
    BY <1>1, <1>3 DEF m
  <2> QED
    BY <2>5, <2>6, NextAlive
<1> QED
  BY <1>2, <1>3

(* Nothing but a token is lost by taking something else. *)
LEMMA ReceivedAlive ==
  ASSUME TypeOK, NEW n \in Node, NEW s \in Node, net[s][n] # <<>>,
         Alive(net, ffTimer)
  PROVE  /\ Plain(Packet(n, s)) => Alive(Received(n, s), ffTimer)
         /\ \A o \in Node : ~Carries(o, n, Packet(n, s))
              => ffTimer[o] \/ HasToken(Received(n, s), o)
BY ReceivedKeepsToken DEF Alive, Plain, Carries

(* The handlers of FIND_FINGER pass the token on to a member, the handler of  *)
(* FIND_FINGER_SUCCESS goes on with the chain, the others leave tokens alone. *)
LEMMA HandlerAlive ==
  ASSUME TypeOK, Growing, Alive(net, ffTimer),
         NEW n \in Node, NEW s \in Node, RecvMessage(n, s)
  PROVE  Alive(net, ffTimer)'
<1> DEFINE m  == Packet(n, s)
           ch == Received(n, s)
<1>0. net[s][n] # <<>> /\ Head(net[s][n]) = m
  BY DEF RecvMessage, Arrives, ProcessJoinChord, ProcessFindSuccessor,
         ProcessJoinChordSuccess, ProcessJoinChordFail, ProcessNotify,
         ProcessStabilizeReq, ProcessStabilizeResp, ProcessLeaveSuccessor,
         ProcessLeavePredecessor, ProcessRingstate, ProcessFindFinger,
         ProcessFindFingerSuccess, ProcessLookupPublish, ProcessLookupPublishSuccess, Packet
<1>a. m \in Message /\ ch \in Net
  BY <1>0, ReceivedType
<1>p. /\ Plain(m) => Alive(ch, ffTimer)
      /\ \A o \in Node : ~Carries(o, n, m) => ffTimer[o] \/ HasToken(ch, o)
  BY <1>0, ReceivedAlive
<1>b. /\ n \in Addr /\ s \in Addr /\ succ[n] \in Addr /\ pred[n] \in Addr
      /\ ffTimer \in [Node -> BOOLEAN]
  BY DEF TypeOK, Addr
<1>c. /\ [type |-> "NOTIFY"] \in Message
      /\ \A a \in Addr : JoinChordSuccess(a) \in Message
  BY DEF Message, JoinChordSuccess
<1>r. ASSUME ~Plain(m)
      PROVE  /\ n \in Members /\ m.addr \in Members /\ Calm(Landmark, TRUE)
  <2>1. CASE Calm(Landmark, TRUE)
    <3>1. Sound(Members, SomeoneAlone, Landmark, TRUE, s, n, m)
      BY <1>0, <2>1, ReceivedSounds DEF Calm
    <3> QED
      BY <1>r, <2>1, <3>1 DEF Sound, Plain
  <2>2. CASE \E t \in Node : Founding(Landmark, t)
    <3>1. PICK t \in Node : Founding(Landmark, t)
      BY <2>2
    <3>2. m = JoinChordSuccess(Landmark)
      BY <1>0, <3>1, PacketIsIn DEF Founding
    <3> QED
      BY <1>r, <3>2 DEF Plain, JoinChordSuccess
  <2> QED
    BY <2>1, <2>2 DEF Growing
<1>h. m.type \notin {"FIND_FINGER", "FIND_FINGER_SUCCESS"} => Alive(ch, ffTimer)
  BY <1>p DEF Plain
<1>t. Members \subseteq Node
  BY DEF Members
<1> HIDE DEF m, ch
<1>d. ASSUME NEW d \in Addr, FindSuccessor(ch, n, d), Alive(ch, ffTimer)
      PROVE  Alive(net, ffTimer)'
  <2>1. [type |-> "FIND_SUCCESSOR", addr |-> d] \in Message
    BY DEF Message
  <2>2. \A h : Alive(Send(ch, n, h, [type |-> "FIND_SUCCESSOR", addr |-> d]), ffTimer)
    BY <1>a, <1>d, <2>1, SendAlive
  <2> QED
    BY <1>a, <1>b, <1>c, <1>d, <2>1, <2>2, AnswerAlive, ForwardAlive DEF FindSuccessor
<1>1. CASE ProcessJoinChord(n, s)
  <2>0. Alive(ch, ffTimer)
    BY <1>0, <1>1, <1>h DEF ProcessJoinChord, Arrives
  <2>1. CASE Answer(ch, n, s, [type |-> "JOIN_CHORD_FAIL"])
    <3>1. [type |-> "JOIN_CHORD_FAIL"] \in Message
      BY DEF Message
    <3> QED
      BY <1>a, <2>0, <2>1, <3>1, AnswerAlive
  <2>2. CASE /\ net' = SendNotify(Send(ch, n, s, JoinChordSuccess(n)), n, s)
             /\ ffTimer' = ffTimer
    <3> DEFINE ch2 == Send(ch, n, s, JoinChordSuccess(n))
    <3>1. ch2 \in Net /\ Alive(ch2, ffTimer)
      BY <1>a, <1>b, <1>c, <2>0, SendType, SendAlive
    <3> HIDE DEF ch2
    <3>2. Alive(SendNotify(ch2, n, s), ffTimer)
      BY <1>c, <3>1, SendAlive DEF SendNotify
    <3> QED
      BY <2>2, <3>2, NextAlive DEF ch2
  <2>3. CASE FindSuccessor(ch, n, s)
    BY <1>b, <1>d, <2>0, <2>3
  <2> QED
    BY <1>1, <2>1, <2>2, <2>3 DEF ProcessJoinChord, ch
<1>2. CASE ProcessFindSuccessor(n, s)
  <2>1. m.type = "FIND_SUCCESSOR"
    BY <1>0, <1>2 DEF ProcessFindSuccessor, Arrives
  <2>2. m.addr \in Addr
    BY <1>a, <2>1 DEF Message
  <2> QED
    BY <1>2, <1>d, <1>h, <2>1, <2>2 DEF ProcessFindSuccessor, ch, m
<1>3. CASE ProcessJoinChordSuccess(n, s)
  <2>1. Alive(ch, ffTimer)
    BY <1>0, <1>3, <1>h DEF ProcessJoinChordSuccess, Arrives
  <2>2. Alive(SendNotify(ch, n, m.addr), ffTimer)
    BY <1>a, <1>c, <2>1, SendAlive DEF SendNotify
  <2>3. net' = SendNotify(ch, n, m.addr) /\ ffTimer' = ffTimer
    BY <1>3 DEF ProcessJoinChordSuccess, ch, m
  <2> QED
    BY <2>2, <2>3, NextAlive
<1>4. CASE \/ ProcessJoinChordFail(n, s)
           \/ ProcessNotify(n, s)
           \/ ProcessLeaveSuccessor(n, s)
           \/ ProcessLeavePredecessor(n, s)
           \/ ProcessLookupPublishSuccess(n, s)
  <2>1. Alive(ch, ffTimer) /\ net' = ch /\ ffTimer' = ffTimer
    BY <1>0, <1>4, <1>h
       DEF ProcessJoinChordFail, ProcessNotify, ProcessLeaveSuccessor,
           ProcessLeavePredecessor, ProcessLookupPublishSuccess, local, Arrives, ch
  <2> QED
    BY <2>1, NextAlive
<1>5. CASE ProcessStabilizeReq(n, s)
  <2>0. Alive(ch, ffTimer)
    BY <1>0, <1>5, <1>h DEF ProcessStabilizeReq, Arrives
  <2>1. [type |-> "STABILIZE_RESP", addr |-> pred[n]] \in Message
    BY <1>b DEF Message
  <2>2. Alive(Send(ch, n, s, [type |-> "STABILIZE_RESP", addr |-> pred[n]]), ffTimer)
    BY <1>a, <2>0, <2>1, SendAlive
  <2> QED
    BY <1>5, <2>0, <2>2, NextAlive DEF ProcessStabilizeReq, local, ch
<1>6. CASE ProcessStabilizeResp(n, s)
  <2>0. Alive(ch, ffTimer)
    BY <1>0, <1>6, <1>h DEF ProcessStabilizeResp, Arrives
  <2>1. Alive(SendNotify(ch, n, m.addr), ffTimer)
    BY <1>a, <1>c, <2>0, SendAlive DEF SendNotify
  <2> QED
    BY <1>6, <2>0, <2>1, NextAlive DEF ProcessStabilizeResp, ch, m
<1>7. CASE ProcessRingstate(n, s)
  <2>0. Alive(ch, ffTimer)
    BY <1>0, <1>7, <1>h DEF ProcessRingstate, Arrives
  <2>1. Alive(Send(ch, n, succ[n], m), ffTimer)
    BY <1>a, <2>0, SendAlive
  <2> QED
    BY <1>7, <2>0, <2>1, NextAlive DEF ProcessRingstate, local, ch, m
<1>8. CASE ProcessFindFinger(n, s)
  <2>1. m.type = "FIND_FINGER" /\ ~Plain(m)
    BY <1>0, <1>8 DEF ProcessFindFinger, Arrives, Plain
  <2>2. m.addr \in Node /\ m.index \in FingerIndex
    BY <1>a, <2>1 DEF Message
  <2>3. \A o \in Node \ {m.addr} : ffTimer[o] \/ HasToken(ch, o)
    BY <1>p, <2>1 DEF Carries
  <2>4. CASE ReplyFindFinger(ch, n, m)
    <3> DEFINE r == [type |-> "FIND_FINGER_SUCCESS", addr |-> succ[n], index |-> m.index]
    <3>1. r \in Message
      BY <1>b, <2>2 DEF Message
    <3>2. Carries(m.addr, m.addr, r)
      BY DEF Carries
    <3>3. net' = Send(ch, n, m.addr, r) /\ ffTimer' = ffTimer
      BY <2>4 DEF ReplyFindFinger, Answer, local
    <3> HIDE DEF r
    <3>4. HasToken(Send(ch, n, m.addr, r), m.addr)
      BY <1>a, <2>2, <3>1, <3>2, SendGivesToken
    <3>5. \A o \in Node : HasToken(ch, o) => HasToken(Send(ch, n, m.addr, r), o)
      BY <1>a, <3>1, SendKeepsToken
    <3>6. Alive(Send(ch, n, m.addr, r), ffTimer)
      BY <2>3, <3>4, <3>5 DEF Alive
    <3> QED
      BY <3>3, <3>6, NextAlive
  <2>5. CASE Forward(ch, n, IndexHash(Digest[m.addr], m.index), m, {})
    <3>1. \A h \in Addr : NextHop(n, IndexHash(Digest[m.addr], m.index), h) => h \in Node
      BY <1>r, <1>t, <2>1, HopIsMember, LandmarkAssumption
    <3>2. ASSUME NEW h \in Node PROVE Alive(Send(ch, n, h, m), ffTimer)
      <4>1. Carries(m.addr, h, m)
        BY <2>1 DEF Carries
      <4>2. HasToken(Send(ch, n, h, m), m.addr)
        BY <1>a, <4>1, SendGivesToken
      <4>3. \A o \in Node : HasToken(ch, o) => HasToken(Send(ch, n, h, m), o)
        BY <1>a, SendKeepsToken
      <4> QED
        BY <2>3, <4>2, <4>3 DEF Alive
    <3> QED
      BY <1>a, <2>5, <3>1, <3>2, ForwardAlive
  <2> QED
    BY <1>8, <2>4, <2>5 DEF ProcessFindFinger, ch, m
<1>9. CASE ProcessFindFingerSuccess(n, s)
  <2>1. m.type = "FIND_FINGER_SUCCESS" /\ ~Plain(m)
    BY <1>0, <1>9 DEF ProcessFindFingerSuccess, Arrives, Plain
  <2>2. m.index + 1 \in Nat \ {0}
    BY <1>a, <2>1, MAssumption DEF Message, FingerIndex
  <2>3. m.addr \in Node
    BY <1>r, <1>t, <2>1
  <2>4. \A o \in Node \ {n} : ffTimer[o] \/ HasToken(ch, o)
    BY <1>p, <2>1 DEF Carries
  <2>5. SendFindFinger(ch, n, ffTimer, [finger[n] EXCEPT ![m.index] = m.addr],
                       m.addr, m.index + 1)
    BY <1>9 DEF ProcessFindFingerSuccess, ch, m
  <2> QED
    BY <1>a, <1>b, <2>2, <2>3, <2>4, <2>5, SendFindFingerAlive
<1>10. CASE ProcessLookupPublish(n, s)
  <2>1. m.type = "LOOKUP_PUBLISH" /\ Alive(ch, ffTimer)
    BY <1>0, <1>10, <1>h DEF ProcessLookupPublish, Arrives
  <2>2. m.key \in Id
    BY <1>a, <2>1 DEF Message
  <2> DEFINE r == [type |-> "LOOKUP_PUBLISH_SUCCESS", addr |-> succ[n], key |-> m.key]
  <2>3. r \in Message
    BY <1>b, <2>2 DEF Message
  <2>4. CASE ReplyLookupPublishSuccess(ch, n, m)
    <3>1. Answer(ch, n, m.addr, r)
      BY <2>4 DEF ReplyLookupPublishSuccess
    <3> HIDE DEF r
    <3> QED
      BY <1>a, <2>1, <2>3, <3>1, AnswerAlive
  <2>5. CASE Forward(ch, n, m.key, m, {})
    <3>1. \A h : Alive(Send(ch, n, h, m), ffTimer)
      BY <1>a, <2>1, SendAlive
    <3> QED
      BY <1>a, <2>5, <3>1, ForwardAlive
  <2> QED
    BY <1>10, <2>4, <2>5 DEF ProcessLookupPublish, ch, m
<1> QED
  BY <1>1, <1>2, <1>3, <1>4, <1>5, <1>6, <1>7, <1>8, <1>9, <1>10 DEF RecvMessage

(* A step of a growing ring keeps every finger chain. *)
LEMMA StepAlive ==
  ASSUME TypeOK, RInv, Alive(net, ffTimer), CalmNext, NobodyLeft'
  PROVE  Alive(net, ffTimer)'
<1>0. Growing /\ net \in Net /\ ffTimer \in [Node -> BOOLEAN]
  BY LeftBefore, RingGrows DEF TypeOK, Net
<1>1. CASE PacedCommand
  <2>1. PICK n \in Node :
       \/ JoinSelf(n)
       \/ \E d \in Node : JoinVia(n, d)
       \/ Ringstate(n)
       \/ LeaveAlone(n)
       \/ Leave(n)
       \/ \E k \in KeyId : LookupPublish(n, k)
    BY <1>1 DEF PacedCommand
  <2>2. CASE JoinSelf(n)
    BY <2>2, NextAlive DEF JoinSelf
  <2>3. CASE \E d \in Node : JoinVia(n, d)
    <3>1. PICK d \in Node : Answer(net, n, d, [type |-> "JOIN_CHORD"])
      BY <2>3 DEF JoinVia
    <3>2. [type |-> "JOIN_CHORD"] \in Message
      BY DEF Message
    <3> QED
      BY <1>0, <3>1, <3>2, AnswerAlive
  <2>4. CASE Ringstate(n)
    <3>1. [type |-> "RINGSTATE", addr |-> n] \in Message
      BY DEF Message, Addr
    <3> QED
      BY <1>0, <2>4, <3>1, AnswerAlive DEF Ringstate
  <2>5. CASE LeaveAlone(n) \/ Leave(n)
    BY <2>5, SpendLeft DEF LeaveAlone, Leave, Command
  <2>6. CASE \E k \in KeyId : LookupPublish(n, k)
    <3>1. PICK k \in KeyId : LookupPublish(n, k)
      BY <2>6
    <3> DEFINE m == [type |-> "LOOKUP_PUBLISH", addr |-> n, key |-> k]
    <3>2. m \in Message
      BY DigestAssumption DEF Message, Addr
    <3>3. PICK calls : Forward(net, n, k, m, calls)
      BY <3>1 DEF LookupPublish
    <3> HIDE DEF m
    <3>4. \A h : Alive(Send(net, n, h, m), ffTimer)
      BY <1>0, <3>2, SendAlive
    <3> QED
      BY <1>0, <3>2, <3>3, <3>4, ForwardAlive
  <2> QED
    BY <2>1, <2>2, <2>3, <2>4, <2>5, <2>6
<1>2. CASE \E n \in Node : TimerExpires(n)
  <2>1. PICK n \in Node : TimerExpires(n)
    BY <1>2
  <2>2. CASE Stabilize(n)
    <3>1. [type |-> "STABILIZE_REQ"] \in Message
      BY DEF Message
    <3> QED
      BY <1>0, <2>2, <3>1, AnswerAlive DEF Stabilize
  <2>3. CASE FixFinger(n)
    <3>1. n \in Members /\ succ[n] \in Node
      BY <1>0, <2>3 DEF FixFinger, Growing, Calm, Pointers, Founding, Members
    <3>2. /\ Expired(n) \in [Node -> BOOLEAN]
          /\ \A o \in Node \ {n} : Expired(n)[o] \/ HasToken(net, o)
      BY <1>0 DEF Expired, Alive
    <3>3. SendFindFinger(net, n, Expired(n), [finger[n] EXCEPT ![1] = succ[n]], succ[n], 2)
      BY <2>3 DEF FixFinger
    <3> HIDE DEF Expired
    <3> QED
      BY <1>0, <3>1, <3>2, <3>3, SendFindFingerAlive
  <2> QED
    BY <2>1, <2>2, <2>3 DEF TimerExpires
<1>3. CASE \E n, s \in Node : RecvMessage(n, s)
  BY <1>0, <1>3, HandlerAlive
<1>4. CASE \E n, s \in Node : LoseRound(n, s)
  <2>1. PICK n \in Node, s \in Node : LoseRound(n, s)
    BY <1>4
  <2>2. net[s][n] # <<>> /\ Plain(Packet(n, s))
    BY <2>1 DEF LoseRound, Arrives, Packet, Plain
  <2>3. net' = Received(n, s) /\ ffTimer' = ffTimer
    BY <2>1 DEF LoseRound, Lose, local
  <2> QED
    BY <2>2, <2>3, ReceivedAlive, NextAlive
<1> QED
  BY <1>1, <1>2, <1>3, <1>4 DEF CalmNext

(* The property, in the terms of the proof. *)
LEMMA ChainAlive == FingerChainAlive <=> (NobodyLeft => Alive(net, ffTimer))
BY TokenOnTheWay DEF FingerChainAlive, Alive

(* Every step of a ring nobody has left keeps its finger chains going. *)
LEMMA RingAlive == TypeOK /\ RInv /\ FingerChainAlive /\ [CalmNext]_vars => FingerChainAlive'
<1> SUFFICES ASSUME TypeOK, RInv, FingerChainAlive, [CalmNext]_vars, NobodyLeft'
             PROVE  \A n \in Node : ffTimer'[n] \/ ~NoToken(net, n)'
  BY DEF FingerChainAlive
<1>1. Alive(net, ffTimer)
  BY LeftBefore, ChainAlive
<1>2. Alive(net, ffTimer)'
  <2>1. CASE CalmNext
    BY <1>1, <2>1, StepAlive
  <2>2. CASE UNCHANGED vars
    BY <1>1, <2>2, NextAlive DEF vars
  <2> QED
    BY <2>1, <2>2
<1>3. \A n \in Node : HasToken(net, n)' => ~NoToken(net, n)'
  BY DEF HasToken, NoToken, Token, Carries
<1> QED
  BY <1>2, <1>3 DEF Alive

-----------------------------------------------------------------------------
(* FindSuccessor does not ask whether the node that answers is in a ring, nor *)
(* whether its successor is a node.  Whatever the number of nodes, commands   *)
(* paced like this never make it say 0.0.0.0 to a newcomer.                   *)
THEOREM JoinRepliesNameMembers == CalmSpec => []JoinReplyNamesMember
<1>1. TypeOK /\ RInv => JoinReplyNamesMember
  BY RingJoinReplies
<1> QED
  BY <1>1, CalmInvariant, PTL

(* While nobody leaves, following m_successorAddr from any member leads to    *)
(* the landmark: ProcessJoinChord inserts a newcomer behind the member that   *)
(* answers it, and ProcessStabilizeResp moves pointers only to members.       *)
THEOREM RingStaysConnected == CalmSpec => []ConnectedToLandmark
<1>1. TypeOK /\ RInv => ConnectedToLandmark
  BY RingConnected
<1> QED
  BY <1>1, CalmInvariant, PTL

(* A pointer of the cycle never jumps over a member that is on it as well,    *)
(* while newcomers are worked in and after every LEAVE: the pointers set by   *)
(* FindSuccessor, ProcessStabilizeResp and ProcessLeavePredecessor keep the    *)
(* order of the identifiers.                                                  *)
THEOREM RingStaysOrdered == CalmSpec => []OrderedRing
<1>1. TypeOK /\ RInv => OrderedRing
  BY RingOrdered
<1> QED
  BY <1>1, CalmInvariant, PTL

(* Of the handlers that set m_successorAddr, only ProcessStabilizeResp does so *)
(* for a node with another successor, and it moves the pointer closer: no     *)
(* JOIN_CHORD_SUCCESS or LEAVE_PREDECESSOR reaches such a node as long as     *)
(* nobody leaves.                                                             *)
THEOREM SuccessorsApproach == CalmSpec => SuccessorApproaches
<1>1. TypeOK /\ RInv /\ [CalmNext]_vars => [Approach]_vars
  BY RingApproaches
<1> QED
  BY <1>1, CalmInvariant, PTL DEF CalmSpec, SuccessorApproaches, Approach

(* While nobody leaves, the chain of FIND_FINGERs of a node that begins when   *)
(* FixFinger expires ends with the timer armed again: every hop and every     *)
(* finger is a member, to which the next packet can be sent.                  *)
THEOREM FingerChainStaysAlive == CalmSpec => []FingerChainAlive
<1>1. Init => FingerChainAlive
  BY DEF Init, FingerChainAlive
<1>2. TypeOK /\ RInv /\ FingerChainAlive /\ [CalmNext]_vars => FingerChainAlive'
  BY RingAlive
<1> QED
  BY <1>1, <1>2, CalmInvariant, PTL DEF CalmSpec

-----------------------------------------------------------------------------
(* The members of S from a place on the circle on *)

First(t, S) ==
  CHOOSE m \in S : \A o \in S : Clockwise(t, Digest[m]) <= Clockwise(t, Digest[o])

After(n, S) == IF S \subseteq {n} THEN n ELSE First(Digest[n], S \ {n})

(* The properties' names for them. *)
LEMMA OwnerIsFirst == \A t : Owner(t) = First(t, Members)
BY DEF Owner, First

LEMMA NextIsAfter == \A n : NextMember(n) = After(n, Members)
BY DEF NextMember, After, First

(* Whoever is no further than the others is the first, and there is one. *)
LEMMA FirstIs ==
  ASSUME NEW S \in SUBSET Node, NEW t \in Id, NEW m \in S,
         \A o \in S : Within(t, Digest[m], Digest[o])
  PROVE  First(t, S) = m
<1> DEFINE f == First(t, S)
<1>1. f \in S /\ \A o \in S : Within(t, Digest[f], Digest[o])
  BY DEF First, Within
<1> HIDE DEF f
<1>2. Clockwise(t, Digest[f]) = Clockwise(t, Digest[m])
  <2>1. Digest[f] \in Id /\ Digest[m] \in Id
    BY <1>1, DigestFacts
  <2>2. Clockwise(t, Digest[f]) \in Nat /\ Clockwise(t, Digest[m]) \in Nat
    BY <2>1, Distance
  <2> QED
    BY <1>1, <2>2 DEF Within
<1>3. Digest[f] = Digest[m]
  BY <1>1, <1>2, DigestFacts, Distance
<1>4. f = m
  BY <1>1, <1>3, DigestFacts
<1> QED
  BY <1>4 DEF f

LEMMA FirstExists ==
  ASSUME NEW S \in SUBSET Node, NEW t \in Id, S # {}
  PROVE  /\ First(t, S) \in S
         /\ \A o \in S : Within(t, Digest[First(t, S)], Digest[o])
<1> DEFINE T == {Clockwise(t, Digest[o]) : o \in S}
<1>1. T \subseteq Nat /\ T # {}
  BY Distance, DigestFacts
<1>2. PICK x \in T : \A y \in T : x <= y
  BY <1>1, Smallest
<1>3. PICK m \in S : x = Clockwise(t, Digest[m])
  BY <1>2
<1>4. \A o \in S : Clockwise(t, Digest[m]) <= Clockwise(t, Digest[o])
  BY <1>2, <1>3
<1> QED
  BY <1>3, <1>4 DEF First, Within

LEMMA AfterIs ==
  ASSUME NEW S \in SUBSET Node, NEW n \in Node, NEW m \in S \ {n},
         \A o \in S \ {n} : Within(Digest[n], Digest[m], Digest[o])
  PROVE  After(n, S) = m
<1>1. First(Digest[n], S \ {n}) = m
  BY DigestFacts, FirstIs
<1> QED
  BY <1>1 DEF After

LEMMA AfterExists ==
  ASSUME NEW S \in SUBSET Node, NEW n \in Node, ~(S \subseteq {n})
  PROVE  /\ After(n, S) \in S \ {n}
         /\ \A o \in S \ {n} : Within(Digest[n], Digest[After(n, S)], Digest[o])
<1>1. S \ {n} # {}
  OBVIOUS
<1>2. /\ First(Digest[n], S \ {n}) \in S \ {n}
      /\ \A o \in S \ {n} : Within(Digest[n], Digest[First(Digest[n], S \ {n})], Digest[o])
  BY <1>1, DigestFacts, FirstExists
<1> QED
  BY <1>2 DEF After

(* A place past a member a and no further than the next one, b, is b's. *)
LEMMA FirstOnArc ==
  ASSUME NEW a \in Id, NEW b \in Id, NEW t \in Id, NEW o \in Id,
         a # b, t # a, InArc(a, t, b), Within(a, b, o) \/ o = a
  PROVE  Within(t, b, o)
BY CircleSize DEF Id, InArc, Geq, Within, Clockwise

LEMMA OwnerOnArc ==
  ASSUME NEW S \in SUBSET Node, NEW n \in S, NEW t \in Id, t # Digest[n],
         ~(S \subseteq {n}), InArc(Digest[n], t, Digest[After(n, S)])
  PROVE  First(t, S) = After(n, S)
<1> DEFINE b == After(n, S)
<1>1. b \in S \ {n} /\ \A o \in S \ {n} : Within(Digest[n], Digest[b], Digest[o])
  BY AfterExists
<1> HIDE DEF b
<1>2. ASSUME NEW o \in S PROVE Within(t, Digest[b], Digest[o])
  <2>1. Digest[n] \in Id /\ Digest[b] \in Id /\ Digest[o] \in Id /\ Digest[n] # Digest[b]
    BY <1>1, DigestFacts
  <2>2. Within(Digest[n], Digest[b], Digest[o]) \/ Digest[o] = Digest[n]
    BY <1>1
  <2> QED
    BY <2>1, <2>2, FirstOnArc DEF b
<1> QED
  BY <1>1, <1>2, FirstIs DEF b

(* On the arc from n to the member after it, n excluded, there is no other. *)
LEMMA NoneBetween ==
  ASSUME NEW a \in Id, NEW b \in Id, NEW o \in Id,
         a # b, o # a, InArc(a, o, b), Within(a, b, o)
  PROVE  o = b
BY CircleSize DEF Id, InArc, Geq, Within, Clockwise

LEMMA AfterOnArc ==
  ASSUME NEW S \in SUBSET Node, NEW n \in S, NEW o \in S \ {n},
         InArc(Digest[n], Digest[o], Digest[After(n, S)])
  PROVE  o = After(n, S)
<1> DEFINE b == After(n, S)
<1>1. b \in S \ {n} /\ Within(Digest[n], Digest[b], Digest[o])
  BY AfterExists
<1> HIDE DEF b
<1>2. /\ Digest[n] \in Id /\ Digest[b] \in Id /\ Digest[o] \in Id
      /\ Digest[n] # Digest[b] /\ Digest[n] # Digest[o]
  BY <1>1, DigestFacts
<1>3. InArc(Digest[n], Digest[o], Digest[b])
  BY DEF b
<1>4. Digest[o] = Digest[b]
  BY <1>1, <1>2, <1>3, NoneBetween
<1> QED
  BY <1>1, <1>4, DigestFacts DEF b

(* A newcomer w: it is followed by the owner of its place, it follows whoever *)
(* was followed by that one, and nobody else notices.                        *)
LEMMA AfterJoin ==
  ASSUME NEW S \in SUBSET Node, NEW w \in Node \ S, S # {}
  PROVE  After(w, S \cup {w}) = First(Digest[w], S)
<1>1. (S \cup {w}) \ {w} = S /\ ~((S \cup {w}) \subseteq {w})
  OBVIOUS
<1> QED
  BY <1>1 DEF After

LEMMA NewcomerBetween ==
  ASSUME NEW m \in Id, NEW b \in Id, NEW w \in Id, NEW o \in Id,
         m # b, w # m, Within(m, w, b), Within(m, b, o) \/ o = m
  PROVE  Within(w, b, o)
BY CircleSize DEF Id, Within, Clockwise

LEMMA BeforeJoin ==
  ASSUME NEW S \in SUBSET Node, NEW w \in Node \ S, NEW m \in S, ~(S \subseteq {m})
  PROVE  \/ After(m, S \cup {w}) = After(m, S)
         \/ After(m, S \cup {w}) = w /\ After(m, S) = First(Digest[w], S)
<1> DEFINE b == After(m, S)
<1>1. b \in S \ {m} /\ \A o \in S \ {m} : Within(Digest[m], Digest[b], Digest[o])
  BY AfterExists
<1> HIDE DEF b
<1>2. /\ Digest[m] \in Id /\ Digest[b] \in Id /\ Digest[w] \in Id
      /\ Digest[m] # Digest[b] /\ Digest[m] # Digest[w] /\ m # w
  BY <1>1, DigestFacts
<1>3. CASE Within(Digest[m], Digest[b], Digest[w])
  <2>1. \A o \in (S \cup {w}) \ {m} : Within(Digest[m], Digest[b], Digest[o])
    BY <1>1, <1>3
  <2>2. After(m, S \cup {w}) = b
    BY <1>1, <2>1, AfterIs
  <2> QED
    BY <2>2 DEF b
<1>4. CASE ~Within(Digest[m], Digest[b], Digest[w])
  <2>1. Within(Digest[m], Digest[w], Digest[b])
    BY <1>2, <1>4, Distance DEF Within
  <2>2. \A o \in (S \cup {w}) \ {m} : Within(Digest[m], Digest[w], Digest[o])
    <3> SUFFICES ASSUME NEW o \in (S \cup {w}) \ {m}
                 PROVE  Within(Digest[m], Digest[w], Digest[o])
      OBVIOUS
    <3>1. CASE o = w
      BY <1>2, <3>1, Distance DEF Within
    <3>2. CASE o # w
      <4>1. Within(Digest[m], Digest[b], Digest[o]) /\ Digest[o] \in Id
        BY <1>1, <3>2, DigestFacts
      <4> QED
        BY <1>2, <2>1, <4>1, WithinTransitive
    <3> QED
      BY <3>1, <3>2
  <2>3. w \in (S \cup {w}) \ {m}
    BY <1>2
  <2>4. After(m, S \cup {w}) = w
    BY <2>2, <2>3, AfterIs
  <2>5. ASSUME NEW o \in S PROVE Within(Digest[w], Digest[b], Digest[o])
    <3>1. Digest[o] \in Id /\ (Within(Digest[m], Digest[b], Digest[o]) \/ Digest[o] = Digest[m])
      BY <1>1, DigestFacts
    <3> QED
      BY <1>2, <2>1, <3>1, NewcomerBetween
  <2>6. First(Digest[w], S) = b
    BY <1>1, <1>2, <2>5, FirstIs
  <2> QED
    BY <2>4, <2>6 DEF b
<1> QED
  BY <1>3, <1>4

(* A member n leaves: only whoever was followed by it is followed by another. *)
LEMMA AfterLeave ==
  ASSUME NEW S \in SUBSET Node, NEW n \in S, NEW m \in S \ {n},
         After(m, S) # n
  PROVE  After(m, S \ {n}) = After(m, S)
<1> DEFINE b == After(m, S)
<1>1. b \in S \ {m} /\ \A o \in S \ {m} : Within(Digest[m], Digest[b], Digest[o])
  BY AfterExists
<1> HIDE DEF b
<1>2. b \in (S \ {n}) \ {m}
  BY <1>1 DEF b
<1>3. \A o \in (S \ {n}) \ {m} : Within(Digest[m], Digest[b], Digest[o])
  BY <1>1
<1>4. After(m, S \ {n}) = b
  BY <1>2, <1>3, AfterIs
<1> QED
  BY <1>4 DEF b

LEMMA Onward ==
  ASSUME NEW p \in Id, NEW n \in Id, NEW s \in Id, NEW o \in Id, p # n, p # o, p # s,
         Within(p, n, o), Within(p, n, s), Within(n, s, o)
  PROVE  Within(p, s, o)
BY CircleSize DEF Id, Within, Clockwise

LEMMA LeaveBetween ==
  ASSUME NEW S \in SUBSET Node, NEW n \in S, NEW p \in S \ {n}, After(p, S) = n
  PROVE  After(p, S \ {n}) = IF S \ {n} = {p} THEN p ELSE After(n, S)
<1> DEFINE s == After(n, S)
<1>1. CASE S \ {n} = {p}
  BY <1>1 DEF After
<1>2. CASE S \ {n} # {p}
  <2>1. s \in S \ {n} /\ \A o \in S \ {n} : Within(Digest[n], Digest[s], Digest[o])
    BY AfterExists
  <2>2. \A o \in S \ {p} : Within(Digest[p], Digest[n], Digest[o])
    BY AfterExists
  <2> HIDE DEF s
  <2>3. PICK x \in S \ {n, p} : TRUE
    BY <1>2
  <2>4. s # p
    <3> SUFFICES ASSUME s = p PROVE FALSE
      OBVIOUS
    <3>1. Within(Digest[n], Digest[p], Digest[x]) /\ Within(Digest[p], Digest[n], Digest[x])
      BY <2>1, <2>2, <2>3
    <3>2. Digest[n] \in Id /\ Digest[p] \in Id /\ Digest[x] \in Id /\ Digest[n] # Digest[p]
      BY <2>3, DigestFacts
    <3>3. /\ Clockwise(Digest[p], Digest[x]) < Clockwise(Digest[n], Digest[x])
          /\ Clockwise(Digest[n], Digest[x]) < Clockwise(Digest[p], Digest[x])
      BY <3>1, <3>2, Between
    <3> QED
      BY <3>2, <3>3, Distance
  <2>5. ASSUME NEW o \in (S \ {n}) \ {p} PROVE Within(Digest[p], Digest[s], Digest[o])
    <3>1. /\ Digest[p] \in Id /\ Digest[n] \in Id /\ Digest[s] \in Id /\ Digest[o] \in Id
          /\ Digest[p] # Digest[n] /\ Digest[p] # Digest[o] /\ Digest[p] # Digest[s]
      BY <2>1, <2>4, DigestFacts
    <3>2. /\ Within(Digest[p], Digest[n], Digest[o]) /\ Within(Digest[p], Digest[n], Digest[s])
          /\ Within(Digest[n], Digest[s], Digest[o])
      BY <2>1, <2>2, <2>4
    <3> QED
      BY <3>1, <3>2, Onward
  <2>6. s \in (S \ {n}) \ {p}
    BY <2>1, <2>4
  <2>7. After(p, S \ {n}) = s
    BY <2>5, <2>6, AfterIs
  <2> QED
    BY <1>2, <2>7 DEF s
<1> QED
  BY <1>1, <1>2

-----------------------------------------------------------------------------
(* The overlay's invariant *)

Queries == {"LOOKUP_PUBLISH", "LOOKUP_PUBLISH_SUCCESS"}

Watched == Thread \cup Queries

OneWatched(ch) ==
  \A s1, s2, d1, d2 \in Node :
    \A i1 \in DOMAIN ch[s1][d1], i2 \in DOMAIN ch[s2][d2] :
      ch[s1][d1][i1].type \in Watched /\ ch[s2][d2][i2].type \in Watched
        => s1 = s2 /\ d1 = d2 /\ i1 = i2

NoneWatched(ch) ==
  \A s, d \in Node : \A i \in DOMAIN ch[s][d] : ch[s][d][i].type \notin Watched

(* What a packet x from s to d says in an ideal ring of the members S, with the *)
(* successors su.                                                               *)
SteadyPacket(S, su, c, s, d, x) ==
  /\ x.type # "NOTIFY"
  /\ x.type = "STABILIZE_REQ" => d = su[s]
  /\ x.type = "STABILIZE_RESP" => s = su[d] /\ x.addr = d
  /\ x.type = "JOIN_CHORD_SUCCESS" => x.addr = First(Digest[d], S)
  /\ x.type = "LOOKUP_PUBLISH" => c /\ d \in S /\ x.addr \in Node /\ x.key \in KeyId
  /\ x.type = "LOOKUP_PUBLISH_SUCCESS" => x.addr = First(x.key, S) /\ x.key \in KeyId

SteadyPackets(ch, S, su, c) ==
  \A s, d \in Node : \A i \in DOMAIN ch[s][d] : SteadyPacket(S, su, c, s, d, ch[s][d][i])

Steady(L, c) ==
  /\ Calm(L, c) /\ IdealRing
  /\ \A n \in Members : pred[n] # n
  /\ SteadyPackets(net, Members, succ, c)
  /\ OneWatched(net)

(* w has just joined, and n, which it follows now, has not noticed: its *)
(* successor su is still the one w has got.                             *)
Lags(S, su, n, w) == After(n, S) = w /\ su = After(w, S) /\ su # n

(* Whom n asks in a round of Stabilize, or has asked before it noticed w. *)
Questions(S, su, n, r, w) == r = su[n] \/ (After(n, S) = w /\ r = After(w, S) /\ r # n)

LatePacket(S, su, w, s, d, x) ==
  /\ x.type \notin Queries \cup (Thread \ {"RINGSTATE"})
  /\ x.type = "NOTIFY" => s \in S /\ d = After(s, S) /\ d # s
  /\ x.type = "STABILIZE_REQ" => Questions(S, su, s, d, w)
  /\ x.type = "STABILIZE_RESP" => Questions(S, su, d, s, w) /\ x.addr # s

LatePackets(ch, S, su, w) ==
  \A s, d \in Node : \A i \in DOMAIN ch[s][d] : LatePacket(S, su, w, s, d, ch[s][d][i])

LatePointers(S, su, pr, w) ==
  \A n \in S : pr[n] # n /\ (su[n] = After(n, S) \/ Lags(S, su[n], n, w))

(* w has joined a ring of others, which is absorbing it. *)
Late(L, c, w) ==
  /\ Calm(L, c)
  /\ w \in Members /\ Members # {w}
  /\ LatePointers(Members, succ, pred, w)
  /\ LatePackets(net, Members, succ, w)

(* Somebody between p and s has left an ideal ring. *)
LeftRing(S, su, pr, p, s, q) ==
  /\ s = After(p, S)
  /\ q = IF p = s THEN AnyAddr ELSE p
  /\ \A n \in S \ {p} : su[n] = After(n, S) /\ su[n] # s /\ pr[su[n]] = n

OInv ==
  \/ \E L \in Node, c \in BOOLEAN : Steady(L, c)
  \/ \E L \in Node, c \in BOOLEAN, w \in Node : Late(L, c, w)
  \/ \E m, s \in Node : Founding(m, s) /\ pred[m] = AnyAddr
  \/ \E p, s \in Node, q \in Addr : Parted(p, s, q) /\ LeftRing(Members, succ, pred, p, s, q)

(* Watched packets, as with threads. *)
LEMMA SendWatched ==
  ASSUME NEW ch \in Net, NEW n \in Node, NEW d, NEW m \in Message
  PROVE  /\ m.type \notin Watched /\ OneWatched(ch) => OneWatched(Send(ch, n, d, m))
         /\ NoneWatched(ch) => OneWatched(Send(ch, n, d, m))
<1>1. CASE d \notin Node
  BY <1>1 DEF Send, NoneWatched, OneWatched
<1>2. CASE d \in Node
  <2> DEFINE ch2 == Send(ch, n, d, m)
  <2>1. ASSUME NEW s2 \in Node, NEW d2 \in Node, NEW i \in DOMAIN ch2[s2][d2]
        PROVE  \/ i \in DOMAIN ch[s2][d2] /\ ch2[s2][d2][i] = ch[s2][d2][i]
               \/ s2 = n /\ d2 = d /\ i = Len(ch[n][d]) + 1 /\ ch2[s2][d2][i] = m
    BY <1>2, SendChannel
  <2> HIDE DEF ch2
  <2>2. m.type \notin Watched /\ OneWatched(ch) => OneWatched(ch2)
    BY <2>1 DEF OneWatched
  <2>3. NoneWatched(ch) => OneWatched(ch2)
    BY <2>1 DEF NoneWatched, OneWatched
  <2> QED
    BY <2>2, <2>3 DEF ch2
<1> QED
  BY <1>1, <1>2

LEMMA ReceivedWatched ==
  ASSUME TypeOK, NEW n \in Node, NEW s \in Node, net[s][n] # <<>>, OneWatched(net)
  PROVE  /\ OneWatched(Received(n, s))
         /\ Packet(n, s).type \in Watched => NoneWatched(Received(n, s))
<1> DEFINE ch == Received(n, s)
<1>2. 1 \in DOMAIN net[s][n] /\ Packet(n, s) = net[s][n][1]
  BY PacketIsIn
<1>3. ASSUME NEW s2 \in Node, NEW d2 \in Node, NEW i \in DOMAIN ch[s2][d2]
      PROVE  \E j \in DOMAIN net[s2][d2] :
               /\ ch[s2][d2][i] = net[s2][d2][j]
               /\ IF s2 = s /\ d2 = n THEN i \in Nat /\ i >= 1 /\ j = i + 1 ELSE j = i
  BY ReceivedChannel
<1> HIDE DEF ch
<1>4. OneWatched(ch)
  <2> SUFFICES ASSUME NEW s1 \in Node, NEW s2 \in Node, NEW d1 \in Node, NEW d2 \in Node,
                      NEW i1 \in DOMAIN ch[s1][d1], NEW i2 \in DOMAIN ch[s2][d2],
                      ch[s1][d1][i1].type \in Watched, ch[s2][d2][i2].type \in Watched
               PROVE  s1 = s2 /\ d1 = d2 /\ i1 = i2
    BY DEF OneWatched
  <2>1. PICK j1 \in DOMAIN net[s1][d1] :
          /\ ch[s1][d1][i1] = net[s1][d1][j1]
          /\ IF s1 = s /\ d1 = n THEN i1 \in Nat /\ i1 >= 1 /\ j1 = i1 + 1 ELSE j1 = i1
    BY <1>3
  <2>2. PICK j2 \in DOMAIN net[s2][d2] :
          /\ ch[s2][d2][i2] = net[s2][d2][j2]
          /\ IF s2 = s /\ d2 = n THEN i2 \in Nat /\ i2 >= 1 /\ j2 = i2 + 1 ELSE j2 = i2
    BY <1>3
  <2>3. s1 = s2 /\ d1 = d2 /\ j1 = j2
    BY <2>1, <2>2 DEF OneWatched
  <2> QED
    BY <2>1, <2>2, <2>3
<1>5. ASSUME net[s][n][1].type \in Watched PROVE NoneWatched(ch)
  <2> SUFFICES ASSUME NEW s2 \in Node, NEW d2 \in Node, NEW i \in DOMAIN ch[s2][d2],
                      ch[s2][d2][i].type \in Watched
               PROVE  FALSE
    BY DEF NoneWatched
  <2>1. PICK j \in DOMAIN net[s2][d2] :
          /\ ch[s2][d2][i] = net[s2][d2][j]
          /\ IF s2 = s /\ d2 = n THEN i \in Nat /\ i >= 1 /\ j = i + 1 ELSE j = i
    BY <1>3
  <2>2. s2 = s /\ d2 = n /\ j = 1
    BY <1>2, <1>5, <2>1 DEF OneWatched
  <2> QED
    BY <2>1, <2>2
<1> QED
  BY <1>2, <1>4, <1>5 DEF ch

(* What packets say stays true of those that stay, and holds of the one taken. *)
LEMMA ReceivedSteady ==
  ASSUME TypeOK, NEW n \in Node, NEW s \in Node, net[s][n] # <<>>,
         NEW S, NEW su, NEW c, SteadyPackets(net, S, su, c)
  PROVE  /\ SteadyPackets(Received(n, s), S, su, c)
         /\ SteadyPacket(S, su, c, s, n, Packet(n, s))
<1>1. SteadyPacket(S, su, c, s, n, Packet(n, s))
  <2>1. 1 \in DOMAIN net[s][n] /\ Packet(n, s) = net[s][n][1]
    BY PacketIsIn
  <2>2. SteadyPacket(S, su, c, s, n, net[s][n][1])
    BY <2>1, Zenon DEF SteadyPackets
  <2> QED
    BY <2>1, <2>2
<1>2. ASSUME NEW a \in Node, NEW b \in Node, NEW i \in DOMAIN Received(n, s)[a][b]
      PROVE  SteadyPacket(S, su, c, a, b, Received(n, s)[a][b][i])
  <2>1. PICK j \in DOMAIN net[a][b] : Received(n, s)[a][b][i] = net[a][b][j]
    BY ReceivedWas
  <2>2. SteadyPacket(S, su, c, a, b, net[a][b][j])
    BY <2>1, Zenon DEF SteadyPackets
  <2> QED
    BY <2>1, <2>2
<1> QED
  BY <1>1, <1>2 DEF SteadyPackets

LEMMA SendSteady ==
  ASSUME NEW ch \in Net, NEW n \in Node, NEW d, NEW m \in Message,
         NEW S, NEW su, NEW c, SteadyPackets(ch, S, su, c),
         d \in Node => SteadyPacket(S, su, c, n, d, m)
  PROVE  SteadyPackets(Send(ch, n, d, m), S, su, c)
<1>1. CASE d \notin Node
  BY <1>1 DEF Send
<1>2. CASE d \in Node
  <2> SUFFICES ASSUME NEW a \in Node, NEW b \in Node, NEW i \in DOMAIN Send(ch, n, d, m)[a][b]
               PROVE  SteadyPacket(S, su, c, a, b, Send(ch, n, d, m)[a][b][i])
    BY DEF SteadyPackets
  <2>1. \/ i \in DOMAIN ch[a][b] /\ Send(ch, n, d, m)[a][b][i] = ch[a][b][i]
        \/ a = n /\ b = d /\ Send(ch, n, d, m)[a][b][i] = m
    BY <1>2, SendChannel
  <2>2. CASE i \in DOMAIN ch[a][b] /\ Send(ch, n, d, m)[a][b][i] = ch[a][b][i]
    <3>1. SteadyPacket(S, su, c, a, b, ch[a][b][i])
      BY <2>2, Zenon DEF SteadyPackets
    <3> QED
      BY <2>2, <3>1
  <2>3. CASE a = n /\ b = d /\ Send(ch, n, d, m)[a][b][i] = m
    BY <1>2, <2>3
  <2> QED
    BY <2>1, <2>2, <2>3
<1> QED
  BY <1>1, <1>2

LEMMA ReceivedLate ==
  ASSUME TypeOK, NEW n \in Node, NEW s \in Node, net[s][n] # <<>>,
         NEW S, NEW su, NEW w, LatePackets(net, S, su, w)
  PROVE  /\ LatePackets(Received(n, s), S, su, w)
         /\ LatePacket(S, su, w, s, n, Packet(n, s))
<1>1. LatePacket(S, su, w, s, n, Packet(n, s))
  <2>1. 1 \in DOMAIN net[s][n] /\ Packet(n, s) = net[s][n][1]
    BY PacketIsIn
  <2>2. LatePacket(S, su, w, s, n, net[s][n][1])
    BY <2>1, Zenon DEF LatePackets
  <2> QED
    BY <2>1, <2>2
<1>2. ASSUME NEW a \in Node, NEW b \in Node, NEW i \in DOMAIN Received(n, s)[a][b]
      PROVE  LatePacket(S, su, w, a, b, Received(n, s)[a][b][i])
  <2>1. PICK j \in DOMAIN net[a][b] : Received(n, s)[a][b][i] = net[a][b][j]
    BY ReceivedWas
  <2>2. LatePacket(S, su, w, a, b, net[a][b][j])
    BY <2>1, Zenon DEF LatePackets
  <2> QED
    BY <2>1, <2>2
<1> QED
  BY <1>1, <1>2 DEF LatePackets

LEMMA SendLate ==
  ASSUME NEW ch \in Net, NEW n \in Node, NEW d, NEW m \in Message,
         NEW S, NEW su, NEW w, LatePackets(ch, S, su, w),
         d \in Node => LatePacket(S, su, w, n, d, m)
  PROVE  LatePackets(Send(ch, n, d, m), S, su, w)
<1>1. CASE d \notin Node
  BY <1>1 DEF Send
<1>2. CASE d \in Node
  <2> SUFFICES ASSUME NEW a \in Node, NEW b \in Node, NEW i \in DOMAIN Send(ch, n, d, m)[a][b]
               PROVE  LatePacket(S, su, w, a, b, Send(ch, n, d, m)[a][b][i])
    BY DEF LatePackets
  <2>1. \/ i \in DOMAIN ch[a][b] /\ Send(ch, n, d, m)[a][b][i] = ch[a][b][i]
        \/ a = n /\ b = d /\ Send(ch, n, d, m)[a][b][i] = m
    BY <1>2, SendChannel
  <2>2. CASE i \in DOMAIN ch[a][b] /\ Send(ch, n, d, m)[a][b][i] = ch[a][b][i]
    <3>1. LatePacket(S, su, w, a, b, ch[a][b][i])
      BY <2>2, Zenon DEF LatePackets
    <3> QED
      BY <2>2, <3>1
  <2>3. CASE a = n /\ b = d /\ Send(ch, n, d, m)[a][b][i] = m
    BY <1>2, <2>3
  <2> QED
    BY <2>1, <2>2, <2>3
<1> QED
  BY <1>1, <1>2

-----------------------------------------------------------------------------
(* An ideal ring: what carries over *)

(* The ring a step leaves as it is. *)
LEMMA RingKept ==
  ASSUME UNCHANGED <<status, succ, pred>>
  PROVE  Members' = Members /\ IdealRing' = IdealRing
<1>1. Members' = Members
  BY DEF Members
<1>2. \A x \in Node : NextMember(x)' = NextMember(x)
  BY <1>1 DEF NextMember
<1>3. IdealSuccessors' = IdealSuccessors
  BY <1>1, <1>2 DEF IdealSuccessors, Members
<1>4. (\A x \in Members : pred[NextMember(x)] = x)' = (\A x \in Members : pred[NextMember(x)] = x)
  BY <1>1, <1>2 DEF Members
<1> QED
  BY <1>1, <1>3, <1>4 DEF IdealRing

(* Pointers do not change, and what is on its way is steady. *)
LEMMA StaysSteady ==
  ASSUME NEW L \in Node, NEW c \in BOOLEAN, Steady(L, c), Calm(L, c)',
         UNCHANGED <<status, succ, pred>>,
         SteadyPackets(net', Members, succ, c), OneWatched(net')
  PROVE  Steady(L, c)'
<1>1. Members' = Members /\ IdealRing'
  BY RingKept DEF Steady
<1>2. (\A x \in Members : pred[x] # x)'
  BY <1>1 DEF Steady
<1>3. SteadyPackets(net, Members, succ, c)'
  BY <1>1 DEF SteadyPackets, SteadyPacket, First
<1>4. OneWatched(net)'
  BY DEF OneWatched
<1> QED
  BY <1>1, <1>2, <1>3, <1>4 DEF Steady

(* Where nothing is on its way. *)
LEMMA EmptySteady ==
  ASSUME NEW ch, \A s, d \in Node : ch[s][d] = <<>>, NEW S, NEW su, NEW c
  PROVE  NoneWatched(ch) /\ OneWatched(ch) /\ SteadyPackets(ch, S, su, c)
<1>1. \A s, d \in Node : DOMAIN ch[s][d] = {}
  OBVIOUS
<1> QED
  BY <1>1 DEF NoneWatched, OneWatched, SteadyPackets

(* What the handler at n makes of the network: it goes on as ch, or with one  *)
(* packet more, which says what it may, and is watched only if the one taken  *)
(* was.                                                                       *)
Passed(n, ch, S, su, c, v) ==
  \/ net' \in {net, ch}
  \/ \E d, m : /\ m \in Message /\ net' = Send(ch, n, d, m)
               /\ d \in Node => SteadyPacket(S, su, c, n, d, m)
               /\ m.type \in Watched => v

LEMMA PassedSteady ==
  ASSUME TypeOK, NEW n \in Node, NEW s \in Node, net[s][n] # <<>>, NEW S, NEW su, NEW c,
         SteadyPackets(net, S, su, c), OneWatched(net),
         Passed(n, Received(n, s), S, su, c, Packet(n, s).type \in Watched)
  PROVE  SteadyPackets(net', S, su, c) /\ OneWatched(net')
<1> DEFINE ch == Received(n, s)
<1>1. ch \in Net /\ SteadyPackets(ch, S, su, c) /\ OneWatched(ch)
  BY ReceivedType, ReceivedSteady, ReceivedWatched
<1>2. Packet(n, s).type \in Watched => NoneWatched(ch)
  BY ReceivedWatched
<1>3. Passed(n, ch, S, su, c, Packet(n, s).type \in Watched)
  OBVIOUS
<1> HIDE DEF ch
<1>4. CASE net' \in {net, ch}
  BY <1>1, <1>4
<1>5. CASE \E d, m : /\ m \in Message /\ net' = Send(ch, n, d, m)
                     /\ d \in Node => SteadyPacket(S, su, c, n, d, m)
                     /\ m.type \in Watched => Packet(n, s).type \in Watched
  <2>1. PICK d, m : /\ m \in Message /\ net' = Send(ch, n, d, m)
                    /\ d \in Node => SteadyPacket(S, su, c, n, d, m)
                    /\ m.type \in Watched => Packet(n, s).type \in Watched
    BY <1>5
  <2>2. SteadyPackets(net', S, su, c)
    BY <1>1, <2>1, SendSteady
  <2>3. OneWatched(net')
    BY <1>1, <1>2, <2>1, SendWatched
  <2> QED
    BY <2>2, <2>3
<1> QED
  BY <1>3, <1>4, <1>5 DEF Passed

(* In an ideal ring of two or more, the owner of a place on the arc from n to *)
(* its successor is the successor.                                           *)
LEMMA SuccessorOwns ==
  ASSUME NEW L \in Node, NEW c \in BOOLEAN, Steady(L, c),
         NEW n \in Members, succ[n] # n, NEW t \in Id, t # Digest[n], Responsible(n, t)
  PROVE  succ[n] = First(t, Members)
<1>1. succ[n] = After(n, Members)
  BY NextIsAfter DEF Steady, IdealRing, IdealSuccessors
<1>2. ~(Members \subseteq {n})
  BY <1>1 DEF After
<1>3. Members \in SUBSET Node
  BY DEF Members
<1> QED
  BY <1>1, <1>2, <1>3, OwnerOnArc DEF Responsible

(* Forwarding a packet. *)
LEMMA ForwardPasses ==
  ASSUME TypeOK, NEW ch \in Net, NEW n \in Node, NEW t, NEW m \in Message, NEW calls,
         NEW S, NEW su, NEW c, NEW v,
         \A h \in Addr : NextHop(n, t, h) /\ h \in Node => SteadyPacket(S, su, c, n, h, m),
         m.type \in Watched => v,
         Forward(ch, n, t, m, calls)
  PROVE  Passed(n, ch, S, su, c, v)
<1>1. CASE Abort(n)
  BY <1>1 DEF Abort, Passed
<1>2. CASE \E h \in Addr : NextHop(n, t, h) /\ net' = Send(ch, n, h, m)
  <2>1. PICK h \in Addr : NextHop(n, t, h) /\ net' = Send(ch, n, h, m)
    BY <1>2
  <2> QED
    BY <2>1 DEF Passed
<1> QED
  BY <1>1, <1>2 DEF Forward

(* An answer. *)
LEMMA AnswerPasses ==
  ASSUME NEW ch \in Net, NEW n \in Node, NEW d, NEW m \in Message,
         NEW S, NEW su, NEW c, NEW v,
         d \in Node => SteadyPacket(S, su, c, n, d, m),
         m.type \in Watched => v,
         Answer(ch, n, d, m)
  PROVE  Passed(n, ch, S, su, c, v)
BY DEF Answer, Passed

(* A member finds a place for d: the owner of d's place, or the next hop. *)
LEMMA FindSuccessorPasses ==
  ASSUME TypeOK, NEW L \in Node, NEW c \in BOOLEAN, Steady(L, c),
         NEW ch \in Net, NEW n \in Members, succ[n] # n, NEW d \in Node \ Members,
         FindSuccessor(ch, n, d)
  PROVE  Passed(n, ch, Members, succ, c, TRUE)
<1>1. n \in Node /\ d \in Addr /\ succ[n] \in Addr /\ Digest[d] \in Id /\ Digest[d] # Digest[n]
  BY DigestFacts DEF Members, TypeOK, Addr
<1>2. CASE Responsible(n, Digest[d]) /\ Answer(ch, n, d, JoinChordSuccess(succ[n]))
  <2>1. succ[n] = First(Digest[d], Members)
    BY <1>1, <1>2, SuccessorOwns
  <2>2. JoinChordSuccess(succ[n]) \in Message
    BY <1>1 DEF JoinChordSuccess, Message
  <2>3. SteadyPacket(Members, succ, c, n, d, JoinChordSuccess(succ[n]))
    BY <2>1 DEF SteadyPacket, JoinChordSuccess
  <2> QED
    BY <1>1, <1>2, <2>2, <2>3, AnswerPasses
<1>3. CASE Forward(ch, n, Digest[d], [type |-> "FIND_SUCCESSOR", addr |-> d], {})
  <2> DEFINE m == [type |-> "FIND_SUCCESSOR", addr |-> d]
  <2>1. m \in Message
    BY <1>1 DEF Message
  <2>2. \A h \in Addr : SteadyPacket(Members, succ, c, n, h, m)
    BY DEF SteadyPacket
  <2> HIDE DEF m
  <2> QED
    BY <1>1, <1>3, <2>1, <2>2, ForwardPasses DEF m
<1> QED
  BY <1>2, <1>3 DEF FindSuccessor

-----------------------------------------------------------------------------
(* An ideal ring: the handlers *)

(* A newcomer enters in front of the owner of its place. *)
LEMMA SteadyJoined ==
  ASSUME TypeOK, NEW L \in Node, NEW c \in BOOLEAN, Steady(L, c),
         NEW n \in Node, NEW s \in Node, ProcessJoinChordSuccess(n, s)
  PROVE  Late(L, c, n)'
<1> DEFINE a == Packet(n, s).addr
           ch == Received(n, s)
           S == Members
           T == Members \cup {n}
<1>1. net[s][n] # <<>> /\ Packet(n, s).type = "JOIN_CHORD_SUCCESS"
  BY DEF ProcessJoinChordSuccess, Arrives, Packet
<1>2. Packet(n, s) \in Message /\ ch \in Net
  BY <1>1, ReceivedType
<1>3. Calm(L, c)'
  BY JoinedCalm DEF Steady
<1>4. Sound(Members, SomeoneAlone, L, c, s, n, Packet(n, s)) /\ Sounds(ch, Members, SomeoneAlone, L, c)
  BY <1>1, ReceivedSounds DEF Steady, Calm
<1>5. n \notin S /\ a \in S /\ ~SomeoneAlone /\ S \subseteq Node
  BY <1>1, <1>4 DEF Sound, Members
<1>6. SteadyPackets(ch, S, succ, c) /\ SteadyPacket(S, succ, c, s, n, Packet(n, s))
  BY <1>1, ReceivedSteady DEF Steady
<1>7. a = First(Digest[n], S)
  BY <1>1, <1>6 DEF SteadyPacket
<1>8. NoneWatched(ch)
  BY <1>1, ReceivedWatched DEF Steady, Watched, Thread
<1> HIDE DEF a
<1>9. /\ status' = [status EXCEPT ![n] = TRUE]
      /\ succ' = [succ EXCEPT ![n] = a]
      /\ pred' = [pred EXCEPT ![n] = AnyAddr]
      /\ net' = Send(ch, n, a, [type |-> "NOTIFY"])
  BY DEF ProcessJoinChordSuccess, SendNotify, a
<1> HIDE DEF ch, S, T
<1>10. Members' = T
  BY <1>9 DEF TypeOK, Members, T
<1>11. /\ succ'[n] = a /\ pred'[n] = AnyAddr
       /\ \A x \in Node \ {n} : succ'[x] = succ[x] /\ pred'[x] = pred[x]
  BY <1>9 DEF TypeOK
<1>12. T \in SUBSET Node /\ S \in SUBSET Node /\ n \in Node \ S /\ T = S \cup {n} /\ S # {}
  BY <1>5 DEF T, S
<1>13. After(n, T) = a
  BY <1>7, <1>12, AfterJoin
<1>14. \A x \in S : succ[x] = After(x, S) /\ succ[x] # x /\ pred[x] # x
  BY <1>5, NextIsAfter DEF Steady, IdealRing, IdealSuccessors, SomeoneAlone, S
<1>15. ASSUME NEW x \in S
       PROVE  succ'[x] = After(x, T) \/ Lags(T, succ'[x], x, n)
  <2>1. succ'[x] = succ[x] /\ x # n
    BY <1>11, <1>12
  <2>2. ~(S \subseteq {x})
    BY <1>14 DEF After
  <2>3. \/ After(x, T) = After(x, S)
        \/ After(x, T) = n /\ After(x, S) = First(Digest[n], S)
    BY <1>12, <2>2, BeforeJoin
  <2> QED
    BY <1>7, <1>13, <1>14, <2>1, <2>3 DEF Lags
<1>16. LatePointers(T, succ', pred', n)
  <2>1. ASSUME NEW x \in S PROVE pred'[x] # x
    BY <1>11, <1>12, <1>14
  <2>2. pred'[n] # n /\ succ'[n] = After(n, T)
    BY <1>11, <1>13, DigestFacts
  <2> QED
    BY <1>12, <1>15, <2>1, <2>2 DEF LatePointers
<1>17. LatePackets(ch, T, succ', n)
  <2> SUFFICES ASSUME NEW x \in Node, NEW y \in Node, NEW i \in DOMAIN ch[x][y]
               PROVE  LatePacket(T, succ', n, x, y, ch[x][y][i])
    BY DEF LatePackets
  <2> DEFINE m == ch[x][y][i]
  <2>1. SteadyPacket(S, succ, c, x, y, m)
    BY <1>6, Zenon DEF SteadyPackets, S
  <2>2. Sound(S, SomeoneAlone, L, c, x, y, m)
    BY <1>4, Zenon DEF Sounds, S
  <2>3. m.type \notin Watched
    BY <1>8 DEF NoneWatched
  <2> HIDE DEF m
  <2>4. m.type = "STABILIZE_REQ" => y = succ'[x]
    BY <1>11, <1>12, <2>1, <2>2 DEF SteadyPacket, Sound
  <2>5. m.type = "STABILIZE_RESP" => x = succ'[y] /\ m.addr # x
    BY <1>11, <1>12, <1>14, <2>1, <2>2 DEF SteadyPacket, Sound
  <2>6. LatePacket(T, succ', n, x, y, m)
    BY <2>1, <2>3, <2>4, <2>5 DEF SteadyPacket, LatePacket, Questions, Watched
  <2> QED
    BY <2>6 DEF m
<1>18. [type |-> "NOTIFY"] \in Message /\ a \in Node
  BY <1>5 DEF Message
<1>19. LatePacket(T, succ', n, n, a, [type |-> "NOTIFY"])
  <2>1. n \in T /\ a # n
    BY <1>5, <1>12 DEF S
  <2> QED
    BY <1>13, <2>1 DEF LatePacket, Queries, Thread
<1>20. LatePackets(net', T, succ', n)
  BY <1>2, <1>9, <1>17, <1>18, <1>19, SendLate DEF ch
<1>21. LatePointers(Members, succ, pred, n)' /\ LatePackets(net, Members, succ, n)'
  <2>1. LatePointers(Members, succ, pred, n)'
    BY <1>10, <1>16 DEF LatePointers, Lags
  <2>2. LatePackets(net, Members, succ, n)'
    BY <1>10, <1>20 DEF LatePackets, LatePacket, Questions, After, First
  <2> QED
    BY <2>1, <2>2
<1>22. (n \in Members /\ Members # {n})'
  BY <1>10, <1>12
<1> QED
  BY <1>3, <1>21, <1>22 DEF Late

(* Every handler but that of JOIN_CHORD_SUCCESS, and of JOIN_CHORD at a founder *)
(* that is alone.                                                               *)
LEMMA SteadyPasses ==
  ASSUME TypeOK, NEW L \in Node, NEW c \in BOOLEAN, Steady(L, c),
         NEW n \in Node, NEW s \in Node, RecvMessage(n, s),
         ~ProcessJoinChordSuccess(n, s), ~(ProcessJoinChord(n, s) /\ status[n] /\ Alone(n))
  PROVE  /\ net[s][n] # <<>> /\ UNCHANGED <<status, succ, pred>>
         /\ Passed(n, Received(n, s), Members, succ, c, Packet(n, s).type \in Watched)
<1> DEFINE m  == Packet(n, s)
           ch == Received(n, s)
           v  == m.type \in Watched
<1>0. net[s][n] # <<>>
  BY DEF RecvMessage, Arrives, ProcessJoinChord, ProcessFindSuccessor,
         ProcessJoinChordSuccess, ProcessJoinChordFail, ProcessNotify,
         ProcessStabilizeReq, ProcessStabilizeResp, ProcessLeaveSuccessor,
         ProcessLeavePredecessor, ProcessRingstate, ProcessFindFinger,
         ProcessFindFingerSuccess, ProcessLookupPublish, ProcessLookupPublishSuccess
<1>a. m \in Message /\ ch \in Net
  BY <1>0, ReceivedType
<1>b. Calm(L, c)
  BY DEF Steady
<1>c. Sound(Members, SomeoneAlone, L, c, s, n, m)
  BY <1>0, <1>b, ReceivedSounds DEF Calm
<1>d. SteadyPacket(Members, succ, c, s, n, m)
  BY <1>0, ReceivedSteady DEF Steady
<1>e. /\ n \in Addr /\ s \in Addr /\ succ[n] \in Addr /\ pred[n] \in Addr
      /\ Members \subseteq Node
  BY DEF TypeOK, Addr, Members
<1>1. CASE ProcessJoinChord(n, s)
  <2>1. m.type = "JOIN_CHORD" /\ v
    BY <1>1 DEF ProcessJoinChord, Arrives, Packet, Watched, Thread
  <2>2. s \notin Members
    BY <1>c, <2>1 DEF Sound
  <2>3. CASE Answer(ch, n, s, [type |-> "JOIN_CHORD_FAIL"])
    <3>1. [type |-> "JOIN_CHORD_FAIL"] \in Message
      BY DEF Message
    <3>2. SteadyPacket(Members, succ, c, n, s, [type |-> "JOIN_CHORD_FAIL"])
      BY DEF SteadyPacket
    <3>3. Passed(n, ch, Members, succ, c, v)
      BY <1>a, <2>1, <2>3, <3>1, <3>2, AnswerPasses
    <3> QED
      BY <1>0, <2>3, <3>3 DEF Answer, local
  <2>4. CASE status[n] /\ ~Alone(n) /\ FindSuccessor(ch, n, s)
    <3>1. n \in Members /\ succ[n] # n
      BY <2>4 DEF Members, Alone
    <3>2. Passed(n, ch, Members, succ, c, TRUE)
      BY <1>a, <2>2, <2>4, <3>1, FindSuccessorPasses
    <3> QED
      BY <1>0, <2>1, <2>4, <3>2 DEF FindSuccessor, Answer, Forward, Abort, local, Passed
  <2> QED
    BY <1>1, <2>3, <2>4 DEF ProcessJoinChord
<1>2. CASE ProcessFindSuccessor(n, s)
  <2>1. m.type = "FIND_SUCCESSOR" /\ v
    BY <1>2 DEF ProcessFindSuccessor, Arrives, Packet, Watched, Thread
  <2>2. m.addr \in Node \ Members /\ n \in Members /\ succ[n] # n
    BY <1>c, <2>1 DEF Sound, SomeoneAlone
  <2>3. FindSuccessor(ch, n, m.addr)
    BY <1>2 DEF ProcessFindSuccessor
  <2>4. Passed(n, ch, Members, succ, c, TRUE)
    BY <1>a, <2>2, <2>3, FindSuccessorPasses
  <2> QED
    BY <1>0, <2>1, <2>3, <2>4 DEF FindSuccessor, Answer, Forward, Abort, local, Passed
<1>4. CASE ProcessJoinChordFail(n, s) \/ ProcessLookupPublishSuccess(n, s)
  BY <1>0, <1>4 DEF ProcessJoinChordFail, ProcessLookupPublishSuccess, local, Passed
<1>5. CASE ProcessNotify(n, s)
  <2>1. m.type = "NOTIFY"
    BY <1>5 DEF ProcessNotify, Arrives, Packet
  <2> QED
    BY <1>d, <2>1 DEF SteadyPacket
<1>6. CASE ProcessStabilizeReq(n, s)
  <2>1. m.type = "STABILIZE_REQ"
    BY <1>6 DEF ProcessStabilizeReq, Arrives, Packet
  <2>2. n \in Members /\ s \in Members /\ succ[s] # s /\ n = succ[s]
    BY <1>c, <1>d, <2>1 DEF Sound, SteadyPacket, SomeoneAlone
  <2>3. pred[n] = s
    BY <2>2, IdealNeighbors DEF Steady
  <2> DEFINE r == [type |-> "STABILIZE_RESP", addr |-> pred[n]]
  <2>4. r \in Message /\ r.type \notin Watched
    BY <1>e DEF Message, Watched, Thread, Queries
  <2>5. SteadyPacket(Members, succ, c, n, s, r)
    BY <2>2, <2>3 DEF SteadyPacket
  <2>6. pred[n] # AnyAddr
    BY <2>3, DigestFacts
  <2>7. net' = Send(ch, n, s, r) /\ UNCHANGED <<status, succ, pred>>
    BY <1>6, <2>6 DEF ProcessStabilizeReq, local
  <2> HIDE DEF r
  <2> QED
    BY <1>0, <2>4, <2>5, <2>7 DEF Passed
<1>7. CASE ProcessStabilizeResp(n, s)
  <2>1. m.type = "STABILIZE_RESP"
    BY <1>7 DEF ProcessStabilizeResp, Arrives, Packet
  <2>2. m.addr = n
    BY <1>d, <2>1 DEF SteadyPacket
  <2>3. ~Adopts(n, m.addr)
    BY <2>2 DEF Adopts
  <2> QED
    BY <1>0, <1>7, <2>3 DEF ProcessStabilizeResp, Passed
<1>8. CASE ProcessLeaveSuccessor(n, s) \/ ProcessLeavePredecessor(n, s)
  <2>1. m.type \in {"LEAVE_SUCCESSOR", "LEAVE_PREDECESSOR"}
    BY <1>8 DEF ProcessLeaveSuccessor, ProcessLeavePredecessor, Arrives, Packet
  <2> QED
    BY <1>c, <2>1 DEF Sound
<1>9. CASE ProcessRingstate(n, s)
  <2>1. m.type = "RINGSTATE" /\ v
    BY <1>9 DEF ProcessRingstate, Arrives, Packet, Watched, Thread
  <2>2. \A d \in Node : SteadyPacket(Members, succ, c, n, d, m)
    BY <2>1 DEF SteadyPacket
  <2>3. net' = ch \/ net' = Send(ch, n, succ[n], m)
    BY <1>9 DEF ProcessRingstate
  <2>4. UNCHANGED <<status, succ, pred>>
    BY <1>9 DEF ProcessRingstate, local
  <2> QED
    BY <1>0, <1>a, <2>1, <2>2, <2>3, <2>4 DEF Passed
<1>10. CASE ProcessFindFinger(n, s)
  <2>1. m.type = "FIND_FINGER" /\ m.type \notin Watched /\ m.index \in FingerIndex
    BY <1>10, <1>a DEF ProcessFindFinger, Arrives, Packet, Watched, Thread, Queries, Message
  <2>2. UNCHANGED <<status, succ, pred>>
    BY <1>10 DEF ProcessFindFinger, ReplyFindFinger, Answer, Forward, Abort, local
  <2>3. CASE ReplyFindFinger(ch, n, m)
    <3> DEFINE r == [type |-> "FIND_FINGER_SUCCESS", addr |-> succ[n], index |-> m.index]
    <3>1. r \in Message /\ r.type \notin Watched
      BY <1>e, <2>1 DEF Message, Watched, Thread, Queries
    <3>2. SteadyPacket(Members, succ, c, n, m.addr, r)
      BY DEF SteadyPacket
    <3>3. Answer(ch, n, m.addr, r)
      BY <2>3 DEF ReplyFindFinger
    <3> HIDE DEF r
    <3> QED
      BY <1>0, <1>a, <2>2, <3>1, <3>2, <3>3, AnswerPasses
  <2>4. CASE Forward(ch, n, IndexHash(Digest[m.addr], m.index), m, {})
    <3>1. \A h \in Addr : SteadyPacket(Members, succ, c, n, h, m)
      BY <2>1 DEF SteadyPacket
    <3> QED
      BY <1>0, <1>a, <2>1, <2>2, <2>4, <3>1, ForwardPasses
  <2> QED
    BY <1>10, <2>3, <2>4 DEF ProcessFindFinger
<1>11. CASE ProcessFindFingerSuccess(n, s)
  <2>1. m.type = "FIND_FINGER_SUCCESS"
    BY <1>11 DEF ProcessFindFingerSuccess, Arrives, Packet
  <2>2. m.index \in FingerIndex /\ m.addr \in Addr
    BY <1>a, <2>1 DEF Message
  <2>3. m.index + 1 \in Nat \ {0}
    BY <2>2, MAssumption DEF FingerIndex
  <2>4. /\ SendFindFinger(ch, n, ffTimer, [finger[n] EXCEPT ![m.index] = m.addr],
                          m.addr, m.index + 1)
        /\ UNCHANGED <<status, succ, pred, used>>
    BY <1>11 DEF ProcessFindFingerSuccess
  <2>5. Asked(net', ch, n, m.addr)
    BY <2>3, <2>4, SendFindFingerEffect
  <2>6. \A k \in FingerIndex : LET r == [type |-> "FIND_FINGER", addr |-> n, index |-> k]
                               IN  /\ r \in Message /\ r.type \notin Watched
                                   /\ \A d \in Node : SteadyPacket(Members, succ, c, n, d, r)
    BY DEF Message, Watched, Thread, Queries, SteadyPacket
  <2> QED
    BY <1>0, <2>4, <2>5, <2>6 DEF Asked, Passed
<1>12. CASE ProcessLookupPublish(n, s)
  <2>1. m.type = "LOOKUP_PUBLISH" /\ v
    BY <1>12 DEF ProcessLookupPublish, Arrives, Packet, Watched, Queries
  <2>2. c /\ n \in Members /\ m.addr \in Node /\ m.key \in KeyId /\ succ[n] # n
    BY <1>c, <1>d, <2>1 DEF Sound, SteadyPacket, SomeoneAlone
  <2>3. m.key \in Id /\ m.key # Digest[n]
    BY <2>2, DigestAssumption, KeyAssumption
  <2>4. UNCHANGED <<status, succ, pred>>
    BY <1>12 DEF ProcessLookupPublish, ReplyLookupPublishSuccess, Answer, Forward, Abort, local
  <2>5. CASE Responsible(n, m.key) /\ ReplyLookupPublishSuccess(ch, n, m)
    <3> DEFINE r == [type |-> "LOOKUP_PUBLISH_SUCCESS", addr |-> succ[n], key |-> m.key]
    <3>1. r \in Message
      BY <1>e, <2>3 DEF Message
    <3>2. succ[n] = First(m.key, Members)
      BY <2>2, <2>3, <2>5, SuccessorOwns
    <3>3. SteadyPacket(Members, succ, c, n, m.addr, r)
      BY <2>2, <3>2 DEF SteadyPacket
    <3>4. Answer(ch, n, m.addr, r)
      BY <2>5 DEF ReplyLookupPublishSuccess
    <3> HIDE DEF r
    <3> QED
      BY <1>0, <1>a, <2>1, <2>4, <3>1, <3>3, <3>4, AnswerPasses
  <2>6. CASE Forward(ch, n, m.key, m, {})
    <3>1. \A h \in Addr : NextHop(n, m.key, h) => h \in Members
      BY <1>b, <2>2, HopIsMember
    <3>2. \A h \in Addr : NextHop(n, m.key, h) => SteadyPacket(Members, succ, c, n, h, m)
      BY <2>1, <2>2, <3>1 DEF SteadyPacket
    <3> QED
      BY <1>0, <1>a, <2>1, <2>4, <2>6, <3>2, ForwardPasses
  <2> QED
    BY <1>12, <2>5, <2>6 DEF ProcessLookupPublish
<1> QED
  BY <1>1, <1>2, <1>4, <1>5, <1>6, <1>7, <1>8, <1>9, <1>10, <1>11, <1>12
     DEF RecvMessage

(* A handler keeps the ring ideal, lets somebody in, or has a founder take its *)
(* first successor.                                                            *)
LEMMA SteadyHandler ==
  ASSUME TypeOK, NEW L \in Node, NEW c \in BOOLEAN, Steady(L, c),
         NEW n \in Node, NEW s \in Node, RecvMessage(n, s)
  PROVE  Steady(L, c)' \/ Late(L, c, n)' \/ (Founding(n, s) /\ pred[n] = AnyAddr)'
<1>0. Calm(L, c)
  BY DEF Steady
<1>1. CASE ProcessJoinChordSuccess(n, s)
  BY <1>1, SteadyJoined
<1>2. CASE ProcessJoinChord(n, s) /\ status[n] /\ Alone(n)
  <2>1. /\ Arrives(n, s, "JOIN_CHORD") /\ succ' = [succ EXCEPT ![n] = s]
        /\ net' = SendNotify(Send(Received(n, s), n, s, JoinChordSuccess(n)), n, s)
        /\ UNCHANGED <<status, pred, finger, ffTimer, aborted, used>>
    BY <1>2 DEF ProcessJoinChord
  <2>2. Founding(n, s)'
    BY <1>0, <1>2, <2>1, FounderCalm
  <2>3. pred[n] = AnyAddr
    <3>1. n \in Members /\ Members = {n}
      BY <1>0, <1>2 DEF Members, Alone, Calm, Pointers
    <3> QED
      BY <1>0, <3>1 DEF Steady, Calm, Pointers
  <2> QED
    BY <2>1, <2>2, <2>3
<1>3. CASE ~ProcessJoinChordSuccess(n, s) /\ ~(ProcessJoinChord(n, s) /\ status[n] /\ Alone(n))
  <2>1. /\ net[s][n] # <<>> /\ UNCHANGED <<status, succ, pred>>
        /\ Passed(n, Received(n, s), Members, succ, c, Packet(n, s).type \in Watched)
    BY <1>3, SteadyPasses
  <2>2. SteadyPackets(net', Members, succ, c) /\ OneWatched(net')
    BY <2>1, PassedSteady DEF Steady
  <2>3. ~Founding(n, s)'
    <3>1. Members' = Members
      BY <2>1, RingKept
    <3> QED
      BY <1>0, <2>1, <3>1 DEF Founding, Calm, Pointers
  <2>4. Calm(L, c)'
    BY <1>0, <2>3, HandlerCalm
  <2> QED
    BY <2>1, <2>2, <2>4, StaysSteady
<1> QED
  BY <1>1, <1>2, <1>3

-----------------------------------------------------------------------------
(* A ring that absorbs a newcomer: the handlers *)

LEMMA StaysLate ==
  ASSUME NEW L \in Node, NEW c \in BOOLEAN, NEW w \in Node, Late(L, c, w), Calm(L, c)',
         status' = status, LatePointers(Members, succ', pred', w),
         LatePackets(net', Members, succ', w)
  PROVE  Late(L, c, w)'
<1>1. Members' = Members
  BY DEF Members
<1>2. LatePointers(Members, succ, pred, w)'
  BY <1>1 DEF LatePointers, Lags
<1>3. LatePackets(net, Members, succ, w)'
  BY <1>1 DEF LatePackets, LatePacket, Questions
<1>4. (w \in Members /\ Members # {w})'
  BY <1>1 DEF Late
<1> QED
  BY <1>2, <1>3, <1>4 DEF Late

PassedLate(n, ch, S, su, w) ==
  \/ net' \in {net, ch}
  \/ \E d, m : /\ m \in Message /\ net' = Send(ch, n, d, m)
               /\ d \in Node => LatePacket(S, su, w, n, d, m)

LEMMA PassedStaysLate ==
  ASSUME NEW n \in Node, NEW ch \in Net, NEW S, NEW su, NEW w,
         LatePackets(net, S, su, w), LatePackets(ch, S, su, w), PassedLate(n, ch, S, su, w)
  PROVE  LatePackets(net', S, su, w)
<1>1. CASE net' \in {net, ch}
  BY <1>1
<1>2. CASE \E d, m : /\ m \in Message /\ net' = Send(ch, n, d, m)
                     /\ d \in Node => LatePacket(S, su, w, n, d, m)
  BY <1>2, SendLate
<1> QED
  BY <1>1, <1>2 DEF PassedLate

(* Of two members w and b after n, in this order, no other lies before b. *)
LEMMA OnlyNewcomer ==
  ASSUME NEW n \in Id, NEW w \in Id, NEW b \in Id, NEW a \in Id,
         n # b, n # a, n # w, InArc(n, a, b), Within(n, w, a), Within(n, w, b),
         Within(w, b, a)
  PROVE  a = b
BY CircleSize DEF Id, InArc, Geq, Within, Clockwise

(* A node that lags behind adopts the newcomer; another adopts the successor *)
(* it has.                                                                   *)
LEMMA LateAdopts ==
  ASSUME NEW S \in SUBSET Node, NEW n \in S, NEW w \in S, NEW a \in S, NEW s, NEW su,
         su[n] = After(n, S) \/ Lags(S, su[n], n, w), ~(S \subseteq {n}),
         Questions(S, su, n, s, w), a # s, a # n,
         InArc(Digest[n], Digest[a], Digest[su[n]])
  PROVE  a = After(n, S) /\ (a = su[n] \/ Lags(S, su[n], n, w))
<1>1. CASE su[n] = After(n, S)
  <2>1. a = After(n, S)
    BY <1>1, AfterOnArc
  <2> QED
    BY <1>1, <2>1
<1>2. CASE Lags(S, su[n], n, w)
  <2> DEFINE b == su[n]
  <2>1. After(n, S) = w /\ b = After(w, S) /\ b # n /\ s = b
    BY <1>2 DEF Lags, Questions
  <2> HIDE DEF b
  <2>2. w \in S \ {n} /\ \A o \in S \ {n} : Within(Digest[n], Digest[w], Digest[o])
    BY <2>1, AfterExists
  <2>3. b \in S \ {w} /\ \A o \in S \ {w} : Within(Digest[w], Digest[b], Digest[o])
    BY <2>1, <2>2, AfterExists
  <2>4. /\ Digest[n] \in Id /\ Digest[w] \in Id /\ Digest[b] \in Id /\ Digest[a] \in Id
        /\ Digest[n] # Digest[b] /\ Digest[n] # Digest[a] /\ Digest[n] # Digest[w]
    BY <2>1, <2>2, <2>3, DigestFacts
  <2>5. ASSUME a # w PROVE FALSE
    <3>1. /\ Within(Digest[n], Digest[w], Digest[a]) /\ Within(Digest[n], Digest[w], Digest[b])
          /\ Within(Digest[w], Digest[b], Digest[a])
      BY <2>1, <2>2, <2>3, <2>5
    <3>2. InArc(Digest[n], Digest[a], Digest[b])
      BY DEF b
    <3>3. Digest[a] = Digest[b]
      BY <2>4, <3>1, <3>2, OnlyNewcomer
    <3>4. a = b
      BY <2>3, <3>3, DigestFacts
    <3> QED
      BY <2>1, <3>4
  <2> QED
    BY <1>2, <2>1, <2>5
<1> QED
  BY <1>1, <1>2

LEMMA LateAdopted ==
  ASSUME TypeOK, NEW L \in Node, NEW c \in BOOLEAN, NEW w \in Node, Late(L, c, w),
         NEW n \in Node, NEW s \in Node, ProcessStabilizeResp(n, s)
  PROVE  Late(L, c, w)'
<1> DEFINE a == Packet(n, s).addr
           ch == Received(n, s)
           S == Members
<1>1. net[s][n] # <<>> /\ Packet(n, s).type = "STABILIZE_RESP"
  BY DEF ProcessStabilizeResp, Arrives, Packet
<1>2. ch \in Net
  BY <1>1, ReceivedType
<1>3. Calm(L, c)'
  BY AdoptedCalm DEF Late
<1>4. Sound(S, SomeoneAlone, L, c, s, n, Packet(n, s))
  BY <1>1, ReceivedSounds DEF Late, Calm
<1>5. n \in S /\ a \in S /\ ~SomeoneAlone /\ S \in SUBSET Node /\ w \in S
  BY <1>1, <1>4 DEF Sound, Members, Late
<1>6. LatePackets(ch, S, succ, w) /\ LatePacket(S, succ, w, s, n, Packet(n, s))
  BY <1>1, ReceivedLate DEF Late
<1>7. Questions(S, succ, n, s, w) /\ a # s
  BY <1>1, <1>6 DEF LatePacket
<1>8. LatePointers(S, succ, pred, w)
  BY DEF Late
<1>9. /\ status' = status /\ pred' = pred
      /\ ~Adopts(n, a) => succ' = succ /\ net' = ch
      /\ Adopts(n, a) => succ' = [succ EXCEPT ![n] = a] /\ net' = Send(ch, n, a, [type |-> "NOTIFY"])
  BY DEF ProcessStabilizeResp, SendNotify
<1>a. succ[n] # n
  BY <1>5 DEF SomeoneAlone
<1> HIDE DEF a, ch, S
<1>10. CASE ~Adopts(n, a)
  BY <1>3, <1>6, <1>8, <1>9, <1>10, StaysLate DEF S
<1>11. CASE Adopts(n, a)
  <2>1. a # n /\ InArc(Digest[n], Digest[a], Digest[succ[n]])
    BY <1>11 DEF Adopts
  <2>2. succ[n] = After(n, S) \/ Lags(S, succ[n], n, w)
    BY <1>5, <1>8 DEF LatePointers
  <2>3. ~(S \subseteq {n})
    BY <1>5, <2>1
  <2>4. a = After(n, S) /\ (a = succ[n] \/ Lags(S, succ[n], n, w))
    BY <1>5, <1>7, <2>1, <2>2, <2>3, LateAdopts
  <2>5. succ'[n] = a /\ \A x \in Node \ {n} : succ'[x] = succ[x]
    BY <1>9, <1>11 DEF TypeOK
  <2>6. LatePointers(S, succ', pred', w)
    <3> SUFFICES ASSUME NEW x \in S
                 PROVE  pred[x] # x /\ (succ'[x] = After(x, S) \/ Lags(S, succ'[x], x, w))
      BY <1>9 DEF LatePointers
    <3>1. pred[x] # x /\ (succ[x] = After(x, S) \/ Lags(S, succ[x], x, w))
      BY <1>8 DEF LatePointers
    <3> QED
      BY <1>5, <2>4, <2>5, <3>1
  <2>7. ASSUME NEW x \in Node, NEW r, Questions(S, succ, x, r, w)
        PROVE  Questions(S, succ', x, r, w)
    BY <2>4, <2>5, <2>7 DEF Questions, Lags
  <2>8. LatePackets(ch, S, succ', w)
    <3> SUFFICES ASSUME NEW x \in Node, NEW y \in Node, NEW i \in DOMAIN ch[x][y]
                 PROVE  LatePacket(S, succ', w, x, y, ch[x][y][i])
      BY DEF LatePackets
    <3>1. LatePacket(S, succ, w, x, y, ch[x][y][i])
      BY <1>6, Zenon DEF LatePackets
    <3> QED
      BY <2>7, <3>1 DEF LatePacket
  <2>9. LatePacket(S, succ', w, n, a, [type |-> "NOTIFY"])
    BY <1>5, <2>1, <2>4 DEF LatePacket, Queries, Thread
  <2>10. [type |-> "NOTIFY"] \in Message
    BY DEF Message
  <2>11. LatePackets(net', S, succ', w)
    BY <1>2, <1>9, <1>11, <2>8, <2>9, <2>10, SendLate
  <2> QED
    BY <1>3, <1>9, <2>6, <2>11, StaysLate DEF S
<1> QED
  BY <1>10, <1>11

(* Every handler but that of STABILIZE_RESP. *)
LEMMA LatePasses ==
  ASSUME TypeOK, NEW L \in Node, NEW c \in BOOLEAN, NEW w \in Node, Late(L, c, w),
         NEW n \in Node, NEW s \in Node, RecvMessage(n, s), ~ProcessStabilizeResp(n, s)
  PROVE  /\ net[s][n] # <<>> /\ UNCHANGED <<status, succ>>
         /\ LatePointers(Members, succ, pred', w)
         /\ PassedLate(n, Received(n, s), Members, succ, w)
<1> DEFINE m  == Packet(n, s)
           ch == Received(n, s)
<1>0. net[s][n] # <<>>
  BY DEF RecvMessage, Arrives, ProcessJoinChord, ProcessFindSuccessor,
         ProcessJoinChordSuccess, ProcessJoinChordFail, ProcessNotify,
         ProcessStabilizeReq, ProcessStabilizeResp, ProcessLeaveSuccessor,
         ProcessLeavePredecessor, ProcessRingstate, ProcessFindFinger,
         ProcessFindFingerSuccess, ProcessLookupPublish, ProcessLookupPublishSuccess
<1>a. m \in Message /\ ch \in Net
  BY <1>0, ReceivedType
<1>b. Calm(L, c) /\ LatePointers(Members, succ, pred, w)
  BY DEF Late
<1>c. Sound(Members, SomeoneAlone, L, c, s, n, m)
  BY <1>0, <1>b, ReceivedSounds DEF Calm
<1>d. LatePacket(Members, succ, w, s, n, m)
  BY <1>0, ReceivedLate DEF Late
<1>e. n \in Addr /\ s \in Addr /\ succ[n] \in Addr /\ pred[n] \in Addr
  BY DEF TypeOK, Addr
<1>f. m.type \notin Queries \cup (Thread \ {"RINGSTATE"})
  BY <1>d DEF LatePacket
<1>1. CASE \/ ProcessJoinChord(n, s) \/ ProcessFindSuccessor(n, s)
           \/ ProcessJoinChordSuccess(n, s) \/ ProcessJoinChordFail(n, s)
           \/ ProcessLookupPublish(n, s) \/ ProcessLookupPublishSuccess(n, s)
  BY <1>1, <1>f DEF ProcessJoinChord, ProcessFindSuccessor, ProcessJoinChordSuccess,
       ProcessJoinChordFail, ProcessLookupPublish, ProcessLookupPublishSuccess,
       Arrives, Packet, Queries, Thread
<1>2. CASE ProcessLeaveSuccessor(n, s) \/ ProcessLeavePredecessor(n, s)
  <2>1. m.type \in {"LEAVE_SUCCESSOR", "LEAVE_PREDECESSOR"}
    BY <1>2 DEF ProcessLeaveSuccessor, ProcessLeavePredecessor, Arrives, Packet
  <2> QED
    BY <1>c, <2>1 DEF Sound
<1>3. CASE ProcessNotify(n, s)
  <2>1. m.type = "NOTIFY"
    BY <1>3 DEF ProcessNotify, Arrives, Packet
  <2>2. s \in Members /\ n # s
    BY <1>d, <2>1 DEF LatePacket
  <2>3. /\ pred' \in {[pred EXCEPT ![n] = s], pred} /\ net' = ch
        /\ UNCHANGED <<status, succ>>
    BY <1>3 DEF ProcessNotify
  <2>a. \A x \in Node : pred'[x] \in {pred[x], IF x = n THEN s ELSE pred[x]}
    BY <2>3 DEF TypeOK
  <2>b. \A x \in Members : x \in Node /\ pred[x] # x
    BY <1>b DEF LatePointers, Members
  <2>4. \A x \in Members : pred'[x] # x
    BY <2>2, <2>a, <2>b
  <2>5. LatePointers(Members, succ, pred', w)
    BY <1>b, <2>4 DEF LatePointers
  <2> QED
    BY <1>0, <2>3, <2>5 DEF PassedLate
<1>4. CASE ProcessStabilizeReq(n, s)
  <2>1. m.type = "STABILIZE_REQ" /\ UNCHANGED <<status, succ, pred>>
    BY <1>4 DEF ProcessStabilizeReq, Arrives, Packet, local
  <2>2. n \in Members /\ Questions(Members, succ, s, n, w) /\ pred[n] # n
    BY <1>b, <1>c, <1>d, <2>1 DEF Sound, LatePacket, LatePointers
  <2> DEFINE r == [type |-> "STABILIZE_RESP", addr |-> pred[n]]
  <2>3. r \in Message
    BY <1>e DEF Message
  <2>4. LatePacket(Members, succ, w, n, s, r)
    BY <2>2 DEF LatePacket, Queries, Thread
  <2>5. net' = ch \/ net' = Send(ch, n, s, r)
    BY <1>4 DEF ProcessStabilizeReq
  <2> HIDE DEF r
  <2> QED
    BY <1>0, <1>b, <2>1, <2>3, <2>4, <2>5 DEF PassedLate
<1>5. CASE ProcessRingstate(n, s)
  <2>1. m.type = "RINGSTATE" /\ UNCHANGED <<status, succ, pred>>
    BY <1>5 DEF ProcessRingstate, Arrives, Packet, local
  <2>2. \A d \in Node : LatePacket(Members, succ, w, n, d, m)
    BY <2>1 DEF LatePacket, Queries, Thread
  <2>3. net' = ch \/ net' = Send(ch, n, succ[n], m)
    BY <1>5 DEF ProcessRingstate
  <2> QED
    BY <1>0, <1>a, <1>b, <2>1, <2>2, <2>3 DEF PassedLate
<1>6. CASE ProcessFindFinger(n, s)
  <2>1. m.type = "FIND_FINGER" /\ m.index \in FingerIndex
    BY <1>6, <1>a DEF ProcessFindFinger, Arrives, Packet, Message
  <2>2. UNCHANGED <<status, succ, pred>>
    BY <1>6 DEF ProcessFindFinger, ReplyFindFinger, Answer, Forward, Abort, local
  <2>3. CASE ReplyFindFinger(ch, n, m)
    <3> DEFINE r == [type |-> "FIND_FINGER_SUCCESS", addr |-> succ[n], index |-> m.index]
    <3>1. r \in Message
      BY <1>e, <2>1 DEF Message
    <3>2. LatePacket(Members, succ, w, n, m.addr, r)
      BY DEF LatePacket, Queries, Thread
    <3>3. net' = Send(ch, n, m.addr, r)
      BY <2>3 DEF ReplyFindFinger, Answer
    <3> HIDE DEF r
    <3> QED
      BY <1>0, <1>b, <2>2, <3>1, <3>2, <3>3 DEF PassedLate
  <2>4. CASE Forward(ch, n, IndexHash(Digest[m.addr], m.index), m, {})
    <3>1. \A h \in Addr : LatePacket(Members, succ, w, n, h, m)
      BY <2>1 DEF LatePacket, Queries, Thread
    <3>2. net' = net \/ \E h \in Addr : net' = Send(ch, n, h, m)
      BY <2>4 DEF Forward, Abort
    <3> QED
      BY <1>0, <1>a, <1>b, <2>2, <3>1, <3>2 DEF PassedLate
  <2> QED
    BY <1>6, <2>3, <2>4 DEF ProcessFindFinger
<1>7. CASE ProcessFindFingerSuccess(n, s)
  <2>1. m.type = "FIND_FINGER_SUCCESS"
    BY <1>7 DEF ProcessFindFingerSuccess, Arrives, Packet
  <2>2. m.index \in FingerIndex /\ m.addr \in Addr
    BY <1>a, <2>1 DEF Message
  <2>3. m.index + 1 \in Nat \ {0}
    BY <2>2, MAssumption DEF FingerIndex
  <2>4. /\ SendFindFinger(ch, n, ffTimer, [finger[n] EXCEPT ![m.index] = m.addr],
                          m.addr, m.index + 1)
        /\ UNCHANGED <<status, succ, pred, used>>
    BY <1>7 DEF ProcessFindFingerSuccess
  <2>5. Asked(net', ch, n, m.addr)
    BY <2>3, <2>4, SendFindFingerEffect
  <2>6. \A k \in FingerIndex : LET r == [type |-> "FIND_FINGER", addr |-> n, index |-> k]
                               IN  /\ r \in Message
                                   /\ \A d \in Node : LatePacket(Members, succ, w, n, d, r)
    BY DEF Message, Thread, Queries, LatePacket
  <2> QED
    BY <1>0, <1>b, <2>4, <2>5, <2>6 DEF Asked, PassedLate
<1> QED
  BY <1>1, <1>2, <1>3, <1>4, <1>5, <1>6, <1>7 DEF RecvMessage

LEMMA LateHandler ==
  ASSUME TypeOK, NEW L \in Node, NEW c \in BOOLEAN, NEW w \in Node, Late(L, c, w),
         NEW n \in Node, NEW s \in Node, RecvMessage(n, s)
  PROVE  Late(L, c, w)'
<1>1. CASE ProcessStabilizeResp(n, s)
  BY <1>1, LateAdopted
<1>2. CASE ~ProcessStabilizeResp(n, s)
  <2>1. /\ net[s][n] # <<>> /\ UNCHANGED <<status, succ>>
        /\ LatePointers(Members, succ, pred', w)
        /\ PassedLate(n, Received(n, s), Members, succ, w)
    BY <1>2, LatePasses
  <2>2. Received(n, s) \in Net /\ LatePackets(Received(n, s), Members, succ, w)
    BY <2>1, ReceivedType, ReceivedLate DEF Late
  <2>3. LatePackets(net', Members, succ, w)
    BY <2>1, <2>2, PassedStaysLate DEF Late
  <2>4. ~Founding(n, s)'
    <3>1. Members' = Members
      BY <2>1 DEF Members
    <3> QED
      BY <2>1, <3>1 DEF Founding, Late, Calm, Pointers
  <2>5. Calm(L, c)'
    BY <2>4, HandlerCalm DEF Late
  <2> QED
    BY <2>1, <2>3, <2>5, StaysLate
<1> QED
  BY <1>1, <1>2

-----------------------------------------------------------------------------
(* Timers, lost rounds and commands *)

(* What an expiring timer of n sends, to its successor. *)
LEMMA TimerSends ==
  ASSUME TypeOK, NEW n \in Node, TimerExpires(n)
  PROVE  /\ UNCHANGED <<status, succ, pred>> /\ succ[n] # n /\ n \in Members
         /\ \/ net' = net
            \/ net' = Send(net, n, succ[n], [type |-> "STABILIZE_REQ"])
            \/ \E k \in FingerIndex :
                 net' = Send(net, n, succ[n], [type |-> "FIND_FINGER", addr |-> n, index |-> k])
<1>1. CASE Stabilize(n)
  BY <1>1 DEF Stabilize, Answer, local, Alone, Members
<1>2. CASE FixFinger(n)
  <2>1. /\ SendFindFinger(net, n, Expired(n), [finger[n] EXCEPT ![1] = succ[n]], succ[n], 2)
        /\ UNCHANGED <<status, succ, pred>> /\ succ[n] # n /\ n \in Members
    BY <1>2 DEF FixFinger, Alone, Members
  <2>2. PICK running, tab : SendFindFinger(net, n, running, tab, succ[n], 2)
    BY <2>1, Zenon
  <2>3. 2 \in Nat \ {0}
    OBVIOUS
  <2>4. Asked(net', net, n, succ[n])
    BY <2>2, <2>3, SendFindFingerEffect
  <2> QED
    BY <2>1, <2>4 DEF Asked
<1> QED
  BY <1>1, <1>2 DEF TimerExpires

LEMMA TimerPackets ==
  /\ [type |-> "STABILIZE_REQ"] \in Message
  /\ \A n \in Node, k \in FingerIndex :
       [type |-> "FIND_FINGER", addr |-> n, index |-> k] \in Message
BY DEF Message

LEMMA SteadyTimer ==
  ASSUME TypeOK, NEW L \in Node, NEW c \in BOOLEAN, Steady(L, c),
         NEW n \in Node, TimerExpires(n)
  PROVE  Steady(L, c)'
<1>1. Calm(L, c)'
  BY TimerCalm DEF Steady
<1>2. net \in Net
  BY DEF TypeOK, Net
<1>3. UNCHANGED <<status, succ, pred>>
  BY TimerSends
<1>4. net' = net \/ \E m \in Message : /\ net' = Send(net, n, succ[n], m)
                                       /\ m.type \notin Watched
                                       /\ SteadyPacket(Members, succ, c, n, succ[n], m)
  <2>1. CASE net' = Send(net, n, succ[n], [type |-> "STABILIZE_REQ"])
    BY <2>1, TimerPackets DEF SteadyPacket, Watched, Thread, Queries
  <2>2. CASE \E k \in FingerIndex :
               net' = Send(net, n, succ[n], [type |-> "FIND_FINGER", addr |-> n, index |-> k])
    BY <2>2, TimerPackets DEF SteadyPacket, Watched, Thread, Queries
  <2> QED
    BY <2>1, <2>2, TimerSends
<1>5. SteadyPackets(net', Members, succ, c) /\ OneWatched(net')
  BY <1>2, <1>4, SendSteady, SendWatched DEF Steady
<1> QED
  BY <1>1, <1>3, <1>5, StaysSteady

LEMMA LateTimer ==
  ASSUME TypeOK, NEW L \in Node, NEW c \in BOOLEAN, NEW w \in Node, Late(L, c, w),
         NEW n \in Node, TimerExpires(n)
  PROVE  Late(L, c, w)'
<1>1. Calm(L, c)'
  BY TimerCalm DEF Late
<1>2. net \in Net
  BY DEF TypeOK, Net
<1>3. UNCHANGED <<status, succ, pred>>
  BY TimerSends
<1>4. net' = net \/ \E m \in Message : /\ net' = Send(net, n, succ[n], m)
                                       /\ LatePacket(Members, succ, w, n, succ[n], m)
  <2>1. CASE net' = Send(net, n, succ[n], [type |-> "STABILIZE_REQ"])
    BY <2>1, TimerPackets DEF LatePacket, Questions, Thread, Queries
  <2>2. CASE \E k \in FingerIndex :
               net' = Send(net, n, succ[n], [type |-> "FIND_FINGER", addr |-> n, index |-> k])
    BY <2>2, TimerPackets DEF LatePacket, Thread, Queries
  <2> QED
    BY <2>1, <2>2, TimerSends
<1>5. LatePackets(net', Members, succ, w)
  BY <1>2, <1>4, SendLate DEF Late
<1>6. LatePointers(Members, succ', pred', w)
  BY <1>3 DEF Late
<1> QED
  BY <1>1, <1>3, <1>5, <1>6, StaysLate

LEMMA RoundLost ==
  ASSUME NEW n \in Node, NEW s \in Node, LoseRound(n, s)
  PROVE  /\ net[s][n] # <<>> /\ net' = Received(n, s)
         /\ UNCHANGED <<status, succ, pred>> /\ upcall' = {}
BY DEF LoseRound, Lose, local

LEMMA SteadyLoss ==
  ASSUME TypeOK, NEW L \in Node, NEW c \in BOOLEAN, Steady(L, c),
         NEW n \in Node, NEW s \in Node, LoseRound(n, s)
  PROVE  Steady(L, c)'
<1>1. Calm(L, c)'
  BY LoseCalm DEF Steady
<1>2. /\ net[s][n] # <<>> /\ net' = Received(n, s)
      /\ UNCHANGED <<status, succ, pred>>
  BY RoundLost
<1>3. SteadyPackets(net', Members, succ, c) /\ OneWatched(net')
  BY <1>2, ReceivedSteady, ReceivedWatched DEF Steady
<1> QED
  BY <1>1, <1>2, <1>3, StaysSteady

LEMMA LateLoss ==
  ASSUME TypeOK, NEW L \in Node, NEW c \in BOOLEAN, NEW w \in Node, Late(L, c, w),
         NEW n \in Node, NEW s \in Node, LoseRound(n, s)
  PROVE  Late(L, c, w)'
<1>1. Calm(L, c)'
  BY LoseCalm DEF Late
<1>2. /\ net[s][n] # <<>> /\ net' = Received(n, s)
      /\ UNCHANGED <<status, succ, pred>>
  BY RoundLost
<1>3. LatePackets(net', Members, succ, w)
  BY <1>2, ReceivedLate DEF Late
<1>4. LatePointers(Members, succ', pred', w)
  BY <1>2 DEF Late
<1> QED
  BY <1>1, <1>2, <1>3, <1>4, StaysLate

(* When nothing is on its way and the ring is ideal, it has absorbed w. *)
LEMMA LateAbsorbed ==
  ASSUME NEW L \in Node, NEW c \in BOOLEAN, NEW w \in Node, Late(L, c, w), Drained, IdealRing
  PROVE  Steady(L, c)
<1>1. OneWatched(net) /\ SteadyPackets(net, Members, succ, c)
  BY EmptySteady DEF Drained
<1> QED
  BY <1>1 DEF Late, LatePointers, Steady

(* A command that only sends x, in a settled ring. *)
LEMMA SteadyAsks ==
  ASSUME TypeOK, NEW L \in Node, NEW c \in BOOLEAN, NEW c2 \in BOOLEAN, Steady(L, c), Drained,
         Calm(L, c2)', UNCHANGED <<status, succ, pred>>,
         net' = net \/ \E n \in Node, m \in Message, d \in Addr :
                         /\ net' = Send(net, n, d, m)
                         /\ d \in Node => SteadyPacket(Members, succ, c2, n, d, m)
  PROVE  Steady(L, c2)'
<1>1. NoneWatched(net) /\ OneWatched(net) /\ SteadyPackets(net, Members, succ, c2)
  BY EmptySteady DEF Drained
<1>2. net \in Net
  BY DEF TypeOK, Net
<1>3. SteadyPackets(net', Members, succ, c2) /\ OneWatched(net')
  BY <1>1, <1>2, SendSteady, SendWatched
<1>4. Members' = Members /\ IdealRing'
  BY RingKept DEF Steady
<1>5. (\A x \in Members : pred[x] # x)'
  BY <1>4 DEF Steady
<1>6. SteadyPackets(net, Members, succ, c2)'
  BY <1>3, <1>4 DEF SteadyPackets, SteadyPacket, First
<1>7. OneWatched(net)'
  BY <1>3 DEF OneWatched
<1> QED
  BY <1>4, <1>5, <1>6, <1>7 DEF Steady

(* The landmark founds a ring. *)
LEMMA SteadyFounded ==
  ASSUME TypeOK, NEW L \in Node, NEW c \in BOOLEAN, Steady(L, c), Settled,
         NEW n \in Node, n = Landmark, Members = {}, JoinSelf(n)
  PROVE  Steady(n, TRUE)'
<1>1. Calm(n, TRUE)'
  BY FoundedCalm DEF Steady
<1>2. /\ status' = [status EXCEPT ![n] = TRUE]
      /\ succ' = [succ EXCEPT ![n] = n]
      /\ pred' = [pred EXCEPT ![n] = AnyAddr]
      /\ net' = net
  BY DEF JoinSelf
<1>3. Members' = {n} /\ succ'[n] = n /\ pred'[n] = AnyAddr
  BY <1>2 DEF TypeOK, Members
<1>4. IdealRing'
  <2>1. IdealSuccessors'
    BY <1>3 DEF IdealSuccessors, NextMember
  <2>2. Cardinality(Members)' = 1
    BY <1>3, FS_Singleton
  <2> QED
    BY <2>1, <2>2 DEF IdealRing
<1>5. (\A x \in Members : pred[x] # x)'
  BY <1>3, DigestFacts
<1>6. \A x, y \in Node : DOMAIN net'[x][y] = {}
  BY <1>2 DEF Settled, Drained
<1>7. SteadyPackets(net, Members, succ, TRUE)' /\ OneWatched(net)'
  BY <1>6 DEF SteadyPackets, OneWatched
<1> QED
  BY <1>1, <1>4, <1>5, <1>7 DEF Steady

(* The last member leaves. *)
LEMMA SteadyLeftAlone ==
  ASSUME TypeOK, NEW L \in Node, NEW c \in BOOLEAN, Steady(L, c), Settled,
         NEW n \in Node, LeaveAlone(n)
  PROVE  Steady(L, c)' /\ Members = {n} /\ Members' = {}
<1>1. Calm(L, c)'
  BY LeftAloneCalm DEF Steady
<1>2. /\ status[n] /\ succ[n] = n /\ net' = net
      /\ status' = [status EXCEPT ![n] = FALSE]
  BY DEF LeaveAlone, Detach, Alone
<1>3. Members = {n}
  BY <1>2 DEF Members, Steady, Calm, Pointers
<1>4. Members' = {}
  BY <1>2, <1>3 DEF TypeOK, Members
<1>5. IdealRing'
  <2>1. IdealSuccessors'
    BY <1>4 DEF IdealSuccessors
  <2>2. Cardinality(Members)' = 0
    BY <1>4, FS_EmptySet
  <2> QED
    BY <2>1, <2>2 DEF IdealRing
<1>6. \A x, y \in Node : DOMAIN net'[x][y] = {}
  BY <1>2 DEF Settled, Drained
<1>7. SteadyPackets(net, Members, succ, c)' /\ OneWatched(net)'
  BY <1>6 DEF SteadyPackets, OneWatched
<1> QED
  BY <1>1, <1>3, <1>4, <1>5, <1>7 DEF Steady

(* A member leaves others behind. *)
LEMMA SteadyLeaves ==
  ASSUME TypeOK, NEW L \in Node, NEW c \in BOOLEAN, Steady(L, c), Drained,
         NEW n \in Node, Leave(n),
         NEW p, NEW s, NEW q, p = pred[n], s = succ[n],
         q = IF succ[n] = pred[n] THEN AnyAddr ELSE pred[n]
  PROVE  (Parted(p, s, q) /\ LeftRing(Members, succ, pred, p, s, q))'
<1>1. Calm(L, c) /\ IdealRing
  BY DEF Steady
<1>2. Parted(p, s, q)'
  BY <1>1, LeaveParted
<1>3. /\ n \in Members /\ succ[n] # n
      /\ status' = [status EXCEPT ![n] = FALSE]
      /\ succ' = [succ EXCEPT ![n] = AnyAddr]
      /\ pred' = [pred EXCEPT ![n] = AnyAddr]
  BY DEF Leave, Detach, Alone, Members
<1> DEFINE S == Members
           T == Members \ {n}
<1>4. /\ s \in S \ {n} /\ p \in S \ {n} /\ S \in SUBSET Node
      /\ \A m \in S : /\ succ[m] \in S \ {m}
                      /\ succ[m] = After(m, S)
                      /\ pred[succ[m]] = m
                      /\ succ[pred[m]] = m /\ pred[m] \in S \ {m}
  BY <1>1, <1>3, IdealNeighbors, NextIsAfter DEF Members
<1>5. Members' = T
  BY <1>3 DEF TypeOK, Members
<1>6. \A x \in Node \ {n} : succ'[x] = succ[x] /\ pred'[x] = pred[x]
  BY <1>3 DEF TypeOK
<1>7. p = s => T = {p}
  BY <1>2, <1>5 DEF Parted
<1> HIDE DEF S, T
<1>8. S \ {n} = T /\ n \in S
  BY <1>3 DEF S, T
<1>9. s = After(p, T)
  <2>1. After(p, S) = n /\ After(n, S) = s
    BY <1>4, <1>8
  <2>2. After(p, T) = IF T = {p} THEN p ELSE After(n, S)
    BY <1>4, <1>8, <2>1, LeaveBetween
  <2> QED
    BY <1>4, <1>8, <2>1, <2>2
<1>10. q = IF p = s THEN AnyAddr ELSE p
  OBVIOUS
<1>11. ASSUME NEW x \in T \ {p}
       PROVE  succ'[x] = After(x, T) /\ succ'[x] # s /\ pred'[succ'[x]] = x
  <2>1. x \in S \ {n} /\ succ'[x] = succ[x] /\ succ[x] \in Node
    BY <1>4, <1>6, <1>8
  <2>2. succ[x] # n /\ succ[x] # s
    BY <1>4, <1>8, <1>11, <2>1
  <2>3. After(x, T) = After(x, S)
    BY <1>4, <1>8, <2>1, <2>2, AfterLeave
  <2> QED
    BY <1>4, <1>6, <2>1, <2>2, <2>3
<1>12. LeftRing(T, succ', pred', p, s, q)
  BY <1>9, <1>10, <1>11 DEF LeftRing
<1>13. LeftRing(Members, succ, pred, p, s, q)'
  BY <1>5, <1>12 DEF LeftRing
<1> QED
  BY <1>2, <1>13

-----------------------------------------------------------------------------
(* A ring being founded, a ring being left: what the overlay adds *)

(* The first newcomer is told: the ring of two is absorbing it. *)
LEMMA FoundingLate ==
  ASSUME TypeOK, NEW m \in Node, NEW s \in Node, Founding(m, s), pred[m] = AnyAddr,
         NEW n \in Node, NEW o \in Node, RecvMessage(n, o)
  PROVE  Late(m, TRUE, s)' /\ n = s /\ ProcessJoinChordSuccess(s, m)
<1>0. net[o][n] # <<>>
  BY DEF RecvMessage, Arrives, ProcessJoinChord, ProcessFindSuccessor,
         ProcessJoinChordSuccess, ProcessJoinChordFail, ProcessNotify,
         ProcessStabilizeReq, ProcessStabilizeResp, ProcessLeaveSuccessor,
         ProcessLeavePredecessor, ProcessRingstate, ProcessFindFinger,
         ProcessFindFingerSuccess, ProcessLookupPublish, ProcessLookupPublishSuccess
<1>1. o = m /\ n = s
  BY <1>0, PacketIsIn DEF Founding
<1>2. Head(net[m][s]) = JoinChordSuccess(m)
  BY DEF Founding
<1>3. ProcessJoinChordSuccess(s, m)
  BY <1>1, <1>2 DEF JoinChordSuccess,
         RecvMessage, Arrives, ProcessJoinChord, ProcessFindSuccessor,
         ProcessJoinChordSuccess, ProcessJoinChordFail, ProcessNotify,
         ProcessStabilizeReq, ProcessStabilizeResp, ProcessLeaveSuccessor,
         ProcessLeavePredecessor, ProcessRingstate, ProcessFindFinger,
         ProcessFindFingerSuccess, ProcessLookupPublish, ProcessLookupPublishSuccess
<1>4. Calm(m, TRUE)'
  BY FoundingJoined
<1> DEFINE ch == Received(s, m)
           y == [type |-> "NOTIFY"]
           T == {m, s}
<1>5. Packet(s, m).addr = m
  BY <1>2 DEF Packet, JoinChordSuccess
<1>6. /\ status' = [status EXCEPT ![s] = TRUE]
      /\ succ' = [succ EXCEPT ![s] = m]
      /\ pred' = [pred EXCEPT ![s] = AnyAddr]
      /\ net' = Send(ch, s, m, y)
  BY <1>3, <1>5 DEF ProcessJoinChordSuccess, SendNotify
<1>7. m # s /\ Members = {m} /\ succ[m] = s
  BY DEF Founding
<1>8. Members' = T
  BY <1>6, <1>7 DEF TypeOK, Members
<1>9. succ'[s] = m /\ succ'[m] = s /\ pred'[s] = AnyAddr /\ pred'[m] = AnyAddr
  BY <1>6, <1>7 DEF TypeOK
<1>10. After(m, T) = s /\ After(s, T) = m
  <2>1. T \ {m} = {s} /\ T \ {s} = {m} /\ T \in SUBSET Node
    BY <1>7
  <2>2. Within(Digest[m], Digest[s], Digest[s]) /\ Within(Digest[s], Digest[m], Digest[m])
    BY DigestFacts, Distance DEF Within
  <2> QED
    BY <2>1, <2>2, AfterIs
<1>11. ch \in Net /\ y \in Message
  BY <1>0, <1>1, ReceivedType DEF Message
<1>12. ASSUME NEW a \in Node, NEW b \in Node, NEW i \in DOMAIN ch[a][b]
       PROVE  a = m /\ b = s /\ FoundingPacket(m, ch[a][b][i])
  BY <1>0, <1>1, <1>12, ReceivedChannel DEF Founding
<1> HIDE DEF ch, y, T
<1>13. m \in T /\ s \in T /\ T = {m, s}
  BY DEF T
<1>14. LatePackets(ch, T, succ', s)
  <2> SUFFICES ASSUME NEW a \in Node, NEW b \in Node, NEW i \in DOMAIN ch[a][b]
               PROVE  LatePacket(T, succ', s, a, b, ch[a][b][i])
    BY DEF LatePackets
  <2>1. a = m /\ b = s /\ FoundingPacket(m, ch[a][b][i])
    BY <1>12
  <2> QED
    BY <1>7, <1>9, <1>10, <1>13, <2>1
       DEF FoundingPacket, LatePacket, Questions, Queries, Thread
<1>15. LatePacket(T, succ', s, s, m, y)
  BY <1>7, <1>10, <1>13 DEF LatePacket, Queries, Thread, y
<1>16. LatePackets(net', T, succ', s)
  BY <1>6, <1>11, <1>14, <1>15, SendLate
<1>17. LatePointers(T, succ', pred', s)
  BY <1>9, <1>10, <1>13, DigestFacts DEF LatePointers
<1>18. LatePackets(net, Members, succ, s)'
  BY <1>8, <1>16 DEF LatePackets, LatePacket, Questions
<1>19. LatePointers(Members, succ, pred, s)'
  BY <1>8, <1>17 DEF LatePointers, Lags
<1>20. (s \in Members /\ Members # {s})'
  BY <1>7, <1>8, <1>13
<1> QED
  BY <1>1, <1>3, <1>4, <1>18, <1>19, <1>20 DEF Late

(* While both neighbours are being told. *)
LEMMA LeftStep ==
  ASSUME TypeOK, NEW p \in Node, NEW s \in Node, NEW q \in Addr, Parted(p, s, q),
         LeftRing(Members, succ, pred, p, s, q),
         NEW n \in Node, NEW o \in Node, RecvMessage(n, o)
  PROVE  /\ (Parted(p, s, q) /\ LeftRing(Members, succ, pred, p, s, q))'
         /\ status' = status /\ upcall' = {}
         /\ net[o][n] # <<>> /\ net' = Received(n, o)
         /\ Packet(n, o).type \in {"LEAVE_SUCCESSOR", "LEAVE_PREDECESSOR"}
<1>0. net[o][n] # <<>>
  BY DEF RecvMessage, Arrives, ProcessJoinChord, ProcessFindSuccessor,
         ProcessJoinChordSuccess, ProcessJoinChordFail, ProcessNotify,
         ProcessStabilizeReq, ProcessStabilizeResp, ProcessLeaveSuccessor,
         ProcessLeavePredecessor, ProcessRingstate, ProcessFindFinger,
         ProcessFindFingerSuccess, ProcessLookupPublish, ProcessLookupPublishSuccess
<1> DEFINE m == Packet(n, o)
<1>1. \/ n = s /\ m = LeaveSuccessor(q)
      \/ n = p /\ m = LeavePredecessor(s)
  BY <1>0, PacketIsIn DEF Parted
<1>2. Head(net[o][n]) = m
  BY DEF Packet
<1>3. /\ m.type = "LEAVE_SUCCESSOR" => ProcessLeaveSuccessor(n, o)
      /\ m.type = "LEAVE_PREDECESSOR" => ProcessLeavePredecessor(n, o)
  BY <1>2 DEF RecvMessage, Arrives, ProcessJoinChord, ProcessFindSuccessor,
         ProcessJoinChordSuccess, ProcessJoinChordFail, ProcessNotify,
         ProcessStabilizeReq, ProcessStabilizeResp, ProcessLeaveSuccessor,
         ProcessLeavePredecessor, ProcessRingstate, ProcessFindFinger,
         ProcessFindFingerSuccess, ProcessLookupPublish, ProcessLookupPublishSuccess
<1>4. Parted(p, s, q)'
  BY PartedStep
<1>5. \/ n = s /\ pred' = [pred EXCEPT ![s] = q] /\ succ' = succ
      \/ n = p /\ succ' = [succ EXCEPT ![p] = s] /\ pred' = pred
  <2>1. CASE n = s /\ m = LeaveSuccessor(q)
    <3>1. ProcessLeaveSuccessor(n, o) /\ m.addr = q
      BY <1>3, <2>1 DEF LeaveSuccessor
    <3> QED
      BY <2>1, <3>1 DEF ProcessLeaveSuccessor
  <2>2. CASE n = p /\ m = LeavePredecessor(s)
    <3>1. ProcessLeavePredecessor(n, o) /\ m.addr = s
      BY <1>3, <2>2 DEF LeavePredecessor
    <3> QED
      BY <2>2, <3>1 DEF ProcessLeavePredecessor
  <2> QED
    BY <1>1, <2>1, <2>2
<1>6. m.type \in {"LEAVE_SUCCESSOR", "LEAVE_PREDECESSOR"}
  BY <1>1 DEF LeaveSuccessor, LeavePredecessor
<1>7. status' = status /\ upcall' = {} /\ net' = Received(n, o)
  BY <1>3, <1>6 DEF ProcessLeaveSuccessor, ProcessLeavePredecessor
<1> HIDE DEF m
<1>8. Members' = Members
  BY <1>7 DEF Members
<1>9. \A x \in Node : /\ x # p => succ'[x] = succ[x]
                      /\ x # s => pred'[x] = pred[x]
  BY <1>5 DEF TypeOK
<1>10. ASSUME NEW x \in Members \ {p}
       PROVE  succ'[x] = After(x, Members) /\ succ'[x] # s /\ pred'[succ'[x]] = x
  <2>1. /\ succ[x] = After(x, Members) /\ succ[x] # s /\ pred[succ[x]] = x
        /\ x \in Node /\ succ[x] \in Node
    BY DEF LeftRing, Members, Parted
  <2> QED
    BY <1>9, <2>1
<1>11. LeftRing(Members, succ', pred', p, s, q)
  BY <1>10 DEF LeftRing
<1>12. LeftRing(Members, succ, pred, p, s, q)'
  BY <1>8, <1>11 DEF LeftRing
<1> QED
  BY <1>0, <1>4, <1>6, <1>7, <1>12 DEF m

(* When both have been told the ring is ideal again. *)
LEMMA LeftDrained ==
  ASSUME TypeOK, NEW p \in Node, NEW s \in Node, NEW q \in Addr, Parted(p, s, q),
         LeftRing(Members, succ, pred, p, s, q), Drained
  PROVE  Steady(p, FALSE)
<1>1. Calm(p, FALSE)
  BY PartedDrained
<1>2. \A a, b \in Node : DOMAIN net[a][b] = {}
  BY DEF Drained
<1>3. /\ succ[p] = s /\ pred[s] = q /\ p \in Members /\ s \in Members
      /\ p = s => Members = {p}
  BY <1>2 DEF Parted, InFlight
<1>4. IdealSuccessors
  BY <1>3, NextIsAfter DEF IdealSuccessors, LeftRing
<1>5. OneWatched(net) /\ SteadyPackets(net, Members, succ, FALSE)
  BY EmptySteady DEF Drained
<1>6. CASE p = s
  <2>1. Members = {p} /\ pred[p] = AnyAddr
    BY <1>3, <1>6 DEF LeftRing
  <2>2. Cardinality(Members) = 1
    BY <2>1, FS_Singleton
  <2>3. IdealRing
    BY <1>4, <2>2 DEF IdealRing
  <2>4. \A x \in Members : pred[x] # x
    BY <2>1, DigestFacts
  <2> QED
    BY <1>1, <1>5, <2>3, <2>4 DEF Steady
<1>7. CASE p # s
  <2>1. \A x \in Members : pred[succ[x]] = x
    BY <1>3, <1>7 DEF LeftRing
  <2>2. \A x \in Members : pred[NextMember(x)] = x
    BY <1>4, <2>1 DEF IdealSuccessors
  <2>3. IdealRing
    BY <1>4, <2>2 DEF IdealRing
  <2>4. \A x \in Members : pred[x] # x
    BY <1>3, <1>7, <2>3, IdealNeighbors
  <2> QED
    BY <1>1, <1>5, <2>3, <2>4 DEF Steady
<1> QED
  BY <1>6, <1>7

-----------------------------------------------------------------------------
(* The overlay's invariant is kept *)

LEMMA OverlayInit == Init => OInv
<1> SUFFICES ASSUME Init PROVE Steady(Landmark, TRUE)
  BY LandmarkAssumption DEF OInv
<1>1. RInv /\ Members = {} /\ \A a, b \in Node : net[a][b] = <<>>
  BY RingInit DEF Init, Members
<1>2. Calm(Landmark, TRUE)
  <2>1. \A a, b \in Node : DOMAIN net[a][b] = {}
    BY <1>1
  <2>2. Sounds(net, Members, SomeoneAlone, Landmark, TRUE) /\ OneThread(net)
    BY <2>1 DEF Sounds, OneThread
  <2>3. Anchored(Landmark, TRUE) /\ Pointers(Landmark) /\ FingersInRing
    BY <1>1, LandmarkAssumption DEF Anchored, Pointers, FingersInRing
  <2>4. Outside
    BY DEF Init, Outside, Entries, EmptyTable
  <2> QED
    BY <2>2, <2>3, <2>4 DEF Calm
<1>3. IdealRing
  <2>1. Cardinality(Members) = 0
    BY <1>1, FS_EmptySet
  <2> QED
    BY <1>1, <2>1 DEF IdealRing, IdealSuccessors
<1>4. OneWatched(net) /\ SteadyPackets(net, Members, succ, TRUE)
  BY <1>1, EmptySteady
<1> QED
  BY <1>1, <1>2, <1>3, <1>4 DEF Steady

(* A command in an ideal ring with nothing on its way. *)
LEMMA SteadyCommand ==
  ASSUME TypeOK, NEW L \in Node, NEW c \in BOOLEAN, Steady(L, c), PacedCommand
  PROVE  OInv'
<1>0. Settled /\ Drained /\ Calm(L, c)
  BY DEF PacedCommand, Settled, Steady
<1>a. net \in Net
  BY DEF TypeOK, Net
<1>1. PICK n \in Node :
     \/ n = Landmark /\ Members = {} /\ JoinSelf(n)
     \/ \E d \in Node : JoinVia(n, d)
     \/ n = Landmark /\ used["LOOKUP"] = 0 /\ Ringstate(n)
     \/ IdealRing /\ LeaveAlone(n)
     \/ IdealRing /\ Leave(n)
     \/ /\ IdealRing /\ n \in Members /\ succ[n] # n
        /\ used["RINGSTATE"] = 0
        /\ \E k \in KeyId : LookupPublish(n, k)
  BY DEF PacedCommand
<1>2. CASE n = Landmark /\ Members = {} /\ JoinSelf(n)
  BY <1>0, <1>2, SteadyFounded DEF OInv
<1>3. CASE \E d \in Node : JoinVia(n, d)
  <2>1. PICK d \in Node : JoinVia(n, d)
    BY <1>3
  <2>2. Calm(L, TRUE)'
    BY <1>0, <2>1, AskedCalm
  <2> DEFINE m == [type |-> "JOIN_CHORD"]
  <2>3. net' = Send(net, n, d, m) /\ UNCHANGED <<status, succ, pred>>
    BY <2>1 DEF JoinVia, Answer, local
  <2>4. m \in Message /\ SteadyPacket(Members, succ, TRUE, n, d, m) /\ d \in Addr
    BY DEF Message, SteadyPacket, Addr
  <2> HIDE DEF m
  <2>5. Steady(L, TRUE)'
    BY <1>0, <2>2, <2>3, <2>4, SteadyAsks
  <2> QED
    BY <2>5 DEF OInv
<1>4. CASE Ringstate(n)
  <2>2. Calm(L, c)'
    BY <1>0, <1>4, RingstateCalm
  <2> DEFINE m == [type |-> "RINGSTATE", addr |-> n]
  <2>3. net' = Send(net, n, succ[n], m) /\ UNCHANGED <<status, succ, pred>>
    BY <1>4 DEF Ringstate, Answer, local
  <2>4. m \in Message /\ SteadyPacket(Members, succ, c, n, succ[n], m) /\ succ[n] \in Addr
    BY DEF Message, SteadyPacket, Addr, TypeOK
  <2> HIDE DEF m
  <2>5. Steady(L, c)'
    BY <1>0, <2>2, <2>3, <2>4, SteadyAsks
  <2> QED
    BY <2>5 DEF OInv
<1>5. CASE LeaveAlone(n)
  BY <1>0, <1>5, SteadyLeftAlone DEF OInv
<1>6. CASE Leave(n)
  <2>1. n \in Members /\ succ[n] # n
    BY <1>6 DEF Leave, Members, Alone
  <2>2. pred[n] \in Node /\ succ[n] \in Node /\ pred[n] \in Addr
    BY <2>1, IdealNeighbors DEF Steady, Members, Addr
  <2>3. PICK p, s, q : /\ p = pred[n] /\ s = succ[n]
                       /\ q = IF succ[n] = pred[n] THEN AnyAddr ELSE pred[n]
    OBVIOUS
  <2>4. p \in Node /\ s \in Node /\ q \in Addr
    BY <2>2, <2>3 DEF Addr
  <2>5. (Parted(p, s, q) /\ LeftRing(Members, succ, pred, p, s, q))'
    BY <1>0, <1>6, <2>3, SteadyLeaves
  <2> QED
    BY <2>4, <2>5 DEF OInv
<1>7. CASE n \in Members /\ succ[n] # n /\ \E k \in KeyId : LookupPublish(n, k)
  <2>1. PICK k \in KeyId : LookupPublish(n, k)
    BY <1>7
  <2> DEFINE m == [type |-> "LOOKUP_PUBLISH", addr |-> n, key |-> k]
  <2>2. Calm(L, TRUE)
    <3>1. Sounds(net, Members, SomeoneAlone, L, TRUE)
      BY <1>0, DrainedNet DEF Drained
    <3> QED
      BY <1>0, <3>1 DEF Calm, Settled, Anchored
  <2>3. Calm(L, TRUE)'
    BY <1>0, <1>7, <2>1, <2>2, LookupCalm
  <2>4. PICK calls : Forward(net, n, k, m, calls)
    BY <2>1 DEF LookupPublish
  <2>5. UNCHANGED <<status, succ, pred>>
        /\ (net' = net \/ \E h \in Addr : NextHop(n, k, h) /\ net' = Send(net, n, h, m))
    BY <2>4 DEF Forward, Abort, local
  <2>6. m \in Message
    BY DigestAssumption DEF Message, Addr
  <2>7. \A h \in Addr : NextHop(n, k, h) => h \in Members
    BY <1>7, <2>2, HopIsMember
  <2>8. \A h \in Addr : NextHop(n, k, h) => SteadyPacket(Members, succ, TRUE, n, h, m)
    BY <2>7 DEF SteadyPacket
  <2> HIDE DEF m
  <2>9. Steady(L, TRUE)'
    BY <1>0, <2>3, <2>5, <2>6, <2>8, SteadyAsks
  <2> QED
    BY <2>9 DEF OInv
<1> QED
  BY <1>1, <1>2, <1>3, <1>4, <1>5, <1>6, <1>7

LEMMA SteadyStep ==
  ASSUME TypeOK, NEW L \in Node, NEW c \in BOOLEAN, Steady(L, c), CalmNext
  PROVE  OInv'
<1>1. CASE PacedCommand
  BY <1>1, SteadyCommand
<1>2. CASE \E n \in Node : TimerExpires(n)
  BY <1>2, SteadyTimer DEF OInv
<1>3. CASE \E n, s \in Node : RecvMessage(n, s)
  BY <1>3, SteadyHandler DEF OInv
<1>4. CASE \E n, s \in Node : LoseRound(n, s)
  BY <1>4, SteadyLoss DEF OInv
<1> QED
  BY <1>1, <1>2, <1>3, <1>4 DEF CalmNext

(* A RINGSTATE may be asked for while a newcomer is being absorbed. *)
LEMMA LateRingstate ==
  ASSUME TypeOK, NEW L \in Node, NEW c \in BOOLEAN, NEW w \in Node, Late(L, c, w), Settled,
         NEW n \in Node, Ringstate(n)
  PROVE  Late(L, c, w)'
<1> DEFINE m == [type |-> "RINGSTATE", addr |-> n]
<1>1. Calm(L, c)'
  BY RingstateCalm DEF Late
<1>2. net' = Send(net, n, succ[n], m) /\ UNCHANGED <<status, succ, pred>>
  BY DEF Ringstate, Answer, local
<1>3. m \in Message /\ LatePacket(Members, succ, w, n, succ[n], m) /\ net \in Net
  BY DEF Message, LatePacket, Queries, Thread, Addr, TypeOK, Net
<1> HIDE DEF m
<1>4. LatePackets(net', Members, succ, w)
  BY <1>2, <1>3, SendLate DEF Late
<1>5. LatePointers(Members, succ', pred', w)
  BY <1>2 DEF Late
<1> QED
  BY <1>1, <1>2, <1>4, <1>5, StaysLate

(* Whoever joins finds the ring ideal. *)
LEMMA JoinAbsorbed ==
  ASSUME TypeOK, Absorbed, NEW n \in Node, Spend("JOIN")
  PROVE  IdealRing
<1>1. used' = [used EXCEPT !["JOIN"] = @ + 1] /\ used["JOIN"] \in Nat
  BY DEF Spend, TypeOK, Command
<1>2. used'["JOIN"] # used["JOIN"]
  BY <1>1 DEF TypeOK, Command
<1> QED
  BY <1>2 DEF Absorbed

LEMMA LateStep ==
  ASSUME TypeOK, NEW L \in Node, NEW c \in BOOLEAN, NEW w \in Node, Late(L, c, w), SteadyNext
  PROVE  OInv'
<1>0. CalmNext /\ Absorbed
  BY DEF SteadyNext
<1>1. CASE PacedCommand
  <2>0. Settled
    BY <1>1 DEF PacedCommand
  <2>1. CASE IdealRing
    BY <1>1, <2>0, <2>1, LateAbsorbed, SteadyCommand DEF Settled
  <2>2. CASE ~IdealRing
    <3>1. PICK n \in Node :
             \/ JoinSelf(n)
             \/ \E d \in Node : JoinVia(n, d)
             \/ Ringstate(n)
      BY <1>1, <2>2 DEF PacedCommand
    <3>2. Ringstate(n)
      BY <1>0, <2>2, <3>1, JoinAbsorbed DEF JoinSelf, JoinVia
    <3>3. Late(L, c, w)'
      BY <2>0, <3>2, LateRingstate
    <3> QED
      BY <3>3 DEF OInv
  <2> QED
    BY <2>1, <2>2
<1>2. CASE \E n \in Node : TimerExpires(n)
  BY <1>2, LateTimer DEF OInv
<1>3. CASE \E n, s \in Node : RecvMessage(n, s)
  BY <1>3, LateHandler DEF OInv
<1>4. CASE \E n, s \in Node : LoseRound(n, s)
  BY <1>4, LateLoss DEF OInv
<1> QED
  BY <1>0, <1>1, <1>2, <1>3, <1>4 DEF CalmNext

(* While a ring is being founded, timers expire and the newcomer is told. *)
LEMMA FoundingOnly ==
  ASSUME TypeOK, NEW m \in Node, NEW s \in Node, Founding(m, s), CalmNext
  PROVE  \/ \E n \in Node : TimerExpires(n)
         \/ \E n, o \in Node : RecvMessage(n, o)
<1>1. ~Drained
  BY DEF Founding, Drained
<1>2. ASSUME NEW n \in Node, NEW o \in Node, LoseRound(n, o)
      PROVE  FALSE
  <2>1. net[o][n] # <<>> /\ Packet(n, o).type = "STABILIZE_REQ"
    BY <1>2 DEF LoseRound, Arrives, Packet
  <2>2. o = m /\ n = s
    BY <2>1, PacketIsIn DEF Founding
  <2> QED
    BY <2>1, <2>2 DEF Founding, Packet, JoinChordSuccess
<1> QED
  BY <1>1, <1>2 DEF CalmNext, PacedCommand, Settled

(* While neighbours are being told, nothing else happens. *)
LEMMA PartedOnly ==
  ASSUME TypeOK, NEW p \in Node, NEW s \in Node, NEW q \in Addr, Parted(p, s, q),
         ~Drained, CalmNext
  PROVE  \E n, o \in Node : RecvMessage(n, o)
<1>1. PICK a \in Node, b \in Node : net[a][b] # <<>>
  BY DEF Drained
<1>2. /\ 1 \in DOMAIN net[a][b]
      /\ net[a][b][1] = LeaveSuccessor(q) \/ net[a][b][1] = LeavePredecessor(s)
  BY <1>1, PacketIsIn DEF Parted
<1>3. LeaveInProgress
  BY <1>2 DEF LeaveInProgress, LeaveSuccessor, LeavePredecessor
<1>4. ASSUME NEW n \in Node, NEW o \in Node, LoseRound(n, o)
      PROVE  FALSE
  <2>1. net[o][n] # <<>> /\ Packet(n, o).type = "STABILIZE_REQ"
    BY <1>4 DEF LoseRound, Arrives, Packet
  <2>2. Packet(n, o) = LeaveSuccessor(q) \/ Packet(n, o) = LeavePredecessor(s)
    BY <2>1, PacketIsIn DEF Parted
  <2> QED
    BY <2>1, <2>2 DEF LeaveSuccessor, LeavePredecessor
<1> QED
  BY <1>3, <1>4 DEF CalmNext, PacedCommand, Settled

LEMMA OverlayStep == TypeOK /\ OInv /\ [SteadyNext]_vars => OInv'
<1> SUFFICES ASSUME TypeOK, OInv, [SteadyNext]_vars PROVE OInv'
  OBVIOUS
<1>1. CASE UNCHANGED vars
  <2>1. UNCHANGED <<status, succ, pred, finger, net, used>>
    BY <1>1 DEF vars
  <2>2. /\ Members' = Members /\ NobodyLeft' = NobodyLeft /\ Outside' = Outside
        /\ SomeoneAlone' = SomeoneAlone /\ OneThread(net)' = OneThread(net)
        /\ FingersInRing' = FingersInRing
    BY <2>1 DEF Members, NobodyLeft, Outside, Entries, SomeoneAlone, OneThread, FingersInRing
  <2>3. ASSUME NEW L \in Node, NEW c \in BOOLEAN, Calm(L, c)
        PROVE  Calm(L, c)'
    <3>1. Sounds(net, Members, SomeoneAlone, L, c)'
      BY <2>1, <2>2, <2>3 DEF Calm, Sounds, Sound
    <3>2. Anchored(L, c)' /\ Pointers(L)'
      BY <2>1, <2>2, <2>3 DEF Calm, Anchored, Pointers
    <3> QED
      BY <2>2, <2>3, <3>1, <3>2 DEF Calm
  <2>4. ASSUME NEW L \in Node, NEW c \in BOOLEAN, Steady(L, c)
        PROVE  Steady(L, c)'
    BY <2>1, <2>3, <2>4, StaysSteady DEF Steady
  <2>5. ASSUME NEW L \in Node, NEW c \in BOOLEAN, NEW w \in Node, Late(L, c, w)
        PROVE  Late(L, c, w)'
    BY <2>1, <2>3, <2>5, StaysLate DEF Late
  <2>6. ASSUME NEW m \in Node, NEW s \in Node, Founding(m, s), pred[m] = AnyAddr
        PROVE  (Founding(m, s) /\ pred[m] = AnyAddr)'
    BY <2>1, <2>2, <2>6 DEF Founding, FoundingPacket, JoinChordSuccess, Entries
  <2>7. ASSUME NEW p \in Node, NEW s \in Node, NEW q \in Addr, Parted(p, s, q),
               LeftRing(Members, succ, pred, p, s, q)
        PROVE  (Parted(p, s, q) /\ LeftRing(Members, succ, pred, p, s, q))'
    <3>1. Parted(p, s, q)'
      BY <2>1, <2>2, <2>7 DEF Parted, InFlight, LeaveSuccessor, LeavePredecessor
    <3>2. LeftRing(Members, succ, pred, p, s, q)'
      BY <2>1, <2>2, <2>7 DEF LeftRing
    <3> QED
      BY <3>1, <3>2
  <2> QED
    BY <2>4, <2>5, <2>6, <2>7 DEF OInv
<1>2. CASE SteadyNext
  <2>0. CalmNext
    BY <1>2 DEF SteadyNext
  <2>1. CASE \E L \in Node, c \in BOOLEAN : Steady(L, c)
    BY <2>0, <2>1, SteadyStep
  <2>2. CASE \E L \in Node, c \in BOOLEAN, w \in Node : Late(L, c, w)
    BY <1>2, <2>2, LateStep
  <2>3. CASE \E m, s \in Node : Founding(m, s) /\ pred[m] = AnyAddr
    <3>1. PICK m \in Node, s \in Node : Founding(m, s) /\ pred[m] = AnyAddr
      BY <2>3
    <3>2. CASE \E n \in Node : TimerExpires(n)
      <4>1. Founding(m, s)' /\ pred' = pred
        BY <3>1, <3>2, FoundingTimer, TimerSends
      <4> QED
        BY <3>1, <4>1 DEF OInv
    <3>3. CASE \E n, o \in Node : RecvMessage(n, o)
      <4>1. Late(m, TRUE, s)'
        BY <3>1, <3>3, FoundingLate
      <4> QED
        BY <4>1 DEF OInv
    <3> QED
      BY <2>0, <3>1, <3>2, <3>3, FoundingOnly
  <2>4. CASE \E p, s \in Node, q \in Addr : Parted(p, s, q) /\ LeftRing(Members, succ, pred, p, s, q)
    <3>1. PICK p \in Node, s \in Node, q \in Addr :
             Parted(p, s, q) /\ LeftRing(Members, succ, pred, p, s, q)
      BY <2>4
    <3>2. CASE Drained
      BY <2>0, <3>1, <3>2, LeftDrained, SteadyStep
    <3>3. CASE ~Drained
      <4>1. PICK n \in Node, o \in Node : RecvMessage(n, o)
        BY <2>0, <3>1, <3>3, PartedOnly
      <4>2. (Parted(p, s, q) /\ LeftRing(Members, succ, pred, p, s, q))'
        BY <3>1, <4>1, LeftStep
      <4> QED
        BY <4>2 DEF OInv
    <3> QED
      BY <3>2, <3>3
  <2> QED
    BY <2>1, <2>2, <2>3, <2>4 DEF OInv
<1> QED
  BY <1>1, <1>2

LEMMA SteadyInvariant == SteadySpec => [](TypeOK /\ OInv)
<1>1. Init => TypeOK /\ OInv
  BY InitType, OverlayInit
<1>2. [SteadyNext]_vars => [Next]_vars
  BY CalmNextIsNext DEF SteadyNext
<1>3. TypeOK /\ OInv /\ [SteadyNext]_vars => (TypeOK /\ OInv)'
  BY <1>2, StepType, OverlayStep
<1> QED
  BY <1>1, <1>3, PTL DEF SteadySpec

-----------------------------------------------------------------------------
(* The queries on their way *)

(* A packet m to d keeps the query q pending. *)
Asks(q, d, m) ==
  /\ \/ m.type = "LOOKUP_PUBLISH" /\ m.addr = q.node
     \/ m.type = "LOOKUP_PUBLISH_SUCCESS" /\ d = q.node
  /\ m.key = q.key

Waits(ch, q) == \E s, d \in Node : \E i \in DOMAIN ch[s][d] : Asks(q, d, ch[s][d][i])

PendingIn(ch) == {q \in LookupQuery : Waits(ch, q)}

LEMMA PendingNow == PendingQueries = PendingIn(net) /\ PendingQueries' = PendingIn(net')
BY DEF PendingQueries, PendingIn, Waits, Asks

(* Only a query's packets are of its types. *)
LEMMA AsksQuery ==
  ASSUME NEW q, NEW d, NEW m, Asks(q, d, m)
  PROVE  m.type \in Queries
BY DEF Asks, Queries

LEMMA NoneWaits ==
  ASSUME NEW ch, \A s, d \in Node : \A i \in DOMAIN ch[s][d] : ch[s][d][i].type \notin Queries
  PROVE  PendingIn(ch) = {}
BY AsksQuery DEF PendingIn, Waits

LEMMA NoneWatchedWaits ==
  ASSUME NEW ch, NoneWatched(ch)
  PROVE  PendingIn(ch) = {}
BY NoneWaits DEF NoneWatched, Watched

LEMMA EmptyWaits ==
  ASSUME NEW ch, \A s, d \in Node : ch[s][d] = <<>>
  PROVE  PendingIn(ch) = {}
<1>1. \A s, d \in Node : DOMAIN ch[s][d] = {}
  OBVIOUS
<1> QED
  BY <1>1, NoneWaits

(* A packet sent to a node adds the query it is of; nothing else does. *)
LEMMA SendWaits ==
  ASSUME NEW ch \in Net, NEW n \in Node, NEW d, NEW m \in Message, NEW q
  PROVE  Waits(Send(ch, n, d, m), q) <=> Waits(ch, q) \/ (d \in Node /\ Asks(q, d, m))
<1>1. CASE d \notin Node
  BY <1>1 DEF Send
<1>2. CASE d \in Node
  <2> DEFINE ch2 == Send(ch, n, d, m)
  <2>1. ASSUME Waits(ch2, q)
        PROVE  Waits(ch, q) \/ Asks(q, d, m)
    <3>1. PICK a \in Node, b \in Node : \E i \in DOMAIN ch2[a][b] : Asks(q, b, ch2[a][b][i])
      BY <2>1 DEF Waits
    <3>2. PICK i \in DOMAIN ch2[a][b] : Asks(q, b, ch2[a][b][i])
      BY <3>1
    <3>3. \/ i \in DOMAIN ch[a][b] /\ ch2[a][b][i] = ch[a][b][i]
          \/ a = n /\ b = d /\ ch2[a][b][i] = m
      BY <1>2, SendChannel
    <3> QED
      BY <3>2, <3>3 DEF Waits
  <2>2. ASSUME Waits(ch, q)
        PROVE  Waits(ch2, q)
    <3>1. PICK a \in Node, b \in Node : \E i \in DOMAIN ch[a][b] : Asks(q, b, ch[a][b][i])
      BY <2>2 DEF Waits
    <3>2. PICK i \in DOMAIN ch[a][b] : Asks(q, b, ch[a][b][i])
      BY <3>1
    <3>3. ch[a][b] \in Seq(Message)
      BY DEF Net
    <3>4. i \in DOMAIN ch2[a][b] /\ ch2[a][b][i] = ch[a][b][i]
      <4>1. CASE a = n /\ b = d
        <5>1. ch2[a][b] = Append(ch[a][b], m)
          BY <1>2, <4>1 DEF Send, Net
        <5> QED
          BY <3>2, <3>3, <5>1
      <4>2. CASE ~(a = n /\ b = d)
        <5>1. ch2[a][b] = ch[a][b]
          BY <1>2, <4>2 DEF Send, Net
        <5> QED
          BY <5>1
      <4> QED
        BY <4>1, <4>2
    <3> QED
      BY <3>2, <3>4 DEF Waits
  <2>3. ASSUME Asks(q, d, m)
        PROVE  Waits(ch2, q)
    <3>1. ch[n][d] \in Seq(Message) /\ ch2[n][d] = Append(ch[n][d], m)
      BY <1>2 DEF Send, Net
    <3>2. Len(ch[n][d]) + 1 \in DOMAIN ch2[n][d] /\ ch2[n][d][Len(ch[n][d]) + 1] = m
      BY <3>1
    <3> QED
      BY <1>2, <2>3, <3>2 DEF Waits
  <2> HIDE DEF ch2
  <2>4. ch2 = Send(ch, n, d, m)
    BY DEF ch2
  <2> QED
    BY <1>2, <2>1, <2>2, <2>3, <2>4
<1> QED
  BY <1>1, <1>2

(* A packet taken takes at most its own query with it. *)
LEMMA ReceivedWaits ==
  ASSUME TypeOK, NEW n \in Node, NEW s \in Node, net[s][n] # <<>>, NEW q
  PROVE  Waits(net, q) <=> Waits(Received(n, s), q) \/ Asks(q, n, Packet(n, s))
<1> DEFINE ch == Received(n, s)
<1>0. net[s][n] \in Seq(Message) /\ net \in Net
  BY DEF TypeOK, Net
<1>1. ASSUME Waits(ch, q)
      PROVE  Waits(net, q)
  <2>1. PICK a \in Node, b \in Node : \E i \in DOMAIN ch[a][b] : Asks(q, b, ch[a][b][i])
    BY <1>1 DEF Waits
  <2>2. PICK i \in DOMAIN ch[a][b] : Asks(q, b, ch[a][b][i])
    BY <2>1
  <2>3. PICK j \in DOMAIN net[a][b] : ch[a][b][i] = net[a][b][j]
    BY ReceivedWas
  <2> QED
    BY <2>2, <2>3 DEF Waits
<1>2. ASSUME Asks(q, n, Packet(n, s))
      PROVE  Waits(net, q)
  BY <1>2, PacketIsIn DEF Waits
<1>3. ASSUME Waits(net, q)
      PROVE  Waits(ch, q) \/ Asks(q, n, Packet(n, s))
  <2>1. PICK a \in Node, b \in Node : \E i \in DOMAIN net[a][b] : Asks(q, b, net[a][b][i])
    BY <1>3 DEF Waits
  <2>2. PICK i \in DOMAIN net[a][b] : Asks(q, b, net[a][b][i])
    BY <2>1
  <2>3. CASE a = s /\ b = n
    <3>1. CASE i = 1
      BY <2>2, <2>3, <3>1, PacketIsIn
    <3>2. CASE i # 1
      <4>1. ch[a][b] = Tail(net[s][n])
        BY <1>0, <2>3 DEF Received, Net
      <4>2. i \in 1 .. Len(net[s][n])
        BY <1>0, <2>2, <2>3
      <4>3. i - 1 \in DOMAIN ch[a][b] /\ ch[a][b][i - 1] = net[a][b][i]
        BY <1>0, <2>3, <3>2, <4>1, <4>2
      <4> QED
        BY <2>2, <4>3 DEF Waits
    <3> QED
      BY <3>1, <3>2
  <2>4. CASE ~(a = s /\ b = n)
    <3>1. ch[a][b] = net[a][b]
      BY <1>0, <2>4 DEF Received, Net
    <3> QED
      BY <2>2, <3>1 DEF Waits
  <2> QED
    BY <2>3, <2>4
<1> QED
  BY <1>1, <1>2, <1>3

(* Neither matters when the packet is of another type. *)
LEMMA SendSilent ==
  ASSUME NEW ch \in Net, NEW n \in Node, NEW d, NEW m \in Message, m.type \notin Queries
  PROVE  PendingIn(Send(ch, n, d, m)) = PendingIn(ch)
BY SendWaits, AsksQuery DEF PendingIn

LEMMA ReceivedSilent ==
  ASSUME TypeOK, NEW n \in Node, NEW s \in Node, net[s][n] # <<>>,
         Packet(n, s).type \notin Queries
  PROVE  PendingIn(Received(n, s)) = PendingIn(net)
BY ReceivedWaits, AsksQuery DEF PendingIn

-----------------------------------------------------------------------------
(* The overlay's steps *)

LEMMA RingNames ==
  /\ \A t : Ring!Owner(t) = First(t, Members)
  /\ \A n : Ring!NextOf(n) = After(n, Members)
  /\ \A q : Ring!Known(q) <=> InArc(Digest[q.node], q.key, Digest[After(q.node, Members)])
<1>1. \A t, S : Ring!FirstFrom(t, S) = First(t, S)
  BY DEF Ring!FirstFrom, First, Ring!Clockwise, Clockwise
<1>2. \A t : Ring!Owner(t) = First(t, Members)
  BY <1>1 DEF Ring!Owner
<1>3. \A n : Ring!NextOf(n) = After(n, Members)
  BY <1>1 DEF Ring!NextOf, After
<1>4. \A q : Ring!Known(q) <=> InArc(Digest[q.node], q.key, Digest[After(q.node, Members)])
  BY <1>3 DEF Ring!Known, Ring!InArc, InArc, Ring!Geq, Geq
<1> QED
  BY <1>2, <1>3, <1>4

LEMMA SilentStep ==
  ASSUME upcall' = {}, status' = status, PendingIn(net') = PendingIn(net)
  PROVE  Ring!Next
<1>1. Members' = Members
  BY DEF Members
<1>2. OverlayUpcall' = {}
  BY DEF OverlayUpcall
<1>3. PendingQueries' = PendingQueries
  BY PendingNow
<1> QED
  BY <1>1, <1>2, <1>3 DEF Ring!Next, Ring!Silent

LEMMA JoinStep ==
  ASSUME TypeOK, NEW n \in Node, n \notin Members,
         status' = [status EXCEPT ![n] = TRUE], upcall' = {},
         PendingIn(net) = {}, PendingIn(net') = {}
  PROVE  Ring!Next
<1>1. Members' = Members \cup {n}
  BY DEF Members, TypeOK
<1>2. OverlayUpcall' = {}
  BY DEF OverlayUpcall
<1>3. PendingQueries = {} /\ PendingQueries' = {}
  BY PendingNow
<1>4. Ring!Join(n)
  BY <1>1, <1>2, <1>3 DEF Ring!Join
<1> QED
  BY <1>4 DEF Ring!Next

LEMMA LeaveStep ==
  ASSUME TypeOK, NEW n \in Members, status' = [status EXCEPT ![n] = FALSE],
         upcall' = IF After(n, Members) = n THEN {}
                   ELSE {[type |-> "leaveNotify", node |-> n, addr |-> After(n, Members)]},
         PendingIn(net) = {}, PendingIn(net') = {}
  PROVE  Ring!Next
<1>1. Members' = Members \ {n} /\ n \in Node
  BY DEF Members, TypeOK
<1>2. OverlayUpcall' = upcall'
  BY DEF OverlayUpcall
<1>3. PendingQueries = {} /\ PendingQueries' = {}
  BY PendingNow
<1>4. Ring!Leave(n)
  BY <1>1, <1>2, <1>3, RingNames DEF Ring!Leave
<1> QED
  BY <1>1, <1>4 DEF Ring!Next

(* A member is told of its predecessor. *)
LEMMA NotifyStep ==
  ASSUME NEW n \in Node, NEW s \in Members, n = After(s, Members), n # s,
         upcall' = {[type |-> "joinNotify", node |-> n, addr |-> s]},
         status' = status, PendingIn(net') = PendingIn(net)
  PROVE  Ring!Next
<1>1. Members' = Members /\ s \in Node
  BY DEF Members
<1>2. OverlayUpcall' = {[type |-> "joinNotify", node |-> n, addr |-> s]}
  BY DEF OverlayUpcall
<1>3. PendingQueries' = PendingQueries
  BY PendingNow
<1>4. Ring!JoinNotify(s)
  BY <1>1, <1>2, <1>3, RingNames DEF Ring!JoinNotify
<1> QED
  BY <1>1, <1>4 DEF Ring!Next

LookupUpcall(n, a, k) == [type |-> "lookup", node |-> n, addr |-> a, key |-> k]

LEMMA LookupSeen ==
  ASSUME NEW n, NEW a, NEW k, upcall' = {LookupUpcall(n, a, k)}
  PROVE  OverlayUpcall' = {[type |-> "lookup", query |-> [node |-> n, key |-> k], addr |-> a]}
BY DEF OverlayUpcall, LookupUpcall

LEMMA AskStep ==
  ASSUME NEW n \in Members, NEW k \in KeyId, status' = status,
         upcall' = IF InArc(Digest[n], k, Digest[After(n, Members)])
                     THEN {LookupUpcall(n, First(k, Members), k)} ELSE {},
         PendingIn(net) = {}, PendingIn(net') = {[node |-> n, key |-> k]}
  PROVE  Ring!Next
<1> DEFINE q == [node |-> n, key |-> k]
<1>1. Members' = Members /\ n \in Node
  BY DEF Members
<1>2. q.node = n /\ q.key = k /\ {q} \in SUBSET LookupQuery
  BY <1>1 DEF LookupQuery
<1>3. PendingQueries = {} /\ PendingQueries' = {q}
  BY PendingNow
<1>4. Ring!Answer(q) = [type |-> "lookup", query |-> q, addr |-> First(k, Members)]
  BY <1>2, RingNames DEF Ring!Answer
<1>5. OverlayUpcall' = IF InArc(Digest[n], k, Digest[After(n, Members)])
                         THEN {Ring!Answer(q)} ELSE {}
  <2>1. CASE InArc(Digest[n], k, Digest[After(n, Members)])
    <3>1. upcall' = {LookupUpcall(n, First(k, Members), k)}
      BY <2>1
    <3>2. OverlayUpcall' = {[type |-> "lookup", query |-> q, addr |-> First(k, Members)]}
      BY <3>1, LookupSeen
    <3> QED
      BY <1>4, <2>1, <3>2
  <2>2. CASE ~InArc(Digest[n], k, Digest[After(n, Members)])
    <3>1. upcall' = {}
      BY <2>2
    <3> QED
      BY <2>2, <3>1 DEF OverlayUpcall
  <2> QED
    BY <2>1, <2>2
<1> HIDE DEF q
<1>6. Ring!Known(q) <=> InArc(Digest[n], k, Digest[After(n, Members)])
  BY <1>2, RingNames
<1>7. OverlayUpcall' = {Ring!Answer(x) : x \in {p \in {q} : Ring!Known(p)}}
  <2>1. CASE Ring!Known(q)
    <3>1. {p \in {q} : Ring!Known(p)} = {q}
      BY <2>1
    <3> QED
      BY <1>5, <1>6, <2>1, <3>1
  <2>2. CASE ~Ring!Known(q)
    <3>1. {p \in {q} : Ring!Known(p)} = {}
      BY <2>2
    <3> QED
      BY <1>5, <1>6, <2>2, <3>1
  <2> QED
    BY <2>1, <2>2
<1>8. Ring!Lookup(n, {q})
  BY <1>1, <1>2, <1>3, <1>7 DEF Ring!Lookup
<1> QED
  BY <1>1, <1>2, <1>8 DEF Ring!Next

LEMMA ReplyStep ==
  ASSUME NEW q \in LookupQuery, status' = status,
         upcall' = {LookupUpcall(q.node, First(q.key, Members), q.key)},
         PendingIn(net) = {q}, PendingIn(net') = {}
  PROVE  Ring!Next
<1>1. Members' = Members
  BY DEF Members
<1>2. PendingQueries = {q} /\ PendingQueries' = {}
  BY PendingNow
<1>3. q = [node |-> q.node, key |-> q.key]
  BY DEF LookupQuery
<1>4. OverlayUpcall' = {[type |-> "lookup", query |-> [node |-> q.node, key |-> q.key],
                         addr |-> First(q.key, Members)]}
  BY LookupSeen
<1>5. OverlayUpcall' = {Ring!Answer(q)}
  BY <1>3, <1>4, RingNames DEF Ring!Answer
<1>6. Ring!Reply(q)
  BY <1>1, <1>2, <1>5 DEF Ring!Reply
<1> QED
  BY <1>6 DEF Ring!Next

-----------------------------------------------------------------------------
(* What the overlay's steps look like from above *)

(* Nothing on its way, or nothing but a query. *)
LEMMA WatchedWaits ==
  ASSUME TypeOK, NEW n \in Node, NEW s \in Node, net[s][n] # <<>>, OneWatched(net),
         Packet(n, s).type \in Watched
  PROVE  /\ PendingIn(Received(n, s)) = {}
         /\ PendingIn(net) = {q \in LookupQuery : Asks(q, n, Packet(n, s))}
<1>1. PendingIn(Received(n, s)) = {}
  BY ReceivedWatched, NoneWatchedWaits
<1> QED
  BY <1>1, ReceivedWaits DEF PendingIn

(* A timer expires. *)
LEMMA TimerStep ==
  ASSUME TypeOK, NEW n \in Node, TimerExpires(n)
  PROVE  Ring!Next
<1>1. net \in Net
  BY DEF TypeOK, Net
<1>2. upcall' = {}
  BY DEF TimerExpires, Stabilize, FixFinger, Answer
<1>3. /\ status' = status
      /\ \/ net' = net
         \/ net' = Send(net, n, succ[n], [type |-> "STABILIZE_REQ"])
         \/ \E k \in FingerIndex :
              net' = Send(net, n, succ[n], [type |-> "FIND_FINGER", addr |-> n, index |-> k])
  BY TimerSends
<1>4. net' = net \/ \E m \in Message : m.type \notin Queries /\ net' = Send(net, n, succ[n], m)
  <2>1. CASE net' = Send(net, n, succ[n], [type |-> "STABILIZE_REQ"])
    BY <2>1, TimerPackets DEF Queries
  <2>2. CASE \E k \in FingerIndex :
               net' = Send(net, n, succ[n], [type |-> "FIND_FINGER", addr |-> n, index |-> k])
    BY <2>2, TimerPackets DEF Queries
  <2> QED
    BY <1>3, <2>1, <2>2
<1>5. PendingIn(net') = PendingIn(net)
  BY <1>1, <1>4, SendSilent
<1> QED
  BY <1>2, <1>3, <1>5, SilentStep

(* A round of Stabilize is lost. *)
LEMMA LossStep ==
  ASSUME TypeOK, NEW n \in Node, NEW s \in Node, LoseRound(n, s)
  PROVE  Ring!Next
<1>1. net[s][n] # <<>> /\ net' = Received(n, s) /\ status' = status /\ upcall' = {}
  BY RoundLost
<1>2. Packet(n, s).type \notin Queries
  BY DEF LoseRound, Arrives, Packet, Queries
<1> QED
  BY <1>1, <1>2, ReceivedSilent, SilentStep

(* What a handler makes of the network when it has nothing to do with queries. *)
Quiet(n, ch) ==
  \/ net' \in {net, ch}
  \/ \E d, m : m \in Message /\ m.type \notin Queries /\ net' = Send(ch, n, d, m)
  \/ \E d, m, m2 : /\ m \in Message /\ m.type \notin Queries
                    /\ m2 \in Message /\ m2.type \notin Queries
                    /\ net' = Send(Send(ch, n, d, m), n, d, m2)

LEMMA QuietWaits ==
  ASSUME TypeOK, NEW n \in Node, NEW s \in Node, net[s][n] # <<>>,
         Packet(n, s).type \notin Queries, Quiet(n, Received(n, s))
  PROVE  PendingIn(net') = PendingIn(net)
<1> DEFINE ch == Received(n, s)
<1>1. PendingIn(ch) = PendingIn(net) /\ ch \in Net /\ Quiet(n, ch)
  BY ReceivedSilent, ReceivedType
<1> HIDE DEF ch
<1>2. CASE net' \in {net, ch}
  BY <1>1, <1>2
<1>3. CASE \E d, m : m \in Message /\ m.type \notin Queries /\ net' = Send(ch, n, d, m)
  BY <1>1, <1>3, SendSilent
<1>4. CASE \E d, m, m2 : /\ m \in Message /\ m.type \notin Queries
                         /\ m2 \in Message /\ m2.type \notin Queries
                         /\ net' = Send(Send(ch, n, d, m), n, d, m2)
  <2>1. PICK d, m, m2 : /\ m \in Message /\ m.type \notin Queries
                        /\ m2 \in Message /\ m2.type \notin Queries
                        /\ net' = Send(Send(ch, n, d, m), n, d, m2)
    BY <1>4
  <2>2. Send(ch, n, d, m) \in Net /\ PendingIn(Send(ch, n, d, m)) = PendingIn(net)
    BY <1>1, <2>1, SendSilent, SendType
  <2> QED
    BY <2>1, <2>2, SendSilent
<1> QED
  BY <1>1, <1>2, <1>3, <1>4 DEF Quiet

(* Forwarding and answering anything but a query. *)
LEMMA ForwardQuiet ==
  ASSUME NEW ch, NEW n, NEW t, NEW m \in Message, m.type \notin Queries,
         Forward(ch, n, t, m, {})
  PROVE  Quiet(n, ch) /\ upcall' = {} /\ status' = status
BY DEF Forward, Abort, Quiet, local

LEMMA AnswerQuiet ==
  ASSUME NEW ch, NEW n, NEW d, NEW m \in Message, m.type \notin Queries,
         Answer(ch, n, d, m)
  PROVE  Quiet(n, ch) /\ upcall' = {} /\ status' = status
BY DEF Answer, Quiet, local

LEMMA FindSuccessorQuiet ==
  ASSUME TypeOK, NEW ch, NEW n \in Node, NEW d \in Addr, FindSuccessor(ch, n, d)
  PROVE  Quiet(n, ch) /\ upcall' = {} /\ status' = status
<1>1. /\ JoinChordSuccess(succ[n]) \in Message
      /\ JoinChordSuccess(succ[n]).type \notin Queries
  BY DEF TypeOK, JoinChordSuccess, Message, Queries
<1> DEFINE m == [type |-> "FIND_SUCCESSOR", addr |-> d]
<1>2. m \in Message /\ m.type \notin Queries
  BY DEF Message, Queries
<1>3. \/ Answer(ch, n, d, JoinChordSuccess(succ[n]))
      \/ Forward(ch, n, Digest[d], m, {})
  BY DEF FindSuccessor
<1> HIDE DEF m
<1> QED
  BY <1>1, <1>2, <1>3, AnswerQuiet, ForwardQuiet

(* The handlers of the packets that neither belong to a query nor change the *)
(* ring under the search layer.                                              *)
LEMMA HandlerStep ==
  ASSUME TypeOK, NEW n \in Node, NEW s \in Node, RecvMessage(n, s),
         Packet(n, s).type \notin Queries \cup {"NOTIFY", "JOIN_CHORD_SUCCESS"}
  PROVE  Ring!Next
<1> DEFINE m == Packet(n, s)
           ch == Received(n, s)
<1>0. net[s][n] # <<>>
  BY DEF RecvMessage, Arrives, ProcessJoinChord, ProcessFindSuccessor,
         ProcessJoinChordSuccess, ProcessJoinChordFail, ProcessNotify,
         ProcessStabilizeReq, ProcessStabilizeResp, ProcessLeaveSuccessor,
         ProcessLeavePredecessor, ProcessRingstate, ProcessFindFinger,
         ProcessFindFingerSuccess, ProcessLookupPublish, ProcessLookupPublishSuccess
<1>a. m \in Message /\ ch \in Net
  BY <1>0, ReceivedType
<1>b. n \in Addr /\ s \in Addr /\ succ[n] \in Addr /\ pred[n] \in Addr
  BY DEF TypeOK, Addr
<1>c. ~(\/ ProcessJoinChordSuccess(n, s) \/ ProcessNotify(n, s)
        \/ ProcessLookupPublish(n, s) \/ ProcessLookupPublishSuccess(n, s))
  BY DEF ProcessJoinChordSuccess, ProcessNotify, ProcessLookupPublish,
         ProcessLookupPublishSuccess, Arrives, Packet, Queries
<1>d. ASSUME Quiet(n, ch), upcall' = {}, status' = status
      PROVE  Ring!Next
  BY <1>0, <1>d, QuietWaits, SilentStep
<1>1. CASE ProcessJoinChord(n, s)
  <2>1. CASE Answer(ch, n, s, [type |-> "JOIN_CHORD_FAIL"])
    <3>1. [type |-> "JOIN_CHORD_FAIL"] \in Message
      BY DEF Message
    <3>2. Quiet(n, ch) /\ upcall' = {} /\ status' = status
      BY <2>1, <3>1, AnswerQuiet DEF Queries
    <3> QED
      BY <1>d, <3>2
  <2>2. CASE /\ net' = SendNotify(Send(ch, n, s, JoinChordSuccess(n)), n, s)
             /\ upcall' = {} /\ status' = status
    <3>1. /\ JoinChordSuccess(n) \in Message /\ JoinChordSuccess(n).type \notin Queries
          /\ [type |-> "NOTIFY"] \in Message /\ [type |-> "NOTIFY"].type \notin Queries
      BY <1>b DEF JoinChordSuccess, Message, Queries
    <3>2. net' = Send(Send(ch, n, s, JoinChordSuccess(n)), n, s, [type |-> "NOTIFY"])
      BY <2>2 DEF SendNotify
    <3>3. Quiet(n, ch)
      BY <3>1, <3>2 DEF Quiet
    <3> QED
      BY <1>d, <2>2, <3>3
  <2>3. CASE FindSuccessor(ch, n, s)
    <3>1. Quiet(n, ch) /\ upcall' = {} /\ status' = status
      BY <1>b, <2>3, FindSuccessorQuiet
    <3> QED
      BY <1>d, <3>1
  <2> QED
    BY <1>1, <2>1, <2>2, <2>3 DEF ProcessJoinChord
<1>2. CASE ProcessFindSuccessor(n, s)
  <2>1. m.addr \in Addr
    BY <1>a, <1>2 DEF ProcessFindSuccessor, Arrives, Packet, Message
  <2>2. FindSuccessor(ch, n, m.addr)
    BY <1>2 DEF ProcessFindSuccessor
  <2>3. Quiet(n, ch) /\ upcall' = {} /\ status' = status
    BY <2>1, <2>2, FindSuccessorQuiet
  <2> QED
    BY <1>d, <2>3
<1>3. CASE \/ ProcessJoinChordFail(n, s)
           \/ ProcessLeaveSuccessor(n, s) \/ ProcessLeavePredecessor(n, s)
  <2>1. net' = ch /\ upcall' = {} /\ status' = status
    BY <1>3 DEF ProcessJoinChordFail, ProcessLeaveSuccessor, ProcessLeavePredecessor, local
  <2> QED
    BY <1>d, <2>1 DEF Quiet
<1>4. CASE ProcessStabilizeReq(n, s)
  <2> DEFINE r == [type |-> "STABILIZE_RESP", addr |-> pred[n]]
  <2>1. r \in Message /\ r.type \notin Queries
    BY <1>b DEF Message, Queries
  <2>2. (net' = ch \/ net' = Send(ch, n, s, r)) /\ upcall' = {} /\ status' = status
    BY <1>4 DEF ProcessStabilizeReq, local
  <2> HIDE DEF r
  <2>3. Quiet(n, ch)
    BY <2>1, <2>2 DEF Quiet
  <2> QED
    BY <1>d, <2>2, <2>3
<1>5. CASE ProcessStabilizeResp(n, s)
  <2>1. [type |-> "NOTIFY"] \in Message /\ [type |-> "NOTIFY"].type \notin Queries
    BY DEF Message, Queries
  <2>2. /\ net' = ch \/ net' = Send(ch, n, m.addr, [type |-> "NOTIFY"])
        /\ upcall' = {} /\ status' = status
    BY <1>5 DEF ProcessStabilizeResp, SendNotify
  <2>3. Quiet(n, ch)
    BY <2>1, <2>2 DEF Quiet
  <2> QED
    BY <1>d, <2>2, <2>3
<1>6. CASE ProcessRingstate(n, s)
  <2>1. /\ net' = ch \/ net' = Send(ch, n, succ[n], m)
        /\ upcall' = {} /\ status' = status
    BY <1>6 DEF ProcessRingstate, local
  <2>2. Quiet(n, ch)
    BY <1>a, <2>1 DEF Quiet
  <2> QED
    BY <1>d, <2>1, <2>2
<1>7. CASE ProcessFindFinger(n, s)
  <2>1. m.index \in FingerIndex
    BY <1>7, <1>a DEF ProcessFindFinger, Arrives, Packet, Message
  <2>2. CASE ReplyFindFinger(ch, n, m)
    <3> DEFINE r == [type |-> "FIND_FINGER_SUCCESS", addr |-> succ[n], index |-> m.index]
    <3>1. r \in Message /\ r.type \notin Queries
      BY <1>b, <2>1 DEF Message, Queries
    <3>2. Answer(ch, n, m.addr, r)
      BY <2>2 DEF ReplyFindFinger
    <3> HIDE DEF r
    <3>3. Quiet(n, ch) /\ upcall' = {} /\ status' = status
      BY <3>1, <3>2, AnswerQuiet
    <3> QED
      BY <1>d, <3>3
  <2>3. CASE Forward(ch, n, IndexHash(Digest[m.addr], m.index), m, {})
    <3>1. Quiet(n, ch) /\ upcall' = {} /\ status' = status
      BY <1>a, <2>3, ForwardQuiet
    <3> QED
      BY <1>d, <3>1
  <2> QED
    BY <1>7, <2>2, <2>3 DEF ProcessFindFinger
<1>8. CASE ProcessFindFingerSuccess(n, s)
  <2>1. m.type = "FIND_FINGER_SUCCESS"
    BY <1>8 DEF ProcessFindFingerSuccess, Arrives, Packet
  <2>2. m.index \in FingerIndex /\ m.addr \in Addr
    BY <1>a, <2>1 DEF Message
  <2>3. m.index + 1 \in Nat \ {0}
    BY <2>2, MAssumption DEF FingerIndex
  <2>4. /\ SendFindFinger(ch, n, ffTimer, [finger[n] EXCEPT ![m.index] = m.addr],
                          m.addr, m.index + 1)
        /\ upcall' = {} /\ status' = status
    BY <1>8 DEF ProcessFindFingerSuccess
  <2>5. Asked(net', ch, n, m.addr)
    BY <2>3, <2>4, SendFindFingerEffect
  <2>6. \A k \in FingerIndex : LET r == [type |-> "FIND_FINGER", addr |-> n, index |-> k]
                               IN  r \in Message /\ r.type \notin Queries
    BY DEF Message, Queries
  <2>7. Quiet(n, ch)
    BY <2>5, <2>6 DEF Asked, Quiet
  <2> QED
    BY <1>d, <2>4, <2>7
<1> QED
  BY <1>c, <1>1, <1>2, <1>3, <1>4, <1>5, <1>6, <1>7, <1>8 DEF RecvMessage

(* A packet's handler is the one of its type. *)
LEMMA HandlerOf ==
  ASSUME NEW n \in Node, NEW s \in Node, RecvMessage(n, s)
  PROVE  /\ net[s][n] # <<>>
         /\ Packet(n, s).type = "NOTIFY" => ProcessNotify(n, s)
         /\ Packet(n, s).type = "JOIN_CHORD_SUCCESS" => ProcessJoinChordSuccess(n, s)
         /\ Packet(n, s).type = "LOOKUP_PUBLISH" => ProcessLookupPublish(n, s)
         /\ Packet(n, s).type = "LOOKUP_PUBLISH_SUCCESS" => ProcessLookupPublishSuccess(n, s)
BY DEF RecvMessage, Arrives, Packet, ProcessJoinChord, ProcessFindSuccessor,
       ProcessJoinChordSuccess, ProcessJoinChordFail, ProcessNotify,
       ProcessStabilizeReq, ProcessStabilizeResp, ProcessLeaveSuccessor,
       ProcessLeavePredecessor, ProcessRingstate, ProcessFindFinger,
       ProcessFindFingerSuccess, ProcessLookupPublish, ProcessLookupPublishSuccess

(* A query x sent to d where no other is on its way. *)
LEMMA OneWaits ==
  ASSUME NEW ch \in Net, NEW n \in Node, NEW d \in Node, NEW x \in Message,
         PendingIn(ch) = {}
  PROVE  PendingIn(Send(ch, n, d, x)) = {q \in LookupQuery : Asks(q, d, x)}
BY SendWaits DEF PendingIn

(* The query of a packet, and that of its answer. *)
LEMMA QueryOf ==
  ASSUME NEW d \in Node, NEW a \in Node, NEW k \in KeyId, NEW m
  PROVE  /\ m.type = "LOOKUP_PUBLISH" /\ m.addr = a /\ m.key = k
              => {q \in LookupQuery : Asks(q, d, m)} = {[node |-> a, key |-> k]}
         /\ m.type = "LOOKUP_PUBLISH_SUCCESS" /\ m.key = k
              => {q \in LookupQuery : Asks(q, d, m)} = {[node |-> d, key |-> k]}
BY DEF Asks, LookupQuery

(* A query goes one hop on, or is answered to the node that asks. *)
LEMMA LookupStep ==
  ASSUME TypeOK, NEW L \in Node, NEW c \in BOOLEAN, Steady(L, c),
         NEW n \in Node, NEW s \in Node, ProcessLookupPublish(n, s)
  PROVE  Ring!Next
<1> DEFINE m  == Packet(n, s)
           ch == Received(n, s)
<1>0. net[s][n] # <<>> /\ m.type = "LOOKUP_PUBLISH" /\ m.type \in Watched
  BY DEF ProcessLookupPublish, Arrives, Packet, Watched, Queries
<1>1. m \in Message /\ ch \in Net
  BY <1>0, ReceivedType
<1>2. Calm(L, c) /\ OneWatched(net)
  BY DEF Steady
<1>3. Sound(Members, SomeoneAlone, L, c, s, n, m)
  BY <1>0, <1>2, ReceivedSounds DEF Calm
<1>4. SteadyPacket(Members, succ, c, s, n, m)
  BY <1>0, ReceivedSteady DEF Steady
<1>5. c /\ n \in Members /\ m.addr \in Node /\ m.key \in KeyId
  BY <1>0, <1>4 DEF SteadyPacket
<1>6. PICK q : q = [node |-> m.addr, key |-> m.key]
  OBVIOUS
<1>7. PendingIn(ch) = {} /\ PendingIn(net) = {q}
  <2>1. /\ PendingIn(ch) = {}
        /\ PendingIn(net) = {x \in LookupQuery : Asks(x, n, m)}
    BY <1>0, <1>2, WatchedWaits
  <2> QED
    BY <1>0, <1>5, <1>6, <2>1, QueryOf
<1>8. CASE ReplyLookupPublishSuccess(ch, n, m)
  <2> DEFINE r == [type |-> "LOOKUP_PUBLISH_SUCCESS", addr |-> succ[n], key |-> m.key]
  <2>1. r \in Message /\ r.type = "LOOKUP_PUBLISH_SUCCESS" /\ r.key = m.key
    BY <1>5, DigestAssumption DEF TypeOK, Message
  <2>2. net' = Send(ch, n, m.addr, r) /\ upcall' = {} /\ status' = status
    BY <1>8 DEF ReplyLookupPublishSuccess, Answer, local
  <2> HIDE DEF r, m, ch
  <2>3. PendingIn(net') = {q}
    BY <1>1, <1>5, <1>6, <1>7, <2>1, <2>2, OneWaits, QueryOf
  <2> QED
    BY <1>7, <2>2, <2>3, SilentStep
<1>9. CASE Abort(n)
  <2>1. upcall' = {} /\ status' = status /\ net' = net
    BY <1>9 DEF Abort, local
  <2> QED
    BY <2>1, SilentStep
<1>10. CASE \E h \in Addr : /\ NextHop(n, m.key, h) /\ net' = Send(ch, n, h, m)
                            /\ upcall' = {} /\ status' = status
  <2>1. PICK h \in Addr : /\ NextHop(n, m.key, h) /\ net' = Send(ch, n, h, m)
                          /\ upcall' = {} /\ status' = status
    BY <1>10
  <2>2. h \in Node
    BY <1>2, <1>5, <2>1, HopIsMember DEF Members
  <2> HIDE DEF m, ch
  <2>3. PendingIn(net') = {q}
    BY <1>0, <1>1, <1>5, <1>6, <1>7, <2>1, <2>2, OneWaits, QueryOf
  <2> QED
    BY <1>7, <2>1, <2>3, SilentStep
<1>11. \/ ReplyLookupPublishSuccess(ch, n, m)
       \/ Abort(n)
       \/ \E h \in Addr : /\ NextHop(n, m.key, h) /\ net' = Send(ch, n, h, m)
                          /\ upcall' = {} /\ status' = status
  BY DEF ProcessLookupPublish, Forward, local
<1> QED
  BY <1>8, <1>9, <1>10, <1>11

(* An answer reaches the node that asked: it names the owner of the key. *)
LEMMA AnsweredStep ==
  ASSUME TypeOK, NEW L \in Node, NEW c \in BOOLEAN, Steady(L, c),
         NEW n \in Node, NEW s \in Node, ProcessLookupPublishSuccess(n, s)
  PROVE  Ring!Next
<1> DEFINE m  == Packet(n, s)
           ch == Received(n, s)
<1>0. net[s][n] # <<>> /\ m.type = "LOOKUP_PUBLISH_SUCCESS" /\ m.type \in Watched
  BY DEF ProcessLookupPublishSuccess, Arrives, Packet, Watched, Queries
<1>1. SteadyPacket(Members, succ, c, s, n, m) /\ OneWatched(net)
  BY <1>0, ReceivedSteady DEF Steady
<1>2. m.addr = First(m.key, Members) /\ m.key \in KeyId
  BY <1>0, <1>1 DEF SteadyPacket
<1>3. PICK q : q = [node |-> n, key |-> m.key]
  OBVIOUS
<1>4. q \in LookupQuery /\ q.node = n /\ q.key = m.key
  BY <1>2, <1>3 DEF LookupQuery
<1>5. PendingIn(ch) = {} /\ PendingIn(net) = {q}
  <2>1. /\ PendingIn(ch) = {}
        /\ PendingIn(net) = {x \in LookupQuery : Asks(x, n, m)}
    BY <1>0, <1>1, WatchedWaits
  <2> QED
    BY <1>0, <1>2, <1>3, <2>1, QueryOf
<1>6. /\ net' = ch /\ status' = status
      /\ upcall' = {LookupUpcall(n, m.addr, m.key)}
  BY DEF ProcessLookupPublishSuccess, local, LookupUpcall
<1> QED
  BY <1>2, <1>4, <1>5, <1>6, ReplyStep

(* A newcomer is in. *)
LEMMA JoinedStep ==
  ASSUME TypeOK, NEW n \in Node, NEW s \in Node, ProcessJoinChordSuccess(n, s),
         n \notin Members, PendingIn(Received(n, s)) = {}
  PROVE  Ring!Next
<1>1. net[s][n] # <<>> /\ Packet(n, s).type = "JOIN_CHORD_SUCCESS"
  BY DEF ProcessJoinChordSuccess, Arrives, Packet
<1>2. Received(n, s) \in Net
  BY <1>1, ReceivedType
<1>3. PendingIn(net) = {}
  BY <1>1, ReceivedSilent DEF Queries
<1>4. /\ status' = [status EXCEPT ![n] = TRUE] /\ upcall' = {}
      /\ net' = Send(Received(n, s), n, Packet(n, s).addr, [type |-> "NOTIFY"])
  BY DEF ProcessJoinChordSuccess, SendNotify
<1>5. [type |-> "NOTIFY"] \in Message /\ [type |-> "NOTIFY"].type \notin Queries
  BY DEF Message, Queries
<1>6. PendingIn(net') = {}
  BY <1>2, <1>4, <1>5, SendSilent
<1> QED
  BY <1>3, <1>4, <1>6, JoinStep

LEMMA SteadyReceives ==
  ASSUME TypeOK, NEW L \in Node, NEW c \in BOOLEAN, Steady(L, c),
         NEW n \in Node, NEW s \in Node, RecvMessage(n, s)
  PROVE  Ring!Next
<1>0. net[s][n] # <<>>
  BY HandlerOf
<1>1. CASE Packet(n, s).type = "NOTIFY"
  BY <1>0, <1>1, ReceivedSteady DEF Steady, SteadyPacket
<1>2. CASE Packet(n, s).type = "JOIN_CHORD_SUCCESS"
  <2>1. Sound(Members, SomeoneAlone, L, c, s, n, Packet(n, s))
    BY <1>0, ReceivedSounds DEF Steady, Calm
  <2>2. n \notin Members
    BY <1>2, <2>1 DEF Sound
  <2>3. PendingIn(Received(n, s)) = {}
    BY <1>0, <1>2, WatchedWaits DEF Steady, Watched, Thread
  <2> QED
    BY <1>2, <2>2, <2>3, HandlerOf, JoinedStep
<1>3. CASE Packet(n, s).type = "LOOKUP_PUBLISH"
  BY <1>3, HandlerOf, LookupStep
<1>4. CASE Packet(n, s).type = "LOOKUP_PUBLISH_SUCCESS"
  BY <1>4, HandlerOf, AnsweredStep
<1>5. CASE Packet(n, s).type \notin Queries \cup {"NOTIFY", "JOIN_CHORD_SUCCESS"}
  BY <1>5, HandlerStep
<1> QED
  BY <1>1, <1>2, <1>3, <1>4, <1>5 DEF Queries

LEMMA LateReceives ==
  ASSUME TypeOK, NEW L \in Node, NEW c \in BOOLEAN, NEW w \in Node, Late(L, c, w),
         NEW n \in Node, NEW s \in Node, RecvMessage(n, s)
  PROVE  Ring!Next
<1>0. net[s][n] # <<>>
  BY HandlerOf
<1>1. LatePacket(Members, succ, w, s, n, Packet(n, s))
  BY <1>0, ReceivedLate DEF Late
<1>2. CASE Packet(n, s).type = "NOTIFY"
  <2>1. s \in Members /\ n = After(s, Members) /\ n # s
    BY <1>1, <1>2 DEF LatePacket
  <2>2. ProcessNotify(n, s)
    BY <1>2, HandlerOf
  <2>3. /\ net' = Received(n, s) /\ status' = status
        /\ upcall' \in {{}, {[type |-> "joinNotify", node |-> n, addr |-> s]}}
    BY <2>2 DEF ProcessNotify
  <2>4. PendingIn(net') = PendingIn(net)
    BY <1>0, <1>2, <2>3, ReceivedSilent DEF Queries
  <2> QED
    BY <2>1, <2>3, <2>4, SilentStep, NotifyStep
<1>3. CASE Packet(n, s).type \notin Queries \cup {"NOTIFY", "JOIN_CHORD_SUCCESS"}
  BY <1>3, HandlerStep
<1> QED
  BY <1>1, <1>2, <1>3 DEF LatePacket, Thread

(* A command that only sends x, which belongs to no query. *)
LEMMA CommandStep ==
  ASSUME TypeOK, NEW n \in Node, NEW d, NEW m \in Message, m.type \notin Queries,
         Answer(net, n, d, m)
  PROVE  Ring!Next
<1>1. net \in Net
  BY DEF TypeOK, Net
<1>2. net' = Send(net, n, d, m) /\ upcall' = {} /\ status' = status
  BY DEF Answer, local
<1> QED
  BY <1>1, <1>2, SendSilent, SilentStep

LEMMA RingstateStep ==
  ASSUME TypeOK, NEW n \in Node, Ringstate(n)
  PROVE  Ring!Next
<1> DEFINE m == [type |-> "RINGSTATE", addr |-> n]
<1>1. m \in Message /\ m.type \notin Queries
  BY DEF Message, Queries, Addr
<1>2. Answer(net, n, succ[n], m)
  BY DEF Ringstate
<1> HIDE DEF m
<1> QED
  BY <1>1, <1>2, CommandStep

(* A member of a ring of others says farewell. *)
LEMMA FarewellStep ==
  ASSUME TypeOK, Drained, IdealRing, NEW n \in Node, Leave(n)
  PROVE  Ring!Next
<1> DEFINE p == IF succ[n] = pred[n] THEN AnyAddr ELSE pred[n]
           x == [type |-> "LEAVE_SUCCESSOR", addr |-> p]
           y == [type |-> "LEAVE_PREDECESSOR", addr |-> succ[n]]
<1>1. n \in Members /\ succ[n] # n
  BY DEF Leave, Alone, Members
<1>2. net \in Net /\ PendingIn(net) = {}
  BY EmptyWaits DEF Drained, TypeOK, Net
<1>3. /\ x \in Message /\ x.type \notin Queries
      /\ y \in Message /\ y.type \notin Queries
  BY DEF TypeOK, Addr, Message, Queries
<1>4. net' = Send(Send(net, n, succ[n], x), n, pred[n], y)
  BY DEF Leave, Farewell
<1>5. /\ status' = [status EXCEPT ![n] = FALSE]
      /\ upcall' = {[type |-> "leaveNotify", node |-> n, addr |-> succ[n]]}
  BY DEF Leave, Detach
<1> HIDE DEF x, y, p
<1>6. Send(net, n, succ[n], x) \in Net /\ PendingIn(Send(net, n, succ[n], x)) = {}
  BY <1>2, <1>3, SendType, SendSilent
<1>7. PendingIn(net') = {}
  BY <1>3, <1>4, <1>6, SendSilent
<1>8. succ[n] = After(n, Members)
  BY <1>1, NextIsAfter DEF IdealRing, IdealSuccessors
<1> QED
  BY <1>1, <1>2, <1>5, <1>7, <1>8, LeaveStep

(* A member of a ring of others asks for the owner of a key. *)
LEMMA AskedStep ==
  ASSUME TypeOK, NEW L \in Node, NEW c \in BOOLEAN, Steady(L, c), Settled,
         NEW n \in Members, succ[n] # n, NEW k \in KeyId, LookupPublish(n, k)
  PROVE  Ring!Next
<1> DEFINE m == [type |-> "LOOKUP_PUBLISH", addr |-> n, key |-> k]
           calls == IF Responsible(n, k)
                      THEN {[type |-> "lookup", node |-> n, addr |-> succ[n], key |-> k]}
                      ELSE {}
<1>1. n \in Node /\ k \in Id /\ k # Digest[n]
  BY DigestAssumption, KeyAssumption DEF Members
<1>2. net \in Net /\ PendingIn(net) = {}
  BY EmptyWaits DEF Settled, Drained, TypeOK, Net
<1>3. m \in Message /\ m.type = "LOOKUP_PUBLISH" /\ m.addr = n /\ m.key = k
  BY <1>1 DEF Message, Addr
<1>4. Forward(net, n, k, m, calls)
  BY DEF LookupPublish
<1> HIDE DEF m, calls
<1>5. CASE Abort(n)
  <2>1. upcall' = {} /\ status' = status /\ net' = net
    BY <1>5 DEF Abort, local
  <2> QED
    BY <2>1, SilentStep
<1>6. CASE \E h \in Addr : /\ NextHop(n, k, h) /\ net' = Send(net, n, h, m)
                           /\ upcall' = calls /\ status' = status
  <2>1. PICK h \in Addr : /\ NextHop(n, k, h) /\ net' = Send(net, n, h, m)
                          /\ upcall' = calls /\ status' = status
    BY <1>6
  <2>2. h \in Node
    <3>1. succ[n] \in Node /\ \A i \in Entries(n) : finger[n][i] \in Node
      BY DEF Settled, FingersInRing, Steady, Calm, Pointers, Members
    <3> QED
      BY <2>1, <3>1 DEF NextHop, Closer
  <2>3. PendingIn(net') = {[node |-> n, key |-> k]}
    BY <1>1, <1>2, <1>3, <2>1, <2>2, OneWaits, QueryOf
  <2>4. succ[n] = After(n, Members)
    BY NextIsAfter DEF Steady, IdealRing, IdealSuccessors
  <2>5. Responsible(n, k) => succ[n] = First(k, Members)
    BY <1>1, SuccessorOwns
  <2>6. calls = IF InArc(Digest[n], k, Digest[After(n, Members)])
                  THEN {LookupUpcall(n, First(k, Members), k)} ELSE {}
    BY <2>4, <2>5 DEF calls, Responsible, LookupUpcall
  <2> QED
    BY <1>2, <2>1, <2>3, <2>6, AskStep
<1> QED
  BY <1>4, <1>5, <1>6 DEF Forward, local

LEMMA SteadyCommands ==
  ASSUME TypeOK, NEW L \in Node, NEW c \in BOOLEAN, Steady(L, c), PacedCommand
  PROVE  Ring!Next
<1>0. Settled /\ Drained /\ IdealRing
  BY DEF PacedCommand, Settled, Steady
<1>a. PendingIn(net) = {}
  BY <1>0, EmptyWaits DEF Drained
<1>1. PICK n \in Node :
     \/ n = Landmark /\ Members = {} /\ JoinSelf(n)
     \/ \E d \in Node : JoinVia(n, d)
     \/ n = Landmark /\ used["LOOKUP"] = 0 /\ Ringstate(n)
     \/ IdealRing /\ LeaveAlone(n)
     \/ IdealRing /\ Leave(n)
     \/ /\ IdealRing /\ n \in Members /\ succ[n] # n
        /\ used["RINGSTATE"] = 0
        /\ \E k \in KeyId : LookupPublish(n, k)
  BY DEF PacedCommand
<1>2. CASE Members = {} /\ JoinSelf(n)
  <2>1. n \notin Members /\ status' = [status EXCEPT ![n] = TRUE] /\ upcall' = {} /\ net' = net
    BY <1>2 DEF JoinSelf
  <2> QED
    BY <1>a, <2>1, JoinStep
<1>3. CASE \E d \in Node : JoinVia(n, d)
  <2>1. PICK d \in Node : Answer(net, n, d, [type |-> "JOIN_CHORD"])
    BY <1>3 DEF JoinVia
  <2>2. [type |-> "JOIN_CHORD"] \in Message /\ [type |-> "JOIN_CHORD"].type \notin Queries
    BY DEF Message, Queries
  <2> QED
    BY <2>1, <2>2, CommandStep
<1>4. CASE Ringstate(n)
  BY <1>4, RingstateStep
<1>5. CASE LeaveAlone(n)
  <2>1. Members = {n} /\ n \in Members
    BY <1>0, <1>5, SteadyLeftAlone
  <2>2. After(n, Members) = n
    BY <2>1 DEF After
  <2>3. status' = [status EXCEPT ![n] = FALSE] /\ upcall' = {} /\ net' = net
    BY <1>5 DEF LeaveAlone, Detach
  <2> QED
    BY <1>a, <2>1, <2>2, <2>3, LeaveStep
<1>6. CASE Leave(n)
  BY <1>0, <1>6, FarewellStep
<1>7. CASE n \in Members /\ succ[n] # n /\ \E k \in KeyId : LookupPublish(n, k)
  BY <1>0, <1>7, AskedStep
<1> QED
  BY <1>1, <1>2, <1>3, <1>4, <1>5, <1>6, <1>7

-----------------------------------------------------------------------------
(* The refinement *)

LEMMA SteadyMaps ==
  ASSUME TypeOK, NEW L \in Node, NEW c \in BOOLEAN, Steady(L, c), CalmNext
  PROVE  Ring!Next
<1>1. CASE PacedCommand
  BY <1>1, SteadyCommands
<1>2. CASE \E n \in Node : TimerExpires(n)
  BY <1>2, TimerStep
<1>3. CASE \E n, s \in Node : RecvMessage(n, s)
  BY <1>3, SteadyReceives
<1>4. CASE \E n, s \in Node : LoseRound(n, s)
  BY <1>4, LossStep
<1> QED
  BY <1>1, <1>2, <1>3, <1>4 DEF CalmNext

LEMMA LateMaps ==
  ASSUME TypeOK, NEW L \in Node, NEW c \in BOOLEAN, NEW w \in Node, Late(L, c, w), SteadyNext
  PROVE  Ring!Next
<1>0. CalmNext /\ Absorbed
  BY DEF SteadyNext
<1>1. CASE PacedCommand
  <2>1. CASE IdealRing
    BY <1>1, <2>1, LateAbsorbed, SteadyCommands DEF PacedCommand, Settled
  <2>2. CASE ~IdealRing
    <3>1. PICK n \in Node :
             \/ JoinSelf(n)
             \/ \E d \in Node : JoinVia(n, d)
             \/ Ringstate(n)
      BY <1>1, <2>2 DEF PacedCommand
    <3>2. Ringstate(n)
      BY <1>0, <2>2, <3>1, JoinAbsorbed DEF JoinSelf, JoinVia
    <3> QED
      BY <3>2, RingstateStep
  <2> QED
    BY <2>1, <2>2
<1>2. CASE \E n \in Node : TimerExpires(n)
  BY <1>2, TimerStep
<1>3. CASE \E n, s \in Node : RecvMessage(n, s)
  BY <1>3, LateReceives
<1>4. CASE \E n, s \in Node : LoseRound(n, s)
  BY <1>4, LossStep
<1> QED
  BY <1>0, <1>1, <1>2, <1>3, <1>4 DEF CalmNext

LEMMA FoundingMaps ==
  ASSUME TypeOK, NEW m \in Node, NEW s \in Node, Founding(m, s), pred[m] = AnyAddr, CalmNext
  PROVE  Ring!Next
<1>1. CASE \E n \in Node : TimerExpires(n)
  BY <1>1, TimerStep
<1>2. CASE \E n, o \in Node : RecvMessage(n, o)
  <2>1. ProcessJoinChordSuccess(s, m)
    BY <1>2, FoundingLate
  <2>2. net[m][s] # <<>> /\ Packet(s, m).type = "JOIN_CHORD_SUCCESS" /\ s \notin Members
    BY <2>1 DEF ProcessJoinChordSuccess, Arrives, Packet, Founding
  <2>3. ASSUME NEW a \in Node, NEW b \in Node, NEW i \in DOMAIN net[a][b]
        PROVE  net[a][b][i].type \notin Queries
    <3>1. a = m /\ b = s /\ (i # 1 => FoundingPacket(m, net[a][b][i]))
      BY DEF Founding
    <3>2. CASE i = 1
      BY <2>2, <3>1, <3>2, PacketIsIn DEF Queries
    <3>3. CASE i # 1
      BY <3>1, <3>3 DEF FoundingPacket, Queries
    <3> QED
      BY <3>2, <3>3
  <2>4. PendingIn(Received(s, m)) = {}
    BY <2>2, <2>3, NoneWaits, ReceivedSilent DEF Queries
  <2> QED
    BY <2>1, <2>2, <2>4, JoinedStep
<1> QED
  BY <1>1, <1>2, FoundingOnly

LEMMA PartedMaps ==
  ASSUME TypeOK, NEW p \in Node, NEW s \in Node, NEW q \in Addr, Parted(p, s, q),
         LeftRing(Members, succ, pred, p, s, q), CalmNext
  PROVE  Ring!Next
<1>1. CASE Drained
  BY <1>1, LeftDrained, SteadyMaps
<1>2. CASE ~Drained
  <2>1. PICK n \in Node, o \in Node : RecvMessage(n, o)
    BY <1>2, PartedOnly
  <2>2. /\ status' = status /\ upcall' = {} /\ net[o][n] # <<>> /\ net' = Received(n, o)
        /\ Packet(n, o).type \in {"LEAVE_SUCCESSOR", "LEAVE_PREDECESSOR"}
    BY <2>1, LeftStep
  <2>3. Packet(n, o).type \notin Queries
    BY <2>2 DEF Queries
  <2> QED
    BY <2>2, <2>3, ReceivedSilent, SilentStep
<1> QED
  BY <1>1, <1>2

LEMMA OverlayMaps == TypeOK /\ OInv /\ [SteadyNext]_vars => [Ring!Next]_(Ring!vars)
<1> SUFFICES ASSUME TypeOK, OInv, [SteadyNext]_vars PROVE [Ring!Next]_(Ring!vars)
  OBVIOUS
<1>1. CASE UNCHANGED vars
  <2>1. status' = status /\ net' = net /\ upcall' = upcall
    BY <1>1 DEF vars
  <2>2. Members' = Members /\ OverlayUpcall' = OverlayUpcall
    BY <2>1 DEF Members, OverlayUpcall
  <2>3. PendingQueries' = PendingQueries
    BY <2>1, PendingNow
  <2> QED
    BY <2>2, <2>3 DEF Ring!vars
<1>2. CASE SteadyNext
  <2>1. CalmNext
    BY <1>2 DEF SteadyNext
  <2> QED
    BY <1>2, <2>1, SteadyMaps, LateMaps, FoundingMaps, PartedMaps DEF OInv
<1> QED
  BY <1>1, <1>2

LEMMA OverlayStarts == Init => Ring!Init
<1> SUFFICES ASSUME Init PROVE Ring!Init
  OBVIOUS
<1>1. Members = {} /\ OverlayUpcall = {}
  BY DEF Init, Members, OverlayUpcall
<1>2. PendingIn(net) = {}
  BY EmptyWaits DEF Init
<1> QED
  BY <1>1, <1>2, PendingNow DEF Ring!Init

(* In rings that absorb one newcomer before the next, PennChord keeps every    *)
(* promise of Overlay: lookups name the owner of the key whatever way they     *)
(* took, a predecessor is announced to the member after it, and a leaving node  *)
(* is told of the member that takes over.                                      *)
THEOREM RingImplementsOverlay == SteadySpec => ImplementsOverlay
<1>1. Init => Ring!Init
  BY OverlayStarts
<1>2. TypeOK /\ OInv /\ [SteadyNext]_vars => [Ring!Next]_(Ring!vars)
  BY OverlayMaps
<1> QED
  BY <1>1, <1>2, SteadyInvariant, PTL DEF SteadySpec, ImplementsOverlay, Ring!Spec
=============================================================================
