-------------------------- MODULE PingTracker_proofs --------------------------
(***************************************************************************)
(* The ping tracker decides every ping once and in time, whatever the      *)
(* timeout, the number of pings and the behaviour of the network.          *)
(***************************************************************************)
EXTENDS PingTracker, TLAPS

(* What makes the two properties inductive: ids not handed out yet are    *)
(* nowhere, an audit is always due within the timeout, and it comes while *)
(* no tracked ping is older than twice that.                              *)
Fresh ==
  /\ tracked \subseteq 1 .. sent
  /\ \A id \in Ping : id > sent => successes[id] = 0 /\ failures[id] = 0

AuditDue == running => now <= nextAudit /\ nextAudit <= now + Timeout

AuditInTime == running => \A id \in tracked : nextAudit < stamp[id] + 2 * Timeout

IInv == TypeOK /\ OneVerdict /\ Fresh /\ AuditDue /\ AuditInTime

LEMMA InitInv == Init => IInv
<1> SUFFICES ASSUME Init PROVE IInv
  OBVIOUS
<1>1. TypeOK
  BY TimeoutAssumption, BoundAssumption DEF Init, TypeOK, Ping
<1>2. OneVerdict
  BY DEF Init, OneVerdict, Verdicts, Ping
<1>3. Fresh /\ AuditDue /\ AuditInTime
  BY TimeoutAssumption DEF Init, Fresh, AuditDue, AuditInTime
<1> QED
  BY <1>1, <1>2, <1>3 DEF IInv

LEMMA StepInv == IInv /\ [Next]_vars => IInv'
<1> SUFFICES ASSUME TypeOK, OneVerdict, Fresh, AuditDue, AuditInTime, [Next]_vars
             PROVE  TypeOK' /\ OneVerdict' /\ Fresh' /\ AuditDue' /\ AuditInTime'
  BY DEF IInv
<1> USE TimeoutAssumption, BoundAssumption DEF Ping
<1>1. CASE SendPing
  <2>1. TypeOK'
    <3>1. sent + 1 \in Ping /\ sent' \in 0 .. MaxPing
      BY <1>1 DEF SendPing, TypeOK
    <3>2. tracked' \subseteq Ping /\ requests' \subseteq Ping
      BY <1>1, <3>1, Zenon DEF SendPing, TypeOK
    <3>3. stamp' \in [Ping -> Nat]
      BY <1>1, <3>1, Zenon DEF SendPing, TypeOK
    <3> QED
      BY <1>1, <3>1, <3>2, <3>3, Zenon DEF SendPing, TypeOK
  <2>2. OneVerdict'
    <3>1. successes' = successes /\ failures' = failures /\ running
      BY <1>1 DEF SendPing
    <3>2. ASSUME NEW id \in Ping, id <= sent + 1
          PROVE  id \in tracked' <=> Verdicts(id) = 0
      <4>1. CASE id = sent + 1
        BY <1>1, <4>1 DEF SendPing, TypeOK, Verdicts, Fresh
      <4>2. CASE id <= sent
        BY <1>1, <4>2 DEF SendPing, TypeOK, OneVerdict
      <4> QED
        BY <3>2, <4>1, <4>2 DEF TypeOK
    <3> QED
      BY <1>1, <3>1, <3>2 DEF SendPing, OneVerdict, Verdicts
  <2>3. Fresh'
    BY <1>1 DEF SendPing, TypeOK, Fresh
  <2>4. AuditDue'
    BY <1>1 DEF SendPing, TypeOK, AuditDue
  <2>5. AuditInTime'
    BY <1>1 DEF SendPing, TypeOK, Fresh, AuditDue, AuditInTime
  <2> QED
    BY <2>1, <2>2, <2>3, <2>4, <2>5
<1>2. ASSUME NEW id \in Ping, ProcessPingReq(id)
      PROVE  TypeOK' /\ OneVerdict' /\ Fresh' /\ AuditDue' /\ AuditInTime'
  <2>1. TypeOK'
    <3>1. requests' \subseteq Ping /\ responses' \subseteq Ping
      BY <1>2, Zenon DEF ProcessPingReq, Onward, TypeOK
    <3> QED
      BY <1>2, <3>1, Zenon DEF ProcessPingReq, TypeOK
  <2>2. OneVerdict'
    BY <1>2 DEF ProcessPingReq, TypeOK, OneVerdict, Verdicts, Fresh
  <2>3. Fresh'
    BY <1>2 DEF ProcessPingReq, TypeOK, Fresh
  <2>4. AuditDue'
    BY <1>2 DEF ProcessPingReq, TypeOK, AuditDue
  <2>5. AuditInTime'
    BY <1>2 DEF ProcessPingReq, TypeOK, Fresh, AuditDue, AuditInTime
  <2> QED
    BY <2>1, <2>2, <2>3, <2>4, <2>5
<1>3. ASSUME NEW id \in Ping, ProcessPingRsp(id)
      PROVE  TypeOK' /\ OneVerdict' /\ Fresh' /\ AuditDue' /\ AuditInTime'
  <2>1. TypeOK'
    <3>0. responses' \subseteq responses /\ tracked' \subseteq tracked
      BY <1>3, Zenon DEF ProcessPingRsp, Onward
    <3>1. responses' \subseteq Ping /\ tracked' \subseteq Ping
      BY <3>0, Zenon DEF TypeOK
    <3>2. successes' \in [Ping -> Nat]
      <4>1. successes \in [Ping -> Nat] /\ successes[id] + 1 \in Nat
        BY DEF TypeOK
      <4>2. [successes EXCEPT ![id] = @ + 1] \in [Ping -> Nat]
        BY <4>1
      <4> QED
        BY <1>3, <4>1, <4>2, Zenon DEF ProcessPingRsp
    <3> QED
      BY <1>3, <3>1, <3>2, Zenon DEF ProcessPingRsp, TypeOK
  <2>2. OneVerdict'
    <3>1. failures' = failures /\ sent' = sent /\ running' = running
      BY <1>3 DEF ProcessPingRsp
    <3>2. ASSUME NEW other \in Ping, other # id
          PROVE  successes'[other] = successes[other] /\ (other \in tracked' <=> other \in tracked)
      BY <1>3, <3>2 DEF ProcessPingRsp, TypeOK
    <3>3. CASE id \in tracked
      <4>1. successes'[id] = successes[id] + 1 /\ id \notin tracked'
        BY <1>3, <3>3 DEF ProcessPingRsp, TypeOK
      <4>2. id <= sent /\ running /\ successes[id] + failures[id] = 0
        BY <1>3, <3>3 DEF ProcessPingRsp, TypeOK, OneVerdict, Verdicts, Fresh
      <4>3. successes[id] \in Nat /\ failures[id] \in Nat
        BY DEF TypeOK
      <4>4. successes'[id] + failures'[id] = 1
        BY <3>1, <4>1, <4>2, <4>3
      <4> QED
        BY <3>1, <3>2, <4>1, <4>4 DEF OneVerdict, Verdicts
    <3>4. CASE id \notin tracked
      <4>1. successes' = successes /\ tracked' = tracked
        BY <1>3, <3>4 DEF ProcessPingRsp
      <4> QED
        BY <3>1, <4>1 DEF OneVerdict, Verdicts
    <3> QED
      BY <3>3, <3>4
  <2>3. Fresh'
    BY <1>3 DEF ProcessPingRsp, TypeOK, Fresh
  <2>4. AuditDue'
    BY <1>3 DEF ProcessPingRsp, TypeOK, AuditDue
  <2>5. AuditInTime'
    BY <1>3 DEF ProcessPingRsp, TypeOK, Fresh, AuditDue, AuditInTime
  <2> QED
    BY <2>1, <2>2, <2>3, <2>4, <2>5
<1>4. ASSUME NEW id \in Ping, Lose(id)
      PROVE  TypeOK' /\ OneVerdict' /\ Fresh' /\ AuditDue' /\ AuditInTime'
  <2>1. TypeOK'
    BY <1>4 DEF Lose, TypeOK
  <2>2. OneVerdict'
    BY <1>4 DEF Lose, TypeOK, OneVerdict, Verdicts, Fresh
  <2>3. Fresh'
    BY <1>4 DEF Lose, TypeOK, Fresh
  <2>4. AuditDue'
    BY <1>4 DEF Lose, TypeOK, AuditDue
  <2>5. AuditInTime'
    BY <1>4 DEF Lose, TypeOK, Fresh, AuditDue, AuditInTime
  <2> QED
    BY <2>1, <2>2, <2>3, <2>4, <2>5
<1>5. CASE AuditPings
  <2>1. TypeOK'
    <3>0. tracked' \subseteq tracked
      BY <1>5 DEF AuditPings
    <3>1. tracked' \subseteq Ping /\ nextAudit' \in Nat
      <4>1. nextAudit' \in Nat
        BY <1>5 DEF AuditPings, TypeOK
      <4> QED
        BY <3>0, <4>1, Zenon DEF TypeOK
    <3>2. failures' \in [Ping -> Nat]
      BY <1>5 DEF AuditPings, TypeOK
    <3> QED
      BY <1>5, <3>1, <3>2, Zenon DEF AuditPings, TypeOK
  <2>2. OneVerdict'
    <3>1. successes' = successes /\ sent' = sent /\ running' = running /\ running
      BY <1>5 DEF AuditPings
    <3>2. ASSUME NEW id \in Ping
          PROVE  /\ Verdicts(id)' <= 1
                 /\ id <= sent => (id \in tracked' <=> Verdicts(id)' = 0)
      <4>1. successes[id] \in Nat /\ failures[id] \in Nat
        BY DEF TypeOK
      <4>2. CASE id \in Expired
        <5>1. id \in tracked /\ id \notin tracked' /\ failures'[id] = failures[id] + 1
          BY <1>5, <4>2 DEF AuditPings, Expired
        <5>2. id <= sent /\ successes[id] + failures[id] = 0
          BY <3>1, <5>1 DEF TypeOK, OneVerdict, Verdicts, Fresh
        <5> QED
          BY <3>1, <4>1, <5>1, <5>2 DEF Verdicts
      <4>3. CASE id \notin Expired
        <5>1. (id \in tracked' <=> id \in tracked) /\ failures'[id] = failures[id]
          BY <1>5, <4>3 DEF AuditPings
        <5> QED
          BY <3>1, <5>1 DEF OneVerdict, Verdicts
      <4> QED
        BY <4>2, <4>3
    <3> QED
      BY <3>1, <3>2 DEF OneVerdict
  <2>3. Fresh'
    <3>1. tracked' \subseteq tracked /\ sent' = sent /\ successes' = successes
      BY <1>5 DEF AuditPings
    <3>2. ASSUME NEW id \in Ping, id > sent
          PROVE  failures'[id] = 0
      <4>1. id \notin tracked
        BY <3>2 DEF Fresh, TypeOK
      <4> QED
        BY <1>5, <3>2, <4>1 DEF AuditPings, Expired, TypeOK, Fresh
    <3> QED
      BY <3>1, <3>2 DEF Fresh
  <2>4. AuditDue'
    BY <1>5 DEF AuditPings, Expired, TypeOK, AuditDue
  <2>5. AuditInTime'
    BY <1>5 DEF AuditPings, Expired, TypeOK, Fresh, AuditDue, AuditInTime
  <2> QED
    BY <2>1, <2>2, <2>3, <2>4, <2>5
<1>6. CASE StopApplication
  <2>1. TypeOK'
    BY <1>6 DEF StopApplication, TypeOK
  <2>2. OneVerdict'
    BY <1>6 DEF StopApplication, TypeOK, OneVerdict, Verdicts, Fresh
  <2>3. Fresh'
    BY <1>6 DEF StopApplication, TypeOK, Fresh
  <2>4. AuditDue'
    BY <1>6 DEF StopApplication, TypeOK, AuditDue
  <2>5. AuditInTime'
    BY <1>6 DEF StopApplication, TypeOK, Fresh, AuditDue, AuditInTime
  <2> QED
    BY <2>1, <2>2, <2>3, <2>4, <2>5
<1>7. CASE Tick
  <2>1. TypeOK'
    <3>1. now' \in Nat
      BY <1>7 DEF Tick, TypeOK
    <3> QED
      BY <1>7, <3>1, Zenon DEF Tick, TypeOK
  <2>2. OneVerdict'
    BY <1>7 DEF Tick, TypeOK, OneVerdict, Verdicts, Fresh
  <2>3. Fresh'
    BY <1>7 DEF Tick, TypeOK, Fresh
  <2>4. AuditDue'
    BY <1>7 DEF Tick, TypeOK, AuditDue
  <2>5. AuditInTime'
    BY <1>7 DEF Tick, TypeOK, Fresh, AuditDue, AuditInTime
  <2> QED
    BY <2>1, <2>2, <2>3, <2>4, <2>5
<1>8. CASE UNCHANGED vars
  BY <1>8 DEF vars, TypeOK, OneVerdict, Verdicts, Fresh, AuditDue, AuditInTime
<1> QED
  BY <1>1, <1>2, <1>3, <1>4, <1>5, <1>6, <1>7, <1>8 DEF Next

LEMMA Invariance == Spec => []IInv
  BY InitInv, StepInv, PTL DEF Spec

(* The clock, the counters and the sets of pings keep their types, and the   *)
(* audit timer stays armed (penn-chord.cc:247-396).                          *)
THEOREM TypeCorrect == Spec => []TypeOK
<1>1. IInv => TypeOK
  BY DEF IInv
<1> QED
  BY <1>1, Invariance, PTL

(* No ping is reported twice, whether its answer or the audit comes first    *)
(* (penn-chord.cc:354-396).                                                  *)
THEOREM PingsDecidedOnce == Spec => []OneVerdict
<1>1. IInv => OneVerdict
  BY DEF IInv
<1> QED
  BY <1>1, Invariance, PTL

(* Every ping is reported before twice the timeout has passed: the audit     *)
(* that is due next, or the one after it, finds it expired.                  *)
THEOREM PingsDecidedInTime == Spec => []DecidedInTime
<1>1. IInv => DecidedInTime
  <2> SUFFICES ASSUME IInv, running, NEW id \in tracked
               PROVE  now < stamp[id] + 2 * Timeout
    BY DEF IInv, DecidedInTime
  <2>1. now <= nextAudit /\ nextAudit < stamp[id] + 2 * Timeout
    BY DEF IInv, AuditDue, AuditInTime
  <2>2. now \in Nat /\ nextAudit \in Nat /\ stamp[id] \in Nat
    BY DEF IInv, TypeOK
  <2> QED
    BY <2>1, <2>2, TimeoutAssumption
<1> QED
  BY <1>1, Invariance, PTL
=============================================================================
