----------------------------- MODULE PingTracker -----------------------------
(***************************************************************************)
(* The ping tracker of a node (m_pingTracker with its audit timer), the    *)
(* same code in PennChord, PennSearch and the two routing protocols: pings *)
(* are answered, lost or audited away while time passes.                   *)
(*                                                                         *)
(* Time is counted in units of any length.  The event scheduler never lets *)
(* the clock pass an event that is due.  A ping to an unknown node is      *)
(* reported as a failure on the spot and never tracked; it is left out.    *)
(***************************************************************************)
EXTENDS Naturals

CONSTANTS
  Timeout,    \* m_pingTimeout: age at which a ping expires, and audit period
  MaxPing,    \* bound on the pings sent
  MaxTime     \* bound on the clock

ASSUME TimeoutAssumption == Timeout \in Nat \ {0}

ASSUME BoundAssumption == MaxPing \in Nat /\ MaxTime \in Nat

Ping == 1 .. MaxPing      \* by transaction id, counted from the first one

VARIABLES
  now,         \* Simulator::Now ()
  running,     \* between StartApplication and StopApplication
  nextAudit,   \* when m_auditPingsTimer expires
  sent,        \* transaction ids handed out
  tracked,     \* keys of m_pingTracker
  stamp,       \* the time stamp of every ping sent
  requests,    \* PING_REQs in flight
  responses,   \* PING_RSPs in flight
  successes,   \* calls of m_pingSuccessFn, for each ping
  failures     \* calls of m_pingFailureFn

vars == <<now, running, nextAudit, sent, tracked, stamp, requests, responses,
          successes, failures>>

TypeOK ==
  /\ now \in Nat
  /\ running \in BOOLEAN
  /\ nextAudit \in Nat
  /\ sent \in 0 .. MaxPing
  /\ tracked \subseteq Ping
  /\ stamp \in [Ping -> Nat]
  /\ requests \subseteq Ping
  /\ responses \subseteq Ping
  /\ successes \in [Ping -> Nat]
  /\ failures \in [Ping -> Nat]

-----------------------------------------------------------------------------
SendPing ==
  /\ running
  /\ sent < MaxPing
  /\ sent' = sent + 1
  /\ tracked' = tracked \cup {sent + 1}
  /\ stamp' = [stamp EXCEPT ![sent + 1] = now]
  /\ requests' = requests \cup {sent + 1}
  /\ UNCHANGED <<now, running, nextAudit, responses, successes, failures>>

(* What may still be on its way when a packet has arrived: the               *)
(* distance-vector protocol sends one on every interface, so that over        *)
(* parallel links a copy may follow.                                        *)
Onward(packets, id) == {packets, packets \ {id}}

(* At the node that is pinged. *)
ProcessPingReq(id) ==
  /\ id \in requests
  /\ requests' \in Onward(requests, id)
  /\ responses' = responses \cup {id}
  /\ UNCHANGED <<now, running, nextAudit, sent, tracked, stamp, successes, failures>>

(* Mutant: an answer is reported whether or not its ping is still tracked. *)
ProcessAnyPingRsp(id) ==
  /\ running
  /\ id \in responses
  /\ responses' \in Onward(responses, id)
  /\ tracked' = tracked \ {id}
  /\ successes' = [successes EXCEPT ![id] = @ + 1]
  /\ UNCHANGED <<now, running, nextAudit, sent, stamp, requests, failures>>

(* An answer to a ping that has expired, or was answered, is ignored. *)
ProcessPingRsp(id) ==
  /\ running
  /\ id \in responses
  /\ responses' \in Onward(responses, id)
  /\ tracked' = tracked \ {id}
  /\ successes' = IF id \in tracked THEN [successes EXCEPT ![id] = @ + 1] ELSE successes
  /\ UNCHANGED <<now, running, nextAudit, sent, stamp, requests, failures>>

(* Mutant: a ping must be older than the timeout to expire. *)
ExpiredAfter == {id \in tracked : stamp[id] + Timeout < now}

Expired == {id \in tracked : stamp[id] + Timeout <= now}

AuditPings ==
  /\ running
  /\ now = nextAudit
  /\ tracked' = tracked \ Expired
  /\ failures' = [id \in Ping |-> IF id \in Expired THEN failures[id] + 1 ELSE failures[id]]
  /\ nextAudit' = now + Timeout
  /\ UNCHANGED <<now, running, sent, stamp, requests, responses, successes>>

(* The socket is closed and the tracker forgotten, undecided pings with it. *)
StopApplication ==
  /\ running
  /\ running' = FALSE
  /\ tracked' = {}
  /\ UNCHANGED <<now, nextAudit, sent, stamp, requests, responses, successes, failures>>

Lose(id) ==
  /\ requests' = requests \ {id}
  /\ responses' = responses \ {id}
  /\ <<requests', responses'>> # <<requests, responses>>
  /\ UNCHANGED <<now, running, nextAudit, sent, tracked, stamp, successes, failures>>

Tick ==
  /\ now < MaxTime
  /\ ~(running /\ now = nextAudit)
  /\ now' = now + 1
  /\ UNCHANGED <<running, nextAudit, sent, tracked, stamp, requests, responses,
                 successes, failures>>

Init ==
  /\ now = 0
  /\ running = TRUE
  /\ nextAudit = Timeout
  /\ sent = 0
  /\ tracked = {}
  /\ stamp = [id \in Ping |-> 0]
  /\ requests = {}
  /\ responses = {}
  /\ successes = [id \in Ping |-> 0]
  /\ failures = [id \in Ping |-> 0]

Next ==
  \/ SendPing
  \/ \E id \in Ping : ProcessPingReq(id) \/ ProcessPingRsp(id) \/ Lose(id)
  \/ AuditPings
  \/ StopApplication
  \/ Tick

Spec == Init /\ [][Next]_vars

-----------------------------------------------------------------------------
(* How often ping id was reported. *)
Verdicts(id) == successes[id] + failures[id]

(* However answers and their copies race the audit, a ping is reported      *)
(* once: while it is tracked not at all, afterwards as a success or as a    *)
(* failure, never both, never twice; only the pings that StopApplication    *)
(* finds tracked go unreported.                                            *)
OneVerdict ==
  \A id \in Ping :
    /\ Verdicts(id) <= 1
    /\ running /\ id <= sent => (id \in tracked <=> Verdicts(id) = 0)

(* A running node knows the fate of a ping before twice the timeout: the *)
(* audit that is too early for it is followed by one that is not.        *)
DecidedInTime ==
  running => \A id \in tracked : now < stamp[id] + 2 * Timeout
=============================================================================
