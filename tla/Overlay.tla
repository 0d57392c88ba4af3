------------------------------- MODULE Overlay -------------------------------
(***************************************************************************)
(* What the Chord overlay promises the search layer above it: a set of     *)
(* members, lookups that are answered with the member responsible for a    *)
(* key, and notices of the changes that move keys.  PennChord implements   *)
(* it (PennChordProperties), PennSearch is built on it.                    *)
(***************************************************************************)
EXTENDS ChordId

CONSTANTS
  Node,       \* nodes
  Digest,     \* their identifiers, in Id and all different
  Query       \* lookups that may be asked: records with (at least) the asking
              \* node and the key, an identifier

VARIABLES
  member,     \* nodes in the ring
  pending,    \* queries sent into the ring and not yet answered
  upcall      \* callbacks the last step made into the search layer

vars == <<member, pending, upcall>>

(* The member of S first met going clockwise from t, t included. *)
FirstFrom(t, S) ==
  CHOOSE m \in S : \A o \in S : Clockwise(t, Digest[m]) <= Clockwise(t, Digest[o])

Owner(t) == FirstFrom(t, member)

(* The member after n, n itself when it is alone. *)
NextOf(n) == IF member \subseteq {n} THEN n ELSE FirstFrom(Digest[n], member \ {n})

Answer(q) == [type |-> "lookup", query |-> q, addr |-> Owner(q.key)]

(* A member knows the answer by itself when its successor is responsible. *)
Known(q) == InArc(Digest[q.node], q.key, Digest[NextOf(q.node)])

-----------------------------------------------------------------------------
(* Membership does not change under a lookup. *)
Join(n) ==
  /\ n \notin member
  /\ pending = {}
  /\ member' = member \cup {n}
  /\ upcall' = {}
  /\ UNCHANGED pending

(* The leaving member is told who takes over its keys. *)
Leave(n) ==
  /\ n \in member
  /\ pending = {}
  /\ member' = member \ {n}
  /\ upcall' = IF NextOf(n) = n THEN {}
               ELSE {[type |-> "leaveNotify", node |-> n, addr |-> NextOf(n)]}
  /\ UNCHANGED pending

(* A member is told of its predecessor p, to which it must hand over keys. *)
JoinNotify(p) ==
  /\ p \in member
  /\ NextOf(p) # p
  /\ upcall' = {[type |-> "joinNotify", node |-> NextOf(p), addr |-> p]}
  /\ UNCHANGED <<member, pending>>

(* A set of lookups by one member.  All of them are sent into the ring; those *)
(* it can answer itself are answered at once as well.                         *)
Lookup(n, Q) ==
  /\ n \in member
  /\ Q # {} /\ \A q \in Q : q.node = n
  /\ Q \cap pending = {}
  /\ pending' = pending \cup Q
  /\ upcall' = {Answer(q) : q \in {p \in Q : Known(p)}}
  /\ UNCHANGED member

Reply(q) ==
  /\ q \in pending
  /\ pending' = pending \ {q}
  /\ upcall' = {Answer(q)}
  /\ UNCHANGED member

(* Work of the overlay that the search layer sees nothing of. *)
Silent == upcall' = {} /\ UNCHANGED <<member, pending>>

Init == member = {} /\ pending = {} /\ upcall = {}

Next ==
  \/ \E n \in Node : Join(n) \/ Leave(n) \/ JoinNotify(n)
  \/ \E n \in Node : \E Q \in SUBSET Query : Lookup(n, Q)
  \/ \E q \in Query : Reply(q)
  \/ Silent

Spec == Init /\ [][Next]_vars
=============================================================================
