--------------------------- MODULE ChordId_proofs ---------------------------
(***************************************************************************)
(* The interval tests of PennChord, for a circle of any size.              *)
(***************************************************************************)
EXTENDS ChordId, FiniteSets, FiniteSetTheorems, WellFoundedInduction, TLAPS

(* A least number stands in for an induction. *)
LEMMA Smallest ==
  ASSUME NEW T, T \subseteq Nat, T # {}
  PROVE  \E x \in T : \A y \in T : x <= y
<1>1. PICK x \in T : \A y \in T : ~ (<<y, x>> \in OpToRel(<, Nat))
  BY NatLessThanWellFounded, WFMin
<1>2. \A y \in T : <<y, x>> \in OpToRel(<, Nat) <=> y < x
  BY DEF OpToRel
<1>3. \A y \in T : x \in Nat /\ y \in Nat /\ ~ (y < x)
  BY <1>1, <1>2
<1> QED
  BY <1>3

(* The library counts the subsets of a finite set; that a power of two is a *)
(* positive natural number follows.                                         *)
LEMMA PowerOfTwo ==
  ASSUME NEW k \in Nat
  PROVE  2^k \in Nat /\ 2^k > 0
<1>1. IsFiniteSet(1 .. k) /\ Cardinality(1 .. k) = k
  BY FS_Interval
<1>2. IsFiniteSet(SUBSET (1 .. k)) /\ Cardinality(SUBSET (1 .. k)) = 2^k
  BY <1>1, FS_SUBSET
<1>3. {} \in SUBSET (1 .. k)
  OBVIOUS
<1>4. 2^k \in Nat
  BY <1>2, FS_CardinalityType
<1>5. 2^k # 0
  BY <1>2, <1>3, FS_EmptySet
<1> QED
  BY <1>4, <1>5

(* The two-case comparison the handlers spell out is the closed clockwise   *)
(* arc, wrapped around zero or not, as long as its ends differ; when they   *)
(* coincide it holds for the whole circle, which is how a node alone in its *)
(* ring is responsible for every key.                                       *)
THEOREM ArcIsClosed ==
  ASSUME NEW lo \in Id, NEW x \in Id, NEW hi \in Id
  PROVE  InArc(lo, x, hi) <=> lo = hi \/ Within(lo, x, hi)
<1>1. 2^M \in Nat
  BY MAssumption, PowerOfTwo
<1> QED
  BY <1>1 DEF Id, InArc, Geq, Within, Clockwise

(* Two nodes share the circle: every point is on one of their arcs, and only *)
(* the nodes' own identifiers are on both.                                   *)
THEOREM ArcsShareTheCircle ==
  ASSUME NEW a \in Id, NEW b \in Id, NEW x \in Id, a # b
  PROVE  /\ InArc(a, x, b) \/ InArc(b, x, a)
         /\ InArc(a, x, b) /\ InArc(b, x, a) <=> x \in {a, b}
<1>1. 2^M \in Nat
  BY MAssumption, PowerOfTwo
<1> QED
  BY <1>1 DEF Id, InArc, Geq

(* FindIndexHash stays on the circle. *)
THEOREM IndexHashOnCircle ==
  ASSUME NEW a \in Id, NEW i \in FingerIndex
  PROVE  IndexHash(a, i) \in Id
<1>1. 2^M \in Nat /\ 2^M > 0
  BY MAssumption, PowerOfTwo
<1>2. i - 1 \in Nat
  BY MAssumption DEF FingerIndex
<1>3. 2^(i - 1) \in Nat
  BY <1>2, PowerOfTwo
<1>4. a + 2^(i - 1) \in Nat
  BY <1>1, <1>3 DEF Id
<1> QED
  BY <1>1, <1>4 DEF Id, IndexHash
=============================================================================
