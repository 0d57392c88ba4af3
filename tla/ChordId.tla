------------------------------- MODULE ChordId -------------------------------
(***************************************************************************)
(* The identifier circle of PennChord.  In the code an identifier is a     *)
(* 20-byte SHA-1 digest compared byte by byte; here it is the number those *)
(* bytes denote, with M bits in place of 160.  (ChordBytes relates the two *)
(* representations.)                                                       *)
(***************************************************************************)
EXTENDS Naturals

CONSTANT
  M       \* bits of an identifier; also the size of a full finger table (160)

ASSUME MAssumption == M \in Nat \ {0}

Id == 0 .. (2^M - 1)

FingerIndex == 1 .. M

(* The value of compareSHA1(a, b) used as a condition: the function returns *)
(* 1 for greater and 2 for equal, so "true" means greater or equal.         *)
Geq(a, b) == a >= b

(* The interval test that FindSuccessor, ProcessNotify, ProcessStabilizeResp, *)
(* SendFindFinger, ProcessFindFinger, FindNextHop and the two lookup handlers *)
(* all spell out: x lies on the arc from lo clockwise to hi, both ends        *)
(* included, and every x does when lo = hi.                                   *)
InArc(lo, x, hi) ==
  IF Geq(lo, hi) THEN Geq(x, lo) \/ Geq(hi, x)
                 ELSE Geq(hi, x) /\ Geq(x, lo)

(* FindIndexHash: the point 2^(i-1) past the identifier a, modulo 2^M. *)
IndexHash(a, i) == (a + 2^(i - 1)) % 2^M

-----------------------------------------------------------------------------
(* Reference geometry, used to state properties: how far clockwise x is from *)
(* lo, and the arc that excludes its starting point.                         *)
Clockwise(lo, x) == IF x >= lo THEN x - lo ELSE (x + 2^M) - lo

Within(lo, x, hi) == Clockwise(lo, x) <= Clockwise(lo, hi)
=============================================================================
