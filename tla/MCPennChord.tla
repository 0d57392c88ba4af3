----------------------------- MODULE MCPennChord -----------------------------
(***************************************************************************)
(* Small instances of PennChord: three nodes on a circle.                  *)
(***************************************************************************)
EXTENDS PennChordProperties

CONSTANTS n1, n2, n3, MaxJoin, MaxLeave, MaxRingstate, MaxLookup, MaxLoss

(* On a circle of 5 bits.  n2 and n3 are close together, so that an index   *)
(* point of n1 lies past both and its query takes more than one hop; no two  *)
(* digests differ by a power of two, so no index point is exactly a node, as *)
(* none is with 160 bits.                                                    *)
SparseDigest ==
  [a \in Addr |-> CASE a = n1 -> 0 [] a = n2 -> 9 [] a = n3 -> 14 [] a = AnyAddr -> 21]

MCBudget == [c \in Command |->
  CASE c = "JOIN" -> MaxJoin
    [] c = "LEAVE" -> MaxLeave
    [] c = "RINGSTATE" -> MaxRingstate
    [] c = "LOOKUP" -> MaxLookup
    [] c = "LOSS" -> MaxLoss]
=============================================================================
