---------------------------- MODULE MCPennSearch ----------------------------
(***************************************************************************)
(* Small instances of PennSearch: three nodes on a circle of 4 bits.       *)
(***************************************************************************)
EXTENDS PennSearchProperties

CONSTANTS n1, n2, n3, d1, d2, MaxKeys

MCDigest == [n \in Node |-> CASE n = n1 -> 1 [] n = n2 -> 6 [] n = n3 -> 11]

(* d1 under every key; d2 under every key, and both under the least; d1 under *)
(* the least key alone.  Together and one after the other they give keys with *)
(* and without a list, equal lists, and lists with a proper intersection.     *)
Least(k) == \A j \in Key : k <= j

MCFile == {
  [k \in Key |-> {d1}],
  [k \in Key |-> IF Least(k) THEN {d1, d2} ELSE {d2}],
  [k \in Key |-> IF Least(k) THEN {d1} ELSE {}] }

MCKeyList ==
  {ks \in UNION {[1 .. i -> Key] : i \in 1 .. MaxKeys} :
     \A i, j \in DOMAIN ks : ks[i] = ks[j] => i = j}
=============================================================================
