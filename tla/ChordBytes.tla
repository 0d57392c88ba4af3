------------------------------ MODULE ChordBytes ------------------------------
(***************************************************************************)
(* The two loops over digest bytes: compareSHA1 and FindIndexHash, one     *)
(* step per iteration, for digests of any number of bytes of any width.    *)
(* They are related to the arithmetic of ChordId, on which PennChord is    *)
(* built.                                                                  *)
(***************************************************************************)
EXTENDS Naturals

CONSTANTS
  Bytes,      \* bytes of a digest (20)
  Bits        \* bits of a byte (8)

(* A digest has fewer bytes than the 16-bit byteIndex can tell apart. *)
ASSUME SizeAssumption == Bytes \in 1 .. (2^16 - 1) /\ Bits \in Nat \ {0}

C == INSTANCE ChordId WITH M <- Bytes * Bits

Byte == 0 .. (2^Bits - 1)

Digest == [0 .. (Bytes - 1) -> Byte]     \* byte 0 is the most significant

(* The number the bytes of d denote. *)
Value(d) ==
  LET v[k \in 0 .. Bytes] == IF k = 0 THEN 0 ELSE v[k - 1] * 2^Bits + d[k - 1]
  IN v[Bytes]

VARIABLES
  pc,         \* "compare", "add", "done"
  digest1,    \* first argument of compareSHA1, m_localDigest of FindIndexHash
  digest2,    \* second argument of compareSHA1, indexHash of FindIndexHash
  i,          \* byte looked at: i of compareSHA1, byteIndex of FindIndexHash
  carry,      \* byteAdded
  index,      \* finger index, 0 in a comparison
  result      \* value returned by compareSHA1

vars == <<pc, digest1, digest2, i, carry, index, result>>

TypeOK ==
  /\ pc \in {"compare", "add", "done"}
  /\ digest1 \in Digest /\ digest2 \in Digest
  /\ i \in 0 .. (2^16 - 1)
  /\ carry \in Nat
  /\ index \in 0 .. (Bytes * Bits)
  /\ result \in 0 .. 2

-----------------------------------------------------------------------------
StartCompare ==
  /\ pc = "compare"
  /\ digest1 \in Digest /\ digest2 \in Digest
  /\ i = 0 /\ carry = 0 /\ index = 0 /\ result = 0

(* byteIndex = 20 - ((index-1)/8 + 1), byteAdded = 1 << ((index-1) % 8) *)
StartAdd ==
  /\ pc = "add"
  /\ digest1 \in Digest /\ digest2 = digest1
  /\ index \in 1 .. (Bytes * Bits)
  /\ i = Bytes - ((index - 1) \div Bits + 1)
  /\ carry = 2^((index - 1) % Bits)
  /\ result = 0

(* Mutant: a smaller byte does not decide. *)
CompareGreater ==
  /\ pc = "compare"
  /\ \/ i = Bytes /\ result' = 2 /\ pc' = "done" /\ UNCHANGED i
     \/ i < Bytes /\ digest1[i] > digest2[i] /\ result' = 1 /\ pc' = "done" /\ UNCHANGED i
     \/ i < Bytes /\ digest1[i] <= digest2[i] /\ i' = i + 1 /\ UNCHANGED <<pc, result>>
  /\ UNCHANGED <<digest1, digest2, carry, index>>

Compare ==
  /\ pc = "compare"
  /\ \/ i = Bytes /\ result' = 2 /\ pc' = "done" /\ UNCHANGED i
     \/ i < Bytes /\ digest1[i] > digest2[i] /\ result' = 1 /\ pc' = "done" /\ UNCHANGED i
     \/ i < Bytes /\ digest1[i] < digest2[i] /\ result' = 0 /\ pc' = "done" /\ UNCHANGED i
     \/ i < Bytes /\ digest1[i] = digest2[i] /\ i' = i + 1 /\ UNCHANGED <<pc, result>>
  /\ UNCHANGED <<digest1, digest2, carry, index>>

(* Mutant: the byte is not masked. *)
Unmasked(sum) == sum

(* byteAdded & 0xFF *)
LowByte(sum) == sum % 2^Bits

(* Mutant: the carry is dropped. *)
NoCarry(sum) == 0

(* byteAdded >> 8 *)
HighByte(sum) == sum \div 2^Bits

(* byteIndex is an unsigned 16-bit number: a carry out of byte 0 wraps it to *)
(* 65535, and it is "<= 19", not ">= 0", that ends the loop.                 *)
Add ==
  /\ pc = "add"
  /\ \/ i > Bytes - 1 /\ pc' = "done" /\ UNCHANGED <<digest2, i, carry>>
     \/ /\ i <= Bytes - 1
        /\ LET sum == digest2[i] + carry
           IN \/ /\ sum < 2^Bits
                 /\ digest2' = [digest2 EXCEPT ![i] = sum]
                 /\ carry' = sum
                 /\ pc' = "done"
                 /\ UNCHANGED i
              \/ /\ sum >= 2^Bits
                 /\ digest2' = [digest2 EXCEPT ![i] = LowByte(sum)]
                 /\ carry' = HighByte(sum)
                 /\ i' = (i + 2^16 - 1) % 2^16
                 /\ UNCHANGED pc
  /\ UNCHANGED <<digest1, index, result>>

Init == StartCompare \/ StartAdd

Next == Compare \/ Add

Spec == Init /\ [][Next]_vars

-----------------------------------------------------------------------------
(* compareSHA1 used as a condition is the "greater or equal" of the numbers, *)
(* and its value 2, on which ProcessStabilizeResp relies, means equal.       *)
CompareIsGeq ==
  pc = "done" /\ index = 0 =>
    /\ result # 0 <=> C!Geq(Value(digest1), Value(digest2))
    /\ result = 2 <=> digest1 = digest2

(* FindIndexHash adds 2^(index-1) modulo 2^M, whatever the carries. *)
IndexHashIsSum ==
  pc = "done" /\ index # 0 => Value(digest2) = C!IndexHash(Value(digest1), index)
=============================================================================
