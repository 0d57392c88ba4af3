-------------------------- MODULE ChordBytes_proofs --------------------------
(***************************************************************************)
(* The loops over digest bytes, for digests of any length and bytes of any  *)
(* width: they compare and add numbers.                                    *)
(***************************************************************************)
EXTENDS ChordBytes, FiniteSets, FiniteSetTheorems, WellFoundedInduction, TLAPS

N == INSTANCE ChordId_proofs WITH M <- Bytes * Bits

LEMMA PowerOfTwo == ASSUME NEW k \in Nat PROVE 2^k \in Nat /\ 2^k > 0
<1>1. Bytes * Bits \in Nat \ {0}
  BY SizeAssumption
<1> QED
  BY <1>1, N!PowerOfTwo

LEMMA Sizes ==
  /\ Bytes \in Nat \ {0} /\ Bits \in Nat \ {0} /\ Bytes * Bits \in Nat \ {0}
  /\ 2^16 \in Nat /\ Bytes < 2^16
<1>1. 2^16 \in Nat
  BY PowerOfTwo
<1> QED
  BY <1>1, SizeAssumption

Base == 2^Bits

(* A set of natural numbers has a smallest element. *)
LEMMA Smallest ==
  ASSUME NEW T, T \subseteq Nat, T # {}
  PROVE  \E x \in T : \A y \in T : x <= y
<1>1. PICK x \in T : \A y \in T : ~ (<<y, x>> \in OpToRel(<, Nat))
  BY NatLessThanWellFounded, WFMin
<1>2. \A y \in T : <<y, x>> \in OpToRel(<, Nat) <=> y < x
  BY DEF OpToRel
<1>3. \A y \in T : x \in Nat /\ y \in Nat /\ ~ (y < x)
  BY <1>1, <1>2
<1> QED
  BY <1>3

LEMMA BasePositive == Base \in Nat /\ Base > 0 /\ Byte = 0 .. (Base - 1)
  BY Sizes, PowerOfTwo DEF Base, Byte

(* f[k] is the number that the first k bytes of d denote. *)
Denotes(f, d) ==
  f = [k \in 0 .. Bytes |-> IF k = 0 THEN 0 ELSE f[k - 1] * Base + d[k - 1]]

DenotesUpTo(f, d, n) ==
  f = [k \in 0 .. n |-> IF k = 0 THEN 0 ELSE f[k - 1] * Base + d[k - 1]]

LEMMA DenotedUpTo ==
  ASSUME NEW d \in Digest, NEW n \in Nat
  PROVE  \E f : DenotesUpTo(f, d, n)
<1> DEFINE T == {k \in Nat : ~ \E f : DenotesUpTo(f, d, k)}
<1> SUFFICES ASSUME T # {} PROVE FALSE
  OBVIOUS
<1>a. T \subseteq Nat /\ T # {}
  OBVIOUS
<1> HIDE DEF T
<1>1. PICK k \in T : \A j \in T : k <= j
  BY <1>a, Smallest
<1> USE DEF T
<1>2. CASE k = 0
  <2>1. DenotesUpTo([j \in 0 .. 0 |-> 0], d, 0)
    BY DEF DenotesUpTo
  <2> QED
    BY <1>2, <2>1
<1>3. CASE k # 0
  <2>1. k - 1 \in Nat /\ k - 1 \notin T
    BY <1>1, <1>3
  <2>2. PICK f : DenotesUpTo(f, d, k - 1)
    BY <2>1
  <2> DEFINE g == [j \in 0 .. k |-> IF j = k THEN f[k - 1] * Base + d[k - 1] ELSE f[j]]
  <2>3. f = [j \in 0 .. k - 1 |-> IF j = 0 THEN 0 ELSE f[j - 1] * Base + d[j - 1]]
    BY <2>2 DEF DenotesUpTo
  <2>4. ASSUME NEW j \in 0 .. k
        PROVE  g[j] = IF j = 0 THEN 0 ELSE g[j - 1] * Base + d[j - 1]
    <3>1. CASE j = k
      <4>1. g[j] = f[k - 1] * Base + d[k - 1]
        BY <3>1
      <4>2. g[j - 1] = f[k - 1]
        BY <1>3, <2>1, <3>1
      <4> QED
        BY <1>3, <3>1, <4>1, <4>2
    <3>2. CASE j # k
      <4>1. j \in 0 .. k - 1
        BY <2>1, <3>2
      <4>2. g[j] = f[j]
        BY <3>2
      <4>3. j # 0 => j - 1 \in 0 .. k /\ j - 1 # k
        BY <4>1
      <4>4. j # 0 => g[j - 1] = f[j - 1]
        BY <4>3
      <4> QED
        BY <2>3, <4>1, <4>2, <4>4
    <3> QED
      BY <3>1, <3>2
  <2>5. g = [j \in 0 .. k |-> IF j = 0 THEN 0 ELSE g[j - 1] * Base + d[j - 1]]
    BY <2>4
  <2>6. DenotesUpTo(g, d, k)
    BY <2>5 DEF DenotesUpTo
  <2> QED
    BY <2>6
<1> QED
  BY <1>2, <1>3

(* The value of a digest, with those of its prefixes. *)
LEMMA ValueIs ==
  ASSUME NEW d \in Digest
  PROVE  \E f : Denotes(f, d) /\ Value(d) = f[Bytes]
<1>1. \E f : Denotes(f, d)
  BY DenotedUpTo, Sizes DEF Denotes, DenotesUpTo
<1> QED
  BY <1>1 DEF Denotes, Value, Base

LEMMA PrefixesAreNumbers ==
  ASSUME NEW d \in Digest, NEW f, Denotes(f, d)
  PROVE  /\ f[0] = 0
         /\ \A k \in 0 .. Bytes : f[k] \in Nat
         /\ \A k \in 0 .. (Bytes - 1) : f[k + 1] = f[k] * Base + d[k] /\ d[k] \in 0 .. (Base - 1)
<1>1. /\ f[0] = 0
      /\ \A k \in 0 .. (Bytes - 1) : f[k + 1] = f[k] * Base + d[k] /\ d[k] \in 0 .. (Base - 1)
  <2>1. f = [k \in 0 .. Bytes |-> IF k = 0 THEN 0 ELSE f[k - 1] * Base + d[k - 1]]
    BY DEF Denotes
  <2>2. f[0] = 0
    BY <2>1, Sizes
  <2>3. ASSUME NEW k \in 0 .. (Bytes - 1)
        PROVE  f[k + 1] = f[k] * Base + d[k]
    <3>1. k + 1 \in 0 .. Bytes /\ k + 1 # 0 /\ (k + 1) - 1 = k
      BY Sizes
    <3>2. f[k + 1] = f[(k + 1) - 1] * Base + d[(k + 1) - 1]
      BY <2>1, <3>1
    <3> QED
      BY <3>1, <3>2
  <2> QED
    BY <2>2, <2>3, BasePositive DEF Digest
<1> DEFINE T == {k \in Nat : k <= Bytes /\ f[k] \notin Nat}
<1>2. SUFFICES ASSUME T # {} PROVE FALSE
  BY <1>1
<1>a. T \subseteq Nat /\ T # {}
  BY <1>2
<1> HIDE DEF T
<1>3. PICK k \in T : \A j \in T : k <= j
  BY <1>a, Smallest
<1> USE DEF T
<1>4. k # 0
  BY <1>1, <1>3
<1>5. k - 1 \in 0 .. (Bytes - 1) /\ k - 1 \notin T /\ (k - 1) + 1 = k
  BY <1>3, <1>4, Sizes
<1>6. f[k - 1] \in Nat
  BY <1>5, Sizes
<1>7. f[k] = f[k - 1] * Base + d[k - 1] /\ d[k - 1] \in Nat
  BY <1>1, <1>5, BasePositive
<1>8. f[k - 1] * Base \in Nat
  BY <1>6, BasePositive
<1> QED
  BY <1>3, <1>7, <1>8

-----------------------------------------------------------------------------
(* Comparison. *)

AgreeBelow(a, b, n) == \A j \in 0 .. (Bytes - 1) : j < n => a[j] = b[j]

LEMMA PrefixesAgree ==
  ASSUME NEW a \in Digest, NEW b \in Digest, NEW f, NEW g, Denotes(f, a), Denotes(g, b),
         NEW n \in 0 .. Bytes, AgreeBelow(a, b, n)
  PROVE  f[n] = g[n]
<1> DEFINE T == {k \in Nat : k <= n /\ f[k] # g[k]}
<1>1. SUFFICES ASSUME T # {} PROVE FALSE
  OBVIOUS
<1>a. T \subseteq Nat /\ T # {}
  BY <1>1
<1> HIDE DEF T
<1>2. PICK k \in T : \A j \in T : k <= j
  BY <1>a, Smallest
<1> USE DEF T
<1>3. k # 0
  BY <1>2, PrefixesAreNumbers
<1>4. k - 1 \in 0 .. (Bytes - 1) /\ k - 1 < n /\ k - 1 \notin T /\ (k - 1) + 1 = k
  BY <1>2, <1>3, Sizes
<1>5. f[k - 1] = g[k - 1] /\ a[k - 1] = b[k - 1]
  BY <1>4 DEF AgreeBelow
<1>6. f[(k - 1) + 1] = f[k - 1] * Base + a[k - 1] /\ g[(k - 1) + 1] = g[k - 1] * Base + b[k - 1]
  BY <1>4, PrefixesAreNumbers
<1> QED
  BY <1>2, <1>4, <1>5, <1>6

(* A prefix that is greater stays so, whatever bytes follow. *)
LEMMA GreaterStays ==
  ASSUME NEW x \in Nat, NEW y \in Nat, x > y, NEW c \in Nat, NEW e \in 0 .. (Base - 1)
  PROVE  x * Base + c > y * Base + e
<1>1. Base \in Nat /\ Base > 0
  BY BasePositive
<1>2. PICK z \in Nat : x = y + 1 + z
  <2>1. x - y - 1 \in Nat /\ x = y + 1 + (x - y - 1)
    OBVIOUS
  <2> QED
    BY <2>1
<1>3. x * Base = y * Base + Base + z * Base
  BY <1>1, <1>2
<1>4. z * Base \in Nat /\ y * Base \in Nat
  BY <1>1
<1> QED
  BY <1>1, <1>3, <1>4

LEMMA FirstByteDecides ==
  ASSUME NEW a \in Digest, NEW b \in Digest, NEW n \in 0 .. (Bytes - 1), AgreeBelow(a, b, n), a[n] > b[n]
  PROVE  Value(a) > Value(b)
<1>1. PICK f : Denotes(f, a) /\ Value(a) = f[Bytes]
  BY ValueIs
<1>2. PICK g : Denotes(g, b) /\ Value(b) = g[Bytes]
  BY ValueIs
<1>3. /\ \A k \in 0 .. Bytes : f[k] \in Nat /\ g[k] \in Nat
      /\ \A k \in 0 .. (Bytes - 1) : /\ f[k + 1] = f[k] * Base + a[k] /\ a[k] \in 0 .. (Base - 1)
                                     /\ g[k + 1] = g[k] * Base + b[k] /\ b[k] \in 0 .. (Base - 1)
  BY <1>1, <1>2, PrefixesAreNumbers
<1>4. f[n] = g[n]
  BY <1>1, <1>2, PrefixesAgree, Sizes
<1>5. f[n + 1] > g[n + 1]
  <2>1. f[n] * Base \in Nat /\ f[n] * Base = g[n] * Base
    BY <1>3, <1>4, BasePositive, Sizes
  <2> QED
    BY <1>3, <2>1, BasePositive
<1> DEFINE T == {k \in Nat : n + 1 <= k /\ k <= Bytes /\ ~ f[k] > g[k]}
<1>6. SUFFICES ASSUME T # {} PROVE FALSE
  BY <1>1, <1>2, Sizes
<1>a. T \subseteq Nat /\ T # {}
  BY <1>6
<1> HIDE DEF T
<1>7. PICK k \in T : \A j \in T : k <= j
  BY <1>a, Smallest
<1> USE DEF T
<1>8. k # n + 1
  BY <1>5, <1>7
<1>9. k - 1 \in 0 .. (Bytes - 1) /\ k - 1 \notin T /\ (k - 1) + 1 = k /\ n + 1 <= k - 1
  BY <1>7, <1>8, Sizes
<1>10. f[k - 1] > g[k - 1]
  BY <1>9, Sizes
<1>11. f[(k - 1) + 1] > g[(k - 1) + 1]
  <2>1. f[k - 1] \in Nat /\ g[k - 1] \in Nat /\ a[k - 1] \in Nat /\ b[k - 1] \in 0 .. (Base - 1)
    BY <1>3, <1>9, BasePositive, Sizes
  <2>2. f[k - 1] * Base + a[k - 1] > g[k - 1] * Base + b[k - 1]
    BY <1>10, <2>1, GreaterStays
  <2> QED
    BY <1>3, <1>9, <2>2
<1> QED
  BY <1>7, <1>9, <1>11

LEMMA ValueIsNumber == ASSUME NEW d \in Digest PROVE Value(d) \in Nat
  BY ValueIs, PrefixesAreNumbers, Sizes

-----------------------------------------------------------------------------
(* Addition. *)

LEMMA SumOfExponents ==
  ASSUME NEW a \in Nat, NEW b \in Nat
  PROVE  2^(a + b) = 2^a * 2^b
<1> DEFINE A == 1 .. a
           B == (a + 1) .. (a + b)
           S == 1 .. (a + b)
           F == [X \in SUBSET S |-> <<X \cap A, X \cap B>>]
<1>1. S = A \cup B /\ A \cap B = {}
  OBVIOUS
<1>2. /\ IsFiniteSet(A) /\ Cardinality(A) = a
      /\ IsFiniteSet(B) /\ Cardinality(B) = b
      /\ IsFiniteSet(S) /\ Cardinality(S) = a + b
  <2>1. IsFiniteSet(A) /\ Cardinality(A) = a
    BY FS_Interval
  <2>2. IsFiniteSet(B) /\ Cardinality(B) = b
    <3>1. a + 1 \in Int /\ a + b \in Int
      OBVIOUS
    <3>2. /\ IsFiniteSet(B)
          /\ Cardinality(B) = IF a + 1 > a + b THEN 0 ELSE (a + b) - (a + 1) + 1
      BY <3>1, FS_Interval
    <3> HIDE DEF B
    <3> QED
      BY <3>2
  <2>3. IsFiniteSet(S) /\ Cardinality(S) = a + b
    <3>1. 1 \in Int /\ a + b \in Int
      OBVIOUS
    <3>2. /\ IsFiniteSet(S)
          /\ Cardinality(S) = IF 1 > a + b THEN 0 ELSE (a + b) - 1 + 1
      BY <3>1, FS_Interval
    <3> HIDE DEF S
    <3> QED
      BY <3>2
  <2> QED
    BY <2>1, <2>2, <2>3
<1> HIDE DEF A, B, S
<1>3. F \in Bijection(SUBSET S, (SUBSET A) \X (SUBSET B))
  <2>1. F \in [SUBSET S -> (SUBSET A) \X (SUBSET B)]
    BY Zenon
  <2>2. ASSUME NEW X \in SUBSET S, NEW Y \in SUBSET S, F[X] = F[Y]
        PROVE  X = Y
    <3>1. X \cap A = Y \cap A /\ X \cap B = Y \cap B
      BY <2>2
    <3> QED
      BY <1>1, <3>1
  <2>3. ASSUME NEW U \in SUBSET A, NEW V \in SUBSET B
        PROVE  \E X \in SUBSET S : F[X] = <<U, V>>
    <3>1. (U \cup V) \in SUBSET S /\ (U \cup V) \cap A = U /\ (U \cup V) \cap B = V
      BY <1>1
    <3> QED
      BY <3>1
  <2>4. ASSUME NEW P \in (SUBSET A) \X (SUBSET B)
        PROVE  \E X \in SUBSET S : F[X] = P
    <3>1. PICK U \in SUBSET A, V \in SUBSET B : P = <<U, V>>
      OBVIOUS
    <3> HIDE DEF F
    <3> QED
      BY <2>3, <3>1
  <2> HIDE DEF F
  <2> QED
    BY <2>1, <2>2, <2>4 DEF Bijection, Injection, Surjection, IsInjective
<1>4. /\ IsFiniteSet(SUBSET S) /\ Cardinality(SUBSET S) = 2^(a + b)
      /\ IsFiniteSet(SUBSET A) /\ Cardinality(SUBSET A) = 2^a
      /\ IsFiniteSet(SUBSET B) /\ Cardinality(SUBSET B) = 2^b
  <2>1. IsFiniteSet(SUBSET S) /\ Cardinality(SUBSET S) = 2^(a + b)
    BY <1>2, FS_SUBSET
  <2>2. IsFiniteSet(SUBSET A) /\ Cardinality(SUBSET A) = 2^a
    BY <1>2, FS_SUBSET
  <2>3. IsFiniteSet(SUBSET B) /\ Cardinality(SUBSET B) = 2^b
    BY <1>2, FS_SUBSET
  <2> QED
    BY <2>1, <2>2, <2>3
<1>5. Cardinality((SUBSET A) \X (SUBSET B)) = 2^a * 2^b
  <2>1. Cardinality((SUBSET A) \X (SUBSET B)) = Cardinality(SUBSET A) * Cardinality(SUBSET B)
    BY <1>4, FS_Product
  <2> QED
    BY <1>4, <2>1
<1>6. Cardinality((SUBSET A) \X (SUBSET B)) = Cardinality(SUBSET S)
  BY <1>3, <1>4, FS_Bijection DEF ExistsBijection
<1> QED
  BY <1>4, <1>5, <1>6

LEMMA PowerOfZero == 2^0 = 1
<1>1. IsFiniteSet({}) /\ Cardinality({}) = 0
  BY FS_EmptySet
<1>2. Cardinality(SUBSET {}) = 2^0
  BY <1>1, FS_SUBSET
<1>3. SUBSET {} = {{}}
  OBVIOUS
<1> QED
  BY <1>2, <1>3, FS_Singleton

LEMMA Distributed ==
  ASSUME NEW p \in Nat, NEW q \in Nat, NEW r \in Nat, NEW s \in Nat
  PROVE  (p + q * r) * s = p * s + q * (r * s)
<1>1. (p + q * r) * s = p * s + (q * r) * s
  OBVIOUS
<1>2. (q * r) * s = q * (r * s)
  OBVIOUS
<1> QED
  BY <1>1, <1>2

(* What the last k bytes can count to. *)
Weight(k) == 2^(Bits * k)

LEMMA Weights ==
  /\ Weight(0) = 1
  /\ \A k \in Nat : Weight(k) \in Nat /\ Weight(k) > 0 /\ Weight(k + 1) = Weight(k) * Base
<1>1. Bits * 0 = 0
  BY Sizes
<1>2. ASSUME NEW k \in Nat
      PROVE  Weight(k) \in Nat /\ Weight(k) > 0 /\ Weight(k + 1) = Weight(k) * Base
  <2>1. Bits * k \in Nat /\ Bits * (k + 1) = Bits * k + Bits
    BY Sizes
  <2> QED
    BY <2>1, Sizes, SumOfExponents, PowerOfTwo DEF Weight, Base
<1> QED
  BY <1>1, <1>2, PowerOfZero DEF Weight

LEMMA ValueBounded == ASSUME NEW d \in Digest PROVE Value(d) < Weight(Bytes)
<1>1. PICK f : Denotes(f, d) /\ Value(d) = f[Bytes]
  BY ValueIs
<1>2. /\ f[0] = 0
      /\ \A k \in 0 .. Bytes : f[k] \in Nat
      /\ \A k \in 0 .. (Bytes - 1) : f[k + 1] = f[k] * Base + d[k] /\ d[k] \in 0 .. (Base - 1)
  BY <1>1, PrefixesAreNumbers
<1> DEFINE T == {k \in Nat : k <= Bytes /\ ~ f[k] < Weight(k)}
<1>3. SUFFICES ASSUME T # {} PROVE FALSE
  BY <1>1, Sizes
<1>a. T \subseteq Nat /\ T # {}
  BY <1>3
<1> HIDE DEF T
<1>4. PICK k \in T : \A j \in T : k <= j
  BY <1>a, Smallest
<1> USE DEF T
<1>5. k # 0
  BY <1>2, <1>4, Weights
<1> DEFINE m == k - 1
<1>6. m \in 0 .. (Bytes - 1) /\ m \in Nat /\ m \notin T /\ m + 1 = k
  BY <1>4, <1>5, Sizes
<1> HIDE DEF m
<1>7. f[m] \in Nat /\ Weight(m) \in Nat /\ f[m] + 1 <= Weight(m)
  BY <1>2, <1>6, Weights, Sizes
<1>8. (f[m] + 1) * Base <= Weight(m) * Base
  <2>1. \A x, y, z \in Nat : x <= y => x * z <= y * z
    OBVIOUS
  <2> QED
    BY <1>7, <2>1, BasePositive
<1>9. (f[m] + 1) * Base = f[m] * Base + Base /\ f[m] * Base \in Nat /\ Weight(m) * Base \in Nat
  <2>1. \A x, z \in Nat : (x + 1) * z = x * z + z
    OBVIOUS
  <2>2. \A x, z \in Nat : x * z \in Nat
    OBVIOUS
  <2>3. Base \in Nat
    BY BasePositive
  <2>4. (f[m] + 1) * Base = f[m] * Base + Base
    BY <1>7, <2>1, <2>3, Zenon
  <2>5. f[m] * Base \in Nat /\ Weight(m) * Base \in Nat
    BY <1>7, <2>2, <2>3, Zenon
  <2> QED
    BY <2>4, <2>5
<1>10. f[m + 1] = f[m] * Base + d[m] /\ d[m] \in 0 .. (Base - 1) /\ Weight(m + 1) = Weight(m) * Base
  BY <1>2, <1>6, Weights
<1>11. f[m + 1] < Weight(m + 1)
  BY <1>8, <1>9, <1>10, BasePositive
<1> QED
  BY <1>4, <1>6, <1>11

(* A byte counts as often as the bytes after it can count to. *)
LEMMA ByteChanged ==
  ASSUME NEW d \in Digest, NEW n \in 0 .. (Bytes - 1), NEW x \in Byte
  PROVE  /\ [d EXCEPT ![n] = x] \in Digest
         /\ Value([d EXCEPT ![n] = x]) + d[n] * Weight(Bytes - 1 - n) = Value(d) + x * Weight(Bytes - 1 - n)
<1> DEFINE b == [d EXCEPT ![n] = x]
<1>1. b \in Digest /\ b[n] = x /\ \A j \in 0 .. (Bytes - 1) : j # n => b[j] = d[j]
  BY DEF Digest
<1> HIDE DEF b
<1>2. PICK f : Denotes(f, d) /\ Value(d) = f[Bytes]
  BY ValueIs
<1>3. PICK g : Denotes(g, b) /\ Value(b) = g[Bytes]
  BY <1>1, ValueIs
<1>4. /\ \A k \in 0 .. Bytes : f[k] \in Nat /\ g[k] \in Nat
      /\ \A k \in 0 .. (Bytes - 1) : /\ f[k + 1] = f[k] * Base + d[k] /\ d[k] \in 0 .. (Base - 1)
                                     /\ g[k + 1] = g[k] * Base + b[k] /\ b[k] \in 0 .. (Base - 1)
  BY <1>1, <1>2, <1>3, PrefixesAreNumbers
<1>5. f[n] = g[n]
  <2>1. AgreeBelow(d, b, n) /\ n \in 0 .. Bytes
    BY <1>1, Sizes DEF AgreeBelow
  <2> QED
    BY <1>1, <1>2, <1>3, <2>1, PrefixesAgree
<1>6. x \in Nat /\ d[n] \in Nat
  BY <1>1, <1>4, BasePositive
<1> DEFINE Shifted(k) == g[k] + d[n] * Weight(k - 1 - n) = f[k] + x * Weight(k - 1 - n)
           T == {k \in Nat : n + 1 <= k /\ k <= Bytes /\ ~ Shifted(k)}
<1>7. Shifted(n + 1)
  <2>1. f[n] * Base \in Nat
    BY <1>4, BasePositive, Sizes
  <2>2. g[n + 1] = f[n] * Base + x /\ f[n + 1] = f[n] * Base + d[n]
    BY <1>1, <1>4, <1>5
  <2>3. (n + 1) - 1 - n = 0 /\ d[n] * 1 = d[n] /\ x * 1 = x
    BY <1>6
  <2> QED
    BY <1>6, <2>1, <2>2, <2>3, Weights
<1>8. SUFFICES T = {}
  BY <1>1, <1>2, <1>3, Sizes DEF b
<1>9. SUFFICES ASSUME T # {} PROVE FALSE
  OBVIOUS
<1>a. T \subseteq Nat /\ T # {}
  BY <1>9
<1> HIDE DEF T
<1>10. PICK k \in T : \A j \in T : k <= j
  BY <1>a, Smallest
<1> USE DEF T
<1> HIDE DEF Shifted
<1>11. k # n + 1
  BY <1>7, <1>10
<1> DEFINE m == k - 1
           w == Weight(m - 1 - n)
<1>12. m \in 0 .. (Bytes - 1) /\ m \in 0 .. Bytes /\ n + 1 <= m /\ m \notin T /\ m + 1 = k /\ m # n
  BY <1>10, <1>11, Sizes
<1>13. m - 1 - n \in Nat /\ (m - 1 - n) + 1 = k - 1 - n
  BY <1>12
<1> HIDE DEF m
<1>14. w \in Nat /\ Weight(k - 1 - n) = w * Base
  BY <1>13, Weights
<1>15. g[m] + d[n] * w = f[m] + x * w
  BY <1>12, Sizes DEF Shifted
<1> HIDE DEF w
<1>16. f[m] \in Nat /\ g[m] \in Nat /\ d[m] \in Nat /\ b[m] = d[m]
  BY <1>1, <1>4, <1>12, BasePositive
<1>17. g[k] = g[m] * Base + d[m] /\ f[k] = f[m] * Base + d[m]
  BY <1>4, <1>12, <1>16
<1>18. (g[m] + d[n] * w) * Base = (f[m] + x * w) * Base
  BY <1>15
<1>19. /\ (g[m] + d[n] * w) * Base = g[m] * Base + d[n] * (w * Base)
       /\ (f[m] + x * w) * Base = f[m] * Base + x * (w * Base)
  <2>1. Base \in Nat
    BY BasePositive
  <2>2. (g[m] + d[n] * w) * Base = g[m] * Base + d[n] * (w * Base)
    BY <1>6, <1>14, <1>16, <2>1, Distributed
  <2>3. (f[m] + x * w) * Base = f[m] * Base + x * (w * Base)
    BY <1>6, <1>14, <1>16, <2>1, Distributed
  <2> QED
    BY <2>2, <2>3
<1>20. /\ g[m] * Base \in Nat /\ f[m] * Base \in Nat
       /\ d[n] * (w * Base) \in Nat /\ x * (w * Base) \in Nat
  BY <1>6, <1>14, <1>16, BasePositive
<1>21. g[k] + d[n] * (w * Base) = f[k] + x * (w * Base)
  BY <1>16, <1>17, <1>18, <1>19, <1>20
<1> QED
  BY <1>10, <1>14, <1>21 DEF Shifted

LEMMA Division ==
  ASSUME NEW s \in Nat, NEW b \in Nat, b > 0
  PROVE  s \div b \in Nat /\ s % b \in 0 .. (b - 1) /\ s = (s \div b) * b + (s % b)
<1>1. s \div b \in Nat
  OBVIOUS
<1>2. s % b \in 0 .. (b - 1)
  OBVIOUS
<1>3. s = (s \div b) * b + (s % b)
  OBVIOUS
<1> QED
  BY <1>1, <1>2, <1>3

(* Taking one off an unsigned number of a word wraps at zero. *)
LEMMA Decrement ==
  ASSUME NEW P \in Nat, P > 1, NEW x \in 0 .. (P - 1)
  PROVE  /\ (x + P - 1) % P \in 0 .. (P - 1)
         /\ (x + P - 1) % P = IF x = 0 THEN P - 1 ELSE x - 1
<1>1. CASE x = 0
  BY <1>1
<1>2. CASE x # 0
  <2>1. x - 1 \in 0 .. (P - 1) /\ x + P - 1 = (x - 1) + P
    BY <1>2
  <2>2. \A y \in 0 .. (P - 1) : (y + P) % P = y
    OBVIOUS
  <2> QED
    BY <1>2, <2>1, <2>2
<1> QED
  BY <1>1, <1>2

-----------------------------------------------------------------------------
(* The number FindIndexHash has to arrive at, before it is reduced modulo 2^M. *)
Sum == Value(digest1) + 2^(index - 1)

Comparing == pc = "compare" => index = 0 /\ i <= Bytes /\ AgreeBelow(digest1, digest2, i)

Compared ==
  pc = "done" /\ index = 0 =>
    \/ result = 2 /\ digest1 = digest2
    \/ result = 1 /\ Value(digest1) > Value(digest2)
    \/ result = 0 /\ Value(digest2) > Value(digest1)

(* The carry is what is missing, at the byte it has reached; past byte 0 it *)
(* is a multiple of 2^M.                                                    *)
Adding ==
  pc = "add" =>
    /\ index # 0
    /\ \/ i \in 0 .. (Bytes - 1) /\ Value(digest2) + carry * Weight(Bytes - 1 - i) = Sum
       \/ i > Bytes - 1 /\ \E n \in Nat : Value(digest2) + n * Weight(Bytes) = Sum

Added == pc = "done" /\ index # 0 => \E n \in Nat : Value(digest2) + n * Weight(Bytes) = Sum

IInv == TypeOK /\ Comparing /\ Compared /\ Adding /\ Added

LEMMA InitIsComparing == StartCompare => IInv
<1> SUFFICES ASSUME StartCompare PROVE IInv
  OBVIOUS
<1> QED
  BY Sizes DEF StartCompare, IInv, TypeOK, Comparing, Compared, Adding, Added, AgreeBelow

LEMMA InitIsAdding == StartAdd => IInv
<1> SUFFICES ASSUME StartAdd PROVE IInv
  OBVIOUS
<1> DEFINE q == (index - 1) \div Bits
           r == (index - 1) % Bits
<1>1. index - 1 \in Nat /\ index - 1 < Bytes * Bits /\ index # 0
  BY Sizes DEF StartAdd
<1>2. q \in Nat /\ r \in 0 .. (Bits - 1) /\ index - 1 = q * Bits + r
  BY <1>1, Sizes, Division
<1>3. i = Bytes - (q + 1) /\ carry = 2^r
  BY DEF StartAdd
<1> HIDE DEF q, r
<1>4. q < Bytes
  <2>1. SUFFICES ASSUME Bytes <= q PROVE FALSE
    BY <1>2, Sizes
  <2>2. \A x, y, z \in Nat : x <= y => x * z <= y * z
    OBVIOUS
  <2>3. Bytes * Bits <= q * Bits
    BY <1>2, <2>1, <2>2, Sizes
  <2>4. q * Bits \in Nat
    BY <1>2, Sizes
  <2> QED
    BY <1>1, <1>2, <2>3, <2>4, Sizes
<1>5. i \in 0 .. (Bytes - 1) /\ Bytes - 1 - i = q /\ i \in 0 .. (2^16 - 1)
  BY <1>2, <1>3, <1>4, Sizes
<1>6. carry * Weight(q) = 2^(index - 1) /\ carry \in Nat
  <2>1. Bits * q \in Nat /\ r \in Nat /\ r + Bits * q = index - 1
    BY <1>2, Sizes
  <2>2. 2^(r + Bits * q) = 2^r * 2^(Bits * q)
    BY <2>1, SumOfExponents
  <2>3. 2^r \in Nat
    BY <2>1, PowerOfTwo
  <2> QED
    BY <1>3, <2>1, <2>2, <2>3 DEF Weight
<1>7. Value(digest2) + carry * Weight(Bytes - 1 - i) = Sum
  BY <1>5, <1>6 DEF StartAdd, Sum
<1>8. TypeOK
  BY <1>1, <1>5, <1>6, Sizes DEF StartAdd, TypeOK
<1> QED
  BY <1>1, <1>5, <1>7, <1>8 DEF StartAdd, IInv, Comparing, Compared, Adding, Added

LEMMA CompareKeeps == IInv /\ Compare => IInv'
<1> SUFFICES ASSUME IInv, Compare PROVE IInv'
  OBVIOUS
<1>1. /\ pc = "compare" /\ index = 0 /\ i \in 0 .. Bytes /\ AgreeBelow(digest1, digest2, i)
      /\ digest1 \in Digest /\ digest2 \in Digest
      /\ UNCHANGED <<digest1, digest2, carry, index>>
  BY Sizes DEF IInv, TypeOK, Comparing, Compare
<1>2. \A j \in 0 .. (Bytes - 1) : digest1[j] \in Nat /\ digest2[j] \in Nat
  BY <1>1, BasePositive DEF Digest
<1>3. Adding' /\ Added'
  BY <1>1 DEF Adding, Added, Compare
<1>4. CASE i = Bytes /\ result' = 2 /\ pc' = "done" /\ UNCHANGED i
  <2>1. digest1 = digest2
    BY <1>1, <1>4, Sizes DEF AgreeBelow, Digest
  <2> QED
    BY <1>1, <1>3, <1>4, <2>1 DEF IInv, TypeOK, Comparing, Compared
<1>5. CASE i < Bytes /\ digest1[i] > digest2[i] /\ result' = 1 /\ pc' = "done" /\ UNCHANGED i
  <2>1. Value(digest1) > Value(digest2)
    BY <1>1, <1>5, FirstByteDecides, Sizes
  <2> QED
    BY <1>1, <1>3, <1>5, <2>1 DEF IInv, TypeOK, Comparing, Compared
<1>6. CASE i < Bytes /\ digest1[i] < digest2[i] /\ result' = 0 /\ pc' = "done" /\ UNCHANGED i
  <2>1. AgreeBelow(digest2, digest1, i) /\ digest2[i] > digest1[i] /\ i \in 0 .. (Bytes - 1)
    BY <1>1, <1>2, <1>6, Sizes DEF AgreeBelow
  <2>2. Value(digest2) > Value(digest1)
    BY <1>1, <2>1, FirstByteDecides
  <2> QED
    BY <1>1, <1>3, <1>6, <2>2 DEF IInv, TypeOK, Comparing, Compared
<1>7. CASE i < Bytes /\ digest1[i] = digest2[i] /\ i' = i + 1 /\ UNCHANGED <<pc, result>>
  <2>1. i + 1 \in 0 .. Bytes /\ i + 1 \in 0 .. (2^16 - 1)
    BY <1>1, <1>7, Sizes
  <2>2. AgreeBelow(digest1, digest2, i + 1)
    <3> SUFFICES ASSUME NEW j \in 0 .. (Bytes - 1), j < i + 1 PROVE digest1[j] = digest2[j]
      BY DEF AgreeBelow
    <3>1. j = i \/ j < i
      BY <1>1, Sizes
    <3> QED
      BY <1>1, <1>7, <3>1 DEF AgreeBelow
  <2> QED
    BY <1>1, <1>3, <1>7, <2>1, <2>2, Sizes DEF IInv, TypeOK, Comparing, Compared
<1> QED
  BY <1>4, <1>5, <1>6, <1>7 DEF Compare

LEMMA AddKeeps == IInv /\ Add => IInv'
<1> SUFFICES ASSUME IInv, Add PROVE IInv'
  OBVIOUS
<1>1. /\ pc = "add" /\ index # 0 /\ i \in 0 .. (2^16 - 1) /\ carry \in Nat
      /\ digest1 \in Digest /\ digest2 \in Digest /\ index \in 0 .. (Bytes * Bits)
      /\ UNCHANGED <<digest1, index, result>>
  BY DEF IInv, TypeOK, Adding, Add
<1>2. Sum' = Sum
  BY <1>1 DEF Sum, Value
<1>3. Comparing' /\ Compared'
  BY <1>1 DEF Comparing, Compared, Add
<1>4. CASE i > Bytes - 1 /\ pc' = "done" /\ UNCHANGED <<digest2, i, carry>>
  <2>1. \E n \in Nat : Value(digest2) + n * Weight(Bytes) = Sum
    BY <1>1, <1>4, Sizes DEF IInv, Adding
  <2>2. \E n \in Nat : Value(digest2') + n * Weight(Bytes) = Sum'
    BY <1>2, <1>4, <2>1
  <2>3. Added' /\ Adding'
    BY <1>4, <2>2 DEF Added, Adding
  <2> QED
    BY <1>1, <1>3, <1>4, <2>3 DEF IInv, TypeOK
<1>5. ASSUME i <= Bytes - 1
      PROVE  /\ i \in 0 .. (Bytes - 1) /\ digest2[i] \in Nat
             /\ Value(digest2) + carry * Weight(Bytes - 1 - i) = Sum
             /\ digest2[i] + carry \in Nat
  <2>1. i \in 0 .. (Bytes - 1)
    BY <1>1, <1>5, Sizes
  <2>2. digest2[i] \in Nat
    BY <1>1, <2>1, BasePositive DEF Digest
  <2> QED
    BY <1>1, <1>5, <2>1, <2>2, Sizes DEF IInv, Adding
<1> DEFINE sum == digest2[i] + carry
           w == Weight(Bytes - 1 - i)
<1>6. ASSUME i <= Bytes - 1, NEW x \in Byte, NEW n \in Nat, sum = n * Base + x
      PROVE  /\ [digest2 EXCEPT ![i] = x] \in Digest
             /\ Value([digest2 EXCEPT ![i] = x]) + n * (w * Base) = Sum
             /\ w \in Nat
  <2> DEFINE b == [digest2 EXCEPT ![i] = x]
  <2>1. b \in Digest /\ Value(b) + digest2[i] * w = Value(digest2) + x * w
    BY <1>1, <1>5, <1>6, ByteChanged
  <2>2. w \in Nat
    BY <1>5, <1>6, Weights, Sizes
  <2>3. Value(digest2) + carry * w = Sum /\ digest2[i] \in Nat
    BY <1>5, <1>6
  <2>4. Value(b) \in Nat /\ Value(digest2) \in Nat
    BY <1>1, <2>1, ValueIsNumber
  <2>5. x \in Nat /\ Base \in Nat
    BY BasePositive
  <2> HIDE DEF w, b
  <2>6. digest2[i] * w + carry * w = n * (w * Base) + x * w
    <3>1. (digest2[i] + carry) * w = digest2[i] * w + carry * w
      BY <1>1, <2>2, <2>3
    <3>2. (x + n * Base) * w = x * w + n * (Base * w)
      BY <2>2, <2>5, Distributed
    <3>3. Base * w = w * Base /\ n * Base + x = x + n * Base
      BY <2>2, <2>5
    <3>4. x * w \in Nat /\ n * (w * Base) \in Nat
      BY <2>2, <2>5
    <3> QED
      BY <1>6, <3>1, <3>2, <3>3, <3>4
  <2>7. /\ digest2[i] * w \in Nat /\ carry * w \in Nat
        /\ n * (w * Base) \in Nat /\ x * w \in Nat
    BY <1>1, <2>2, <2>3, <2>5
  <2>8. Value(b) + n * (w * Base) = Sum
    BY <2>1, <2>3, <2>4, <2>6, <2>7
  <2> QED
    BY <2>1, <2>2, <2>8 DEF b
<1>7. CASE /\ i <= Bytes - 1 /\ sum < 2^Bits
           /\ digest2' = [digest2 EXCEPT ![i] = sum]
           /\ carry' = sum /\ pc' = "done" /\ UNCHANGED i
  <2>1. sum \in Byte /\ sum \in Nat /\ sum = 0 * Base + sum
    BY <1>5, <1>7, BasePositive DEF Base, Byte
  <2>2. digest2' \in Digest /\ Value(digest2') + 0 * (w * Base) = Sum /\ w \in Nat
    BY <1>6, <1>7, <2>1
  <2>3. 0 * (w * Base) = 0 * Weight(Bytes)
    BY <2>2, BasePositive, Weights, Sizes
  <2>4. \E n \in Nat : Value(digest2') + n * Weight(Bytes) = Sum'
    BY <1>2, <2>2, <2>3
  <2>5. Added' /\ Adding'
    BY <1>7, <2>4 DEF Added, Adding
  <2> QED
    BY <1>1, <1>3, <1>7, <2>1, <2>2, <2>5 DEF IInv, TypeOK
<1>8. CASE /\ i <= Bytes - 1 /\ sum >= 2^Bits
           /\ digest2' = [digest2 EXCEPT ![i] = LowByte(sum)]
           /\ carry' = HighByte(sum)
           /\ i' = (i + 2^16 - 1) % 2^16
           /\ UNCHANGED pc
  <2>1. LowByte(sum) \in Byte /\ HighByte(sum) \in Nat /\ sum = HighByte(sum) * Base + LowByte(sum)
    <3>1. sum \in Nat /\ Base \in Nat /\ Base > 0
      BY <1>5, <1>8, BasePositive
    <3>2. LowByte(sum) = sum % Base /\ HighByte(sum) = sum \div Base
      BY DEF Base, LowByte, HighByte
    <3> HIDE DEF sum
    <3> QED
      BY <3>1, <3>2, BasePositive, Division
  <2>2. digest2' \in Digest /\ Value(digest2') + carry' * (w * Base) = Sum /\ w \in Nat
    BY <1>6, <1>8, <2>1
  <2>3. i' \in 0 .. (2^16 - 1) /\ i' = IF i = 0 THEN 2^16 - 1 ELSE i - 1
    BY <1>1, <1>8, Decrement, Sizes
  <2>4. Weight((Bytes - 1 - i) + 1) = w * Base
    BY <1>5, <1>8, Weights, Sizes
  <2>5. Adding'
    <3>1. CASE i = 0
      <4>1. (Bytes - 1 - i) + 1 = Bytes /\ i' > Bytes - 1
        BY <2>3, <3>1, Sizes
      <4>2. \E n \in Nat : Value(digest2') + n * Weight(Bytes) = Sum'
        BY <1>2, <1>8, <2>1, <2>2, <2>4, <4>1
      <4> QED
        BY <1>1, <4>1, <4>2 DEF Adding
    <3>2. CASE i # 0
      <4>1. (Bytes - 1 - i) + 1 = Bytes - 1 - i' /\ i' \in 0 .. (Bytes - 1)
        BY <1>5, <1>8, <2>3, <3>2, Sizes
      <4>2. Value(digest2') + carry' * Weight(Bytes - 1 - i') = Sum'
        BY <1>2, <2>2, <2>4, <4>1
      <4> QED
        BY <1>1, <4>1, <4>2 DEF Adding
    <3> QED
      BY <3>1, <3>2
  <2>6. Added'
    BY <1>1, <1>8 DEF Added
  <2> QED
    BY <1>1, <1>3, <1>8, <2>1, <2>2, <2>3, <2>5, <2>6 DEF IInv, TypeOK
<1> QED
  BY <1>4, <1>7, <1>8 DEF Add

LEMMA Invariance == Spec => []IInv
<1>1. Init => IInv
  BY InitIsComparing, InitIsAdding DEF Init
<1>2. IInv /\ [Next]_vars => IInv'
  <2> SUFFICES ASSUME IInv, [Next]_vars PROVE IInv'
    OBVIOUS
  <2>1. CASE UNCHANGED vars
    <3>1. /\ pc' = pc /\ digest1' = digest1 /\ digest2' = digest2 /\ i' = i
          /\ carry' = carry /\ index' = index /\ result' = result
      BY <2>1 DEF vars
    <3>2. Sum' = Sum /\ Value(digest1)' = Value(digest1) /\ Value(digest2)' = Value(digest2)
      BY <3>1 DEF Sum, Value
    <3>3. TypeOK' /\ Comparing'
      BY <3>1 DEF IInv, TypeOK, Comparing, AgreeBelow
    <3>4. Compared'
      BY <3>1, <3>2 DEF IInv, Compared
    <3>5. Adding' /\ Added'
      BY <3>1, <3>2 DEF IInv, Adding, Added
    <3> QED
      BY <3>3, <3>4, <3>5 DEF IInv
  <2> QED
    BY <2>1, CompareKeeps, AddKeeps DEF Next
<1> QED
  BY <1>1, <1>2, PTL DEF Spec

(* Indices, bytes and results stay in range in both loops (penn-chord.cc:    *)
(* 1057-1093), for digests of any length and bytes of any width.             *)
THEOREM TypeCorrect == Spec => []TypeOK
<1>1. IInv => TypeOK
  BY DEF IInv
<1> QED
  BY <1>1, Invariance, PTL

(* compareSHA1 used as a condition is "greater or equal" on the numbers the  *)
(* digests denote, and returns 2 just for equal ones.                        *)
THEOREM ComparesNumbers == Spec => []CompareIsGeq
<1>1. IInv => CompareIsGeq
  <2> SUFFICES ASSUME IInv, pc = "done", index = 0
               PROVE  /\ result # 0 <=> C!Geq(Value(digest1), Value(digest2))
                      /\ result = 2 <=> digest1 = digest2
    BY DEF CompareIsGeq
  <2>1. Value(digest1) \in Nat /\ Value(digest2) \in Nat
    BY ValueIsNumber DEF IInv, TypeOK
  <2> QED
    BY <2>1 DEF IInv, Compared, C!Geq
<1> QED
  BY <1>1, Invariance, PTL

(* FindIndexHash adds 2^(index-1) modulo 2^M, whatever the carries; a carry  *)
(* out of byte 0 ends the loop through the wrapped index.                    *)
THEOREM AddsModulo == Spec => []IndexHashIsSum
<1>1. IInv => IndexHashIsSum
  <2> SUFFICES ASSUME IInv, pc = "done", index # 0
               PROVE  Value(digest2) = C!IndexHash(Value(digest1), index)
    BY DEF IndexHashIsSum
  <2>1. PICK n \in Nat : Value(digest2) + n * Weight(Bytes) = Sum
    BY DEF IInv, Added
  <2>2. Value(digest2) \in Nat /\ Value(digest2) < Weight(Bytes) /\ Weight(Bytes) \in Nat
    BY ValueIsNumber, ValueBounded, Weights, Sizes DEF IInv, TypeOK
  <2>3. Weight(Bytes) = 2^(Bytes * Bits)
    <3>1. Bits * Bytes = Bytes * Bits
      BY Sizes
    <3> QED
      BY <3>1 DEF Weight
  <2>4. \A v, p \in Nat : v < p => (v + n * p) % p = v
    OBVIOUS
  <2>5. Sum % Weight(Bytes) = Value(digest2)
    BY <2>1, <2>2, <2>4
  <2> QED
    BY <2>3, <2>5 DEF C!IndexHash, Sum
<1> QED
  BY <1>1, Invariance, PTL
=============================================================================
