----------------------------- MODULE WordProofs -----------------------------
(***************************************************************************)
(* Arithmetic of words: powers of two, and calculating modulo one.  Masks  *)
(* of sums, differences and products depend on the masks of the operands   *)
(* only, and what a wider modulus cuts off does not show in a narrower one.*)
(*                                                                         *)
(* The provers know nothing of powers; what is needed of them follows from *)
(* 2^n being the number of subsets of a set of n elements.                 *)
(***************************************************************************)
EXTENDS Integers, FiniteSetTheorems, TLAPS

\* A power of two is the number of subsets of an interval of its exponent.
LEMMA PowerIsSubsets ==
    ASSUME NEW lo \in Int, NEW hi \in Int, NEW b \in Nat, hi = lo + b - 1
    PROVE  /\ IsFiniteSet(SUBSET (lo .. hi))
           /\ Cardinality(SUBSET (lo .. hi)) = 2^b
<1>1. IsFiniteSet(lo .. hi) /\ Cardinality(lo .. hi) = b
  <2>1. /\ IsFiniteSet(lo .. hi)
        /\ Cardinality(lo .. hi) = IF lo > hi THEN 0 ELSE hi - lo + 1
    BY FS_Interval
  <2> QED BY <2>1
<1> QED BY <1>1, FS_SUBSET

LEMMA PowerPositive ==
    ASSUME NEW b \in Nat
    PROVE  2^b \in Nat \ {0}
<1>1. IsFiniteSet(SUBSET (1 .. b)) /\ Cardinality(SUBSET (1 .. b)) = 2^b
  <2>1. b = 1 + b - 1 /\ 1 \in Int /\ b \in Int
    OBVIOUS
  <2> QED BY <2>1, PowerIsSubsets
<1>2. 2^b \in Nat
  BY <1>1, FS_CardinalityType
<1>3. SUBSET (1 .. b) # {}
  OBVIOUS
<1>4. 2^b # 0
  BY <1>1, <1>3, FS_EmptySet
<1> QED BY <1>2, <1>4

\* Splitting a subset of 1..a+b at a is a bijection to pairs of subsets.
LEMMA PowerSum ==
    ASSUME NEW a \in Nat, NEW b \in Nat
    PROVE  2^(a + b) = 2^a * 2^b
<1> DEFINE A == 1 .. a
           B == a + 1 .. a + b
           C == 1 .. a + b
           split == [s \in SUBSET C |-> <<s \cap A, s \cap B>>]
<1>1. C = A \cup B /\ A \cap B = {}
  OBVIOUS
<1>2. /\ IsFiniteSet(SUBSET A) /\ Cardinality(SUBSET A) = 2^a
      /\ IsFiniteSet(SUBSET B) /\ Cardinality(SUBSET B) = 2^b
      /\ IsFiniteSet(SUBSET C) /\ Cardinality(SUBSET C) = 2^(a + b)
  <2>1. /\ a = 1 + a - 1 /\ a + b = 1 + (a + b) - 1 /\ a + b = (a + 1) + b - 1
        /\ 1 \in Int /\ a \in Int /\ a + 1 \in Int /\ a + b \in Int /\ a + b \in Nat
    OBVIOUS
  <2>2. IsFiniteSet(SUBSET A) /\ Cardinality(SUBSET A) = 2^a
    BY <2>1, PowerIsSubsets
  <2>3. IsFiniteSet(SUBSET B) /\ Cardinality(SUBSET B) = 2^b
    BY <2>1, PowerIsSubsets, ZenonT(60)
  <2>4. IsFiniteSet(SUBSET C) /\ Cardinality(SUBSET C) = 2^(a + b)
    BY <2>1, PowerIsSubsets
  <2> QED BY <2>2, <2>3, <2>4
<1>3. ExistsBijection(SUBSET C, (SUBSET A) \X (SUBSET B))
  <2> HIDE DEF A, B, C
  <2>1. split \in [SUBSET C -> (SUBSET A) \X (SUBSET B)]
    OBVIOUS
  <2>2. ASSUME NEW s \in SUBSET C, NEW r \in SUBSET C, split[s] = split[r]
        PROVE  s = r
    <3>1. s \cap A = r \cap A /\ s \cap B = r \cap B
      BY <2>2
    <3> QED BY <1>1, <3>1
  <2>3. ASSUME NEW x \in (SUBSET A) \X (SUBSET B)
        PROVE  \E s \in SUBSET C : split[s] = x
    <3>1. PICK y \in SUBSET A, z \in SUBSET B : x = <<y, z>>
      OBVIOUS
    <3>2. y \cup z \in SUBSET C
      BY <1>1
    <3>3. (y \cup z) \cap A = y /\ (y \cup z) \cap B = z
      BY <1>1
    <3> QED BY <3>1, <3>2, <3>3
  <2> HIDE DEF split
  <2>4. split \in Bijection(SUBSET C, (SUBSET A) \X (SUBSET B))
    BY <2>1, <2>2, <2>3 DEF Bijection, Injection, Surjection, IsInjective
  <2> QED BY <2>4 DEF ExistsBijection
<1> HIDE DEF A, B, C
<1>4. Cardinality((SUBSET A) \X (SUBSET B)) = Cardinality(SUBSET C)
  BY <1>2, <1>3, FS_Bijection
<1>5. Cardinality((SUBSET A) \X (SUBSET B)) = Cardinality(SUBSET A) * Cardinality(SUBSET B)
  BY <1>2, FS_Product
<1> QED BY <1>2, <1>4, <1>5

-----------------------------------------------------------------------------
\* Division with remainder by a positive number.
LEMMA Divide ==
    ASSUME NEW m \in Nat \ {0}, NEW a \in Int
    PROVE  /\ a \div m \in Int
           /\ a % m \in 0 .. m - 1
           /\ a = (a \div m) * m + (a % m)
BY Z3

\* Remainders are unique.
LEMMA RemainderUnique ==
    ASSUME NEW m \in Nat \ {0}, NEW q \in Int, NEW s \in Int,
           NEW r \in 0 .. m - 1, NEW u \in 0 .. m - 1, q * m + r = s * m + u
    PROVE  r = u
<1>1. (q - s) * m = u - r
  BY Z3
<1>2. q - s \in Int
  OBVIOUS
<1>3. CASE q - s = 0
  BY <1>1, <1>3, Z3
<1>4. CASE q - s >= 1
  <2>1. (q - s) * m >= m
    BY <1>2, <1>4, Z3
  <2> QED BY <1>1, <2>1, Z3
<1>5. CASE q - s <= -1
  <2>1. (q - s) * m <= -m
    BY <1>2, <1>5, Z3
  <2> QED BY <1>1, <2>1, Z3
<1> QED BY <1>2, <1>3, <1>4, <1>5

\* Two integers have the same remainder when they differ by a multiple.
LEMMA SameRemainder ==
    ASSUME NEW m \in Nat \ {0}, NEW a \in Int, NEW q \in Int
    PROVE  (a + q * m) % m = a % m
<1> DEFINE b == a + q * m
<1>1. b \in Int
  BY Z3
<1>2. /\ a \div m \in Int /\ a % m \in 0 .. m - 1 /\ a = (a \div m) * m + (a % m)
      /\ b \div m \in Int /\ b % m \in 0 .. m - 1 /\ b = (b \div m) * m + (b % m)
  BY <1>1, Divide
<1> DEFINE c == a \div m
           d == b \div m
           r == a % m
           u == b % m
<1>3. c \in Int /\ d \in Int /\ r \in 0 .. m - 1 /\ u \in 0 .. m - 1
      /\ a = c * m + r /\ a + q * m = d * m + u
  BY <1>2
<1> HIDE DEF c, d, r, u, b
<1>4. (c + q) * m + r = d * m + u /\ c + q \in Int
  BY <1>3, Z3
<1>5. r = u
  BY <1>3, <1>4, RemainderUnique
<1> QED BY <1>5 DEF r, u, b

\* The converse, as a witness to calculate with.
LEMMA DifferByMultiple ==
    ASSUME NEW m \in Nat \ {0}, NEW a \in Int, NEW b \in Int, a % m = b % m
    PROVE  \E q \in Int : b = a + q * m
<1> DEFINE c == a \div m
           d == b \div m
           r == a % m
<1>1. c \in Int /\ d \in Int /\ r \in 0 .. m - 1 /\ a = c * m + r /\ b = d * m + r
  BY Divide
<1> HIDE DEF c, d, r
<1>2. b = a + (d - c) * m /\ d - c \in Int
  BY <1>1, Z3
<1> QED BY <1>2

-----------------------------------------------------------------------------
\* Sums, differences and products depend on the remainders of their operands.
LEMMA ModAdd ==
    ASSUME NEW m \in Nat \ {0}, NEW a \in Int, NEW b \in Int,
           NEW c \in Int, NEW d \in Int, a % m = c % m, b % m = d % m
    PROVE  (a + b) % m = (c + d) % m
<1>1. PICK q \in Int : c = a + q * m
  BY DifferByMultiple
<1>2. PICK s \in Int : d = b + s * m
  BY DifferByMultiple
<1> DEFINE e == a + b
           f == q + s
<1>3. c + d = e + f * m /\ e \in Int /\ f \in Int
  BY <1>1, <1>2, Z3
<1> HIDE DEF e, f
<1>4. (e + f * m) % m = e % m
  BY <1>3, SameRemainder
<1> QED BY <1>3, <1>4 DEF e

LEMMA ModSub ==
    ASSUME NEW m \in Nat \ {0}, NEW a \in Int, NEW b \in Int,
           NEW c \in Int, NEW d \in Int, a % m = c % m, b % m = d % m
    PROVE  (a - b) % m = (c - d) % m
<1>1. PICK q \in Int : c = a + q * m
  BY DifferByMultiple
<1>2. PICK s \in Int : d = b + s * m
  BY DifferByMultiple
<1> DEFINE e == a - b
           f == q - s
<1>3. c - d = e + f * m /\ e \in Int /\ f \in Int
  BY <1>1, <1>2, Z3
<1> HIDE DEF e, f
<1>4. (e + f * m) % m = e % m
  BY <1>3, SameRemainder
<1> QED BY <1>3, <1>4 DEF e

LEMMA ModMul ==
    ASSUME NEW m \in Nat \ {0}, NEW a \in Int, NEW b \in Int,
           NEW c \in Int, NEW d \in Int, a % m = c % m, b % m = d % m
    PROVE  (a * b) % m = (c * d) % m
<1>1. PICK q \in Int : c = a + q * m
  BY DifferByMultiple
<1>2. PICK s \in Int : d = b + s * m
  BY DifferByMultiple
<1> DEFINE e == a * b
           f == a * s + q * b + (q * s) * m
<1>3. e \in Int /\ f \in Int
  BY Z3
<1>4. c * d = e + f * m
  BY <1>1, <1>2, Z3
<1> HIDE DEF e, f
<1>5. (e + f * m) % m = e % m
  BY <1>3, SameRemainder
<1> QED BY <1>4, <1>5 DEF e

\* A remainder is its own; that of a multiple of the modulus can be taken first.
LEMMA ModMod ==
    ASSUME NEW m \in Nat \ {0}, NEW c \in Nat \ {0}, NEW a \in Int
    PROVE  /\ (a % m) % m = a % m
           /\ (a % (m * c)) % m = a % m
<1>1. a \div m \in Int /\ a % m \in 0 .. m - 1 /\ a = (a \div m) * m + (a % m)
  BY Divide
<1>2. ((a % m) + (a \div m) * m) % m = (a % m) % m
  BY <1>1, SameRemainder
<1>3. a = (a % m) + (a \div m) * m
  BY <1>1
<1>4. m * c \in Nat \ {0}
  BY Z3
<1>5. /\ a \div (m * c) \in Int /\ a % (m * c) \in 0 .. (m * c) - 1
      /\ a = (a \div (m * c)) * (m * c) + (a % (m * c))
  BY <1>4, Divide
<1> DEFINE e == a \div (m * c)
           r == a % (m * c)
<1>6. e \in Int /\ r \in Int /\ a = e * (m * c) + r
  BY <1>4, <1>5
<1> HIDE DEF e, r
<1>7. a = r + (e * c) * m /\ e * c \in Int
  BY <1>6, Z3
<1>8. (r + (e * c) * m) % m = r % m
  BY <1>6, <1>7, SameRemainder
<1> QED BY <1>2, <1>3, <1>7, <1>8 DEF r
=============================================================================
