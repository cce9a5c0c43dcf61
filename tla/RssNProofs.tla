---------------------------- MODULE RssNProofs ----------------------------
(***************************************************************************)
(* All the holders of a share hold the same share, with five and with      *)
(* seven parties, for every ring and width, batch, program that writes a   *)
(* register once, sharing of the inputs, stream and contents of            *)
(* uninitialized memory.                                                   *)
(*                                                                         *)
(* The argument.  The invariant says what every part of the state is as a  *)
(* function of where the parties are.  Before instruction k a party has    *)
(* drawn Words(j, k) words of key j.  What it sends q in instruction k is  *)
(* Sent(p, q, k): masked products (Message), sums of shares (Opening) or   *)
(* what it makes public (Publishing), all of which depend on its shares of *)
(* the operands and on words of its keys and not on the schedule.  The     *)
(* socket from p to q carries, in order, p's batches of the instructions   *)
(* in flight: those p has sent and q has not read.  So the batch read for  *)
(* instruction k is the sender's for k, though the sender may be several   *)
(* instructions ahead and several pairs of parties use the same turn.  And *)
(* what a party was shown is Shown(p, k), a sum of such batches.  Of a     *)
(* Rss_MultPub this is said when the words it draws fill the memory read   *)
(* (Exact); else its batches are whatever ring values memory made them.    *)
(*                                                                         *)
(* At its end a share of the product is a multiple (Uses) of one word of   *)
(* the share's key plus the message of the share's Owner: the one party    *)
(* whose own T is the share's, which the tables T_map, from_mult and       *)
(* prg_ctrs of the code name by its distance and never by the T.  That     *)
(* those tables fit is CopiesAlike: holders of one share find the same     *)
(* owner and count for it, each from its own distance.                     *)
(***************************************************************************)
EXTENDS RssN, WordProofs, WellFoundedInduction

\* Induction over a set of numbers, where a set can be named.
LEMMA Induct ==
    ASSUME NEW G, 0 \in G, \A k \in Nat : k \in G => k + 1 \in G
    PROVE  Nat \subseteq G
<1> SUFFICES ASSUME ~(Nat \subseteq G) PROVE FALSE
  OBVIOUS
<1> DEFINE T == Nat \ G
<1>1. T \subseteq Nat /\ T # {}
  OBVIOUS
<1>2. PICK x \in T : \A y \in T : ~(<<y, x>> \in OpToRel(<, Nat))
  <2> HIDE DEF T
  <2> QED BY <1>1, NatLessThanWellFounded, WFMin
<1>3. x \in Nat /\ x # 0 /\ x - 1 \in Nat
  OBVIOUS
<1>4. x - 1 \notin T
  <2>1. <<x - 1, x>> \in OpToRel(<, Nat)
    BY <1>3 DEF OpToRel
  <2> QED BY <1>2, <2>1
<1> QED BY <1>3, <1>4

-----------------------------------------------------------------------------
\* g is the table of the sums of f over the subsets of S.
Pick(s) == CHOOSE x \in s : TRUE

IsSum(S, f, g) ==
    g = [s \in SUBSET S |-> IF s = {} THEN 0 ELSE f[Pick(s)] + g[s \ {Pick(s)}]]

\* The community module's sum of a function is the last entry of such a table.
LEMMA SumIs ==
    ASSUME NEW S, NEW f
    PROVE  SumOver(S, f) = (CHOOSE g : IsSum(S, f, g))[S]
BY DEF SumOver, SumFunctionOnSet, FoldFunctionOnSet, MapThenFoldSet, IsSum, Pick

\* What is left after an element is picked is smaller.
LEMMA Less ==
    ASSUME NEW S, IsFiniteSet(S), NEW s \in SUBSET S, s # {}, NEW k \in Nat,
           Cardinality(s) <= k
    PROVE  /\ Pick(s) \in S /\ s \ {Pick(s)} \in SUBSET S
           /\ Cardinality(s \ {Pick(s)}) <= k - 1 /\ k - 1 \in Nat
<1>1. Pick(s) \in s
  BY DEF Pick
<1>2. IsFiniteSet(s)
  BY FS_Subset
<1>3. /\ Cardinality(s) \in Nat
      /\ Cardinality(s \ {Pick(s)}) = Cardinality(s) - 1
      /\ Cardinality(s \ {Pick(s)}) \in Nat
  BY <1>1, <1>2, FS_CardinalityType, FS_RemoveElement
<1> QED BY <1>1, <1>3

\* Every finite set of integers has a sum.
LEMMA SumExists ==
    ASSUME NEW S, IsFiniteSet(S), NEW f
    PROVE  \E g : IsSum(S, f, g)
<1> DEFINE B(k) == {s \in SUBSET S : Cardinality(s) <= k}
           R(g, D) == g = [s \in D |-> IF s = {} THEN 0 ELSE f[Pick(s)] + g[s \ {Pick(s)}]]
           G == {k \in Nat : \E g : R(g, B(k))}
<1>1. 0 \in G
  <2> DEFINE g == [s \in B(0) |-> 0]
  <2>1. \A s \in B(0) : s = {}
    <3>1. ASSUME NEW s \in B(0), s # {} PROVE FALSE
      <4>1. 0 \in Nat /\ ~(0 - 1 \in Nat) /\ s \in SUBSET S /\ Cardinality(s) <= 0
        OBVIOUS
      <4> HIDE DEF B
      <4> QED BY <3>1, <4>1, Less
    <3> QED BY <3>1
  <2>2. R(g, B(0))
    BY <2>1
  <2> QED BY <2>2
<1>2. ASSUME NEW k \in Nat, k \in G PROVE k + 1 \in G
  <2>1. PICK g : R(g, B(k))
    BY <1>2
  <2> DEFINE h == [s \in B(k + 1) |-> IF s = {} THEN 0 ELSE f[Pick(s)] + g[s \ {Pick(s)}]]
  <2>2. ASSUME NEW s \in B(k + 1), s # {} PROVE s \ {Pick(s)} \in B(k)
    <3>1. k + 1 \in Nat /\ (k + 1) - 1 = k
      OBVIOUS
    <3> QED BY <2>2, <3>1, Less
  <2>3. B(k) \subseteq B(k + 1)
    <3>1. ASSUME NEW s \in B(k) PROVE Cardinality(s) \in Nat
      BY FS_Subset, FS_CardinalityType
    <3> QED BY <3>1
  <2>4. \A s \in B(k) : h[s] = g[s]
    BY <2>1, <2>3
  <2>5. R(h, B(k + 1))
    <3>1. \A s \in B(k + 1) :
            h[s] = IF s = {} THEN 0 ELSE f[Pick(s)] + h[s \ {Pick(s)}]
      BY <2>2, <2>4
    <3> QED BY <3>1
  <2>6. k + 1 \in Nat
    OBVIOUS
  <2> QED BY <2>5, <2>6
<1>3. Nat \subseteq G
  <2> HIDE DEF G
  <2> QED BY <1>1, <1>2, Induct
<1>4. B(Cardinality(S)) = SUBSET S
  <2>1. \A s \in SUBSET S : Cardinality(s) <= Cardinality(S)
    BY FS_Subset
  <2> QED BY <2>1
<1>5. Cardinality(S) \in G
  BY <1>3, FS_CardinalityType
<1> QED BY <1>4, <1>5 DEF IsSum

\* A sum of integers is an integer; the sums over no element and over one.
LEMMA SumRule ==
    ASSUME NEW S, IsFiniteSet(S), NEW f, \A x \in S : f[x] \in Int
    PROVE  /\ SumOver(S, f) \in Int
           /\ S = {} => SumOver(S, f) = 0
           /\ \A x : S = {x} => SumOver(S, f) = f[x]
<1>1. PICK g : IsSum(S, f, g) /\ SumOver(S, f) = g[S]
  BY SumExists, SumIs
<1>2. \A s \in SUBSET S : g[s] = IF s = {} THEN 0 ELSE f[Pick(s)] + g[s \ {Pick(s)}]
  BY <1>1 DEF IsSum
<1> DEFINE B(k) == {s \in SUBSET S : Cardinality(s) <= k}
           G == {k \in Nat : \A s \in B(k) : g[s] \in Int}
<1>3. 0 \in G
  <2>1. \A s \in B(0) : s = {}
    <3>1. ASSUME NEW s \in B(0), s # {} PROVE FALSE
      <4>1. 0 \in Nat /\ ~(0 - 1 \in Nat) /\ s \in SUBSET S /\ Cardinality(s) <= 0
        OBVIOUS
      <4> HIDE DEF B
      <4> QED BY <3>1, <4>1, Less
    <3> QED BY <3>1
  <2>2. \A s \in B(0) : g[s] = 0
    BY <1>2, <2>1
  <2> QED BY <2>2
<1>4. ASSUME NEW k \in Nat, k \in G PROVE k + 1 \in G
  <2>1. ASSUME NEW s \in B(k + 1), s # {}
        PROVE  Pick(s) \in S /\ s \ {Pick(s)} \in B(k)
    <3>1. k + 1 \in Nat /\ (k + 1) - 1 = k
      OBVIOUS
    <3> QED BY <2>1, <3>1, Less
  <2>2. ASSUME NEW s \in B(k + 1) PROVE g[s] \in Int
    <3>1. CASE s = {}
      BY <1>2, <3>1
    <3>2. CASE s # {}
      <4>1. f[Pick(s)] \in Int /\ g[s \ {Pick(s)}] \in Int
        BY <1>4, <2>1, <3>2
      <4>2. g[s] = f[Pick(s)] + g[s \ {Pick(s)}]
        BY <1>2, <3>2
      <4> QED BY <4>1, <4>2
    <3> QED BY <3>1, <3>2
  <2>3. k + 1 \in Nat
    OBVIOUS
  <2> QED BY <2>2, <2>3
<1>5. Nat \subseteq G
  <2> HIDE DEF G
  <2> QED BY <1>3, <1>4, Induct
<1>6. g[S] \in Int
  <2>1. Cardinality(S) \in Nat /\ S \in B(Cardinality(S))
    BY FS_CardinalityType
  <2> QED BY <1>5, <2>1
<1>7. ASSUME NEW x, S = {x} PROVE g[S] = f[x]
  <2>1. Pick(S) = x /\ S \ {Pick(S)} = {} /\ {} \in SUBSET S
    BY <1>7 DEF Pick
  <2>2. g[S] = f[x] + g[{}] /\ g[{}] = 0
    BY <1>2, <1>7, <2>1
  <2>3. f[x] \in Int
    BY <1>7
  <2> QED BY <2>2, <2>3
<1> QED BY <1>1, <1>2, <1>6, <1>7

-----------------------------------------------------------------------------
(***************************************************************************)
(* Sums.                                                                   *)
(***************************************************************************)
\* Induction over the subsets of a finite set, where those it holds for are
\* named as a set.
LEMMA SetInduct ==
    ASSUME NEW S, IsFiniteSet(S), NEW C, {} \in C,
           \A s \in SUBSET S : \A x \in S \ s : s \in C => s \union {x} \in C
    PROVE  S \in C
<1> DEFINE G == {k \in Nat : \A s \in SUBSET S : Cardinality(s) = k => s \in C}
<1>1. 0 \in G
  <2>1. \A s \in SUBSET S : Cardinality(s) = 0 => s = {}
    BY FS_Subset, FS_EmptySet
  <2> QED BY <2>1
<1>2. ASSUME NEW k \in Nat, k \in G PROVE k + 1 \in G
  <2>1. ASSUME NEW s \in SUBSET S, Cardinality(s) = k + 1 PROVE s \in C
    <3>1. IsFiniteSet(s) /\ s # {}
      BY <2>1, FS_Subset, FS_EmptySet
    <3>2. PICK x \in s : TRUE
      BY <3>1
    <3>3. Cardinality(s \ {x}) = k
      <4>1. Cardinality(s \ {x}) = Cardinality(s) - 1
        BY <3>1, <3>2, FS_RemoveElement
      <4> QED BY <2>1, <4>1
    <3>4. s \ {x} \in SUBSET S /\ x \in S \ (s \ {x}) /\ (s \ {x}) \union {x} = s
      BY <3>2
    <3>5. s \ {x} \in C
      BY <1>2, <3>3, <3>4
    <3> QED BY <3>4, <3>5
  <2> QED BY <2>1
<1>3. Nat \subseteq G
  <2> HIDE DEF G
  <2> QED BY <1>1, <1>2, Induct
<1>4. Cardinality(S) \in Nat /\ S \in SUBSET S
  BY FS_CardinalityType
<1> QED BY <1>3, <1>4

\* The tables of f over a set and over a subset of it agree on the subset.
LEMMA TablesAgree ==
    ASSUME NEW S, IsFiniteSet(S), NEW f, NEW g, IsSum(S, f, g),
           NEW s \in SUBSET S, NEW h, IsSum(s, f, h)
    PROVE  \A u \in SUBSET s : g[u] = h[u]
<1>1. /\ \A u \in SUBSET s : g[u] = IF u = {} THEN 0 ELSE f[Pick(u)] + g[u \ {Pick(u)}]
      /\ \A u \in SUBSET s : h[u] = IF u = {} THEN 0 ELSE f[Pick(u)] + h[u \ {Pick(u)}]
      /\ IsFiniteSet(s)
  <2>1. \A u \in SUBSET S : g[u] = IF u = {} THEN 0 ELSE f[Pick(u)] + g[u \ {Pick(u)}]
    BY DEF IsSum
  <2>2. \A u \in SUBSET s : h[u] = IF u = {} THEN 0 ELSE f[Pick(u)] + h[u \ {Pick(u)}]
    BY DEF IsSum
  <2> QED BY <2>1, <2>2, FS_Subset
<1> DEFINE B(k) == {u \in SUBSET s : Cardinality(u) <= k}
           G == {k \in Nat : \A u \in B(k) : g[u] = h[u]}
<1>2. 0 \in G
  <2>1. \A u \in B(0) : u = {}
    <3>1. ASSUME NEW u \in B(0), u # {} PROVE FALSE
      <4>1. 0 \in Nat /\ ~(0 - 1 \in Nat) /\ u \in SUBSET s /\ Cardinality(u) <= 0
        OBVIOUS
      <4> HIDE DEF B
      <4> QED BY <1>1, <3>1, <4>1, Less
    <3> QED BY <3>1
  <2>2. \A u \in B(0) : g[u] = h[u]
    BY <1>1, <2>1
  <2> QED BY <2>2
<1>3. ASSUME NEW k \in Nat, k \in G PROVE k + 1 \in G
  <2>1. ASSUME NEW u \in B(k + 1), u # {} PROVE u \ {Pick(u)} \in B(k)
    <3>1. k + 1 \in Nat /\ (k + 1) - 1 = k
      OBVIOUS
    <3> QED BY <1>1, <2>1, <3>1, Less
  <2>2. ASSUME NEW u \in B(k + 1) PROVE g[u] = h[u]
    <3>1. CASE u = {}
      BY <1>1, <3>1
    <3>2. CASE u # {}
      <4>1. g[u \ {Pick(u)}] = h[u \ {Pick(u)}]
        BY <1>3, <2>1, <3>2
      <4> QED BY <1>1, <3>2, <4>1
    <3> QED BY <3>1, <3>2
  <2> QED BY <2>2
<1>4. Nat \subseteq G
  <2> HIDE DEF G
  <2> QED BY <1>2, <1>3, Induct
<1>5. \A u \in SUBSET s : Cardinality(u) \in Nat
  BY <1>1, FS_Subset, FS_CardinalityType
<1> QED BY <1>4, <1>5

\* The sums of f over the subsets of S, and an element taken from one of them:
\* the order in which the elements are picked does not matter.
LEMMA SumTable ==
    ASSUME NEW S, IsFiniteSet(S), NEW f, \A x \in S : f[x] \in Int
    PROVE  \A s \in SUBSET S : \A x \in s : SumOver(s, f) = f[x] + SumOver(s \ {x}, f)
<1>1. PICK g : IsSum(S, f, g)
  BY SumExists
<1>2. ASSUME NEW s \in SUBSET S PROVE SumOver(s, f) = g[s] /\ g[s] \in Int
  <2>1. IsFiniteSet(s)
    BY FS_Subset
  <2>2. PICK h : IsSum(s, f, h) /\ SumOver(s, f) = h[s]
    BY <2>1, SumExists, SumIs
  <2>3. s \in SUBSET s
    OBVIOUS
  <2>4. \A u \in SUBSET s : g[u] = h[u]
    BY <1>1, <2>2, TablesAgree
  <2>5. SumOver(s, f) \in Int
    BY <2>1, SumRule
  <2> QED BY <2>2, <2>3, <2>4, <2>5
<1>3. \A u \in SUBSET S : g[u] = IF u = {} THEN 0 ELSE f[Pick(u)] + g[u \ {Pick(u)}]
  BY <1>1 DEF IsSum
<1> DEFINE B(k) == {u \in SUBSET S : Cardinality(u) <= k}
           G == {k \in Nat : \A u \in B(k) : \A x \in u : g[u] = f[x] + g[u \ {x}]}
<1>4. 0 \in G
  <2>1. \A u \in B(0) : u = {}
    <3>1. ASSUME NEW u \in B(0), u # {} PROVE FALSE
      <4>1. 0 \in Nat /\ ~(0 - 1 \in Nat) /\ u \in SUBSET S /\ Cardinality(u) <= 0
        OBVIOUS
      <4> HIDE DEF B
      <4> QED BY <3>1, <4>1, Less
    <3> QED BY <3>1
  <2> QED BY <2>1
<1>5. ASSUME NEW k \in Nat, k \in G PROVE k + 1 \in G
  <2>1. ASSUME NEW u \in B(k + 1), NEW x \in u PROVE g[u] = f[x] + g[u \ {x}]
    <3> DEFINE p == Pick(u)
    <3>1. p \in u /\ p \in S /\ x \in S
      BY DEF Pick
    <3>2. g[u] = f[p] + g[u \ {p}]
      BY <1>3, <2>1
    <3>3. \A y \in u : u \ {y} \in B(k)
      <4> TAKE y \in u
      <4>1. IsFiniteSet(u)
        BY <2>1, FS_Subset
      <4>2. Cardinality(u \ {y}) = Cardinality(u) - 1 /\ Cardinality(u) \in Nat
        BY <4>1, FS_RemoveElement, FS_CardinalityType
      <4> QED BY <2>1, <4>2
    <3>4. CASE p = x
      BY <3>2, <3>4
    <3>5. CASE p # x
      <4> DEFINE w == (u \ {p}) \ {x}
      <4>1. x \in u \ {p} /\ p \in u \ {x} /\ w = (u \ {x}) \ {p} /\ w \in SUBSET S
        BY <2>1, <3>1, <3>5
      <4>2. g[u \ {p}] = f[x] + g[w]
        BY <1>5, <3>1, <3>3, <4>1
      <4>4. g[u \ {x}] = f[p] + g[w]
        <5>1. u \ {x} \in B(k)
          BY <2>1, <3>3
        <5> HIDE DEF w, p, B
        <5> QED BY <1>5, <4>1, <5>1
      <4>3. f[x] \in Int /\ f[p] \in Int /\ g[w] \in Int
        BY <1>2, <3>1, <4>1
      <4> HIDE DEF w, p
      <4> QED BY <3>2, <4>2, <4>3, <4>4
    <3> QED BY <3>4, <3>5
  <2> QED BY <2>1
<1>6. Nat \subseteq G
  <2> HIDE DEF G
  <2> QED BY <1>4, <1>5, Induct
<1>7. ASSUME NEW s \in SUBSET S, NEW x \in s
      PROVE  SumOver(s, f) = f[x] + SumOver(s \ {x}, f)
  <2>1. Cardinality(s) \in Nat /\ s \in B(Cardinality(s))
    BY FS_Subset, FS_CardinalityType
  <2>2. g[s] = f[x] + g[s \ {x}]
    BY <1>6, <2>1
  <2>3. s \ {x} \in SUBSET S
    OBVIOUS
  <2> QED BY <1>2, <2>2, <2>3
<1> QED BY <1>7

\* A sum over one element more.
LEMMA SumMore ==
    ASSUME NEW S, IsFiniteSet(S), NEW f, \A x \in S : f[x] \in Int,
           NEW s \in SUBSET S, NEW x \in S \ s
    PROVE  /\ SumOver(s \union {x}, f) = f[x] + SumOver(s, f)
           /\ SumOver(s, f) \in Int /\ f[x] \in Int /\ IsFiniteSet(s)
<1> DEFINE u == s \union {x}
<1>1. u \in SUBSET S /\ x \in u /\ u \ {x} = s
  OBVIOUS
<1> HIDE DEF u
<1>2. SumOver(u, f) = f[x] + SumOver(s, f)
  BY <1>1, SumTable
<1>3. IsFiniteSet(s)
  BY FS_Subset
<1>4. SumOver(s, f) \in Int
  BY <1>3, SumRule
<1> QED BY <1>2, <1>3, <1>4 DEF u

\* The sum over no element.
LEMMA SumNone ==
    ASSUME NEW f
    PROVE  SumOver({}, f) = 0
BY SumRule, FS_EmptySet


\* Equal terms.
LEMMA SumSame ==
    ASSUME NEW S, IsFiniteSet(S), NEW f, NEW g, \A x \in S : f[x] \in Int /\ f[x] = g[x]
    PROVE  SumOver(S, f) = SumOver(S, g)
<1> DEFINE C == {s \in SUBSET S : SumOver(s, f) = SumOver(s, g)}
<1>1. {} \in C
  BY SumNone
<1>2. ASSUME NEW s \in SUBSET S, NEW x \in S \ s, s \in C PROVE s \union {x} \in C
  <2>1. SumOver(s \union {x}, f) = f[x] + SumOver(s, f)
    BY SumMore
  <2>2. SumOver(s \union {x}, g) = g[x] + SumOver(s, g)
    BY SumMore
  <2> QED BY <1>2, <2>1, <2>2
<1>3. S \in C
  <2> HIDE DEF C
  <2> QED BY <1>1, <1>2, SetInduct
<1> QED BY <1>3

\* The sum of sums.
LEMMA SumAdd ==
    ASSUME NEW S, IsFiniteSet(S), NEW f, NEW g, NEW h,
           \A x \in S : f[x] \in Int /\ g[x] \in Int /\ h[x] = f[x] + g[x]
    PROVE  SumOver(S, h) = SumOver(S, f) + SumOver(S, g)
<1> DEFINE C == {s \in SUBSET S : SumOver(s, h) = SumOver(s, f) + SumOver(s, g)}
<1>1. {} \in C
  BY SumNone
<1>2. ASSUME NEW s \in SUBSET S, NEW x \in S \ s, s \in C PROVE s \union {x} \in C
  <2>1. /\ SumOver(s \union {x}, f) = f[x] + SumOver(s, f)
        /\ SumOver(s, f) \in Int /\ f[x] \in Int
    BY SumMore
  <2>2. /\ SumOver(s \union {x}, g) = g[x] + SumOver(s, g)
        /\ SumOver(s, g) \in Int /\ g[x] \in Int
    BY SumMore
  <2>3. \A y \in S : h[y] \in Int
    OBVIOUS
  <2>4. SumOver(s \union {x}, h) = h[x] + SumOver(s, h)
    BY <2>3, SumMore
  <2>5. h[x] = f[x] + g[x]
    OBVIOUS
  <2> QED BY <1>2, <2>1, <2>2, <2>4, <2>5
<1>3. S \in C
  <2> HIDE DEF C
  <2> QED BY <1>1, <1>2, SetInduct
<1> QED BY <1>3

\* A common factor.
LEMMA SumTimes ==
    ASSUME NEW S, IsFiniteSet(S), NEW f, NEW c \in Int, NEW h,
           \A x \in S : f[x] \in Int /\ h[x] = c * f[x]
    PROVE  SumOver(S, h) = c * SumOver(S, f)
<1> DEFINE C == {s \in SUBSET S : SumOver(s, h) = c * SumOver(s, f)}
<1>1. {} \in C
  BY SumNone
<1>2. ASSUME NEW s \in SUBSET S, NEW x \in S \ s, s \in C PROVE s \union {x} \in C
  <2>1. /\ SumOver(s \union {x}, f) = f[x] + SumOver(s, f)
        /\ SumOver(s, f) \in Int /\ f[x] \in Int
    BY SumMore
  <2>2. \A y \in S : h[y] \in Int
    OBVIOUS
  <2>3. SumOver(s \union {x}, h) = h[x] + SumOver(s, h)
    BY <2>2, SumMore
  <2>4. \A a, b \in Int : c * (a + b) = c * a + c * b
    OBVIOUS
  <2>5. h[x] = c * f[x]
    OBVIOUS
  <2> QED BY <1>2, <2>1, <2>3, <2>4, <2>5
<1>3. S \in C
  <2> HIDE DEF C
  <2> QED BY <1>1, <1>2, SetInduct
<1> QED BY <1>3

\* The same term for every element.
LEMMA SumConst ==
    ASSUME NEW S, IsFiniteSet(S), NEW c \in Int, NEW f, \A x \in S : f[x] = c
    PROVE  SumOver(S, f) = c * Cardinality(S)
<1> DEFINE C == {s \in SUBSET S : SumOver(s, f) = c * Cardinality(s)}
<1>1. {} \in C
  BY SumNone, FS_EmptySet
<1>2. ASSUME NEW s \in SUBSET S, NEW x \in S \ s, s \in C PROVE s \union {x} \in C
  <2>4. \A y \in S : f[y] \in Int
    OBVIOUS
  <2>1. SumOver(s \union {x}, f) = f[x] + SumOver(s, f) /\ IsFiniteSet(s)
    BY <2>4, SumMore
  <2>2. Cardinality(s \union {x}) = Cardinality(s) + 1 /\ Cardinality(s) \in Nat
    BY <2>1, FS_AddElement, FS_CardinalityType
  <2>3. \A k \in Nat : c * (k + 1) = c + c * k
    OBVIOUS
  <2> QED BY <1>2, <2>1, <2>2, <2>3
<1>3. S \in C
  <2> HIDE DEF C
  <2> QED BY <1>1, <1>2, SetInduct
<1> QED BY <1>3

\* The mask of a sum, difference or product is that of its masked operands.
LEMMA MaskOps ==
    ASSUME NEW a \in Int, NEW b \in Int, NEW c \in Int, NEW d \in Int,
           Mask(a) = Mask(c), Mask(b) = Mask(d)
    PROVE  /\ Mask(a + b) = Mask(c + d)
           /\ Mask(a - b) = Mask(c - d)
           /\ Mask(a * b) = Mask(c * d)
<1>1. 2^K \in Nat \ {0} /\ a % 2^K = c % 2^K /\ b % 2^K = d % 2^K
  BY CasesAssumption, PowerPositive DEF Mask
<1>2. (a + b) % 2^K = (c + d) % 2^K
  BY <1>1, ModAdd
<1>3. (a - b) % 2^K = (c - d) % 2^K
  BY <1>1, ModSub
<1>4. (a * b) % 2^K = (c * d) % 2^K
  BY <1>1, ModMul
<1> QED BY <1>2, <1>3, <1>4 DEF Mask

\* Masked words, and what masks keep.
LEMMA Ring ==
    /\ \A a \in Int : Mask(a) \in 0 .. 2^K - 1 /\ Mask(a) \in Int /\ Mask(Mask(a)) = Mask(a)
    /\ \A a, b, c, d \in Int : Mask(a) = Mask(c) /\ Mask(b) = Mask(d) =>
          /\ Mask(a + b) = Mask(c + d)
          /\ Mask(a - b) = Mask(c - d)
          /\ Mask(a * b) = Mask(c * d)
<1>1. K \in Nat /\ 2^K \in Nat \ {0}
  BY CasesAssumption, PowerPositive
<1>2. ASSUME NEW a \in Int PROVE a % 2^K \in 0 .. 2^K - 1 /\ (a % 2^K) % 2^K = a % 2^K
  <2>1. 1 \in Nat \ {0}
    OBVIOUS
  <2> QED BY <1>1, <2>1, Divide, ModMod
<1>3. \A a \in Int : Mask(a) \in 0 .. 2^K - 1 /\ Mask(Mask(a)) = Mask(a)
  BY <1>2 DEF Mask
<1>4. \A a \in 0 .. 2^K - 1 : a \in Int
  BY <1>1
<1>5. ASSUME NEW a \in Int, NEW b \in Int, NEW c \in Int, NEW d \in Int,
             Mask(a) = Mask(c), Mask(b) = Mask(d)
      PROVE  /\ Mask(a + b) = Mask(c + d)
             /\ Mask(a - b) = Mask(c - d)
             /\ Mask(a * b) = Mask(c * d)
  BY <1>5, MaskOps
<1> QED BY <1>3, <1>4, <1>5

\* The same term, added or as a factor.
LEMMA SameTerm ==
    ASSUME NEW a \in Int, NEW b \in Int, NEW c \in Int, Mask(b) = Mask(c)
    PROVE  /\ a + b \in Int /\ a * b \in Int /\ a * c \in Int
           /\ Mask(a + b) = Mask(a + c) /\ Mask(a * b) = Mask(a * c)
<1>1. a + b \in Int /\ a * b \in Int /\ a * c \in Int
  OBVIOUS
<1>2. ASSUME NEW d \in Int, Mask(a) = Mask(d)
      PROVE  Mask(a + b) = Mask(d + c) /\ Mask(a * b) = Mask(d * c)
  BY <1>2, MaskOps
<1>3. Mask(a + b) = Mask(a + c) /\ Mask(a * b) = Mask(a * c)
  BY <1>2, Zenon
<1> QED BY <1>1, <1>3

\* Terms that are the same in the ring.
LEMMA SumMask ==
    ASSUME NEW S, IsFiniteSet(S), NEW f, NEW g,
           \A x \in S : f[x] \in Int /\ g[x] \in Int /\ Mask(f[x]) = Mask(g[x])
    PROVE  Mask(SumOver(S, f)) = Mask(SumOver(S, g))
<1> DEFINE C == {s \in SUBSET S : Mask(SumOver(s, f)) = Mask(SumOver(s, g))}
<1>1. {} \in C
  BY SumNone
<1>2. ASSUME NEW s \in SUBSET S, NEW x \in S \ s, s \in C PROVE s \union {x} \in C
  <2>1. /\ SumOver(s \union {x}, f) = f[x] + SumOver(s, f)
        /\ SumOver(s, f) \in Int /\ f[x] \in Int
    BY SumMore
  <2>2. /\ SumOver(s \union {x}, g) = g[x] + SumOver(s, g)
        /\ SumOver(s, g) \in Int /\ g[x] \in Int
    BY SumMore
  <2>3. Mask(f[x]) = Mask(g[x]) /\ Mask(SumOver(s, f)) = Mask(SumOver(s, g))
    BY <1>2
  <2>4. Mask(f[x] + SumOver(s, f)) = Mask(g[x] + SumOver(s, g))
    <3> DEFINE a == f[x]  b == SumOver(s, f)  c == g[x]  d == SumOver(s, g)
    <3>1. a \in Int /\ b \in Int /\ c \in Int /\ d \in Int /\ Mask(a) = Mask(c) /\ Mask(b) = Mask(d)
      BY <2>1, <2>2, <2>3
    <3> HIDE DEF a, b, c, d
    <3>2. Mask(a + b) = Mask(c + d)
      BY <3>1, MaskOps
    <3> QED BY <3>2 DEF a, b, c, d
  <2> QED BY <2>1, <2>2, <2>4
<1>3. S \in C
  <2> HIDE DEF C
  <2> QED BY <1>1, <1>2, SetInduct
<1> QED BY <1>3

\* Two disjoint sets.
LEMMA SumUnion ==
    ASSUME NEW A, IsFiniteSet(A), NEW B, IsFiniteSet(B), A \cap B = {},
           NEW f, \A x \in A \union B : f[x] \in Int
    PROVE  SumOver(A \union B, f) = SumOver(A, f) + SumOver(B, f)
<1> DEFINE S == A \union B
           C == {b \in SUBSET B : SumOver(A \union b, f) = SumOver(A, f) + SumOver(b, f)}
<1>1. IsFiniteSet(S) /\ (\A x \in S : f[x] \in Int) /\ (\A x \in B : f[x] \in Int)
  BY FS_Union
<1>2. {} \in C
  <2>1. A \union {} = A /\ SumOver({}, f) = 0 /\ SumOver(A, f) \in Int
    BY SumNone, SumRule
  <2> QED BY <2>1
<1>3. ASSUME NEW b \in SUBSET B, NEW x \in B \ b, b \in C PROVE b \union {x} \in C
  <2> DEFINE a == A \union b
  <2>1. a \in SUBSET S /\ x \in S \ a /\ a \union {x} = A \union (b \union {x})
    OBVIOUS
  <2>2. /\ SumOver(b \union {x}, f) = f[x] + SumOver(b, f)
        /\ SumOver(b, f) \in Int /\ f[x] \in Int
    BY <1>1, SumMore
  <2>3. SumOver(a \union {x}, f) = f[x] + SumOver(a, f)
    <3> HIDE DEF a, S
    <3> QED BY <1>1, <2>1, SumMore
  <2>4. SumOver(A, f) \in Int
    BY SumRule
  <2>5. SumOver(A \union b, f) = SumOver(A, f) + SumOver(b, f)
    BY <1>3
  <2>6. SumOver(A \union (b \union {x}), f) = f[x] + (SumOver(A, f) + SumOver(b, f))
    BY <2>1, <2>3, <2>5
  <2> QED BY <2>2, <2>4, <2>6
<1>4. B \in C
  <2> HIDE DEF C
  <2> QED BY <1>2, <1>3, SetInduct
<1> QED BY <1>4

\* Terms that are zero outside a subset.
LEMMA SumZero ==
    ASSUME NEW S, IsFiniteSet(S), NEW A \in SUBSET S, NEW f,
           \A x \in S : f[x] \in Int, \A x \in S \ A : f[x] = 0
    PROVE  SumOver(S, f) = SumOver(A, f)
<1>1. IsFiniteSet(A) /\ IsFiniteSet(S \ A)
  BY FS_Subset
<1>2. SumOver(S \ A, f) = 0 * Cardinality(S \ A) /\ Cardinality(S \ A) \in Nat
  BY <1>1, SumConst, FS_CardinalityType
<1>3. A \union (S \ A) = S /\ A \cap (S \ A) = {}
  OBVIOUS
<1>4. SumOver(A \union (S \ A), f) = SumOver(A, f) + SumOver(S \ A, f)
  BY <1>1, <1>3, SumUnion
<1>5. SumOver(A, f) \in Int
  BY <1>1, SumRule
<1>6. SumOver(S, f) = SumOver(A \union (S \ A), f)
  BY <1>3
<1>7. SumOver(S \ A, f) = 0
  BY <1>2
<1> QED BY <1>4, <1>5, <1>6, <1>7

\* The elements of one set renamed to those of another.
LEMMA SumMap ==
    ASSUME NEW A, IsFiniteSet(A), NEW B, IsFiniteSet(B), NEW F,
           \A x \in A : F[x] \in B, \A x, y \in A : F[x] = F[y] => x = y,
           \A y \in B : \E x \in A : F[x] = y,
           NEW f, NEW g, \A x \in A : f[x] \in Int /\ f[x] = g[F[x]]
    PROVE  SumOver(A, f) = SumOver(B, g)
<1> DEFINE Im(s) == {F[x] : x \in s}
           C == {s \in SUBSET A : SumOver(s, f) = SumOver(Im(s), g)}
<1>1. {} \in C
  <2>1. Im({}) = {}
    OBVIOUS
  <2> QED BY <2>1, SumNone
<1>2. \A y \in B : g[y] \in Int
  OBVIOUS
<1>3. ASSUME NEW s \in SUBSET A, NEW x \in A \ s, s \in C PROVE s \union {x} \in C
  <2>1. Im(s \union {x}) = Im(s) \union {F[x]}
    OBVIOUS
  <2>2. Im(s) \in SUBSET B /\ F[x] \in B \ Im(s)
    OBVIOUS
  <2>3. SumOver(s \union {x}, f) = f[x] + SumOver(s, f)
    BY SumMore
  <2>4. SumOver(Im(s) \union {F[x]}, g) = g[F[x]] + SumOver(Im(s), g)
    <3> HIDE DEF Im
    <3> QED BY <1>2, <2>2, SumMore
  <2>5. SumOver(s, f) = SumOver(Im(s), g)
    BY <1>3
  <2> HIDE DEF Im
  <2>6. SumOver(s \union {x}, f) = SumOver(Im(s \union {x}), g)
    BY <2>1, <2>3, <2>4, <2>5
  <2> QED BY <2>6
<1>4. A \in C
  <2> HIDE DEF C
  <2> QED BY <1>1, <1>3, SetInduct
<1>5. Im(A) = B
  OBVIOUS
<1> QED BY <1>4, <1>5

\* The order of two sums.
LEMMA SumSwap ==
    ASSUME NEW A, IsFiniteSet(A), NEW B, IsFiniteSet(B), NEW F,
           \A x \in A : \A y \in B : F[x][y] \in Int
    PROVE  SumOver(A, [x \in A |-> SumOver(B, F[x])])
             = SumOver(B, [y \in B |-> SumOver(A, [x \in A |-> F[x][y]])])
<1> DEFINE row == [x \in A |-> SumOver(B, F[x])]
           col(s) == [y \in B |-> SumOver(s, [x \in A |-> F[x][y]])]
           C == {s \in SUBSET A : SumOver(s, row) = SumOver(B, col(s))}
<1>1. \A x \in A : row[x] \in Int /\ row[x] = SumOver(B, F[x])
  BY SumRule
<1>2. {} \in C
  <2>1. \A y \in B : col({})[y] = 0
    BY SumNone
  <2>2. SumOver(B, col({})) = 0 * Cardinality(B) /\ Cardinality(B) \in Nat
    <3> HIDE DEF col
    <3> QED BY <2>1, SumConst, FS_CardinalityType
  <2> QED BY <2>2, SumNone
<1>3. ASSUME NEW s \in SUBSET A, NEW x \in A \ s, s \in C PROVE s \union {x} \in C
  <2>1. SumOver(s \union {x}, row) = row[x] + SumOver(s, row)
    <3> HIDE DEF row
    <3> QED BY <1>1, SumMore
  <2>2. ASSUME NEW y \in B
        PROVE  col(s)[y] \in Int /\ F[x][y] \in Int /\ col(s \union {x})[y] = F[x][y] + col(s)[y]
    <3> DEFINE f == [z \in A |-> F[z][y]]
    <3>1. (\A z \in A : f[z] \in Int) /\ f[x] = F[x][y]
      OBVIOUS
    <3>2. SumOver(s \union {x}, f) = f[x] + SumOver(s, f) /\ SumOver(s, f) \in Int
      <4> HIDE DEF f
      <4> QED BY <3>1, SumMore
    <3> QED BY <3>1, <3>2
  <2>3. SumOver(B, col(s \union {x})) = SumOver(B, F[x]) + SumOver(B, col(s))
    <3> HIDE DEF col
    <3>1. \A y \in B : F[x][y] \in Int /\ col(s)[y] \in Int
                       /\ col(s \union {x})[y] = F[x][y] + col(s)[y]
      BY <2>2
    <3> QED BY <3>1, SumAdd
  <2>4. SumOver(s, row) = SumOver(B, col(s))
    BY <1>3
  <2>5. row[x] = SumOver(B, F[x])
    BY <1>1
  <2> HIDE DEF row, col
  <2>6. SumOver(s \union {x}, row) = SumOver(B, col(s \union {x}))
    BY <2>1, <2>3, <2>4, <2>5
  <2> QED BY <2>6
<1>4. A \in C
  <2> HIDE DEF C
  <2> QED BY <1>2, <1>3, SetInduct
<1> QED BY <1>4

-----------------------------------------------------------------------------
(***************************************************************************)
(* The tables of shares, seen from the distance between two parties.       *)
(***************************************************************************)
Sizes == n \in {5, 7}

\* The batches read in Rss_Mult that are added to share j.
Into(j) == {m \in 1..t : j \in Peers("mult").share[m]}

\* The party whose own product is part of share j of p's product, if any.
Owner(p, j) ==
    IF j = 0 THEN p
    ELSE IF Into(j) = {} THEN 0
    ELSE Off(p, Peers("mult").from[CHOOSE m \in Into(j) : TRUE], n)

Ctr(j) == prg_ctrs(n)[j + 1]

\* What five and seven parties mean: the parties a share is kept from, and the
\* shares of a party.
LEMMA Numbers ==
    ASSUME Sizes
    PROVE  /\ n = 5 => t = 2 /\ Keys = 0..5 /\ Party = 1..5
           /\ n = 7 => t = 3 /\ Keys = 0..19 /\ Party = 1..7
BY DEF Sizes, t, Keys, Party, numShares, T_map

\* The parties are the distances around the ring from any of them.
LEMMA Offsets ==
    ASSUME Sizes, NEW p \in Party
    PROVE  /\ \A d \in Nat : Off(p, d, n) \in Party
           /\ Off(p, 0, n) = p
           /\ \A d, e \in 0 .. n - 1 : Off(p, d, n) = Off(p, e, n) => d = e
           /\ \A q \in Party : \E d \in 0 .. n - 1 : q = Off(p, d, n)
<1>1. CASE n = 5
  BY <1>1 DEF Off, Party
<1>2. CASE n = 7
  BY <1>2 DEF Off, Party
<1> QED BY <1>1, <1>2 DEF Sizes

\* Two distances one after the other.
LEMMA OffsetSum ==
    ASSUME Sizes, NEW p \in Party, NEW d \in 0 .. n - 1, NEW e \in 0 .. n - 1
    PROVE  Off(Off(p, d, n), e, n) = Off(p, IF d + e < n THEN d + e ELSE d + e - n, n)
<1>1. CASE n = 5
  BY <1>1 DEF Off, Party
<1>2. CASE n = 7
  BY <1>2 DEF Off, Party
<1> QED BY <1>1, <1>2 DEF Sizes

\* Who lacks a share, read from its row of the table (T_map_5pc, T_map_7pc).
LEMMA MissingIs ==
    ASSUME Sizes, NEW p \in Party, NEW j \in Keys
    PROVE  Missing(p, j) = {Off(p, d, n) : d \in T_map(n)[j + 1]}
BY DEF Missing, TSets, TSet, Sizes, Party, Keys

\* Where the owner of share j is from the holder of it; n if there is none.
Ahead(j) ==
    IF j = 0 THEN 0
    ELSE IF n = 5 THEN (IF j = 5 THEN 2 ELSE IF j = 3 THEN 1 ELSE n)
    ELSE IF j = 19 THEN 3 ELSE IF j = 16 THEN 2 ELSE IF j = 10 THEN 1 ELSE n

\* Whose product goes into a share is read from from_mult, and the keys that no
\* product replaces are the ones asked for one word more (prg_ctrs).
LEMMA OwnerIs ==
    ASSUME Sizes, NEW p \in Party, NEW j \in Keys
    PROVE  /\ Ahead(j) \in 0 .. n
           /\ Owner(p, j) = IF Ahead(j) = n THEN 0 ELSE Off(p, Ahead(j), n)
           /\ Ctr(j) = IF Ahead(j) = n THEN t + 1 ELSE t
<1>1. CASE n = 5
  <2>1. t = 2 /\ j \in 0..5
    BY <1>1, Numbers
  <2>2. /\ Into(j) = IF j = 5 THEN {1} ELSE IF j = 3 THEN {2} ELSE {}
        /\ Peers("mult").from[1] = 2 /\ Peers("mult").from[2] = 1
    BY <1>1, <2>1 DEF Into, Peers
  <2>3. \A m : (CHOOSE x \in {m} : TRUE) = m
    OBVIOUS
  <2>4. Ctr(j) = IF j \in {0, 3, 5} THEN 2 ELSE 3
    BY <1>1, <2>1 DEF Ctr, prg_ctrs
  <2>5. Off(p, 0, n) = p
    BY Offsets
  <2> QED BY <1>1, <2>1, <2>2, <2>3, <2>4, <2>5 DEF Ahead, Owner
<1>2. CASE n = 7
  <2>1. t = 3 /\ j \in 0..19
    BY <1>2, Numbers
  <2>2. /\ Into(j) = IF j = 19 THEN {1} ELSE IF j = 16 THEN {2} ELSE IF j = 10 THEN {3} ELSE {}
        /\ Peers("mult").from[1] = 3 /\ Peers("mult").from[2] = 2 /\ Peers("mult").from[3] = 1
    BY <1>2, <2>1 DEF Into, Peers
  <2>3. \A m : (CHOOSE x \in {m} : TRUE) = m
    OBVIOUS
  <2>4. Ctr(j) = IF j \in {0, 10, 16, 19} THEN 3 ELSE 4
    BY <1>2, <2>1 DEF Ctr, prg_ctrs
  <2>5. Off(p, 0, n) = p
    BY Offsets
  <2>6. Ahead(j) = IF j = 0 THEN 0 ELSE IF j = 19 THEN 3 ELSE IF j = 16 THEN 2
                   ELSE IF j = 10 THEN 1 ELSE 7
    BY <1>2 DEF Ahead
  <2>7. CASE j = 0
    BY <1>2, <2>1, <2>4, <2>5, <2>6, <2>7 DEF Owner
  <2>8. CASE j \in {10, 16, 19}
    <3>1. /\ Ahead(j) \in 1..3 /\ Ctr(j) = 3
          /\ \E m : Into(j) = {m} /\ Peers("mult").from[m] = Ahead(j)
      BY <2>2, <2>4, <2>6, <2>8
    <3> QED BY <1>2, <2>1, <2>3, <2>8, <3>1 DEF Owner
  <2>9. CASE j \notin {0, 10, 16, 19}
    BY <1>2, <2>1, <2>2, <2>4, <2>6, <2>9 DEF Owner
  <2> QED BY <2>7, <2>8, <2>9
<1> QED BY <1>1, <1>2 DEF Sizes

\* Distances i with 1 <= i <= t, seen from a party e further on.
Around(e) == {IF d + e < n THEN d + e ELSE d + e - n : d \in 1..t}

\* A row of the table is the set of the t parties before its owner, and of no
\* other party.
LEMMA Rows ==
    ASSUME Sizes, NEW j \in Keys, NEW e \in 0 .. n - 1
    PROVE  /\ T_map(n)[j + 1] \subseteq 1 .. n - 1
           /\ T_map(n)[j + 1] = Around(e) <=> e = Ahead(j)
<1>1. CASE n = 5
  <2>1. t = 2 /\ j \in 0..5 /\ 1..t = {1, 2}
    BY <1>1, Numbers
  <2>2. Around(e) = {IF 1 + e < 5 THEN 1 + e ELSE e - 4, IF 2 + e < 5 THEN 2 + e ELSE e - 3}
    BY <1>1, <2>1 DEF Around
  <2>3. T_map(n)[j + 1] \subseteq 1..4
    BY <1>1, <2>1 DEF T_map
  <2>4. /\ T_map(n)[j + 1] = {1, 2} <=> j = 0
        /\ T_map(n)[j + 1] = {2, 3} <=> j = 3
        /\ T_map(n)[j + 1] = {3, 4} <=> j = 5
    BY <1>1, <2>1 DEF T_map
  <2>5. Ahead(j) = IF j = 0 THEN 0 ELSE IF j = 5 THEN 2 ELSE IF j = 3 THEN 1 ELSE 5
    BY <1>1 DEF Ahead
  <2>6. CASE e \in 0..2
    <3>1. Around(0) = {1, 2} /\ Around(1) = {2, 3} /\ Around(2) = {3, 4}
      BY <1>1, <2>1 DEF Around
    <3>2. e = 0 \/ e = 1 \/ e = 2
      BY <2>6
    <3> QED BY <1>1, <2>1, <2>3, <2>4, <2>5, <3>1, <3>2
  <2>7. CASE e \in 3..4
    <3>1. 0 \in Around(e)
      BY <2>2, <2>7
    <3>2. e # Ahead(j)
      BY <2>5, <2>7
    <3> QED BY <1>1, <2>3, <3>1, <3>2
  <2> QED BY <1>1, <2>6, <2>7
<1>2. CASE n = 7
  <2>1. t = 3 /\ j \in 0..19 /\ 1..t = {1, 2, 3}
    BY <1>2, Numbers
  <2>2. Around(e) = {IF 1 + e < 7 THEN 1 + e ELSE e - 6, IF 2 + e < 7 THEN 2 + e ELSE e - 5,
                     IF 3 + e < 7 THEN 3 + e ELSE e - 4}
    BY <1>2, <2>1 DEF Around
  <2>3. T_map(n)[j + 1] \subseteq 1..6
    BY <1>2, <2>1 DEF T_map
  <2>4. /\ T_map(n)[j + 1] = {1, 2, 3} <=> j = 0
        /\ T_map(n)[j + 1] = {2, 3, 4} <=> j = 10
        /\ T_map(n)[j + 1] = {3, 4, 5} <=> j = 16
        /\ T_map(n)[j + 1] = {4, 5, 6} <=> j = 19
    <3>1. \A k \in 0..19 :
            /\ 1 \in T_map(7)[k + 1] <=> k \in 0..9
            /\ 2 \in T_map(7)[k + 1] <=> k \in (0..3) \union (10..15)
            /\ 3 \in T_map(7)[k + 1] <=> k \in {0, 4, 5, 6, 10, 11, 12, 16, 17, 18}
      BY DEF T_map
    <3>2. \A k \in 0..19 :
            /\ 4 \in T_map(7)[k + 1] <=> k \in {1, 4, 7, 8, 10, 13, 14, 16, 17, 19}
            /\ 5 \in T_map(7)[k + 1] <=> k \in {2, 5, 7, 9, 11, 13, 15, 16, 18, 19}
            /\ 6 \in T_map(7)[k + 1] <=> k \in {3, 6, 8, 9, 12, 14, 15, 17, 18, 19}
      BY DEF T_map
    <3>3. /\ T_map(7)[1] = {1, 2, 3} /\ T_map(7)[11] = {2, 3, 4}
          /\ T_map(7)[17] = {3, 4, 5} /\ T_map(7)[20] = {4, 5, 6}
      BY DEF T_map
    <3>4. T_map(7)[j + 1] = {1, 2, 3} => j = 0
      BY <2>1, <3>1, <3>2
    <3>5. T_map(7)[j + 1] = {2, 3, 4} => j = 10
      BY <2>1, <3>1, <3>2
    <3>6. T_map(7)[j + 1] = {3, 4, 5} => j = 16
      BY <2>1, <3>1, <3>2
    <3>7. T_map(7)[j + 1] = {4, 5, 6} => j = 19
      BY <2>1, <3>1, <3>2
    <3> QED BY <1>2, <2>1, <3>3, <3>4, <3>5, <3>6, <3>7
  <2>5. Ahead(j) = IF j = 0 THEN 0 ELSE IF j = 19 THEN 3 ELSE IF j = 16 THEN 2
                   ELSE IF j = 10 THEN 1 ELSE 7
    BY <1>2 DEF Ahead
  <2>6. CASE e \in 0..3
    <3>1. Around(e) = {e + 1, e + 2, e + 3}
      BY <2>2, <2>6
    <3>2. Around(0) = {1, 2, 3} /\ Around(1) = {2, 3, 4} /\ Around(2) = {3, 4, 5}
          /\ Around(3) = {4, 5, 6}
      BY <1>2, <2>1 DEF Around
    <3>3. e = 0 \/ e = 1 \/ e = 2 \/ e = 3
      BY <2>6
    <3> QED BY <1>2, <2>1, <2>3, <2>4, <2>5, <3>2, <3>3
  <2>7. CASE e \in 4..6
    <3>1. 0 \in Around(e)
      BY <2>2, <2>7
    <3>2. e # Ahead(j)
      BY <2>5, <2>7
    <3> QED BY <1>2, <2>3, <3>1, <3>2
  <2> QED BY <1>2, <2>6, <2>7
<1> QED BY <1>1, <1>2 DEF Sizes

\* Party s owns share j of p exactly if the T of that share is the Chi of s.
LEMMA OwnerRule ==
    ASSUME Sizes, NEW p \in Party, NEW j \in Keys, NEW s \in Party
    PROVE  Owner(p, j) = s <=> Missing(p, j) = Chi(s)
<1>1. PICK e \in 0 .. n - 1 : s = Off(p, e, n)
  BY Offsets
<1>2. Missing(p, j) = {Off(p, d, n) : d \in T_map(n)[j + 1]}
  BY MissingIs
<1>3. 1..t \subseteq 0 .. n - 1 /\ 0 \in Keys /\ T_map(n)[0 + 1] = 1..t /\ 0 \notin Party
  <2>1. CASE n = 5
    <3>1. T_map(5)[1] = 1..2
      BY DEF T_map
    <3> QED BY <2>1, <3>1, Numbers
  <2>2. CASE n = 7
    <3>1. T_map(7)[1] = 1..3
      BY DEF T_map
    <3> QED BY <2>2, <3>1, Numbers
  <2> QED BY <2>1, <2>2 DEF Sizes
<1>4. Chi(s) = {Off(p, d, n) : d \in Around(e)}
  <2>1. Chi(s) = {Off(s, d, n) : d \in 1..t}
    BY <1>3, MissingIs DEF Chi
  <2>2. \A d \in 1..t : Off(s, d, n) = Off(p, IF d + e < n THEN d + e ELSE d + e - n, n)
    <3> TAKE d \in 1..t
    <3>1. d \in 0 .. n - 1 /\ d \in Int /\ e \in Int /\ n \in Int
      BY <1>3 DEF Sizes
    <3>2. Off(Off(p, e, n), d, n) = Off(p, IF e + d < n THEN e + d ELSE e + d - n, n)
      BY <3>1, OffsetSum
    <3>3. (IF e + d < n THEN e + d ELSE e + d - n) = (IF d + e < n THEN d + e ELSE d + e - n)
      BY <3>1
    <3> QED BY <1>1, <3>2, <3>3, Zenon
  <2> QED BY <2>1, <2>2 DEF Around
<1>5. T_map(n)[j + 1] \subseteq 0 .. n - 1 /\ Around(e) \subseteq 0 .. n - 1
  <2>1. T_map(n)[j + 1] \subseteq 1 .. n - 1
    BY Rows
  <2>2. n \in Nat
    BY DEF Sizes
  <2> QED BY <1>3, <2>1, <2>2 DEF Around
<1>6. Missing(p, j) = Chi(s) <=> T_map(n)[j + 1] = Around(e)
  <2> DEFINE At(D) == {Off(p, d, n) : d \in D}
  <2>1. ASSUME NEW D \in SUBSET (0 .. n - 1), NEW E \in SUBSET (0 .. n - 1), At(D) = At(E)
        PROVE  D \subseteq E
    <3> SUFFICES ASSUME NEW d \in D PROVE d \in E
      OBVIOUS
    <3>1. PICK f \in E : Off(p, d, n) = Off(p, f, n)
      BY <2>1
    <3>2. d \in 0 .. n - 1 /\ f \in 0 .. n - 1
      BY <2>1
    <3>3. d = f
      BY <3>1, <3>2, Offsets
    <3> QED BY <3>3
  <2> HIDE DEF At
  <2>2. \A D, E \in SUBSET (0 .. n - 1) : At(D) = At(E) <=> D = E
    BY <2>1
  <2>3. Missing(p, j) = At(T_map(n)[j + 1]) /\ Chi(s) = At(Around(e))
    BY <1>2, <1>4 DEF At
  <2> QED BY <1>5, <2>2, <2>3
<1>7. T_map(n)[j + 1] = Around(e) <=> e = Ahead(j)
  BY Rows
<1>8. Owner(p, j) = s <=> e = Ahead(j)
  <2>1. Ahead(j) \in 0 .. n /\ Owner(p, j) = IF Ahead(j) = n THEN 0 ELSE Off(p, Ahead(j), n)
    BY OwnerIs
  <2>2. n \in Nat
    BY DEF Sizes
  <2>3. \A d, f \in 0 .. n - 1 : Off(p, d, n) = Off(p, f, n) => d = f
    BY Offsets
  <2> QED BY <1>1, <1>3, <2>1, <2>2, <2>3
<1> QED BY <1>6, <1>7, <1>8

\* Copies of a share have one owner, and keys of it one count.
LEMMA CopiesAlike ==
    ASSUME Sizes, NEW p \in Party, NEW q \in Party, NEW j \in Keys, NEW l \in Keys,
           Missing(p, j) = Missing(q, l)
    PROVE  Owner(p, j) = Owner(q, l) /\ Ctr(j) = Ctr(l)
<1>1. \A s \in Party : Owner(p, j) = s <=> Owner(q, l) = s
  BY OwnerRule
<1>2. ASSUME NEW r \in Party, NEW k \in Keys
      PROVE  /\ Owner(r, k) \in Party \union {0} /\ 0 \notin Party
             /\ Ctr(k) = IF Owner(r, k) = 0 THEN t + 1 ELSE t
  <2>1. /\ Ahead(k) \in 0 .. n
        /\ Owner(r, k) = IF Ahead(k) = n THEN 0 ELSE Off(r, Ahead(k), n)
        /\ Ctr(k) = IF Ahead(k) = n THEN t + 1 ELSE t
    BY OwnerIs
  <2>2. n \in Nat /\ 0 \notin Party
    BY DEF Sizes, Party
  <2>3. Ahead(k) # n => Off(r, Ahead(k), n) \in Party
    BY <2>1, <2>2, Offsets
  <2> QED BY <2>1, <2>2, <2>3
<1> QED BY <1>1, <1>2

-----------------------------------------------------------------------------
\* Every set of t distances is a row of the table.
LEMMA Rows5 ==
    ASSUME NEW a \in 1..4, NEW b \in 1..4, a # b
    PROVE  \E j \in 0..5 : T_map(5)[j + 1] = {a, b}
<1>1. ASSUME NEW x \in 1..4, NEW y \in 1..4, x < y
      PROVE  \E j \in 1..6 : T_map(5)[j] = {x, y}
  BY <1>1 DEF T_map
<1>2. PICK j \in 1..6 : T_map(5)[j] = {a, b}
  <2>1. {a, b} = {b, a}
    OBVIOUS
  <2> QED BY <1>1, <2>1
<1> QED BY <1>2

\* The same for seven parties.
LEMMA Rows7 ==
    ASSUME NEW a \in 1..6, NEW b \in 1..6, NEW c \in 1..6, a # b, a # c, b # c
    PROVE  \E j \in 0..19 : T_map(7)[j + 1] = {a, b, c}
<1>1. ASSUME NEW x \in 1..6, NEW y \in 1..6, NEW z \in 1..6, x < y, y < z
      PROVE  \E j \in 1..20 : T_map(7)[j] = {x, y, z}
  <2>1. CASE x = 1 /\ y = 2
    BY <1>1, <2>1 DEF T_map
  <2>2. CASE x = 1 /\ y = 3
    BY <1>1, <2>2 DEF T_map
  <2>3. CASE x = 1 /\ y \in {4, 5}
    BY <1>1, <2>3 DEF T_map
  <2>4. CASE x = 2
    BY <1>1, <2>4 DEF T_map
  <2>5. CASE x \in {3, 4}
    BY <1>1, <2>5 DEF T_map
  <2> QED BY <1>1, <2>1, <2>2, <2>3, <2>4, <2>5
<1>2. PICK j \in 1..20 : T_map(7)[j] = {a, b, c}
  <2>1. \E x, y, z \in 1..6 : x < y /\ y < z /\ {a, b, c} = {x, y, z}
    <3>1. /\ {a, b, c} = {a, c, b} /\ {a, b, c} = {b, a, c} /\ {a, b, c} = {b, c, a}
          /\ {a, b, c} = {c, a, b} /\ {a, b, c} = {c, b, a}
      OBVIOUS
    <3>2. \/ a < b /\ b < c
          \/ a < c /\ c < b
          \/ b < a /\ a < c
          \/ b < c /\ c < a
          \/ c < a /\ a < b
          \/ c < b /\ b < a
      OBVIOUS
    <3>3. ASSUME NEW x \in 1..6, NEW y \in 1..6, NEW z \in 1..6, x < y, y < z,
                 {a, b, c} = {x, y, z}
          PROVE  \E x1, y1, z1 \in 1..6 : x1 < y1 /\ y1 < z1 /\ {a, b, c} = {x1, y1, z1}
      BY <3>3
    <3>4. CASE a < b /\ b < c
      BY <3>3, <3>4
    <3>5. CASE a < c /\ c < b
      BY <3>1, <3>3, <3>5
    <3>6. CASE b < a /\ a < c
      BY <3>1, <3>3, <3>6
    <3>7. CASE b < c /\ c < a
      BY <3>1, <3>3, <3>7
    <3>8. CASE c < a /\ a < b
      BY <3>1, <3>3, <3>8
    <3>9. CASE c < b /\ b < a
      BY <3>1, <3>3, <3>9
    <3> QED BY <3>2, <3>4, <3>5, <3>6, <3>7, <3>8, <3>9
  <2>2. PICK x, y, z \in 1..6 : x < y /\ y < z /\ {a, b, c} = {x, y, z}
    BY <2>1
  <2>3. \E j \in 1..20 : T_map(7)[j] = {x, y, z}
    BY <1>1, <2>2
  <2> QED BY <2>2, <2>3
<1> QED BY <1>2

\* A party outside a T holds the share of that T.
LEMMA Complete ==
    ASSUME Sizes, NEW p \in Party, NEW T \in Ts, p \notin T
    PROVE  IndexOf(p, T) \in Keys /\ Missing(p, IndexOf(p, T)) = T
<1>1. PICK q \in Party, k \in Keys : T = Missing(q, k)
  BY DEF Ts
<1>2. T = {Off(q, d, n) : d \in T_map(n)[k + 1]}
  BY <1>1, MissingIs
<1>3. T_map(n)[k + 1] \subseteq 0 .. n - 1
  <2>1. T_map(n)[k + 1] \subseteq 1 .. n - 1 /\ n \in Nat /\ 0 \in 0 .. n - 1
    BY Rows DEF Sizes
  <2> QED BY <2>1
<1>4. /\ \A d \in 0 .. n - 1 : Off(q, d, n) \in Party
      /\ \A d, e \in 0 .. n - 1 : Off(q, d, n) = Off(q, e, n) => d = e
  <2>1. \A d \in 0 .. n - 1 : d \in Nat
    BY DEF Sizes
  <2> QED BY <2>1, Offsets
\* The elements of T seen from p.
<1>5. ASSUME NEW d \in T_map(n)[k + 1]
      PROVE  \E e \in 1 .. n - 1 : Off(q, d, n) = Off(p, e, n)
  <2>1. Off(q, d, n) \in Party /\ Off(q, d, n) # p
    BY <1>2, <1>3, <1>4
  <2>2. PICK e \in 0 .. n - 1 : Off(q, d, n) = Off(p, e, n)
    BY <2>1, Offsets
  <2>3. e # 0
    BY <2>1, <2>2, Offsets
  <2> QED BY <2>2, <2>3 DEF Sizes
<1>6. \E j \in Keys : Missing(p, j) = T
  <2>1. CASE n = 5
    <3>1. PICK d1, d2 : T_map(n)[k + 1] = {d1, d2} /\ d1 # d2
      <4>1. k + 1 \in 1..6
        BY <2>1, Numbers
      <4>2. \A j \in 1..6 : \E d1, d2 \in 1..4 : T_map(5)[j] = {d1, d2} /\ d1 < d2
        BY DEF T_map
      <4>3. \A d1, d2 \in 1..4 : d1 < d2 => d1 # d2
        OBVIOUS
      <4> QED BY <2>1, <4>1, <4>2, <4>3
    <3>2. PICK e1 \in 1..4, e2 \in 1..4 :
            Off(q, d1, n) = Off(p, e1, n) /\ Off(q, d2, n) = Off(p, e2, n)
      BY <1>5, <2>1, <3>1
    <3>3. e1 # e2
      BY <1>3, <1>4, <3>1, <3>2
    <3>4. PICK j \in 0..5 : T_map(5)[j + 1] = {e1, e2}
      BY <3>3, Rows5
    <3>5. j \in Keys /\ Missing(p, j) = {Off(p, d, n) : d \in {e1, e2}}
      BY <2>1, <3>4, Numbers, MissingIs
    <3>6. T = {Off(p, e1, n), Off(p, e2, n)}
      BY <1>2, <3>1, <3>2
    <3> QED BY <3>5, <3>6
  <2>2. CASE n = 7
    <3>1. PICK d1, d2, d3 : T_map(n)[k + 1] = {d1, d2, d3} /\ d1 # d2 /\ d1 # d3 /\ d2 # d3
      <4>1. Keys = 0..19
        BY <2>2, Numbers
      <4>2. \A j \in 1..20 : \E d1, d2, d3 \in 1..6 :
              T_map(7)[j] = {d1, d2, d3} /\ d1 < d2 /\ d2 < d3
        BY DEF T_map
      <4>3. \A d1, d2, d3 \in 1..6 : d1 < d2 /\ d2 < d3 => d1 # d2 /\ d1 # d3 /\ d2 # d3
        OBVIOUS
      <4>4. k + 1 \in 1..20
        BY <4>1
      <4> QED BY <2>2, <4>2, <4>3, <4>4
    <3>2. PICK e1 \in 1..6, e2 \in 1..6, e3 \in 1..6 :
            /\ Off(q, d1, n) = Off(p, e1, n) /\ Off(q, d2, n) = Off(p, e2, n)
            /\ Off(q, d3, n) = Off(p, e3, n)
      BY <1>5, <2>2, <3>1
    <3>3. e1 # e2 /\ e1 # e3 /\ e2 # e3
      BY <1>3, <1>4, <3>1, <3>2
    <3>4. PICK j \in 0..19 : T_map(7)[j + 1] = {e1, e2, e3}
      BY <3>3, Rows7
    <3>5. j \in Keys /\ Missing(p, j) = {Off(p, d, n) : d \in {e1, e2, e3}}
      BY <2>2, <3>4, Numbers, MissingIs
    <3>6. T = {Off(p, e1, n), Off(p, e2, n), Off(p, e3, n)}
      BY <1>2, <3>1, <3>2
    <3> QED BY <3>5, <3>6
  <2> QED BY <2>1, <2>2 DEF Sizes
<1>7. /\ Missing(p, IndexOf(p, T)) = T /\ IndexOf(p, T) \in Keys
  <2>1. DOMAIN TSets[n][p] = Keys /\ n \in {5, 7} /\ p \in 1..n
    BY DEF TSets, Sizes, Party, Keys
  <2>2. T \in {TSets[n][p][j] : j \in DOMAIN TSets[n][p]}
    BY <1>6, <2>1 DEF Missing
  <2>3. IndexOf(p, T) = CHOOSE j \in DOMAIN TSets[n][p] : TSets[n][p][j] = T
    BY <2>1, <2>2 DEF IndexOf, Indexes
  <2> QED BY <2>1, <2>2, <2>3 DEF Missing
<1> QED BY <1>7

-----------------------------------------------------------------------------
(***************************************************************************)
(* The inductive invariant.                                                *)
(***************************************************************************)
Op(k) == run.program[k].op
Steps == 1 .. Len(run.program)
Before(k, op) == Cardinality({l \in 1 .. k-1 : Op(l) = op})

\* How many words of key j the instructions before k take.
Words(j, k) == run.size * (Ctr(j) * Before(k, "mult") + Before(k, "multpub"))

\* The word of key j that masks value i in instruction k, a product.
Z(p, j, k, i) ==
    Prg(run.seed, Missing(p, j), Words(j, k) + ((i - 1) * Ctr(j) + 1)) % 2^run.R

\* How often the share of T takes in its word.
Uses(T) == Cardinality({q \in Party \ T : Chi(q) # T})

\* What p sends to its peers in product k, a and b being its shares of the
\* operands.
Masked(a, b, p, k) ==
    [i \in Batch |-> Mask(Local(a, b, i)
        - SumOver({j \in Keys : Missing(p, j) # Chi(p)}, [j \in Keys |-> Z(p, j, k, i)]))]

Message(p, k) == Masked(shares[p][run.program[k].x], shares[p][run.program[k].y], p, k)

\* A batch cut to the ring.
Cut(w) == [i \in Batch |-> Mask(w[i])]

\* What p sends in turn m of Rss_Open, instruction k.
Opening(p, m, k) ==
    [i \in Batch |-> Mask(SumOver(Peers("open").share[m],
        [j \in Keys |-> shares[p][run.program[k].x][j][i]]))]

\* The turn of an opening in which p sends to q.
Turn(p, q) == CHOOSE m \in 1..t : q = Off(p, Peers("open").to[m], n)

\* The ring value i of what memcpy makes of the words of key j in instruction
\* k, a Rss_MultPub, when the words reach up to it.
Filled(p, j, k, i) ==
    Mask(SumOver(Batch, [l \in Batch |->
            (Prg(run.seed, Missing(p, j), Words(j, k) + l) % 2^run.R) * 2^(run.R * (l - 1))])
         \div 2^(W * (i - 1)))

\* What p sends to everyone in it.
Publishing(p, k) ==
    LET s == run.program[k] IN
    [i \in Batch |-> Mask(Local(shares[p][s.x], shares[p][s.y], i)
        + SumOver(Keys, [j \in Keys |-> Ops(p, j) * Filled(p, j, k, i)]))]

\* The words of a batch fill the ring values of all its Lints.
Packed == (run.size - 1) * W + K <= run.size * run.R

\* The instructions whose batches do not depend on uninitialized memory.
Exact(k) == Op(k) = "multpub" => Packed

\* The batch that p sends q in instruction k.
Sent(p, q, k) ==
    IF Op(k) = "mult" THEN Message(p, k)
    ELSE IF Op(k) = "open" THEN Opening(p, Turn(p, q), k)
    ELSE Publishing(p, k)

\* The result of instruction k that p is shown.
Shown(p, k) ==
    LET a == shares[p][run.program[k].x]
        others == Party \ {p} IN
    IF Op(k) = "open"
    THEN [i \in Batch |-> Mask(SumOver(Keys, [j \in Keys |-> a[j][i]])
            + SumOver(1..t, [m \in 1..t |-> Sent(Off(p, Peers("open").from[m], n), p, k)[i]]))]
    ELSE [i \in Batch |-> Mask(Publishing(p, k)[i]
            + SumOver(others, [q \in others |-> Publishing(q, k)[i]]))]

\* The product k of p, from the message of each share's owner.
Product(p, k) ==
    [j \in Keys |-> [i \in Batch |->
        Wrap(Wrap(Uses(Missing(p, j)) * Z(p, j, k, i))
             + (IF Owner(p, j) = 0 THEN 0 ELSE Message(Owner(p, j), k)[i]))]]

\* The registers a party has: the inputs and its finished products.
Has(p, r) ==
    r \in Inputs \/ \E k \in 1 .. pc[p] - 1 : Op(k) = "mult" /\ run.program[k].dst = r

Known ==
    /\ Registers = Inputs \union Written(run.program)
    /\ \A p \in Party, r \in Registers : shares[p][r] # Unknown <=> Has(p, r)

InputsShared ==
    \A p \in Party, r \in Inputs : shares[p][r] =
        [j \in Keys |-> [i \in Batch |-> Input(run.seed, r, Missing(p, j), i)]]

\* A party sends in turn, and to all at once in Rss_MultPub.
Turns ==
    \A p \in Party : sent[p] > 0 =>
        /\ Running(p)
        /\ IF Op(pc[p]) = "multpub" THEN sent[p] = n - 1 ELSE sent[p] <= t

Counts ==
    \A p \in Party, j \in Keys :
        drawn[p][j] = Words(j, IF sent[p] = 0 THEN pc[p] ELSE pc[p] + 1)

\* The locals of p in instruction k, between the first send and the last read.
LocalsAt(p, k) ==
    /\ Op(k) \in {"mult", "open"} =>
          /\ v[p].out \in [1..t -> [Batch -> Word]]
          /\ Len(v[p].got) = sent[p] - 1
          /\ \A m \in 1 .. sent[p] - 1 :
                v[p].got[m] = Sent(Off(p, Peers(Op(k)).from[m], n), p, k)
    /\ Op(k) = "mult" =>
          /\ \A j \in Keys, i \in Batch : v[p].c[j][i] = Wrap(Uses(Missing(p, j)) * Z(p, j, k, i))
          /\ \A m \in 1..t : v[p].out[m] = Message(p, k)
    /\ Op(k) = "open" => \A m \in 1..t : Cut(v[p].out[m]) = Opening(p, m, k)
    /\ Op(k) = "multpub" => v[p].c \in [Batch -> Word] /\ (Packed => Cut(v[p].c) = Publishing(p, k))

Locals == \A p \in Party : sent[p] > 0 => LocalsAt(p, pc[p])

\* p has sent q the batch of instruction k, and q has read it.
HasSent(p, q, k) ==
    IF Op(k) = "multpub" THEN p # q /\ (k < pc[p] \/ (k = pc[p] /\ sent[p] > 0))
    ELSE \E m \in 1..t :
            /\ q = Off(p, Peers(Op(k)).to[m], n)
            /\ k < pc[p] \/ (k = pc[p] /\ sent[p] >= m)

HasRead(q, p, k) ==
    IF Op(k) = "multpub" THEN k < pc[q]
    ELSE \E m \in 1..t :
            /\ p = Off(q, Peers(Op(k)).from[m], n)
            /\ k < pc[q] \/ (k = pc[q] /\ sent[q] > m)

InFlight(p, q) == {k \in Steps : HasSent(p, q, k) /\ ~HasRead(q, p, k)}

\* c holds, in order, p's batches for q of the instructions in S, which ids
\* lists.
Carries(c, ids, S, p, q) ==
    /\ ids \in [1 .. Len(c) -> S]
    /\ \A k \in S : \E x \in 1 .. Len(c) : ids[x] = k
    /\ \A x, y \in 1 .. Len(c) : x < y => ids[x] < ids[y]
    /\ \A x \in 1 .. Len(c) : Exact(ids[x]) => c[x] = Sent(p, q, ids[x])

Queues ==
    \A p, q \in Party :
        \E ids \in [1 .. Len(chan[p][q]) -> Steps] :
            Carries(chan[p][q], ids, InFlight(p, q), p, q)

Products ==
    \A p \in Party : \A k \in 1 .. pc[p] - 1 :
        Op(k) = "mult" => shares[p][run.program[k].dst] = Product(p, k)

\* Only what was sent is read.
Causal ==
    \A p, q \in Party, k \in Steps : (p # q /\ HasRead(q, p, k)) => HasSent(p, q, k)

IInv ==
    /\ TypeOK /\ Known /\ InputsShared /\ Turns /\ Counts
    /\ Locals /\ Queues /\ Causal /\ Products

-----------------------------------------------------------------------------
(***************************************************************************)
(* Cases, numbers of instructions, and words.                              *)
(***************************************************************************)
LEMMA Program ==
    ASSUME run \in Cases
    PROVE  /\ Sizes /\ n \in Nat /\ t \in Nat /\ 1 <= t /\ t < n /\ n <= 7
           /\ run.size \in Nat \ {0} /\ run.R \in Nat
           /\ K \in Nat /\ W \in Nat /\ K <= run.R /\ run.R <= W
           /\ Len(run.program) \in Nat /\ DOMAIN run.program = Steps
           /\ \A k \in Steps :
                 /\ Op(k) \in {"mult", "open", "multpub"}
                 /\ \A r \in {run.program[k].x, run.program[k].y} :
                       r \in Inputs \/ \E l \in 1 .. k-1 : Op(l) = "mult" /\ run.program[l].dst = r
                 /\ run.program[k].dst \in Written(run.program)
                 /\ run.program[k].dst \notin Inputs
           /\ \A k, l \in Steps : run.program[k].dst = run.program[l].dst => k = l
<1>1. /\ n \in {5, 7} /\ run.size \in Nat \ {0} /\ run.R \in Nat
      /\ K \in Nat /\ W \in Nat /\ K <= run.R /\ run.R <= W
  BY CasesAssumption DEF n
<1>2. n \in Nat /\ t \in Nat /\ 1 <= t /\ t < n /\ n <= 7
  BY <1>1, Numbers DEF Sizes
<1> DEFINE prg == run.program
<1>3. /\ Len(prg) \in Nat /\ DOMAIN prg = Steps
      /\ \A i \in Steps :
            /\ prg[i].op \in {"mult", "open", "multpub"}
            /\ {prg[i].x, prg[i].y} \subseteq Available(prg, i)
      /\ \A i, j \in Steps : prg[i].dst = prg[j].dst => i = j
      /\ Inputs \intersect Written(prg) = {}
  BY ProgramAssumption DEF Steps
<1>4. \A k \in Steps : prg[k].dst \in Written(prg)
  BY <1>3 DEF Written
<1>5. \A k \in Steps : \A r \in Available(prg, k) :
         r \in Inputs \/ \E l \in 1 .. k-1 : Op(l) = "mult" /\ prg[l].dst = r
  BY DEF Available, Op
<1> HIDE DEF prg
<1>6. \A k \in Steps : \A r \in {prg[k].x, prg[k].y} :
         r \in Inputs \/ \E l \in 1 .. k-1 : Op(l) = "mult" /\ prg[l].dst = r
  BY <1>3, <1>5
<1>8. \A k \in Steps : prg[k].dst \notin Inputs
  BY <1>3, <1>4
<1>7. \A k \in Steps : Op(k) \in {"mult", "open", "multpub"}
  BY <1>3 DEF Op, prg
<1> QED BY <1>1, <1>2, <1>3, <1>4, <1>6, <1>7, <1>8 DEF prg, Sizes

\* Entries of the tables of the state.
LEMMA Entries ==
    ASSUME TypeOK, NEW p \in Party
    PROVE  /\ run \in Cases /\ sent[p] \in 0..6 /\ sent[p] \in Nat
           /\ pc[p] \in 1 .. Len(run.program) + 1 /\ pc[p] \in Nat /\ Len(run.program) \in Nat
<1>1. run \in Cases
  BY DEF TypeOK
<1>2. sent[p] \in 0..6
  BY DEF TypeOK
<1>3. pc[p] \in 1 .. Len(run.program) + 1
  BY DEF TypeOK
<1>4. Len(run.program) \in Nat
  BY <1>1, Program
<1> QED BY <1>1, <1>2, <1>3, <1>4

\* What depends on the case only.
LEMMA Frame ==
    ASSUME run' = run
    PROVE  /\ n' = n /\ t' = t /\ Party' = Party /\ Keys' = Keys /\ Batch' = Batch
           /\ Steps' = Steps /\ Ts' = Ts /\ Sizes' = Sizes
           /\ \A k : Op(k)' = Op(k)
           /\ \A op : Peers(op)' = Peers(op)
           /\ \A p, j : Missing(p, j)' = Missing(p, j)
           /\ \A T : Uses(T)' = Uses(T)
           /\ \A p, j : Owner(p, j)' = Owner(p, j)
           /\ \A j, k : Words(j, k)' = Words(j, k)
           /\ \A p, j, k, i : Z(p, j, k, i)' = Z(p, j, k, i)
           /\ \A a, b, p, k : Masked(a, b, p, k)' = Masked(a, b, p, k)
           /\ \A p, j, k, i : Filled(p, j, k, i)' = Filled(p, j, k, i)
           /\ \A p, q : Turn(p, q)' = Turn(p, q)
           /\ \A p, j : Ops(p, j)' = Ops(p, j)
           /\ Packed' = Packed /\ \A k : Exact(k)' = Exact(k)
<1>1. /\ n' = n /\ t' = t /\ Party' = Party /\ Keys' = Keys /\ Batch' = Batch
      /\ Steps' = Steps /\ Sizes' = Sizes
  BY DEF n, t, Party, Keys, Batch, Steps, Sizes
<1>2. \A k : Op(k)' = Op(k)
  BY DEF Op
<1>3. \A op : Peers(op)' = Peers(op)
  BY DEF Peers, n
<1>4. \A p, j : Missing(p, j)' = Missing(p, j)
  BY DEF Missing, n
<1>5. Ts' = Ts
  BY DEF Ts, Missing, n, Party, Keys
<1>6. ASSUME NEW T PROVE Uses(T)' = Uses(T)
  BY DEF Uses, Chi, Missing, n, Party
<1>7. ASSUME NEW p, NEW j PROVE Owner(p, j)' = Owner(p, j)
  BY DEF Owner, Into, Peers, n, t
<1>8. ASSUME NEW j, NEW k PROVE Words(j, k)' = Words(j, k)
  BY DEF Words, Before, Op, Ctr, n
<1>9. ASSUME NEW p, NEW j, NEW k, NEW i PROVE Z(p, j, k, i)' = Z(p, j, k, i)
  BY DEF Z, Words, Before, Op, Ctr, Missing, n
<1>10. ASSUME NEW a, NEW b, NEW p, NEW k PROVE Masked(a, b, p, k)' = Masked(a, b, p, k)
  BY DEF Masked, Local, Batch, Keys, Chi, Z, Words, Before, Op, Ctr, Missing, n
<1>11. ASSUME NEW p, NEW j, NEW k, NEW i PROVE Filled(p, j, k, i)' = Filled(p, j, k, i)
  BY DEF Filled, Words, Before, Op, Ctr, Missing, Batch, n
<1>12. ASSUME NEW p, NEW q PROVE Turn(p, q)' = Turn(p, q)
  BY DEF Turn, Peers, n, t
<1>13. ASSUME NEW p, NEW j PROVE Ops(p, j)' = Ops(p, j)
  BY DEF Ops, n, t
<1>14. Packed' = Packed /\ \A k : Exact(k)' = Exact(k)
  BY DEF Packed, Exact, Op
<1> QED BY <1>1, <1>2, <1>3, <1>4, <1>5, <1>6, <1>7, <1>8, <1>9, <1>10, <1>11, <1>12, <1>13,
           <1>14

\* Counting the instructions of one kind.
LEMMA Counting ==
    ASSUME NEW k \in Nat \ {0}, NEW op
    PROVE  /\ Before(k, op) \in Nat /\ Before(k, op) <= k - 1
           /\ Before(1, op) = 0
           /\ Before(k + 1, op) = IF Op(k) = op THEN Before(k, op) + 1 ELSE Before(k, op)
<1> DEFINE S(i) == {l \in 1 .. i-1 : Op(l) = op}
<1>1. \A i \in Nat : IsFiniteSet(1..i) /\ Cardinality(1..i) = i
  <2> TAKE i \in Nat
  <2>1. /\ IsFiniteSet(1..i) /\ Cardinality(1..i) = IF 1 > i THEN 0 ELSE i - 1 + 1
    BY FS_Interval
  <2> QED BY <2>1
<1>2. IsFiniteSet(S(k)) /\ Cardinality(S(k)) \in Nat /\ Cardinality(S(k)) <= k - 1
  <2>1. k - 1 \in Nat /\ S(k) \subseteq 1 .. k-1
    OBVIOUS
  <2> QED BY <1>1, <2>1, FS_Subset, FS_CardinalityType
<1>3. Cardinality(S(1)) = 0
  <2>1. S(1) = {}
    OBVIOUS
  <2> QED BY <2>1, FS_EmptySet
<1>4. S(k + 1) = IF Op(k) = op THEN S(k) \union {k} ELSE S(k)
  <2>1. 1 .. (k + 1) - 1 = (1 .. k-1) \union {k}
    OBVIOUS
  <2> QED BY <2>1
<1>5. k \notin S(k)
  OBVIOUS
<1> HIDE DEF S
<1>6. Cardinality(S(k + 1)) = IF Op(k) = op THEN Cardinality(S(k)) + 1 ELSE Cardinality(S(k))
  BY <1>2, <1>4, <1>5, FS_AddElement
<1> QED BY <1>2, <1>3, <1>6 DEF S, Before

\* What an instruction takes of a key: Ctr(j) words a value of Rss_Mult, one of
\* Rss_MultPub, none of Open.
LEMMA WordsStep ==
    ASSUME run \in Cases, NEW j \in Keys, NEW k \in Steps
    PROVE  /\ Words(j, k) \in Nat
           /\ Words(j, 1) = 0
           /\ Ctr(j) \in 1..4
           /\ Words(j, k + 1) = IF Op(k) = "mult" THEN Words(j, k) + run.size * Ctr(j)
                                ELSE IF Op(k) = "multpub" THEN Words(j, k) + run.size
                                ELSE Words(j, k)
           /\ Words(j, k + 1) <= 4 * run.size * Len(run.program)
<1> DEFINE s == run.size
           c == Ctr(j)
           a == Before(k, "mult")
           b == Before(k, "multpub")
           d == Before(k + 1, "mult")
           e == Before(k + 1, "multpub")
           f == Len(run.program)
<1>1. s \in Nat \ {0} /\ f \in Nat /\ k \in 1 .. f
  BY Program DEF Steps
<1>2. c \in 1..4
  <2>1. Sizes /\ 1 \in Party
    BY Program DEF Party, Sizes
  <2>2. Ctr(j) \in {t, t + 1} /\ t \in {2, 3}
    BY <2>1, OwnerIs, Numbers DEF Sizes
  <2> QED BY <2>2
<1>3. k \in Nat \ {0} /\ k + 1 \in Nat \ {0} /\ 1 \in Nat \ {0}
  BY <1>1
<1>4. /\ a \in Nat /\ b \in Nat /\ d \in Nat /\ e \in Nat
      /\ d <= (k + 1) - 1 /\ e <= (k + 1) - 1
      /\ Before(1, "mult") = 0 /\ Before(1, "multpub") = 0
      /\ d = IF Op(k) = "mult" THEN a + 1 ELSE a
      /\ e = IF Op(k) = "multpub" THEN b + 1 ELSE b
  BY <1>3, Counting
<1>5. a + b <= k - 1 /\ d + e <= k
  <2>1. \A i \in Nat \ {0} : Before(i, "mult") + Before(i, "multpub") <= i - 1
    <3> DEFINE G == {i \in Nat : Before(i + 1, "mult") + Before(i + 1, "multpub") <= i}
    <3>1. 0 \in G
      BY <1>4
    <3>2. ASSUME NEW i \in Nat, i \in G PROVE i + 1 \in G
      <4> DEFINE h == i + 1
      <4>1. h \in Nat \ {0} /\ i + 1 = h
        OBVIOUS
      <4>2. Before(h, "mult") \in Nat /\ Before(h, "multpub") \in Nat
            /\ Before(h, "mult") + Before(h, "multpub") <= i
        BY <3>2, <4>1, Counting
      <4> HIDE DEF h
      <4>3. Before(h + 1, "mult") + Before(h + 1, "multpub") <= i + 1
        BY <4>1, <4>2, Counting
      <4> QED BY <4>1, <4>3
    <3>3. Nat \subseteq G
      <4> HIDE DEF G
      <4> QED BY <3>1, <3>2, Induct
    <3> TAKE i \in Nat \ {0}
    <3>4. i - 1 \in Nat /\ (i - 1) + 1 = i
      OBVIOUS
    <3> QED BY <3>3, <3>4
  <2>2. (k + 1) - 1 = k
    BY <1>3
  <2> QED BY <1>3, <2>1, <2>2
<1>6. /\ Words(j, k) = s * (c * a + b) /\ Words(j, k + 1) = s * (c * d + e)
      /\ Words(j, 1) = s * (c * 0 + 0)
  BY <1>4 DEF Words
<1> HIDE DEF s, c, a, b, d, e, f
<1>7. s * (c * a + b) \in Nat /\ s * (c * 0 + 0) = 0
  BY <1>1, <1>2, <1>4, Z3
<1>8. /\ s * (c * (a + 1) + b) = s * (c * a + b) + s * c
      /\ s * (c * a + (b + 1)) = s * (c * a + b) + s
  BY <1>1, <1>2, <1>4, Z3
<1>9. s * (c * d + e) <= 4 * s * f
  <2>1. c * d + e \in Nat /\ c * d + e <= 4 * f
    <3>1. c * d <= 4 * d /\ c * d \in Nat
      BY <1>2, <1>4, Z3
    <3> QED BY <1>1, <1>4, <1>5, <3>1
  <2> DEFINE u == c * d + e
             w == 4 * f
  <2>2. u \in Nat /\ w \in Nat /\ u <= w
    BY <1>1, <2>1
  <2>3. s * w = 4 * s * f
    BY <1>1, Z3
  <2> HIDE DEF u, w
  <2>4. s * u <= s * w
    BY <1>1, <2>2, Z3
  <2> QED BY <2>3, <2>4 DEF u
<1> QED BY <1>2, <1>4, <1>6, <1>7, <1>8, <1>9 DEF s, c, f

-----------------------------------------------------------------------------
(***************************************************************************)
(* Values.                                                                 *)
(***************************************************************************)
Value == [Batch -> 0 .. 2^K - 1]        \* a batch in the ring
Share == [Keys -> [Batch -> Word]]      \* a party's shares of a register

\* Ring values and words of the machine.
LEMMA Masks ==
    ASSUME run \in Cases
    PROVE  /\ \A x \in Int : Mask(x) \in 0 .. 2^K - 1 /\ Wrap(x) \in Word
           /\ \A x \in 0 .. 2^K - 1 : x \in Word /\ Mask(x) = x
           /\ \A x \in Word : x \in Int
           /\ 2^run.R \in Nat \ {0}
           /\ 0 .. 2^K - 1 \subseteq Word
<1> DEFINE a == 2^K
           b == 2^W
           c == 2^(W - K)
<1>1. /\ K \in Nat /\ W \in Nat /\ W - K \in Nat /\ K + (W - K) = W /\ run.R \in Nat
  BY Program
<1>2. a \in Nat \ {0} /\ b \in Nat \ {0} /\ c \in Nat \ {0} /\ 2^run.R \in Nat \ {0}
  BY <1>1, PowerPositive
<1>3. b = a * c
  <2>1. 2^(K + (W - K)) = 2^K * 2^(W - K)
    BY <1>1, PowerSum
  <2> QED BY <1>1, <2>1
<1>4. \A x \in Int : Mask(x) = x % a /\ Wrap(x) = x % b
  BY DEF Mask, Wrap
<1>5. Word = 0 .. b - 1
  BY DEF Word
<1> HIDE DEF a, b, c
<1>6. a <= b
  BY <1>2, <1>3, Z3
<1>7. ASSUME NEW x \in Int PROVE (x % a) \in 0 .. a - 1 /\ (x % b) \in 0 .. b - 1
  BY <1>2, Divide
<1>8. ASSUME NEW x \in 0 .. a - 1 PROVE x % a = x
  <2>1. (x \div a) * a + (x % a) = 0 * a + x /\ (x \div a) \in Int /\ (x % a) \in 0 .. a - 1
    BY <1>2, Divide
  <2> DEFINE q == x \div a
             r == x % a
  <2>2. q * a + r = 0 * a + x /\ q \in Int /\ r \in 0 .. a - 1 /\ 0 \in Int
    BY <2>1
  <2> HIDE DEF q, r
  <2>3. r = x
    BY <1>2, <2>2, RemainderUnique
  <2> QED BY <2>3 DEF r
<1>9. \A x \in Int : Mask(x) \in 0 .. a - 1 /\ Wrap(x) \in 0 .. b - 1
  BY <1>4, <1>7
<1>10. 0 .. a - 1 \subseteq 0 .. b - 1 /\ \A x \in 0 .. b - 1 : x \in Int
  BY <1>2, <1>6
<1>11. \A x \in 0 .. a - 1 : Mask(x) = x
  <2>1. \A x \in 0 .. a - 1 : x \in Int
    OBVIOUS
  <2> QED BY <1>4, <1>8, <2>1
<1>12. /\ \A x \in Int : Mask(x) \in 0 .. a - 1 /\ Wrap(x) \in Word
       /\ \A x \in 0 .. a - 1 : x \in Word /\ Mask(x) = x
       /\ \A x \in Word : x \in Int
       /\ 0 .. a - 1 \subseteq Word
  BY <1>5, <1>9, <1>10, <1>11
<1> QED BY <1>2, <1>12 DEF a

\* Ring values and words cut to the width of a Lint.
LEMMA MaskWrap ==
    ASSUME run \in Cases, NEW x \in Int
    PROVE  Wrap(x) \in Int /\ Mask(Wrap(x)) = Mask(x)
<1> DEFINE a == 2^K
           c == 2^(W - K)
<1>1. K \in Nat /\ W \in Nat /\ W - K \in Nat /\ K + (W - K) = W
  BY Program
<1>2. a \in Nat \ {0} /\ c \in Nat \ {0}
  BY <1>1, PowerPositive
<1>3. 2^W = a * c
  <2>1. 2^(K + (W - K)) = 2^K * 2^(W - K)
    BY <1>1, PowerSum
  <2> QED BY <1>1, <2>1
<1>4. Wrap(x) = x % (a * c) /\ \A y : Mask(y) = y % a
  BY <1>3 DEF Wrap, Mask
<1>5. Wrap(x) \in Int
  BY Masks
<1> HIDE DEF a, c
<1>6. (x % (a * c)) % a = x % a
  BY <1>2, ModMod
<1> QED BY <1>4, <1>5, <1>6

\* The words that are asked for are numbers.
LEMMA ZType ==
    ASSUME run \in Cases, NEW p \in Party, NEW j \in Keys, NEW k \in Steps,
           Op(k) = "mult", NEW i \in Batch
    PROVE  Z(p, j, k, i) \in Nat
<1> DEFINE s == run.size
           c == Ctr(j)
           w == Words(j, k)
           f == 4 * run.size * Len(run.program)
           x == w + ((i - 1) * c + 1)
<1>1. /\ s \in Nat \ {0} /\ c \in 1..4 /\ w \in Nat /\ w + s * c <= f /\ i \in 1..s
      /\ f \in Int
  <2>1. run.size \in Nat \ {0} /\ Len(run.program) \in Nat
    BY Program
  <2>2. f \in Int
    BY <2>1
  <2> QED BY <2>1, <2>2, WordsStep DEF Batch
<1> HIDE DEF s, c, w, f
<1>2. x \in 1 .. f
  <2>1. (i - 1) * c \in Nat /\ (i - 1) * c + c <= s * c
    <3>1. i * c <= s * c
      BY <1>1, Z3
    <3>2. (i - 1) * c + c = i * c
      BY <1>1, Z3
    <3>3. (i - 1) * c \in Nat
      BY <1>1, Z3
    <3>4. s * c \in Int /\ i * c \in Int
      BY <1>1, Z3
    <3> QED BY <3>1, <3>2, <3>3, <3>4
  <2>2. s * c \in Int
    BY <1>1, Z3
  <2> DEFINE y == (i - 1) * c
             z == s * c
  <2>3. y \in Nat /\ y + c <= z /\ z \in Int /\ w + z <= f
    BY <1>1, <2>1, <2>2
  <2> HIDE DEF y, z
  <2>4. w + (y + 1) \in 1..f
    BY <1>1, <2>3
  <2> QED BY <2>4 DEF y
<1>3. Prg(run.seed, Missing(p, j), x) \in Nat
  <2>1. /\ p \in 1 .. run.n /\ j \in 0 .. numShares(run.n) - 1
        /\ Missing(p, j) = TSet(p, j, run.n)
    BY Program, MissingIs DEF Party, Keys, n, TSet
  <2> HIDE DEF x
  <2>2. x \in 1 .. 4 * run.size * Len(run.program)
    BY <1>2 DEF f
  <2> QED BY <2>1, <2>2, InputAssumption
<1>4. Z(p, j, k, i) = Prg(run.seed, Missing(p, j), x) % 2^run.R
  BY DEF Z, w, c
<1> HIDE DEF x
<1> DEFINE y == Prg(run.seed, Missing(p, j), x)
           m == 2^run.R
<1>5. y \in Int /\ m \in Nat \ {0}
  BY <1>3, Masks
<1> HIDE DEF y, m
<1>6. (y % m) \in 0 .. m - 1
  BY <1>5, Divide
<1>7. (y % m) \in Nat
  BY <1>5, <1>6
<1> QED BY <1>4, <1>7 DEF y, m

\* Uses is a number.
LEMMA UsesType ==
    ASSUME run \in Cases, NEW T
    PROVE  Uses(T) \in Nat
<1>1. IsFiniteSet(Party)
  BY Program, FS_Interval DEF Party
<1>2. IsFiniteSet({q \in Party \ T : Chi(q) # T})
  BY <1>1, FS_Subset
<1> QED BY <1>2, FS_CardinalityType DEF Uses

\* The sums of the model are over finite sets.
LEMMA KeysFinite ==
    ASSUME run \in Cases
    PROVE  /\ \A S \in SUBSET Keys : IsFiniteSet(S)
           /\ \A S \in SUBSET Party : IsFiniteSet(S)
           /\ IsFiniteSet(Batch) /\ IsFiniteSet(1..t)
<1>1. IsFiniteSet(0..5) /\ IsFiniteSet(0..19) /\ IsFiniteSet(1..t) /\ IsFiniteSet(1..n)
      /\ IsFiniteSet(1 .. run.size)
  <2>1. t \in Int /\ n \in Int /\ run.size \in Int
    BY Program
  <2>2. \A a, b \in Int : IsFiniteSet(a .. b)
    BY FS_Interval
  <2>3. 0 \in Int /\ 1 \in Int /\ 5 \in Int /\ 19 \in Int
    OBVIOUS
  <2> QED BY <2>1, <2>2, <2>3
<1>2. IsFiniteSet(Keys) /\ IsFiniteSet(Party)
  <2>1. IsFiniteSet(Party)
    BY <1>1 DEF Party
  <2>2. Keys = 0..5 \/ Keys = 0..19
    BY Program, Numbers DEF Sizes
  <2> QED BY <1>1, <2>1, <2>2
<1> QED BY <1>1, <1>2, FS_Subset DEF Batch

\* The local product of two shared values is an integer.
LEMMA LocalType ==
    ASSUME run \in Cases, NEW a \in Share, NEW b \in Share, NEW i \in Batch
    PROVE  Local(a, b, i) \in Int
<1> DEFINE g == [k \in Keys |-> b[k][i]]
           f == [j \in Keys |-> a[j][i] * SumOver(Cross(n)[j + 1], [k \in Keys |-> b[k][i]])]
<1>1. \A j \in Keys : Cross(n)[j + 1] \in SUBSET Keys
  <2>1. CASE n = 5
    <3>1. \A j \in 0..5 : Cross(5)[j + 1] \subseteq 0..5
      BY SMTT(30) DEF Cross
    <3> QED BY <2>1, <3>1, Program, Numbers
  <2>2. CASE n = 7
    <3>1. \A j \in 0..19 : Cross(7)[j + 1] \subseteq 0..19
      BY SMTT(30) DEF Cross
    <3>2. Keys = 0..19
      BY <2>2, Program, Numbers
    <3> QED BY <2>2, <3>1, <3>2
  <2> QED BY <2>1, <2>2, Program DEF Sizes
<1>2. \A j \in Keys : a[j][i] \in Int /\ b[j][i] \in Int
  BY Masks DEF Share
<1>3. ASSUME NEW j \in Keys PROVE f[j] \in Int
  <2>1. \A x \in Cross(n)[j + 1] : g[x] \in Int
    BY <1>1, <1>2
  <2>2. IsFiniteSet(Cross(n)[j + 1])
    BY <1>1, KeysFinite
  <2> HIDE DEF g
  <2>3. SumOver(Cross(n)[j + 1], g) \in Int
    BY <2>1, <2>2, SumRule
  <2>4. f[j] = a[j][i] * SumOver(Cross(n)[j + 1], g)
    BY DEF g
  <2> QED BY <1>2, <2>3, <2>4
<1>4. IsFiniteSet(Keys)
  BY KeysFinite
<1>5. Local(a, b, i) = SumOver(Keys, f)
  BY DEF Local
<1> HIDE DEF f
<1> QED BY <1>3, <1>4, <1>5, SumRule

\* What is sent in a product is a batch of ring values.
LEMMA MaskedType ==
    ASSUME run \in Cases, NEW a \in Share, NEW b \in Share, NEW p \in Party,
           NEW k \in Steps, Op(k) = "mult"
    PROVE  Masked(a, b, p, k) \in Value
<1>1. ASSUME NEW i \in Batch
      PROVE  Mask(Local(a, b, i) - SumOver({j \in Keys : Missing(p, j) # Chi(p)},
                                           [j \in Keys |-> Z(p, j, k, i)])) \in 0 .. 2^K - 1
  <2> DEFINE S == {j \in Keys : Missing(p, j) # Chi(p)}
             f == [j \in Keys |-> Z(p, j, k, i)]
  <2>1. IsFiniteSet(S) /\ \A j \in S : f[j] \in Int
    BY KeysFinite, ZType
  <2> HIDE DEF S, f
  <2>2. SumOver(S, f) \in Int
    BY <2>1, SumRule
  <2>3. Local(a, b, i) \in Int
    BY LocalType
  <2>4. Local(a, b, i) - SumOver(S, f) \in Int
    BY <2>2, <2>3
  <2>5. Mask(Local(a, b, i) - SumOver(S, f)) \in 0 .. 2^K - 1
    BY <2>4, Masks
  <2> QED BY <2>5 DEF S, f
<1> QED BY <1>1 DEF Masked, Value

\* A party has the operands of the instructions it has come to.
LEMMA Operands ==
    ASSUME TypeOK, Known, NEW p \in Party, NEW k \in Steps, k <= pc[p]
    PROVE  /\ run.program[k].x \in Registers /\ run.program[k].y \in Registers
           /\ Has(p, run.program[k].x) /\ Has(p, run.program[k].y)
           /\ shares[p][run.program[k].x] \in Share
           /\ shares[p][run.program[k].y] \in Share
<1>1. run \in Cases /\ pc[p] \in Nat /\ k \in Nat
  BY Program DEF TypeOK, Steps
<1>2. ASSUME NEW r \in {run.program[k].x, run.program[k].y}
      PROVE  r \in Registers /\ Has(p, r)
  <2>1. \/ r \in Inputs
        \/ \E l \in 1 .. k-1 : Op(l) = "mult" /\ run.program[l].dst = r
    <3>1. \A s \in {run.program[k].x, run.program[k].y} :
             s \in Inputs \/ \E l \in 1 .. k-1 : Op(l) = "mult" /\ run.program[l].dst = s
      BY <1>1, Program, Zenon
    <3> QED BY <3>1
  <2>2. CASE r \in Inputs
    BY <2>2 DEF Has, Known
  <2>3. ASSUME NEW l \in 1 .. k-1, Op(l) = "mult" /\ run.program[l].dst = r
        PROVE  r \in Registers /\ Has(p, r)
    <3>1. l \in Steps /\ l \in 1 .. pc[p] - 1
      BY <1>1, Program DEF Steps
    <3> QED BY <1>1, <2>3, <3>1, Program DEF Has, Known
  <2> QED BY <2>1, <2>2, <2>3
<1>3. \A r \in Registers : shares[p][r] \in {Unknown} \union Share
  BY DEF TypeOK, Share
<1> QED BY <1>2, <1>3 DEF Known

\* A party that has come to a product has both operands, so its Message is a
\* batch of ring values.
LEMMA MessageType ==
    ASSUME TypeOK, Known, NEW p \in Party, NEW k \in Steps, k <= pc[p], Op(k) = "mult"
    PROVE  Message(p, k) \in Value
BY Operands, MaskedType DEF Message, TypeOK

-----------------------------------------------------------------------------
(***************************************************************************)
(* Sockets.                                                                *)
(***************************************************************************)
Pairwise == {"mult", "open"}

\* The distances of the peers of a turn, and that no turn repeats one.
LEMMA Distances ==
    ASSUME Sizes, NEW op \in Pairwise, NEW m \in 1..t
    PROVE  \A l \in 1..t :
              /\ Peers(op).to[l] \in 1 .. n - 1 /\ Peers(op).from[l] \in 1 .. n - 1
              /\ Peers(op).to[l] + Peers(op).from[l] = n
              /\ Peers(op).to[m] = Peers(op).to[l] => l = m
<1>1. CASE n = 5 /\ op = "mult"
  BY <1>1, Numbers DEF Peers
<1>2. CASE n = 5 /\ op = "open"
  BY <1>2, Numbers DEF Peers
<1>3. CASE n = 7 /\ op = "mult"
  BY <1>3, Numbers DEF Peers
<1>4. CASE n = 7 /\ op = "open"
  BY <1>4, Numbers DEF Peers
<1> QED BY <1>1, <1>2, <1>3, <1>4 DEF Sizes, Pairwise

\* A party is a peer in one turn only.
LEMMA TurnOnce ==
    ASSUME Sizes, NEW op \in Pairwise, NEW p \in Party, NEW m \in 1..t, NEW l \in 1..t
    PROVE  /\ Off(p, Peers(op).to[m], n) = Off(p, Peers(op).to[l], n) => l = m
           /\ Off(p, Peers(op).from[m], n) = Off(p, Peers(op).from[l], n) => l = m
<1>1. /\ Peers(op).to[m] \in 1 .. n - 1 /\ Peers(op).from[m] \in 1 .. n - 1
      /\ Peers(op).to[l] \in 1 .. n - 1 /\ Peers(op).from[l] \in 1 .. n - 1
      /\ Peers(op).to[m] + Peers(op).from[m] = n /\ Peers(op).to[l] + Peers(op).from[l] = n
      /\ Peers(op).to[m] = Peers(op).to[l] => l = m
  BY Distances
<1>2. n \in Nat /\ \A d \in 1 .. n - 1 : d \in 0 .. n - 1 /\ d \in Nat
  BY DEF Sizes
<1>3. \A a, b \in 0 .. n - 1 : Off(p, a, n) = Off(p, b, n) => a = b
  BY Offsets
<1>4. /\ Off(p, Peers(op).to[m], n) = Off(p, Peers(op).to[l], n) =>
            Peers(op).to[m] = Peers(op).to[l]
      /\ Off(p, Peers(op).from[m], n) = Off(p, Peers(op).from[l], n) =>
            Peers(op).from[m] = Peers(op).from[l]
  BY <1>1, <1>2, <1>3
<1>5. Peers(op).from[m] = Peers(op).from[l] => Peers(op).to[m] = Peers(op).to[l]
  BY <1>1, <1>2
<1> QED BY <1>1, <1>4, <1>5

\* In every turn, what goes to one peer comes to it from there.
LEMMA PeersMeet ==
    ASSUME Sizes, NEW op \in Pairwise, NEW m \in 1..t, NEW p \in Party
    PROVE  /\ Off(p, Peers(op).to[m], n) \in Party \ {p}
           /\ Off(p, Peers(op).from[m], n) \in Party \ {p}
           /\ \A q \in Party : q = Off(p, Peers(op).to[m], n) <=> p = Off(q, Peers(op).from[m], n)
           /\ \A l \in 1..t :
                 /\ Off(p, Peers(op).to[m], n) = Off(p, Peers(op).to[l], n) => l = m
                 /\ Off(p, Peers(op).from[m], n) = Off(p, Peers(op).from[l], n) => l = m
<1>1. \A l \in 1..t :
         /\ Peers(op).to[l] \in 1 .. n - 1 /\ Peers(op).from[l] \in 1 .. n - 1
         /\ Peers(op).to[l] + Peers(op).from[l] = n
         /\ Peers(op).to[m] = Peers(op).to[l] => l = m
  BY Distances
<1>2. n \in Nat /\ \A d \in 1 .. n - 1 : d \in 0 .. n - 1 /\ d \in Nat /\ d # 0
  BY DEF Sizes
<1>3. ASSUME NEW r \in Party, NEW d \in 1 .. n - 1
      PROVE  Off(r, d, n) \in Party \ {r}
  <2>1. Off(r, d, n) \in Party /\ Off(r, 0, n) = r /\ 0 \in 0 .. n - 1
    BY <1>2, Offsets
  <2>2. \A a, b \in 0 .. n - 1 : Off(r, a, n) = Off(r, b, n) => a = b
    BY Offsets
  <2> QED BY <1>2, <2>1, <2>2
<1>4. ASSUME NEW r \in Party, NEW d \in 1 .. n - 1, NEW e \in 1 .. n - 1, d + e = n
      PROVE  Off(Off(r, d, n), e, n) = r
  <2>1. Off(Off(r, d, n), e, n) = Off(r, IF d + e < n THEN d + e ELSE d + e - n, n)
    BY <1>2, OffsetSum
  <2>2. (IF d + e < n THEN d + e ELSE d + e - n) = 0
    BY <1>2, <1>4
  <2> QED BY <2>1, <2>2, Offsets
<1>5. ASSUME NEW q \in Party
      PROVE  q = Off(p, Peers(op).to[m], n) <=> p = Off(q, Peers(op).from[m], n)
  <2> DEFINE d == Peers(op).to[m]
             e == Peers(op).from[m]
  <2>1. d \in 1 .. n - 1 /\ e \in 1 .. n - 1 /\ d + e = n /\ e + d = n
    BY <1>1, <1>2
  <2> HIDE DEF d, e
  <2>2. Off(Off(p, d, n), e, n) = p /\ Off(Off(q, e, n), d, n) = q
    BY <1>4, <2>1
  <2>3. q = Off(p, d, n) <=> p = Off(q, e, n)
    BY <2>2
  <2> QED BY <2>3 DEF d, e
<1>6. ASSUME NEW l \in 1..t
      PROVE  /\ Off(p, Peers(op).to[m], n) = Off(p, Peers(op).to[l], n) => l = m
             /\ Off(p, Peers(op).from[m], n) = Off(p, Peers(op).from[l], n) => l = m
  BY ONLY Sizes, op \in Pairwise, p \in Party, m \in 1..t, l \in 1..t, TurnOnce
<1> QED BY <1>1, <1>3, <1>5, <1>6

\* The turn of a peer.
LEMMA TurnIs ==
    ASSUME Sizes, NEW p \in Party, NEW m \in 1..t
    PROVE  Turn(p, Off(p, Peers("open").to[m], n)) = m
<1>1. \A op \in Pairwise : \A l \in 1..t :
         Off(p, Peers(op).to[m], n) = Off(p, Peers(op).to[l], n) => l = m
  <2> SUFFICES ASSUME NEW op \in Pairwise, NEW l \in 1..t,
                      Off(p, Peers(op).to[m], n) = Off(p, Peers(op).to[l], n)
               PROVE  l = m
    OBVIOUS
  <2>1. Off(p, Peers(op).to[m], n) = Off(p, Peers(op).to[l], n)
    OBVIOUS
  <2> QED BY ONLY <2>1, Sizes, op \in Pairwise, m \in 1..t, l \in 1..t, p \in Party, TurnOnce
<1>2. \A l \in 1..t : Off(p, Peers("open").to[m], n) = Off(p, Peers("open").to[l], n) => l = m
  BY <1>1 DEF Pairwise
<1> DEFINE q == Off(p, Peers("open").to[m], n)
<1>3. \A l \in 1..t : q = Off(p, Peers("open").to[l], n) <=> l = m
  BY <1>2
<1> HIDE DEF q
<1>4. Turn(p, q) = m
  BY <1>3 DEF Turn
<1> QED BY <1>4 DEF q

\* What p reads next is the first batch in flight, that of its instruction.
LEMMA NextBatch ==
    ASSUME TypeOK, Queues, NEW p \in Party, Running(p), NEW q \in Party, q # p,
           chan[q][p] # <<>>,
           ~HasRead(p, q, pc[p]),
           IF Op(pc[p]) = "multpub" THEN TRUE
           ELSE \E m \in 1..t : p = Off(q, Peers(Op(pc[p])).to[m], n)
    PROVE  /\ pc[p] \in InFlight(q, p)
           /\ \A k \in InFlight(q, p) : pc[p] <= k
           /\ Head(chan[q][p]) \in Value
           /\ Exact(pc[p]) => Head(chan[q][p]) = Sent(q, p, pc[p])
<1> DEFINE c == chan[q][p]
           S == InFlight(q, p)
<1>1. /\ Sizes /\ c \in Seq(Value) /\ Len(c) \in Nat /\ 1 \in 1 .. Len(c) /\ c[1] = Head(c)
      /\ c[1] \in Value
  <2>1. c \in Seq(Value)
    BY DEF TypeOK, Value
  <2> HIDE DEF c
  <2>2. c # <<>>
    BY DEF c
  <2>3. Len(c) \in Nat /\ Len(c) # 0 /\ c[1] = Head(c) /\ c \in [1 .. Len(c) -> Value]
    BY <2>1, <2>2
  <2> QED BY <2>1, <2>3, Program DEF TypeOK
<1>2. PICK ids \in [1 .. Len(c) -> Steps] : Carries(c, ids, S, q, p)
  BY DEF Queues
<1>3. /\ pc \in [Party -> 1 .. Len(run.program) + 1] /\ pc[p] \in Steps
      /\ \A r \in Party : pc[r] \in Nat
      /\ \A k \in Steps : k \in Nat /\ Op(k) \in Pairwise \union {"multpub"}
  <2>1. pc \in [Party -> 1 .. Len(run.program) + 1]
    BY DEF TypeOK
  <2>2. \A r \in Party : pc[r] \in Nat
    BY Entries
  <2>3. pc[p] \in Steps /\ \A k \in Steps : k \in Nat
    BY Entries DEF Steps, Running
  <2>4. \A k \in Steps : Op(k) \in Pairwise \union {"multpub"}
    BY Entries, Program DEF Pairwise
  <2> QED BY <2>1, <2>2, <2>3, <2>4
<1>4. ASSUME NEW k \in S PROVE pc[p] <= k
  <2>1. HasSent(q, p, k) /\ ~HasRead(p, q, k) /\ k \in Steps
    BY DEF InFlight
  <2>2. CASE Op(k) = "multpub"
    BY <1>3, <2>1, <2>2 DEF HasRead
  <2>3. CASE Op(k) # "multpub"
    <3>1. PICK m \in 1..t : p = Off(q, Peers(Op(k)).to[m], n)
      BY <2>1, <2>3 DEF HasSent
    <3>2. q = Off(p, Peers(Op(k)).from[m], n)
      BY <1>1, <1>3, <2>1, <2>3, <3>1, PeersMeet
    <3>3. ~(k < pc[p])
      BY <2>1, <2>3, <3>2 DEF HasRead
    <3> QED BY <1>3, <2>1, <3>3
  <2> QED BY <2>2, <2>3
<1>5. ids[1] \in S /\ ids[1] \in Steps
  BY <1>1, <1>2 DEF Carries
<1>6. pc[p] \in S
  <2>1. pc[p] <= ids[1] /\ HasSent(q, p, ids[1])
    BY <1>4, <1>5 DEF InFlight
  <2>2. ids[1] <= pc[q]
    BY <1>3, <1>5, <2>1 DEF HasSent
  <2>3. CASE ids[1] = pc[p]
    BY <1>5, <2>3
  <2>4. CASE ids[1] # pc[p]
    <3>1. pc[p] < pc[q]
      BY <1>3, <1>5, <2>1, <2>2, <2>4
    <3>2. HasSent(q, p, pc[p])
      BY <3>1 DEF HasSent
    <3> QED BY <1>3, <3>2 DEF InFlight
  <2> QED BY <2>3, <2>4
<1>7. ids[1] = pc[p]
  <2>1. PICK x \in 1 .. Len(c) : ids[x] = pc[p]
    BY <1>2, <1>6 DEF Carries
  <2>2. x = 1 \/ ids[1] < ids[x]
    BY <1>1, <1>2, <2>1 DEF Carries
  <2>3. pc[p] <= ids[1]
    BY <1>4, <1>5
  <2> QED BY <1>3, <1>5, <2>1, <2>2, <2>3
<1>8. Exact(pc[p]) => c[1] = Sent(q, p, pc[p])
  BY <1>1, <1>2, <1>7 DEF Carries
<1> QED BY <1>1, <1>4, <1>6, <1>8

\* A later batch put at the end of a socket.
LEMMA AddOne ==
    ASSUME NEW p, NEW q, NEW c \in Seq(Value), NEW S \in SUBSET Steps, run \in Cases,
           NEW ids \in [1 .. Len(c) -> Steps], Carries(c, ids, S, p, q),
           NEW k \in Steps, \A l \in S : l < k,
           NEW m, Exact(k) => m = Sent(p, q, k)
    PROVE  \E new \in [1 .. Len(Append(c, m)) -> Steps] :
              Carries(Append(c, m), new, S \union {k}, p, q)
<1> DEFINE d == Append(c, m)
           new == [x \in 1 .. Len(d) |-> IF x \in 1 .. Len(c) THEN ids[x] ELSE k]
<1>1. /\ Len(c) \in Nat /\ Len(d) = Len(c) + 1 /\ d[Len(c) + 1] = m
      /\ \A x \in 1 .. Len(c) : d[x] = c[x]
      /\ 1 .. Len(d) = (1 .. Len(c)) \union {Len(c) + 1} /\ Len(c) + 1 \notin 1 .. Len(c)
  OBVIOUS
<1>2. /\ ids \in [1 .. Len(c) -> S]
      /\ \A l \in S : \E x \in 1 .. Len(c) : ids[x] = l
      /\ \A x, y \in 1 .. Len(c) : x < y => ids[x] < ids[y]
      /\ \A x \in 1 .. Len(c) : Exact(ids[x]) => c[x] = Sent(p, q, ids[x])
  BY DEF Carries
<1> HIDE DEF d
<1>3. /\ new \in [1 .. Len(d) -> S \union {k}] /\ new[Len(c) + 1] = k
      /\ \A x \in 1 .. Len(c) : new[x] = ids[x]
  BY <1>1, <1>2
<1> HIDE DEF new
<1>4. \A l \in S \union {k} : \E x \in 1 .. Len(d) : new[x] = l
  BY <1>1, <1>2, <1>3
<1>5. ASSUME NEW x \in 1 .. Len(d), NEW y \in 1 .. Len(d), x < y
      PROVE  new[x] < new[y]
  <2>1. x \in 1 .. Len(c)
    BY <1>1, <1>5
  <2>2. CASE y \in 1 .. Len(c)
    BY <1>2, <1>3, <1>5, <2>1, <2>2
  <2>3. CASE y = Len(c) + 1
    BY <1>2, <1>3, <2>1, <2>3
  <2> QED BY <1>1, <2>2, <2>3
<1>6. \A x \in 1 .. Len(d) : Exact(new[x]) => d[x] = Sent(p, q, new[x])
  BY <1>1, <1>2, <1>3
<1>7. Carries(d, new, S \union {k}, p, q)
  BY <1>3, <1>4, <1>5, <1>6 DEF Carries
<1>8. new \in [1 .. Len(d) -> Steps]
  BY <1>3
<1> QED BY <1>7, <1>8 DEF d

\* The first batch taken from a socket is the one of the first instruction in
\* flight.
LEMMA TakeOne ==
    ASSUME NEW p, NEW q, NEW c \in Seq(Value), NEW S \in SUBSET Steps, run \in Cases,
           NEW ids \in [1 .. Len(c) -> Steps], Carries(c, ids, S, p, q),
           NEW k \in S, \A l \in S : k <= l
    PROVE  /\ c # <<>>
           /\ \E new \in [1 .. Len(Tail(c)) -> Steps] : Carries(Tail(c), new, S \ {k}, p, q)
<1> DEFINE d == Tail(c)
           new == [x \in 1 .. Len(d) |-> ids[x + 1]]
<1>1. /\ ids \in [1 .. Len(c) -> S]
      /\ \A l \in S : \E x \in 1 .. Len(c) : ids[x] = l
      /\ \A x, y \in 1 .. Len(c) : x < y => ids[x] < ids[y]
      /\ \A x \in 1 .. Len(c) : Exact(ids[x]) => c[x] = Sent(p, q, ids[x])
  BY DEF Carries
<1>2. PICK z \in 1 .. Len(c) : ids[z] = k
  BY <1>1
<1>3. c # <<>> /\ Len(c) \in Nat /\ Len(c) # 0
  BY <1>2
<1>4. /\ Len(d) = Len(c) - 1 /\ \A x \in 1 .. Len(d) : d[x] = c[x + 1]
      /\ \A x \in 1 .. Len(d) : x + 1 \in 1 .. Len(c) /\ x + 1 # 1
      /\ \A x \in 1 .. Len(c) : x # 1 => x - 1 \in 1 .. Len(d) /\ (x - 1) + 1 = x
      /\ 1 \in 1 .. Len(c)
  BY <1>3
<1>5. \A l \in Steps : l \in Int
  BY DEF Steps
<1>6. z = 1
  <2>1. z # 1 => ids[1] < ids[z]
    BY <1>1, <1>4
  <2>2. k <= ids[1] /\ ids[1] \in Int /\ ids[z] \in Int
    BY <1>1, <1>4, <1>5
  <2> QED BY <1>2, <2>1, <2>2
<1> HIDE DEF d
<1>7. \A x \in 1 .. Len(d) : new[x] = ids[x + 1] /\ new[x] \in S /\ new[x] # k
  <2> TAKE x \in 1 .. Len(d)
  <2>1. x + 1 \in 1 .. Len(c) /\ 1 < x + 1 /\ ids[1] = k
    BY <1>2, <1>4, <1>6
  <2>2. ids[1] < ids[x + 1] /\ ids[x + 1] \in S /\ ids[x + 1] \in Int /\ k \in Int
    BY <1>1, <1>4, <1>5, <2>1
  <2>3. ids[x + 1] # k
    BY <2>1, <2>2
  <2> QED BY <2>2, <2>3
<1>8. new \in [1 .. Len(d) -> S \ {k}]
  BY <1>7
<1> HIDE DEF new
<1>9. \A l \in S \ {k} : \E x \in 1 .. Len(d) : new[x] = l
  <2> TAKE l \in S \ {k}
  <2>1. PICK x \in 1 .. Len(c) : ids[x] = l
    BY <1>1
  <2>2. x # 1
    BY <1>2, <1>6, <2>1
  <2>3. x - 1 \in 1 .. Len(d) /\ (x - 1) + 1 = x
    BY <1>4, <2>2
  <2>4. new[x - 1] = ids[(x - 1) + 1]
    BY <1>7, <2>3
  <2> QED BY <2>1, <2>3, <2>4
<1>10. \A x, y \in 1 .. Len(d) : x < y => new[x] < new[y]
  <2> TAKE x, y \in 1 .. Len(d)
  <2>1. x < y => x + 1 < y + 1
    OBVIOUS
  <2>2. new[x] = ids[x + 1] /\ new[y] = ids[y + 1]
    BY <1>7
  <2>3. x + 1 \in 1 .. Len(c) /\ y + 1 \in 1 .. Len(c)
    BY <1>4
  <2> QED BY <1>1, <2>1, <2>2, <2>3
<1>11. \A x \in 1 .. Len(d) : Exact(new[x]) => d[x] = Sent(p, q, new[x])
  BY <1>1, <1>4, <1>7
<1>12. Carries(d, new, S \ {k}, p, q)
  BY <1>8, <1>9, <1>10, <1>11 DEF Carries
<1>13. new \in [1 .. Len(d) -> Steps]
  BY <1>8
<1> QED BY <1>3, <1>12, <1>13 DEF d

\* Batches keep their places while the messages they are stay the same.
LEMMA StillCarries ==
    ASSUME NEW p, NEW q, NEW c, NEW S, NEW ids, Carries(c, ids, S, p, q), run' = run,
           NEW U, U = S,
           \A k \in S : Sent(p, q, k)' = Sent(p, q, k)
    PROVE  Carries(c, ids, U, p, q)'
<1>1. \A k : Exact(k)' = Exact(k)
  BY Frame
<1>2. /\ ids \in [1 .. Len(c) -> S]
      /\ \A l \in S : \E x \in 1 .. Len(c) : ids[x] = l
      /\ \A x, y \in 1 .. Len(c) : x < y => ids[x] < ids[y]
      /\ \A x \in 1 .. Len(c) : Exact(ids[x]) => c[x] = Sent(p, q, ids[x])
  BY DEF Carries
<1>3. \A x \in 1 .. Len(c) : Exact(ids[x])' => c[x] = Sent(p, q, ids[x])'
  BY <1>1, <1>2
<1> QED BY <1>2, <1>3 DEF Carries

\* A step of p that sends batch to the parties in Out and reads from those in
\* In.
Stable ==
    \A p \in Party, k \in Steps : k <= pc[p] =>
        /\ Message(p, k)' = Message(p, k)
        /\ \A q \in Party : Sent(p, q, k)' = Sent(p, q, k)

Sends(p, Out) ==
    /\ Out \subseteq Party \ {p}
    /\ \A q \in Party, k \in Steps :
          HasSent(p, q, k)' <=> HasSent(p, q, k) \/ (k = pc[p] /\ q \in Out)
    /\ \A a \in Party \ {p}, q \in Party, k \in Steps : HasSent(a, q, k)' <=> HasSent(a, q, k)
    /\ \A q \in Out : ~HasSent(p, q, pc[p])

Takes(p, In) ==
    /\ In \subseteq Party \ {p}
    /\ \A q \in Party \ {p}, k \in Steps :
          HasRead(p, q, k)' <=> HasRead(p, q, k) \/ (k = pc[p] /\ q \in In)
    /\ \A a \in Party \ {p}, q \in Party, k \in Steps : HasRead(a, q, k)' <=> HasRead(a, q, k)
    /\ \A q \in In : pc[p] \in InFlight(q, p) /\ \A k \in InFlight(q, p) : pc[p] <= k

Moves(p, Out, In, batch) ==
    \A a, b \in Party : chan'[a][b] =
        IF a = p /\ b \in Out THEN Append(chan[a][b], batch)
        ELSE IF b = p /\ a \in In THEN Tail(chan[a][b]) ELSE chan[a][b]

\* No party is its own peer.
LEMMA NotToSelf ==
    ASSUME Sizes, NEW p \in Party, NEW k \in Steps, Op(k) \in Pairwise \union {"multpub"}
    PROVE  ~HasSent(p, p, k)
<1>1. CASE Op(k) = "multpub"
  BY <1>1 DEF HasSent
<1>2. CASE Op(k) \in Pairwise
  <2>1. \A m \in 1..t : Off(p, Peers(Op(k)).to[m], n) \in Party \ {p}
    BY <1>2, PeersMeet
  <2>2. Op(k) # "multpub"
    BY <1>2 DEF Pairwise
  <2> QED BY <2>1, <2>2 DEF HasSent
<1> QED BY <1>1, <1>2

\* Sending behind the earlier batches and reading the first of those in flight
\* keeps every socket in order, and reads nothing that was not sent.
LEMMA QueuesStep ==
    ASSUME IInv, NEW p \in Party, Running(p), run' = run, Stable,
           NEW Out, Sends(p, Out), NEW In, Takes(p, In), NEW batch, Moves(p, Out, In, batch),
           Exact(pc[p]) => \A q \in Out : batch = Sent(p, q, pc[p])
    PROVE  Queues' /\ Causal'
<1>1. /\ run \in Cases /\ Sizes /\ Steps' = Steps /\ Party' = Party
      /\ pc[p] \in Steps /\ \A a \in Party : pc[a] \in Nat
      /\ \A k \in Steps : k \in Nat /\ Op(k) \in Pairwise \union {"multpub"}
      /\ \A a, b \in Party : chan[a][b] \in Seq(Value)
  <2>1. run \in Cases /\ Sizes /\ Steps' = Steps /\ Party' = Party
    BY Frame, Program DEF IInv, TypeOK
  <2>2. Len(run.program) \in Nat /\ \A k \in Steps : Op(k) \in Pairwise \union {"multpub"}
    BY <2>1, Program DEF Pairwise
  <2>3. /\ \A a \in Party : pc[a] \in 1 .. Len(run.program) + 1
        /\ \A a, b \in Party : chan[a][b] \in Seq(Value)
    BY DEF IInv, TypeOK, Value
  <2> QED BY <2>1, <2>2, <2>3 DEF Steps, Running
<1>2. \A a, b \in Party, k \in Steps : HasSent(a, b, k) => k <= pc[a]
  BY <1>1 DEF HasSent
<1>3. ASSUME NEW a \in Party, NEW b \in Party
      PROVE  \E ids \in [1 .. Len(chan[a][b]) -> Steps] :
                 Carries(chan[a][b], ids, InFlight(a, b), a, b)
  BY DEF IInv, Queues
<1>4. ASSUME NEW a \in Party, NEW b \in Party
      PROVE  \E ids \in [1 .. Len(chan[a][b]) -> Steps]' :
                 Carries(chan[a][b], ids, InFlight(a, b), a, b)'
  <2> DEFINE c == chan[a][b]
             S == InFlight(a, b)
  <2>0. PICK d, V : d = chan'[a][b] /\ V = InFlight(a, b)'
    OBVIOUS
  <2>1. c \in Seq(Value) /\ S \in SUBSET Steps /\ V \in SUBSET Steps
    BY <1>1, <2>0 DEF InFlight
  <2>2. PICK ids \in [1 .. Len(c) -> Steps] : Carries(c, ids, S, a, b)
    BY <1>3
  <2>3. \A k \in S : Sent(a, b, k)' = Sent(a, b, k)
    BY <1>2 DEF Stable, InFlight
  <2>4. /\ \A k \in Steps : k \in V <=> HasSent(a, b, k)' /\ ~HasRead(b, a, k)'
        /\ \A k \in Steps : k \in S <=> HasSent(a, b, k) /\ ~HasRead(b, a, k)
    BY <1>1, <2>0 DEF InFlight
  <2>5. SUFFICES \E new \in [1 .. Len(d) -> Steps] :
                    Carries(d, new, V, a, b) /\ \A k \in V : Sent(a, b, k)' = Sent(a, b, k)
    <3>1. PICK new \in [1 .. Len(d) -> Steps] :
                    Carries(d, new, V, a, b) /\ \A k \in V : Sent(a, b, k)' = Sent(a, b, k)
      BY <2>5
    <3>2. Carries(d, new, V, a, b)'
      BY <3>1, StillCarries
    <3> QED BY <1>1, <2>0, <3>1, <3>2
  <2>6. CASE a = p /\ b \in Out
    <3>1. pc[p] \notin S /\ \A k \in S : k < pc[p]
      <4>1. ~HasSent(a, b, pc[p])
        BY <2>6 DEF Sends
      <4>2. \A k \in S : k \in Nat /\ k <= pc[a] /\ k # pc[p]
        BY <1>1, <1>2, <2>1, <2>4, <4>1
      <4> QED BY <1>1, <2>6, <4>2
    <3>2. \A k \in Steps : HasRead(b, a, k)' <=> HasRead(b, a, k)
      BY <2>6 DEF Sends, Takes
    <3>3. ~HasRead(b, a, pc[p])
      BY <1>1, <2>6 DEF IInv, Causal, Sends
    <3>4. V = S \union {pc[p]}
      <4>1. \A k \in Steps : k \in V <=> k \in S \union {pc[p]}
        BY <2>4, <2>6, <3>2, <3>3 DEF Sends
      <4> QED BY <1>1, <2>1, <4>1
    <3>5. d = Append(c, batch)
      BY <2>0, <2>6 DEF Moves
    <3> HIDE DEF c, S
    <3>6. PICK new \in [1 .. Len(Append(c, batch)) -> Steps] :
              Carries(Append(c, batch), new, S \union {pc[p]}, a, b)
      BY <1>1, <2>1, <2>2, <2>6, <3>1, AddOne
    <3>7. \A l \in S \union {pc[p]} : Sent(a, b, l)' = Sent(a, b, l)
      BY <1>1, <2>3, <2>6 DEF Stable
    <3> QED BY <3>4, <3>5, <3>6, <3>7
  <2>7. CASE b = p /\ a \in In
    <3>1. pc[p] \in S /\ \A k \in S : pc[p] <= k
      BY <2>7 DEF Takes
    <3>2. a # p
      BY <2>7 DEF Takes
    <3>3. V = S \ {pc[p]}
      <4>1. \A k \in Steps : k \in V <=> k \in S \ {pc[p]}
        BY <2>4, <2>7, <3>2 DEF Sends, Takes
      <4> QED BY <2>1, <4>1
    <3>4. d = Tail(c)
      BY <2>0, <2>7, <3>2 DEF Moves
    <3> HIDE DEF c, S
    <3>5. PICK new \in [1 .. Len(Tail(c)) -> Steps] : Carries(Tail(c), new, S \ {pc[p]}, a, b)
      BY <1>1, <2>1, <2>2, <3>1, TakeOne
    <3> QED BY <2>3, <3>3, <3>4, <3>5
  <2>8. CASE ~(a = p /\ b \in Out) /\ ~(b = p /\ a \in In)
    <3>1. d = c
      BY <2>0, <2>8 DEF Moves
    <3>2. \A k \in Steps : HasSent(a, b, k)' <=> HasSent(a, b, k)
      BY <2>8 DEF Sends
    <3>3. \A k \in Steps : HasSent(a, b, k) => (HasRead(b, a, k)' <=> HasRead(b, a, k))
      <4>1. CASE b # p
        BY <4>1 DEF Takes
      <4>2. CASE b = p /\ a # p
        BY <2>8, <4>2 DEF Takes
      <4>3. CASE b = p /\ a = p
        BY <1>1, <4>3, NotToSelf
      <4> QED BY <4>1, <4>2, <4>3
    <3>4. V = S
      BY <2>1, <2>4, <3>2, <3>3
    <3> QED BY <2>2, <2>3, <3>1, <3>4
  <2> QED BY <2>6, <2>7, <2>8
<1>5. Queues'
  BY <1>1, <1>4 DEF Queues
<1>6. ASSUME NEW a \in Party, NEW b \in Party, NEW k \in Steps, a # b, HasRead(b, a, k)'
      PROVE  HasSent(a, b, k)'
  <2>1. HasSent(a, b, k)
    <3>1. CASE HasRead(b, a, k)
      BY <1>6, <3>1 DEF IInv, Causal
    <3>2. CASE ~HasRead(b, a, k)
      <4>1. b = p /\ k = pc[p] /\ a \in In
        BY <1>6, <3>2 DEF Takes
      <4> QED BY <4>1 DEF Takes, InFlight
    <3> QED BY <3>1, <3>2
  <2> QED BY <2>1 DEF Sends
<1> QED BY <1>1, <1>5, <1>6 DEF Causal

-----------------------------------------------------------------------------
(***************************************************************************)
(* The three kinds of steps.                                               *)
(***************************************************************************)
Public(p) == Op(pc[p]) = "multpub"
Locally == {<<>>} \union [Batch -> Word] \union Share

\* The peers p sends to at once.
Firsts(p) ==
    IF Public(p) THEN Party \ {p} ELSE {Off(p, Peers(Op(pc[p])).to[1], n)}

StartStep(p) ==
    /\ Running(p) /\ sent[p] = 0
    /\ run' = run /\ pc' = pc /\ shares' = shares /\ opened' = opened
    /\ sent' = [sent EXCEPT ![p] = IF Public(p) THEN n - 1 ELSE 1]
    /\ drawn' \in [Party -> [Keys -> Nat]]
    /\ \A q \in Party, j \in Keys :
          drawn'[q][j] = IF q = p THEN Words(j, pc[p] + 1) ELSE drawn[q][j]
    /\ \E c \in Locally, out \in Seq([Batch -> Word]) :
          /\ v' = [v EXCEPT ![p] = [c |-> c, out |-> out, got |-> <<>>]]
          /\ Op(pc[p]) \in Pairwise => out \in [1..t -> [Batch -> Word]]
          /\ Op(pc[p]) = "mult" =>
                /\ \A j \in Keys, i \in Batch :
                      c[j][i] = Wrap(Uses(Missing(p, j)) * Z(p, j, pc[p], i))
                /\ \A m \in 1..t : out[m] = Message(p, pc[p])
          /\ Op(pc[p]) = "open" => \A m \in 1..t : Cut(out[m]) = Opening(p, m, pc[p])
          /\ Public(p) =>
                c \in [Batch -> Word] /\ (Packed => Cut(c) = Publishing(p, pc[p]))
    /\ \E batch \in Value :
          /\ Exact(pc[p]) => \A q \in Firsts(p) : batch = Sent(p, q, pc[p])
          /\ Moves(p, Firsts(p), {}, batch)
    /\ chan' \in [Party -> [Party -> Seq(Value)]]

\* What is read is the next batch.
Fetches(p, q) ==
    /\ q \in Party \ {p}
    /\ pc[p] \in InFlight(q, p) /\ \A k \in InFlight(q, p) : pc[p] <= k

RelayStep(p) ==
    /\ Running(p) /\ Op(pc[p]) \in Pairwise /\ sent[p] \in 1 .. t-1
    /\ run' = run /\ pc' = pc /\ shares' = shares /\ opened' = opened /\ drawn' = drawn
    /\ sent' = [sent EXCEPT ![p] = @ + 1]
    /\ Fetches(p, Source(p))
    /\ \E b \in Value :
          /\ v' = [v EXCEPT ![p].got = Append(@, b)]
          /\ b = Sent(Source(p), p, pc[p])
    /\ LET next == Off(p, Peers(Op(pc[p])).to[sent[p] + 1], n) IN
          \E batch \in Value :
             batch = Sent(p, next, pc[p]) /\ Moves(p, {next}, {Source(p)}, batch)
    /\ chan' \in [Party -> [Party -> Seq(Value)]]

LastStep(p) ==
    LET In == IF Public(p) THEN Party \ {p} ELSE {Source(p)}
        dst == run.program[pc[p]].dst IN
    /\ Running(p) /\ sent[p] = IF Public(p) THEN n - 1 ELSE t
    /\ run' = run /\ drawn' = drawn
    /\ pc' = [pc EXCEPT ![p] = @ + 1]
    /\ sent' = [sent EXCEPT ![p] = 0]
    /\ v' = [v EXCEPT ![p] = NoLocals]
    /\ \A q \in In : Fetches(p, q)
    /\ \A batch : Moves(p, {}, In, batch)
    /\ IF Op(pc[p]) = "mult"
       THEN /\ shares' = [shares EXCEPT ![p][dst] = Product(p, pc[p])]
            /\ Product(p, pc[p]) \in Share /\ opened' = opened
       ELSE /\ shares' = shares
            /\ \E w \in Value :
                  /\ opened' = [opened EXCEPT ![p][dst] = w]
                  /\ Exact(pc[p]) => w = Shown(p, pc[p])
    /\ chan' \in [Party -> [Party -> Seq(Value)]]

\* Where a party is, and what it has.
LEMMA Here ==
    ASSUME IInv, NEW p \in Party, Running(p)
    PROVE  /\ run \in Cases /\ pc[p] \in Steps /\ pc[p] \in Nat
           /\ Op(pc[p]) \in Pairwise \union {"multpub"}
           /\ Instr(p) = run.program[pc[p]] /\ Instr(p).op = Op(pc[p])
           /\ shares[p][Instr(p).x] \in Share /\ shares[p][Instr(p).y] \in Share
           /\ 1 \in 1..t /\ sent[p] \in Nat
<1>1. run \in Cases /\ pc[p] \in 1 .. Len(run.program) + 1 /\ sent[p] \in Nat
  BY Entries DEF IInv
<1>2. pc[p] \in Steps /\ pc[p] \in Nat /\ 1 \in 1..t /\ pc[p] <= pc[p]
  BY <1>1, Program DEF Steps, Running
<1>3. Op(pc[p]) \in Pairwise \union {"multpub"}
  BY <1>1, <1>2, Program DEF Pairwise
<1> QED BY <1>1, <1>2, <1>3, Operands DEF IInv, Instr, Op

\* What an append to one socket does, for Moves.
LEMMA Appended ==
    ASSUME IInv, NEW p \in Party, NEW q \in Party \ {p}, NEW batch \in Value,
           chan' = [chan EXCEPT ![p][q] = Append(@, batch)]
    PROVE  Moves(p, {q}, {}, batch) /\ chan' \in [Party -> [Party -> Seq(Value)]]
<1>1. chan \in [Party -> [Party -> Seq(Value)]]
  BY DEF IInv, TypeOK, Value
<1> QED BY <1>1 DEF Moves

\* The first step of Rss_Mult: the local products, the words drawn, the batch
\* to the first peer.
LEMMA MultStarts ==
    ASSUME IInv, NEW p \in Party, MultStart(p)
    PROVE  StartStep(p)
<1> DEFINE k == pc[p]
           s == Instr(p)
           z(j, i) == Draw(p, j, (i - 1) * prg_ctrs(n)[j + 1] + 1)
           times(T) == Cardinality({q \in Party \ T : Chi(q) # T})
           w == [i \in Batch |-> Mask(Local(shares[p][s.x], shares[p][s.y], i)
                  - SumOver({j \in Keys : Missing(p, j) # Chi(p)}, [j \in Keys |-> z(j, i)]))]
           c == [j \in Keys |-> [i \in Batch |-> Wrap(times(Missing(p, j)) * z(j, i))]]
           out == [m \in 1..t |-> w]
           to == Off(p, Peers("mult").to[1], n)
           M == Message(p, k)
<1>1. /\ Running(p) /\ sent[p] = 0 /\ Op(k) = "mult" /\ ~Public(p) /\ k \in Steps /\ k \in Nat
      /\ s = run.program[k] /\ run \in Cases /\ Sizes /\ 1 \in 1..t
      /\ shares[p][s.x] \in Share /\ shares[p][s.y] \in Share
  <2>1. Running(p) /\ sent[p] = 0 /\ Instr(p).op = "mult"
    BY DEF MultStart, Starts
  <2> QED BY <2>1, Here, Program DEF Public
<1>2. /\ v' = [v EXCEPT ![p] = [c |-> c, out |-> out, got |-> <<>>]]
      /\ FirstSend(p, "mult", out)
      /\ drawn' = [drawn EXCEPT ![p] = [j \in Keys |-> @[j] + run.size * prg_ctrs(n)[j + 1]]]
      /\ sent' = [sent EXCEPT ![p] = 1]
      /\ run' = run /\ pc' = pc /\ shares' = shares /\ opened' = opened
  BY DEF MultStart
<1>3. \A j \in Keys : drawn[p][j] = Words(j, k)
  BY <1>1 DEF IInv, Counts
<1>4. \A j \in Keys, i \in Batch : z(j, i) = Z(p, j, k, i)
  BY <1>3 DEF Draw, Z, Ctr
<1>5. w = M
  <2>1. \A i \in Batch : [j \in Keys |-> z(j, i)] = [j \in Keys |-> Z(p, j, k, i)]
    BY <1>4
  <2>2. M = [i \in Batch |-> Mask(Local(shares[p][s.x], shares[p][s.y], i)
            - SumOver({j \in Keys : Missing(p, j) # Chi(p)}, [j \in Keys |-> Z(p, j, k, i)]))]
    BY <1>1 DEF Message, Masked
  <2> HIDE DEF z
  <2> QED BY <2>1, <2>2
<1>6. c = [j \in Keys |-> [i \in Batch |-> Wrap(Uses(Missing(p, j)) * Z(p, j, k, i))]]
  <2>1. \A T : times(T) = Uses(T)
    BY DEF Uses
  <2> HIDE DEF z, times
  <2> QED BY <1>4, <2>1
<1>7. M \in Value
  <2>1. k <= pc[p]
    BY <1>1
  <2> QED BY <1>1, <2>1, MessageType DEF IInv
<1>8. c \in Locally
  <2>1. \A j \in Keys, i \in Batch : Wrap(Uses(Missing(p, j)) * Z(p, j, k, i)) \in Word
    <3> TAKE j \in Keys, i \in Batch
    <3>1. Uses(Missing(p, j)) \in Nat /\ Z(p, j, k, i) \in Nat
      BY <1>1, UsesType, ZType
    <3>2. Uses(Missing(p, j)) * Z(p, j, k, i) \in Int
      BY <3>1
    <3> QED BY <1>1, <3>2, Masks
  <2> HIDE DEF c
  <2> QED BY <1>6, <2>1 DEF Locally, Share
<1>13. \A j \in Keys, i \in Batch : c[j][i] = Wrap(Uses(Missing(p, j)) * Z(p, j, k, i))
  <2> HIDE DEF c
  <2> QED BY <1>6
<1> HIDE DEF w, c, M, z, times
<1>9. /\ \A m \in 1..t : out[m] = M
      /\ out[1] = M
      /\ out \in [1..t -> [Batch -> Word]] /\ out \in Seq([Batch -> Word])
  <2>1. M \in [Batch -> Word]
    BY <1>1, <1>7, Masks DEF Value
  <2>2. t \in Nat
    BY <1>1, Program
  <2> QED BY <1>1, <1>5, <2>1, <2>2
<1>10. Moves(p, {to}, {}, M) /\ chan' \in [Party -> [Party -> Seq(Value)]]
  <2>1. \A i \in Batch : Mask(M[i]) = M[i]
    BY <1>1, <1>7, Masks DEF Value
  <2>2. [i \in Batch |-> Mask(out[1][i])] = M
    BY <1>7, <1>9, <2>1 DEF Value
  <2>3. to \in Party \ {p}
    BY <1>1, PeersMeet DEF Pairwise
  <2> HIDE DEF out
  <2>4. chan' = [chan EXCEPT ![p][to] = Append(@, M)]
    BY <1>2, <2>2 DEF FirstSend
  <2> QED BY <1>7, <2>3, <2>4, Appended
<1>11. drawn' \in [Party -> [Keys -> Nat]] /\ \A q \in Party, j \in Keys :
          drawn'[q][j] = IF q = p THEN Words(j, k + 1) ELSE drawn[q][j]
  <2>1. \A j \in Keys : /\ Words(j, k + 1) = drawn[p][j] + run.size * prg_ctrs(n)[j + 1]
                        /\ Words(j, k + 1) \in Nat
    <3> TAKE j \in Keys
    <3>1. Words(j, k + 1) = Words(j, k) + run.size * Ctr(j) /\ Words(j, k) \in Nat
          /\ Ctr(j) \in 1..4 /\ run.size \in Nat
      BY <1>1, WordsStep, Program
    <3>2. run.size * Ctr(j) \in Nat
      BY <3>1
    <3> QED BY <1>3, <3>1, <3>2 DEF Ctr
  <2>2. drawn \in [Party -> [Keys -> Nat]]
    BY DEF IInv, TypeOK
  <2> QED BY <1>2, <2>1, <2>2
<1>12. \E cc \in Locally, oo \in Seq([Batch -> Word]) :
          /\ v' = [v EXCEPT ![p] = [c |-> cc, out |-> oo, got |-> <<>>]]
          /\ Op(pc[p]) \in Pairwise => oo \in [1..t -> [Batch -> Word]]
          /\ Op(pc[p]) = "mult" =>
                /\ \A j \in Keys, i \in Batch :
                      cc[j][i] = Wrap(Uses(Missing(p, j)) * Z(p, j, pc[p], i))
                /\ \A m \in 1..t : oo[m] = Message(p, pc[p])
          /\ Op(pc[p]) = "open" => \A m \in 1..t : Cut(oo[m]) = Opening(p, m, pc[p])
          /\ Public(p) =>
                cc \in [Batch -> Word] /\ (Packed => Cut(cc) = Publishing(p, pc[p]))
  BY <1>1, <1>2, <1>8, <1>9, <1>13 DEF M
<1>14. \A q : Sent(p, q, pc[p]) = M
  BY <1>1 DEF Sent, M
<1>15. Firsts(p) = {to}
  BY <1>1 DEF Firsts
<1> HIDE DEF to
<1> QED BY <1>1, <1>2, <1>7, <1>10, <1>11, <1>12, <1>14, <1>15 DEF StartStep

\* The first step of Open: the batch to the first peer.
LEMMA OpenStarts ==
    ASSUME IInv, NEW p \in Party, OpenStart(p)
    PROVE  StartStep(p)
<1> DEFINE k == pc[p]
           a == shares[p][Instr(p).x]
           f(m, i) == SumOver(Peers("open").share[m], [j \in Keys |-> a[j][i]])
           out == [m \in 1..t |-> [i \in Batch |-> Wrap(f(m, i))]]
           to == Off(p, Peers("open").to[1], n)
           b == [i \in Batch |-> Mask(out[1][i])]
<1>1. /\ Running(p) /\ sent[p] = 0 /\ Op(k) = "open" /\ ~Public(p) /\ k \in Steps /\ k \in Nat
      /\ run \in Cases /\ Sizes /\ 1 \in 1..t /\ a \in Share
  <2>1. Running(p) /\ sent[p] = 0 /\ Instr(p).op = "open"
    BY DEF OpenStart, Starts
  <2> QED BY <2>1, Here, Program DEF Public
<1>2. /\ v' = [v EXCEPT ![p] = [c |-> <<>>, out |-> out, got |-> <<>>]]
      /\ chan' = [chan EXCEPT ![p][to] = Append(@, b)]
      /\ sent' = [sent EXCEPT ![p] = 1]
      /\ run' = run /\ pc' = pc /\ shares' = shares /\ opened' = opened /\ drawn' = drawn
  BY DEF OpenStart, FirstSend
<1>3. ASSUME NEW m \in 1..t, NEW i \in Batch
      PROVE  f(m, i) \in Int
  <2> DEFINE g == [j \in Keys |-> a[j][i]]
             S == Peers("open").share[m]
  <2>1. S \subseteq Keys
    <3>1. CASE n = 5
      BY <1>1, <3>1, Numbers DEF Peers
    <3>2. CASE n = 7
      BY <1>1, <3>2, Numbers DEF Peers
    <3> QED BY <1>1, <3>1, <3>2 DEF Sizes
  <2>2. IsFiniteSet(S)
    BY <1>1, <2>1, KeysFinite
  <2>3. \A j \in Keys : a[j][i] \in Word
    BY <1>1 DEF Share
  <2>4. \A j \in S : g[j] \in Int
    BY <1>1, <2>1, <2>3, Masks
  <2> HIDE DEF g, S
  <2>5. SumOver(S, g) \in Int
    BY <2>2, <2>4, SumRule
  <2> QED BY <2>5 DEF S, g
<1>4. out \in [1..t -> [Batch -> Word]] /\ out \in Seq([Batch -> Word])
  <2>1. \A m \in 1..t, i \in Batch : Wrap(f(m, i)) \in Word
    BY <1>1, <1>3, Masks
  <2>2. t \in Nat
    BY <1>1, Program
  <2> HIDE DEF f
  <2> QED BY <2>1, <2>2
<1>12. \A m \in 1..t : Cut(out[m]) = Opening(p, m, k)
  <2> TAKE m \in 1..t
  <2>1. \A i \in Batch : Mask(Wrap(f(m, i))) = Mask(f(m, i))
    <3> HIDE DEF f
    <3> QED BY <1>1, <1>3, MaskWrap
  <2>2. Opening(p, m, k) = [i \in Batch |-> Mask(f(m, i))]
    BY <1>1, Here DEF Opening
  <2>3. Cut(out[m]) = [i \in Batch |-> Mask(Wrap(f(m, i)))]
    BY DEF Cut
  <2> HIDE DEF f, out
  <2> QED BY <2>1, <2>2, <2>3
<1> HIDE DEF out, a
<1>5. b \in Value
  <2>1. \A i \in Batch : out[1][i] \in Int
    BY <1>1, <1>4, Masks
  <2> QED BY <1>1, <2>1, Masks DEF Value
<1> HIDE DEF b
<1>6. Moves(p, {to}, {}, b) /\ chan' \in [Party -> [Party -> Seq(Value)]]
  <2>1. to \in Party \ {p}
    BY <1>1, PeersMeet DEF Pairwise
  <2> QED BY <1>2, <1>5, <2>1, Appended
<1>7. drawn' \in [Party -> [Keys -> Nat]] /\ \A q \in Party, j \in Keys :
          drawn'[q][j] = IF q = p THEN Words(j, k + 1) ELSE drawn[q][j]
  <2>1. \A j \in Keys : Words(j, k + 1) = drawn[p][j]
    BY <1>1, WordsStep DEF IInv, Counts
  <2>2. drawn \in [Party -> [Keys -> Nat]]
    BY DEF IInv, TypeOK
  <2> QED BY <1>2, <2>1, <2>2
<1>8. <<>> \in Locally
  BY DEF Locally
<1>9. Op(k) # "mult" /\ Op(k) \in Pairwise
  BY <1>1 DEF Pairwise
<1>10. Firsts(p) = {to}
  BY <1>1 DEF Firsts
<1>11. b = Sent(p, to, k)
  <2>1. b = Cut(out[1]) /\ Turn(p, to) = 1
    BY <1>1, TurnIs DEF b, Cut
  <2> QED BY <1>1, <1>12, <2>1 DEF Sent
<1> HIDE DEF to
<1> QED BY <1>1, <1>2, <1>4, <1>5, <1>6, <1>7, <1>8, <1>9, <1>10, <1>11, <1>12 DEF StartStep

\* What memcpy makes of the words of a key is an array of words.
LEMMA v_aType ==
    ASSUME IInv, NEW p \in Party, Running(p), Public(p), sent[p] = 0,
           NEW j \in Keys, NEW i \in Batch, NEW old \in Nat
    PROVE  /\ v_a(p, j, i, old) \in Int
           /\ \A k \in Batch : Draw(p, j, k) * 2^(run.R * (k - 1)) \in Int
<1> DEFINE s == run.size
           R == run.R
           f == [k \in Batch |-> Draw(p, j, k) * 2^(R * (k - 1))]
           buffer == SumOver(Batch, f)
           memory == buffer + old * 2^(R * s)
<1>1. /\ run \in Cases /\ s \in Nat \ {0} /\ R \in Nat /\ W \in Nat /\ Batch = 1..s
      /\ pc[p] \in Steps /\ Op(pc[p]) = "multpub" /\ drawn[p][j] = Words(j, pc[p])
  BY Here, Program DEF Public, Batch, IInv, Counts
<1>2. ASSUME NEW k \in Batch PROVE f[k] \in Int
  <2> DEFINE x == drawn[p][j] + k
             y == Prg(run.seed, Missing(p, j), x)
  <2>1. x \in 1 .. 4 * s * Len(run.program)
    <3> DEFINE w == Words(j, pc[p])
               u == 4 * s * Len(run.program)
    <3>1. w \in Nat /\ w + s <= u /\ k \in 1..s /\ u \in Int
      <4>1. Len(run.program) \in Nat
        BY <1>1, Program
      <4>2. u \in Int
        BY <1>1, <4>1
      <4> QED BY <1>1, <4>2, WordsStep
    <3> HIDE DEF w, u
    <3>2. w + k \in 1..u
      BY <1>1, <3>1
    <3> QED BY <1>1, <3>2 DEF w, u
  <2>2. y \in Nat
    <3>1. /\ p \in 1 .. run.n /\ j \in 0 .. numShares(run.n) - 1
          /\ Missing(p, j) = TSet(p, j, run.n)
      <4>1. Sizes
        BY <1>1, Program
      <4>2. Missing(p, j) = TSet(p, j, run.n)
        BY <4>1, MissingIs DEF n, TSet
      <4> QED BY <4>2 DEF Party, Keys, n
    <3> HIDE DEF x
    <3> QED BY <1>1, <2>1, <3>1, InputAssumption
  <2>3. 2^R \in Nat \ {0} /\ 2^(R * (k - 1)) \in Nat \ {0}
    <3>1. R * (k - 1) \in Nat
      BY <1>1
    <3> QED BY <1>1, <3>1, PowerPositive
  <2>4. f[k] = (y % 2^R) * 2^(R * (k - 1))
    BY DEF Draw
  <2> DEFINE m == 2^R
             g == 2^(R * (k - 1))
  <2>5. y \in Int /\ m \in Nat \ {0} /\ g \in Int /\ f[k] = (y % m) * g
    BY <2>2, <2>3, <2>4
  <2> HIDE DEF y, m, g, f
  <2>6. (y % m) \in 0 .. m - 1
    BY <2>5, Divide
  <2>7. (y % m) \in Int
    BY <2>5, <2>6
  <2> DEFINE z == y % m
  <2>8. z \in Int /\ f[k] = z * g
    BY <2>5, <2>7
  <2> HIDE DEF z
  <2> QED BY <2>5, <2>8
<1>3. buffer \in Int
  <2> HIDE DEF f
  <2> QED BY <1>1, <1>2, KeysFinite, SumRule
<1>4. memory \in Int
  <2>1. R * s \in Nat
    BY <1>1
  <2>2. 2^(R * s) \in Nat \ {0}
    BY <2>1, PowerPositive
  <2> DEFINE g == 2^(R * s)
  <2>3. g \in Int
    BY <2>2
  <2> HIDE DEF g, buffer
  <2>4. old * g \in Int
    BY <2>3
  <2>5. buffer + old * g \in Int
    BY <1>3, <2>4
  <2> QED BY <2>5 DEF g
<1>5. 2^W \in Nat \ {0} /\ 2^(W * (i - 1)) \in Nat \ {0}
  <2>1. W * (i - 1) \in Nat
    BY <1>1
  <2> QED BY <1>1, <2>1, PowerPositive
<1>6. v_a(p, j, i, old) = (memory \div 2^(W * (i - 1))) % 2^W
  BY DEF v_a
<1> DEFINE m == 2^W
           g == 2^(W * (i - 1))
<1>7. m \in Nat \ {0} /\ g \in Nat \ {0}
  BY <1>5
<1> HIDE DEF memory, m, g
<1>8. memory \div g \in Int
  BY <1>4, <1>7, Divide
<1> DEFINE q == memory \div g
<1>9. q \in Int
  BY <1>8
<1> HIDE DEF q
<1>10. (q % m) \in 0 .. m - 1
  BY <1>7, <1>9, Divide
<1>11. (q % m) \in Int
  BY <1>7, <1>10
<1>12. \A k \in Batch : Draw(p, j, k) * 2^(R * (k - 1)) \in Int
  BY <1>2
<1> QED BY <1>6, <1>11, <1>12 DEF q, g, m

\* What the memory held does not reach the ring values when the words fill them.
LEMMA FilledIs ==
    ASSUME IInv, NEW p \in Party, Running(p), Public(p), sent[p] = 0, Packed,
           NEW j \in Keys, NEW i \in Batch, NEW old \in Nat
    PROVE  Mask(v_a(p, j, i, old)) = Filled(p, j, pc[p], i)
<1> DEFINE s == run.size
           R == run.R
           e == W * (i - 1)
           d == R * s - (e + K)
           f == [l \in Batch |-> Draw(p, j, l) * 2^(R * (l - 1))]
           buffer == SumOver(Batch, f)
           memory == buffer + old * 2^(R * s)
           a == 2^K
           g == 2^e
           h == 2^d
<1>1. /\ run \in Cases /\ s \in Nat \ {0} /\ R \in Nat /\ W \in Nat /\ K \in Nat /\ K <= W
      /\ Batch = 1..s /\ pc[p] \in Steps /\ drawn[p][j] = Words(j, pc[p])
  <2>1. /\ run \in Cases /\ s \in Nat \ {0} /\ R \in Nat /\ W \in Nat /\ K \in Nat /\ Batch = 1..s
        /\ K <= R /\ R <= W /\ pc[p] \in Steps
    BY Here, Program DEF Batch
  <2>2. drawn[p][j] = Words(j, pc[p])
    BY DEF IInv, Counts
  <2> QED BY <2>1, <2>2
<1>2. e \in Nat /\ d \in Nat /\ R * s = e + K + d
  <2>1. i - 1 \in Nat /\ i - 1 <= s - 1 /\ s - 1 \in Nat
    BY <1>1
  <2>2. ASSUME NEW x \in Nat, NEW y \in Nat, NEW z \in Nat, x <= y PROVE z * x <= z * y
    BY <2>2, Z3
  <2>3. W * (i - 1) <= W * (s - 1) /\ W * (i - 1) \in Nat /\ W * (s - 1) \in Int
    BY <1>1, <2>1, <2>2
  <2>4. W * (s - 1) + K <= R * s /\ R * s \in Int
    <3>1. (s - 1) * W + K <= s * R
      BY DEF Packed
    <3>2. (s - 1) * W = W * (s - 1) /\ s * R = R * s
      BY <1>1
    <3> QED BY <1>1, <3>1, <3>2
  <2> DEFINE u == W * (s - 1)  w == R * s
  <2>5. e \in Nat /\ u \in Int /\ w \in Int /\ e <= u /\ u + K <= w /\ d = w - (e + K)
    BY <2>3, <2>4
  <2> HIDE DEF u, w, e, d
  <2>6. e \in Nat /\ d \in Nat /\ w = e + K + d
    BY <1>1, <2>5
  <2> QED BY <2>6 DEF w
<1>3. a \in Nat \ {0} /\ g \in Nat \ {0} /\ h \in Nat \ {0}
  <2> HIDE DEF e, d
  <2> QED BY <1>1, <1>2, PowerPositive
<1>4. 2^(R * s) = (h * a) * g
  <2> HIDE DEF e, d
  <2>1. R * s = (e + K) + d /\ e + K \in Nat
    BY <1>1, <1>2
  <2>2. 2^((e + K) + d) = 2^(e + K) * 2^d /\ 2^(e + K) = 2^e * 2^K
    BY <1>1, <1>2, <2>1, PowerSum
  <2>3. 2^(R * s) = (g * a) * h
    BY <2>1, <2>2
  <2> HIDE DEF a, g, h
  <2>4. (g * a) * h = (h * a) * g
    BY <1>3, Z3
  <2> QED BY <2>3, <2>4
<1>5. v_a(p, j, i, old) = Wrap(memory \div g)
  BY DEF v_a, Wrap
<1>6. buffer \in Int
  <2>1. \A l \in Batch : f[l] \in Int
    BY v_aType
  <2> HIDE DEF f
  <2> QED BY <1>1, <2>1, KeysFinite, SumRule
<1>7. Filled(p, j, pc[p], i) = Mask(buffer \div g)
  <2>1. f = [l \in Batch |->
            (Prg(run.seed, Missing(p, j), Words(j, pc[p]) + l) % 2^run.R) * 2^(run.R * (l - 1))]
    BY <1>1 DEF Draw
  <2> QED BY <2>1 DEF Filled
<1> HIDE DEF buffer
<1>8. memory = buffer + (old * (h * a)) * g
  <2>1. memory = buffer + old * ((h * a) * g)
    BY <1>4
  <2> HIDE DEF a, g, h, memory
  <2> QED BY <1>3, <2>1, Z3
<1> HIDE DEF a, g, h, memory
<1> DEFINE c == old * (h * a)
<1>9. c \in Int /\ memory = buffer + c * g /\ memory \in Int /\ c = (old * h) * a /\ old * h \in Int
  BY <1>3, <1>6, <1>8, Z3
<1> HIDE DEF c
<1>10. memory \div g = buffer \div g + c
  <2>1. /\ memory \div g \in Int /\ memory % g \in 0 .. g - 1
        /\ memory = (memory \div g) * g + (memory % g)
    BY <1>3, <1>9, Divide
  <2>2. /\ buffer \div g \in Int /\ buffer % g \in 0 .. g - 1
        /\ buffer = (buffer \div g) * g + (buffer % g)
    BY <1>3, <1>6, Divide
  <2> DEFINE q == memory \div g  r == memory % g  x == buffer \div g  y == buffer % g
  <2>3. /\ q \in Int /\ r \in 0 .. g - 1 /\ x \in Int /\ y \in 0 .. g - 1
        /\ memory = q * g + r /\ buffer = x * g + y
    BY <2>1, <2>2
  <2> HIDE DEF q, r, x, y
  <2>4. (x + c) * g + y = x * g + y + c * g
    BY <1>3, <1>9, <2>3, Z3
  <2>5. q * g + r = (x + c) * g + y /\ x + c \in Int
    BY <1>9, <2>3, <2>4
  <2>6. r = y
    BY <1>3, <2>3, <2>5, RemainderUnique
  <2>7. q * g = (x + c) * g
    BY <1>3, <1>9, <2>3, <2>5, <2>6
  <2>8. q = x + c
    BY <1>3, <1>9, <2>3, <2>7, Z3
  <2> QED BY <2>8 DEF q, x
<1>11. buffer \div g \in Int
  BY <1>3, <1>6, Divide
<1> DEFINE x == buffer \div g
<1>12. x \in Int /\ x + c \in Int /\ v_a(p, j, i, old) = Wrap(x + c)
       /\ Filled(p, j, pc[p], i) = Mask(x)
  BY <1>5, <1>7, <1>9, <1>10, <1>11
<1> HIDE DEF x
<1>13. Mask(Wrap(x + c)) = Mask(x + c)
  BY <1>1, <1>12, MaskWrap
<1>14. Mask(x + c) = Mask(x)
  <2>1. (x + (old * h) * a) % a = x % a
    BY <1>3, <1>9, <1>12, SameRemainder
  <2> QED BY <1>9, <2>1 DEF Mask, a
<1> QED BY <1>12, <1>13, <1>14

\* The first step of Rss_MultPub: its batch goes to every other party.
LEMMA PubStarts ==
    ASSUME IInv, NEW p \in Party, PubStart(p)
    PROVE  StartStep(p)
<1> DEFINE k == pc[p]
           x == shares[p][Instr(p).x]
           y == shares[p][Instr(p).y]
           f(i, old) == [j \in Keys |-> Ops(p, j) * v_a(p, j, i, old)]
           c(old) == [i \in Batch |-> Wrap(Local(x, y, i) + SumOver(Keys, f(i, old)))]
           batch(old) == [i \in Batch |-> Mask(c(old)[i])]
<1>1. /\ Running(p) /\ sent[p] = 0 /\ Op(k) = "multpub" /\ Public(p) /\ k \in Steps /\ k \in Nat
      /\ run \in Cases /\ Sizes /\ x \in Share /\ y \in Share
  <2>1. Running(p) /\ sent[p] = 0 /\ Instr(p).op = "multpub"
    BY DEF PubStart, Starts
  <2> QED BY <2>1, Here, Program DEF Public
<1>2. PICK old \in 0 .. 2^((W - run.R) * run.size) - 1 :
        /\ v' = [v EXCEPT ![p] = [c |-> c(old), out |-> <<>>, got |-> <<>>]]
        /\ chan' = [chan EXCEPT ![p] = [q \in Party |->
              IF q = p THEN @[q] ELSE Append(@[q], batch(old))]]
  BY ZenonT(30) DEF PubStart
<1>3. /\ drawn' = [drawn EXCEPT ![p] = [j \in Keys |-> @[j] + run.size]]
      /\ sent' = [sent EXCEPT ![p] = n - 1]
      /\ run' = run /\ pc' = pc /\ shares' = shares /\ opened' = opened
  BY DEF PubStart
<1>4. old \in Nat
  <2>1. (W - run.R) * run.size \in Nat
    <3>1. W - run.R \in Nat /\ run.size \in Nat
      <4>1. W \in Nat /\ run.R \in Nat /\ run.R <= W /\ run.size \in Nat \ {0}
        BY <1>1, Program
      <4> QED BY <4>1
    <3> QED BY <3>1
  <2>2. 2^((W - run.R) * run.size) \in Nat
    BY <2>1, PowerPositive
  <2> QED BY <2>2
<1>5. ASSUME NEW i \in Batch PROVE c(old)[i] \in Word
  <2>1. \A j \in Keys : f(i, old)[j] \in Int
    <3> TAKE j \in Keys
    <3>1. v_a(p, j, i, old) \in Int
      BY <1>1, <1>4, v_aType
    <3>2. Ops(p, j) \in Int
      <4>1. t \in Nat
        BY <1>1, Program
      <4> QED BY <4>1 DEF Ops
    <3>3. Ops(p, j) * v_a(p, j, i, old) \in Int
      BY <3>1, <3>2
    <3> QED BY <3>3
  <2> DEFINE g == f(i, old)
  <2>2. \A j \in Keys : g[j] \in Int
    BY <2>1
  <2> HIDE DEF g
  <2>3. SumOver(Keys, g) \in Int
    BY <1>1, <2>2, KeysFinite, SumRule
  <2>4. Local(x, y, i) \in Int
    BY <1>1, LocalType
  <2>5. Local(x, y, i) + SumOver(Keys, g) \in Int
    BY <2>3, <2>4
  <2>6. Wrap(Local(x, y, i) + SumOver(Keys, g)) \in Word
    BY <1>1, <2>5, Masks
  <2> QED BY <2>6 DEF g
<1>6. c(old) \in [Batch -> Word]
  <2> DEFINE d == c(old)
  <2>1. \A i \in Batch : d[i] \in Word
    BY <1>5
  <2>2. d = [i \in Batch |-> d[i]]
    OBVIOUS
  <2> HIDE DEF d
  <2>3. d \in [Batch -> Word]
    BY <2>1, <2>2
  <2> QED BY <2>3 DEF d
<1>7. batch(old) \in Value
  <2> DEFINE d == c(old)
  <2>1. d \in [Batch -> Word]
    BY <1>6
  <2> HIDE DEF d
  <2>2. \A i \in Batch : Mask(d[i]) \in 0 .. 2^K - 1
    BY <1>1, <2>1, Masks
  <2>3. [i \in Batch |-> Mask(d[i])] \in Value
    BY <2>2 DEF Value
  <2> QED BY <2>3 DEF d
<1>8. PICK b, cc : b = batch(old) /\ cc = c(old)
  OBVIOUS
<1> HIDE DEF f, c, batch
<1>9. Moves(p, Party \ {p}, {}, b) /\ chan' \in [Party -> [Party -> Seq(Value)]]
  <2>1. chan \in [Party -> [Party -> Seq(Value)]] /\ b \in Value
    BY <1>7, <1>8 DEF IInv, TypeOK, Value
  <2>2. chan' = [chan EXCEPT ![p] = [q \in Party |->
              IF q = p THEN @[q] ELSE Append(@[q], b)]]
    BY <1>2, <1>8
  <2>3. \A q \in Party : chan[p][q] \in Seq(Value) /\ Append(chan[p][q], b) \in Seq(Value)
    BY <2>1
  <2> QED BY <2>1, <2>2, <2>3 DEF Moves
<1>10. drawn' \in [Party -> [Keys -> Nat]] /\ \A q \in Party, j \in Keys :
          drawn'[q][j] = IF q = p THEN Words(j, k + 1) ELSE drawn[q][j]
  <2>1. \A j \in Keys : /\ Words(j, k + 1) = drawn[p][j] + run.size
                        /\ Words(j, k + 1) \in Nat
    <3> TAKE j \in Keys
    <3>1. Words(j, k + 1) = Words(j, k) + run.size /\ Words(j, k) \in Nat /\ run.size \in Nat
      <4>1. Op(k) = "multpub" /\ k \in Steps /\ run \in Cases
        BY <1>1
      <4>2. Words(j, k + 1) = Words(j, k) + run.size /\ Words(j, k) \in Nat
        BY <4>1, WordsStep
      <4> QED BY <4>1, <4>2, Program
    <3>2. drawn[p][j] = Words(j, k)
      BY <1>1 DEF IInv, Counts
    <3> QED BY <3>1, <3>2
  <2>2. drawn \in [Party -> [Keys -> Nat]]
    BY DEF IInv, TypeOK
  <2> QED BY <1>3, <2>1, <2>2
<1>11. cc \in Locally /\ cc \in [Batch -> Word] /\ <<>> \in Seq([Batch -> Word])
  BY <1>6, <1>8 DEF Locally
<1>12. Op(k) # "mult" /\ Op(k) \notin Pairwise
  BY <1>1 DEF Pairwise
<1>13. v' = [v EXCEPT ![p] = [c |-> cc, out |-> <<>>, got |-> <<>>]]
  BY <1>2, <1>8
<1>14. Packed => b = Publishing(p, k)
  <2> SUFFICES ASSUME Packed PROVE b = Publishing(p, k)
    OBVIOUS
  <2> DEFINE u(i) == [j \in Keys |-> Ops(p, j) * Filled(p, j, k, i)]
  <2>1. Publishing(p, k) = [i \in Batch |-> Mask(Local(x, y, i) + SumOver(Keys, u(i)))]
    BY <1>1, Here DEF Publishing
  <2>2. ASSUME NEW i \in Batch
        PROVE  Mask(c(old)[i]) = Mask(Local(x, y, i) + SumOver(Keys, u(i)))
    <3> DEFINE F == f(i, old)
               G == u(i)
    <3>1. \A j \in Keys : F[j] \in Int /\ G[j] \in Int /\ Mask(F[j]) = Mask(G[j])
      <4> TAKE j \in Keys
      <4> DEFINE o == Ops(p, j)
                 d == v_a(p, j, i, old)
                 e == Filled(p, j, k, i)
      <4>1. d \in Int
        BY <1>1, <1>4, v_aType
      <4>2. Mask(d) = e
        BY <1>1, <1>4, FilledIs
      <4>3. o \in Int
        <5>1. t \in Nat
          BY <1>1, Program
        <5> QED BY <5>1 DEF Ops
      <4>4. F[j] = o * d /\ G[j] = o * e
        BY DEF f
      <4> HIDE DEF o, d, e, F, G
      <4>5. e \in Int /\ Mask(e) = Mask(d)
        BY <4>1, <4>2, Ring
      <4>6. o * d \in Int /\ o * e \in Int /\ Mask(o * d) = Mask(o * e)
        BY ONLY <4>1, <4>3, <4>5, SameTerm, Zenon
      <4> QED BY <4>4, <4>6
    <3>2. Mask(SumOver(Keys, F)) = Mask(SumOver(Keys, G))
          /\ SumOver(Keys, F) \in Int /\ SumOver(Keys, G) \in Int
      <4> HIDE DEF F, G
      <4> QED BY <1>1, <3>1, KeysFinite, SumMask, SumRule
    <3>3. c(old)[i] = Wrap(Local(x, y, i) + SumOver(Keys, F)) /\ Local(x, y, i) \in Int
      BY <1>1, LocalType DEF c
    <3> DEFINE l == Local(x, y, i)
               S == SumOver(Keys, F)
               T == SumOver(Keys, G)
    <3>4. l \in Int /\ S \in Int /\ T \in Int /\ Mask(S) = Mask(T) /\ c(old)[i] = Wrap(l + S)
      BY <3>2, <3>3
    <3> HIDE DEF l, S, T
    <3>5. Mask(l + S) = Mask(l + T) /\ l + S \in Int
      BY ONLY <3>4, SameTerm, ZenonT(30)
    <3>6. Mask(Wrap(l + S)) = Mask(l + S)
      BY ONLY <1>1, <3>5, MaskWrap
    <3> QED BY <3>4, <3>5, <3>6 DEF l, T
  <2>3. b = [i \in Batch |-> Mask(c(old)[i])]
    BY <1>8 DEF batch
  <2> HIDE DEF u
  <2> QED BY <2>1, <2>2, <2>3
<1>15. b = Cut(cc) /\ Firsts(p) = Party \ {p}
  BY <1>1, <1>8 DEF Cut, batch, Firsts
<1>16. Exact(k) => \A q : b = Sent(p, q, k)
  BY <1>1, <1>14 DEF Exact, Sent
<1> QED BY <1>1, <1>3, <1>7, <1>8, <1>9, <1>10, <1>11, <1>12, <1>13, <1>14, <1>15, <1>16
        DEF StartStep

\* A turn of an exchange reads the next batch of that turn's source.
LEMMA Reading ==
    ASSUME IInv, NEW p \in Party, Running(p), Op(pc[p]) \in Pairwise, sent[p] \in 1..t,
           chan[Source(p)][p] # <<>>
    PROVE  /\ Fetches(p, Source(p))
           /\ Head(chan[Source(p)][p]) \in Value
           /\ Head(chan[Source(p)][p]) = Sent(Source(p), p, pc[p])
<1> DEFINE q == Source(p)
           m == sent[p]
           op == Op(pc[p])
<1>1. /\ Sizes /\ op \in Pairwise /\ m \in 1..t /\ pc[p] \in Nat /\ m \in Nat
      /\ q = Off(p, Peers(op).from[m], n) /\ op # "multpub"
  BY Here, Program DEF Source, Pairwise
<1> HIDE DEF q, m, op
<1>2. q \in Party \ {p}
  BY <1>1, PeersMeet
<1>3. p = Off(q, Peers(op).to[m], n)
  BY <1>1, <1>2, PeersMeet
<1>4. ~HasRead(p, q, pc[p])
  <2>1. ASSUME NEW l \in 1..t, q = Off(p, Peers(op).from[l], n) PROVE l = m
    <3>1. Off(p, Peers(op).from[m], n) = Off(p, Peers(op).from[l], n)
      BY <1>1, <2>1
    <3> QED BY <1>1, <3>1, PeersMeet
  <2>2. ~(pc[p] < pc[p]) /\ ~(m > m)
    BY <1>1
  <2> QED BY <1>1, <2>1, <2>2 DEF HasRead, op, m
<1>5. chan[q][p] # <<>>
  BY DEF q
<1>6. /\ pc[p] \in InFlight(q, p)
      /\ \A k \in InFlight(q, p) : pc[p] <= k
      /\ Head(chan[q][p]) \in Value
      /\ Head(chan[q][p]) = Sent(q, p, pc[p])
  <2>1. IF Op(pc[p]) = "multpub" THEN TRUE
        ELSE \E l \in 1..t : p = Off(q, Peers(Op(pc[p])).to[l], n)
    BY <1>1, <1>3 DEF op
  <2>2. q \in Party /\ q # p /\ TypeOK /\ Queues
    BY <1>2 DEF IInv
  <2>3. Exact(pc[p])
    BY <1>1 DEF Exact, op
  <2> QED BY <1>4, <1>5, <2>1, <2>2, <2>3, NextBatch DEF op
<1> QED BY <1>2, <1>6 DEF Fetches, q, op

\* One more turn of the exchange: write to a peer, read from another.
LEMMA Relays ==
    ASSUME IInv, NEW p \in Party, Relay(p)
    PROVE  RelayStep(p)
<1> DEFINE q == Source(p)
           m == sent[p]
           next == Off(p, Peers(Op(pc[p])).to[m + 1], n)
           h == Head(chan[q][p])
           b == [i \in Batch |-> Mask(v[p].out[m + 1][i])]
<1>1. /\ Running(p) /\ Op(pc[p]) \in Pairwise /\ m \in 1 .. t-1 /\ m \in 1..t /\ m + 1 \in 1..t
      /\ chan[q][p] # <<>> /\ run \in Cases /\ Sizes /\ Instr(p).op = Op(pc[p])
  <2>1. Running(p) /\ Instr(p).op \in Pairwise /\ m > 0 /\ m < t /\ chan[q][p] # <<>>
    BY DEF Relay, Reads, Pairwise
  <2>2. m \in Nat /\ t \in Nat /\ Sizes /\ run \in Cases /\ Instr(p).op = Op(pc[p])
    BY <2>1, Here, Program
  <2> QED BY <2>1, <2>2
<1>2. /\ v' = [v EXCEPT ![p].got = Append(@, h)]
      /\ chan' = [chan EXCEPT ![q][p] = Tail(@), ![p][next] = Append(@, b)]
      /\ sent' = [sent EXCEPT ![p] = @ + 1]
      /\ run' = run /\ pc' = pc /\ shares' = shares /\ opened' = opened /\ drawn' = drawn
  BY <1>1 DEF Relay
<1>3. Fetches(p, q) /\ h \in Value /\ h = Sent(q, p, pc[p])
  BY <1>1, Reading
<1>4. b \in Value /\ b = Sent(p, next, pc[p])
  <2> DEFINE d == v[p].out[m + 1]
  <2>1. m > 0 /\ m \in Nat
    BY <1>1
  <2>2. /\ d \in [Batch -> Word] /\ (Op(pc[p]) = "mult" => d = Message(p, pc[p]))
        /\ Op(pc[p]) = "open" => Cut(d) = Opening(p, m + 1, pc[p])
    BY <1>1, <2>1 DEF IInv, Locals, LocalsAt, Pairwise
  <2>3. Op(pc[p]) = "mult" => Message(p, pc[p]) \in Value
    <3>1. pc[p] \in Steps /\ pc[p] <= pc[p]
      BY <1>1, Here
    <3> QED BY <3>1, MessageType DEF IInv
  <2>4. b = [i \in Batch |-> Mask(d[i])]
    OBVIOUS
  <2> HIDE DEF d, b
  <2>5. \A i \in Batch : Mask(d[i]) \in 0 .. 2^K - 1
    BY <1>1, <2>2, Masks
  <2>6. b \in Value
    BY <2>4, <2>5 DEF Value
  <2>7. ASSUME Op(pc[p]) = "mult" PROVE b = Message(p, pc[p])
    <3>1. d \in Value /\ d = Message(p, pc[p])
      BY <2>2, <2>3, <2>7
    <3>2. \A i \in Batch : Mask(d[i]) = d[i]
      BY <1>1, <3>1, Masks DEF Value
    <3> QED BY <2>4, <3>1, <3>2 DEF Value
  <2>8. ASSUME Op(pc[p]) = "open" PROVE b = Sent(p, next, pc[p])
    <3>1. Turn(p, next) = m + 1
      BY <1>1, <2>8, TurnIs
    <3>2. b = Cut(d)
      BY <2>4 DEF Cut
    <3> QED BY <2>2, <2>8, <3>1, <3>2 DEF Sent
  <2> QED BY <1>1, <2>6, <2>7, <2>8 DEF Sent, Pairwise
<1> HIDE DEF b, h
<1>5. next \in Party \ {p} /\ q \in Party \ {p}
  BY <1>1, <1>3, PeersMeet DEF Fetches
<1> HIDE DEF next, q
<1>6. Moves(p, {next}, {q}, b) /\ chan' \in [Party -> [Party -> Seq(Value)]]
  <2>1. chan \in [Party -> [Party -> Seq(Value)]]
    BY DEF IInv, TypeOK, Value
  <2>2. /\ Append(chan[p][next], b) \in Seq(Value)
        /\ Tail(chan[q][p]) \in Seq(Value)
    <3>1. chan[p][next] \in Seq(Value) /\ chan[q][p] \in Seq(Value)
      BY <1>5, <2>1
    <3> QED BY <1>1, <1>4, <3>1 DEF q
  <2> QED BY <1>2, <1>5, <2>1, <2>2 DEF Moves
<1> QED BY <1>1, <1>2, <1>3, <1>4, <1>6 DEF RelayStep, next, q


\* What the last read of an exchange completes.
LEMMA LastReads ==
    ASSUME IInv, NEW p \in Party, NEW op \in Pairwise, LastRead(p, op)
    PROVE  /\ Running(p) /\ Op(pc[p]) = op /\ ~Public(p) /\ sent[p] = t
           /\ pc' = [pc EXCEPT ![p] = @ + 1]
           /\ sent' = [sent EXCEPT ![p] = 0]
           /\ v' = [v EXCEPT ![p] = NoLocals]
           /\ Fetches(p, Source(p))
           /\ \A batch : Moves(p, {}, {Source(p)}, batch)
           /\ chan' \in [Party -> [Party -> Seq(Value)]]
           /\ \A m \in 1..t : Got(p)[m] \in Value
           /\ \A m \in 1..t : Got(p)[m] = Sent(Off(p, Peers(op).from[m], n), p, pc[p])
<1> DEFINE q == Source(p)
           h == Head(chan[q][p])
           got == v[p].got
<1>1. /\ Running(p) /\ Op(pc[p]) = op /\ ~Public(p) /\ sent[p] = t /\ sent[p] \in 1..t
      /\ sent[p] > 0 /\ chan[q][p] # <<>> /\ run \in Cases /\ Sizes /\ t \in Nat
      /\ pc' = [pc EXCEPT ![p] = @ + 1]
      /\ sent' = [sent EXCEPT ![p] = 0]
      /\ v' = [v EXCEPT ![p] = NoLocals]
      /\ chan' = [chan EXCEPT ![q][p] = Tail(@)]
  <2>1. Running(p) /\ Instr(p).op = op /\ sent[p] = t /\ chan[q][p] # <<>>
    BY DEF LastRead, Reads
  <2>2. /\ Op(pc[p]) = op /\ run \in Cases /\ Sizes /\ t \in Nat /\ 1 <= t
        /\ op # "multpub"
    BY <2>1, Here, Program DEF Pairwise
  <2> QED BY <2>1, <2>2 DEF LastRead, Public
<1>2. Fetches(p, q) /\ h \in Value /\ h = Sent(q, p, pc[p])
  BY <1>1, Reading
<1>3. /\ got \in Seq(Value) /\ Len(got) = t - 1
      /\ \A m \in 1 .. t - 1 : got[m] = Sent(Off(p, Peers(op).from[m], n), p, pc[p])
  <2>1. got \in Seq(Value)
    BY DEF IInv, TypeOK, Value
  <2>2. /\ Len(got) = t - 1
        /\ \A m \in 1 .. t - 1 : got[m] = Sent(Off(p, Peers(op).from[m], n), p, pc[p])
    BY <1>1 DEF IInv, Locals, LocalsAt, Pairwise
  <2> QED BY <2>1, <2>2
<1>4. q = Off(p, Peers(op).from[t], n)
  BY <1>1, Here DEF Source
<1>5. Got(p) = Append(got, h)
  BY DEF Got
<1> HIDE DEF got, h
<1>6. \A m \in 1..t : Append(got, h)[m] = IF m = t THEN h ELSE got[m]
  BY <1>1, <1>2, <1>3
<1>7. \A m \in 1..t : Got(p)[m] \in Value
  <2>1. \A m \in 1..t : m # t => m \in 1 .. Len(got)
    BY <1>1, <1>3
  <2>2. \A m \in 1 .. Len(got) : got[m] \in Value
    BY <1>3
  <2> QED BY <1>2, <1>5, <1>6, <2>1, <2>2
<1>8. \A m \in 1..t : Got(p)[m] = Sent(Off(p, Peers(op).from[m], n), p, pc[p])
  <2>1. \A m \in 1..t : m # t => m \in 1 .. t - 1
    BY <1>1
  <2> QED BY <1>1, <1>2, <1>3, <1>4, <1>5, <1>6, <2>1
<1>9. /\ \A batch : Moves(p, {}, {q}, batch)
      /\ chan' \in [Party -> [Party -> Seq(Value)]]
  <2>1. chan \in [Party -> [Party -> Seq(Value)]] /\ q \in Party
    BY <1>2 DEF IInv, TypeOK, Value, Fetches
  <2> HIDE DEF q
  <2>2. Tail(chan[q][p]) \in Seq(Value)
    <3>1. chan[q][p] \in Seq(Value)
      BY <2>1
    <3> QED BY <1>1, <3>1
  <2> QED BY <1>1, <2>1, <2>2 DEF Moves
<1> QED BY <1>1, <1>2, <1>7, <1>8, <1>9

\* At most one of the batches read is added to a share.
LEMMA IntoIs ==
    ASSUME Sizes, NEW j \in Keys
    PROVE  /\ Into(j) = {} \/ \E m \in 1..t : Into(j) = {m}
           /\ Into(0) = {}
<1>1. CASE n = 5
  <2>1. t = 2 /\ j \in 0..5
    BY <1>1, Numbers
  <2>2. \A l \in 0..5 : Into(l) = IF l = 5 THEN {1} ELSE IF l = 3 THEN {2} ELSE {}
    BY <1>1, <2>1 DEF Into, Peers
  <2> QED BY <2>1, <2>2
<1>2. CASE n = 7
  <2>1. t = 3 /\ j \in 0..19
    BY <1>2, Numbers
  <2>2. \A l \in 0..19 : Into(l) = IF l = 19 THEN {1} ELSE IF l = 16 THEN {2}
                                   ELSE IF l = 10 THEN {3} ELSE {}
    BY <1>2, <2>1 DEF Into, Peers
  <2> QED BY <2>1, <2>2
<1> QED BY <1>1, <1>2 DEF Sizes


\* A product is made of words.
LEMMA ProductType ==
    ASSUME IInv, NEW p \in Party, NEW k \in Steps, Op(k) = "mult",
           \A j \in Keys : Owner(p, j) # 0 => Message(Owner(p, j), k) \in Value
    PROVE  Product(p, k) \in Share
<1>1. run \in Cases
  BY DEF IInv, TypeOK
<1>2. ASSUME NEW j \in Keys, NEW i \in Batch
      PROVE  Wrap(Wrap(Uses(Missing(p, j)) * Z(p, j, k, i))
                  + (IF Owner(p, j) = 0 THEN 0 ELSE Message(Owner(p, j), k)[i])) \in Word
  <2> DEFINE x == Uses(Missing(p, j))
             y == Z(p, j, k, i)
             m == Message(Owner(p, j), k)
  <2>1. x \in Nat /\ y \in Nat
    BY <1>1, UsesType, ZType
  <2>2. Owner(p, j) # 0 => m \in Value
    OBVIOUS
  <2> HIDE DEF x, y, m
  <2>3. x * y \in Int
    BY <2>1
  <2>4. Wrap(x * y) \in Int
    BY <1>1, <2>3, Masks
  <2>5. Owner(p, j) # 0 => m[i] \in Int
    BY <2>2 DEF Value
  <2>6. Wrap(x * y) + (IF Owner(p, j) = 0 THEN 0 ELSE m[i]) \in Int
    BY <2>4, <2>5
  <2>7. Wrap(Wrap(x * y) + (IF Owner(p, j) = 0 THEN 0 ELSE m[i])) \in Word
    BY <1>1, <2>6, Masks
  <2> QED BY <2>7 DEF x, y, m
<1> QED BY <1>2 DEF Product, Share

\* The last read of Rss_Mult, after which every message that was read is added
\* to the share it belongs to: that share is the Product.
LEMMA MultEnds ==
    ASSUME IInv, NEW p \in Party, MultEnd(p)
    PROVE  LastStep(p)
<1> DEFINE k == pc[p]
           dst == run.program[k].dst
           G == Got(p)
           own == v[p].out[1]
           into(j) == {m \in 1..t : j \in Peers("mult").share[m]}
           g(i) == [m \in 1..t |-> G[m][i]]
           c(j, i) == v[p].c[j][i] + SumOver(into(j), g(i))
           new == [j \in Keys |-> [i \in Batch |->
                     Wrap(c(j, i) + IF j = 0 THEN own[i] ELSE 0)]]
<1>1. /\ LastRead(p, "mult") /\ "mult" \in Pairwise
      /\ shares' = [shares EXCEPT ![p][dst] = new]
      /\ run' = run /\ opened' = opened /\ drawn' = drawn
  BY DEF MultEnd, Pairwise, Instr
<1>2. /\ Running(p) /\ Op(k) = "mult" /\ ~Public(p) /\ sent[p] = t
      /\ pc' = [pc EXCEPT ![p] = @ + 1]
      /\ sent' = [sent EXCEPT ![p] = 0]
      /\ v' = [v EXCEPT ![p] = NoLocals]
      /\ Fetches(p, Source(p))
      /\ \A batch : Moves(p, {}, {Source(p)}, batch)
      /\ chan' \in [Party -> [Party -> Seq(Value)]]
      /\ \A m \in 1..t : G[m] \in Value
      /\ \A m \in 1..t : G[m] = Message(Off(p, Peers("mult").from[m], n), k)
  BY <1>1, LastReads DEF Sent
<1>3. /\ run \in Cases /\ Sizes /\ k \in Steps /\ t \in Nat /\ 1 \in 1..t /\ t > 0 /\ k <= pc[p]
  <2>1. run \in Cases /\ Sizes /\ k \in Steps /\ t \in Nat /\ 1 <= t
    BY <1>2, Here, Program
  <2> QED BY <2>1 DEF Steps
<1> DEFINE z(j, i) == Uses(Missing(p, j)) * Z(p, j, k, i)
<1>4. /\ \A j \in Keys, i \in Batch : v[p].c[j][i] = Wrap(z(j, i))
      /\ own = Message(p, k) /\ own \in Value
  <2>1. /\ \A j \in Keys, i \in Batch : v[p].c[j][i] = Wrap(z(j, i))
        /\ \A m \in 1..t : v[p].out[m] = Message(p, k)
    BY <1>2, <1>3 DEF IInv, Locals, LocalsAt
  <2>2. Message(p, k) \in Value
    BY <1>2, <1>3, MessageType DEF IInv
  <2> HIDE DEF z
  <2> QED BY <1>3, <2>1, <2>2
<1>5. \A j \in Keys, i \in Batch : Wrap(z(j, i)) \in Int
  <2> TAKE j \in Keys, i \in Batch
  <2>1. Uses(Missing(p, j)) \in Nat /\ Z(p, j, k, i) \in Nat
    BY <1>2, <1>3, UsesType, ZType
  <2>2. z(j, i) \in Int
    BY <2>1
  <2> HIDE DEF z
  <2> QED BY <1>3, <2>2, Masks
<1>6. \A m \in 1..t, i \in Batch : g(i)[m] = G[m][i] /\ g(i)[m] \in Int
  BY <1>2 DEF Value
<1>7. ASSUME NEW j \in Keys, NEW i \in Batch
      PROVE  /\ into(j) = {} => SumOver(into(j), g(i)) = 0
             /\ \A m \in 1..t : into(j) = {m} => SumOver(into(j), g(i)) = G[m][i]
  <2>1. IsFiniteSet(into(j)) /\ \A m \in into(j) : g(i)[m] \in Int
    BY <1>3, <1>6, KeysFinite, FS_Subset
  <2> DEFINE S == into(j)
             h == g(i)
  <2>2. IsFiniteSet(S) /\ \A m \in S : h[m] \in Int
    BY <2>1
  <2>3. \A m \in 1..t : h[m] = G[m][i]
    BY <1>6
  <2> HIDE DEF S, h
  <2>4. (S = {} => SumOver(S, h) = 0) /\ \A m : S = {m} => SumOver(S, h) = h[m]
    BY <2>2, SumRule
  <2>5. (S = {} => SumOver(S, h) = 0) /\ \A m \in 1..t : S = {m} => SumOver(S, h) = G[m][i]
    BY <2>3, <2>4
  <2> QED BY <2>5 DEF S, h
<1> DEFINE part(j, i) == IF Owner(p, j) = 0 THEN 0 ELSE Message(Owner(p, j), k)[i]
<1> HIDE DEF g, G, z
<1>8. \A j : into(j) = Into(j)
  BY DEF Into
<1>9. 0 \notin Party /\ p \in Party
  BY DEF Party
<1>10. ASSUME NEW j \in Keys, NEW i \in Batch
       PROVE  /\ c(j, i) + (IF j = 0 THEN own[i] ELSE 0) = Wrap(z(j, i)) + part(j, i)
              /\ Owner(p, j) # 0 => Message(Owner(p, j), k) \in Value
  <2> DEFINE a == v[p].c[j][i]
             S == SumOver(into(j), g(i))
  <2>1. a = Wrap(z(j, i)) /\ a \in Int
    BY <1>4, <1>5
  <2>2. CASE j = 0
    <3>1. S = 0
      BY <1>3, <1>7, <1>8, <2>2, IntoIs
    <3>2. Owner(p, j) = p /\ p # 0
      BY <1>9, <2>2 DEF Owner
    <3>3. part(j, i) = own[i] /\ own[i] \in Int /\ Message(Owner(p, j), k) \in Value
      BY <1>4, <3>2 DEF Value
    <3> HIDE DEF part, own, a, S
    <3>4. a + S + (IF j = 0 THEN own[i] ELSE 0) = a + part(j, i)
      BY <2>1, <2>2, <3>1, <3>3
    <3> QED BY <2>1, <3>3, <3>4 DEF a, S
  <2>3. CASE j # 0 /\ into(j) = {}
    <3>1. S = 0
      BY <1>7, <2>3
    <3>2. Owner(p, j) = 0
      BY <1>8, <2>3 DEF Owner
    <3>3. part(j, i) = 0
      BY <3>2
    <3> HIDE DEF part, own, a, S
    <3>4. a + S + (IF j = 0 THEN own[i] ELSE 0) = a + part(j, i)
      BY <2>1, <2>3, <3>1, <3>3
    <3> QED BY <2>1, <3>2, <3>4 DEF a, S
  <2>4. ASSUME j # 0, NEW m \in 1..t, into(j) = {m}
        PROVE  /\ c(j, i) + (IF j = 0 THEN own[i] ELSE 0) = Wrap(z(j, i)) + part(j, i)
               /\ Owner(p, j) # 0 => Message(Owner(p, j), k) \in Value
    <3>1. S = G[m][i] /\ G[m][i] \in Int /\ G[m] \in Value
      <4>1. S = G[m][i]
        BY <1>7, <2>4
      <4>2. G[m] \in Value
        BY <1>2 DEF G
      <4> QED BY <4>1, <4>2 DEF Value
    <3>2. Owner(p, j) = Off(p, Peers("mult").from[m], n)
      <4>1. Into(j) = {m} /\ \A x : (CHOOSE y \in {x} : TRUE) = x
        BY <1>8, <2>4
      <4>2. Into(j) # {} /\ (CHOOSE y \in Into(j) : TRUE) = m
        BY <4>1
      <4> QED BY <2>4, <4>2 DEF Owner
    <3>3. Owner(p, j) \in Party
      BY <1>1, <1>3, <3>2, PeersMeet
    <3>4. Message(Owner(p, j), k) = G[m]
      BY <1>2, <3>2 DEF G
    <3>5. part(j, i) = G[m][i]
      BY <1>9, <3>3, <3>4
    <3> HIDE DEF part, own, a, S
    <3>6. a + S + (IF j = 0 THEN own[i] ELSE 0) = a + part(j, i)
      BY <2>1, <2>4, <3>1, <3>5
    <3> QED BY <2>1, <3>1, <3>4, <3>6 DEF a, S
  <2>5. into(j) = {} \/ \E m \in 1..t : into(j) = {m}
    BY <1>3, <1>8, IntoIs
  <2> QED BY <2>2, <2>3, <2>4, <2>5
<1>11. new = Product(p, k)
  <2>1. Product(p, k) = [j \in Keys |-> [i \in Batch |-> Wrap(Wrap(z(j, i)) + part(j, i))]]
    BY DEF Product, z
  <2> HIDE DEF c, part, own
  <2>2. \A j \in Keys, i \in Batch :
           Wrap(c(j, i) + IF j = 0 THEN own[i] ELSE 0) = Wrap(Wrap(z(j, i)) + part(j, i))
    BY <1>10
  <2> QED BY <2>1, <2>2
<1> HIDE DEF new
<1>12. Product(p, k) \in Share
  <2>1. 1 \in Batch
    BY <1>3, Program DEF Batch
  <2>2. \A j \in Keys : Owner(p, j) # 0 => Message(Owner(p, j), k) \in Value
    BY <1>10, <2>1
  <2> QED BY <1>2, <1>3, <2>2, ProductType
<1> QED BY <1>1, <1>2, <1>11, <1>12 DEF LastStep


\* The last read of Open.
LEMMA OpenEnds ==
    ASSUME IInv, NEW p \in Party, OpenEnd(p)
    PROVE  LastStep(p)
<1> DEFINE dst == run.program[pc[p]].dst
           a == shares[p][Instr(p).x]
           G == Got(p)
           f(i) == [j \in Keys |-> a[j][i]]
           g(i) == [m \in 1..t |-> G[m][i]]
           w == [i \in Batch |-> Mask(SumOver(Keys, f(i)) + SumOver(1..t, g(i)))]
<1>1. /\ LastRead(p, "open") /\ "open" \in Pairwise
      /\ opened' = [opened EXCEPT ![p][dst] = w]
      /\ run' = run /\ shares' = shares /\ drawn' = drawn
  BY DEF OpenEnd, Pairwise, Instr
<1>2. /\ Running(p) /\ Op(pc[p]) = "open" /\ ~Public(p) /\ sent[p] = t
      /\ pc' = [pc EXCEPT ![p] = @ + 1]
      /\ sent' = [sent EXCEPT ![p] = 0]
      /\ v' = [v EXCEPT ![p] = NoLocals]
      /\ Fetches(p, Source(p))
      /\ \A batch : Moves(p, {}, {Source(p)}, batch)
      /\ chan' \in [Party -> [Party -> Seq(Value)]]
      /\ \A m \in 1..t : G[m] \in Value
      /\ \A m \in 1..t : G[m] = Sent(Off(p, Peers("open").from[m], n), p, pc[p])
  BY <1>1, LastReads
<1>3. run \in Cases /\ a \in Share
  BY <1>2, Here
<1>4. ASSUME NEW i \in Batch PROVE SumOver(Keys, f(i)) \in Int
  <2> DEFINE h == f(i)
  <2>1. \A j \in Keys : h[j] \in Int
    BY <1>3, Masks DEF Share
  <2> HIDE DEF h
  <2>2. SumOver(Keys, h) \in Int
    BY <1>3, <2>1, KeysFinite, SumRule
  <2> QED BY <2>2 DEF h
<1>5. ASSUME NEW i \in Batch PROVE SumOver(1..t, g(i)) \in Int
  <2> DEFINE h == g(i)
  <2>1. \A m \in 1..t : h[m] \in Int
    BY <1>2 DEF Value
  <2> HIDE DEF h
  <2>2. SumOver(1..t, h) \in Int
    BY <1>3, <2>1, KeysFinite, SumRule
  <2> QED BY <2>2 DEF h
<1>6. w \in Value
  <2> HIDE DEF f, g
  <2>1. \A i \in Batch : SumOver(Keys, f(i)) + SumOver(1..t, g(i)) \in Int
    BY <1>4, <1>5
  <2>2. \A i \in Batch : Mask(SumOver(Keys, f(i)) + SumOver(1..t, g(i))) \in 0 .. 2^K - 1
    BY <1>3, <2>1, Masks
  <2> QED BY <2>2 DEF Value
<1>7. w = Shown(p, pc[p])
  <2>1. Instr(p) = run.program[pc[p]]
    BY <1>2, Here
  <2>2. \A i \in Batch : g(i) = [m \in 1..t |->
            Sent(Off(p, Peers("open").from[m], n), p, pc[p])[i]]
    BY <1>2
  <2> HIDE DEF g
  <2>3. w = [i \in Batch |-> Mask(SumOver(Keys, f(i)) + SumOver(1..t, [m \in 1..t |->
            Sent(Off(p, Peers("open").from[m], n), p, pc[p])[i]]))]
    BY <2>2
  <2> HIDE DEF w
  <2> QED BY <1>2, <2>1, <2>3 DEF Shown
<1> HIDE DEF w
<1> QED BY <1>1, <1>2, <1>6, <1>7 DEF LastStep

\* The reads of Rss_MultPub.
LEMMA PubEnds ==
    ASSUME IInv, NEW p \in Party, PubEnd(p)
    PROVE  LastStep(p)
<1> DEFINE dst == run.program[pc[p]].dst
           others == Party \ {p}
           g(i) == [q \in others |-> Head(chan[q][p])[i]]
           w == [i \in Batch |-> Mask(v[p].c[i] + SumOver(others, g(i)))]
<1>1. /\ Running(p) /\ Op(pc[p]) = "multpub" /\ Public(p) /\ sent[p] > 0
      /\ \A q \in others : chan[q][p] # <<>>
      /\ pc' = [pc EXCEPT ![p] = @ + 1]
      /\ sent' = [sent EXCEPT ![p] = 0]
      /\ v' = [v EXCEPT ![p] = NoLocals]
      /\ chan' = [q \in Party |-> [chan[q] EXCEPT ![p] = IF q = p THEN @ ELSE Tail(@)]]
      /\ opened' = [opened EXCEPT ![p][dst] = w]
      /\ run' = run /\ shares' = shares /\ drawn' = drawn
  BY DEF PubEnd, Public, Instr, Op
<1>2. run \in Cases /\ pc[p] \in Nat /\ sent[p] = n - 1
  BY <1>1, Here DEF IInv, Turns
<1>3. v[p].c \in [Batch -> Word] /\ (Packed => Cut(v[p].c) = Publishing(p, pc[p]))
  BY <1>1 DEF IInv, Locals, LocalsAt
<1>4. ASSUME NEW q \in others
      PROVE  /\ Fetches(p, q) /\ Head(chan[q][p]) \in Value
             /\ Packed => Head(chan[q][p]) = Publishing(q, pc[p])
  <2>1. ~HasRead(p, q, pc[p])
    BY <1>1, <1>2 DEF HasRead
  <2>2. TypeOK /\ Queues /\ q \in Party /\ q # p
    BY DEF IInv
  <2>3. /\ Fetches(p, q) /\ Head(chan[q][p]) \in Value
        /\ Exact(pc[p]) => Head(chan[q][p]) = Sent(q, p, pc[p])
    BY <1>1, <2>1, <2>2, NextBatch DEF Fetches
  <2> QED BY <1>1, <2>3 DEF Exact, Sent
<1>5. ASSUME NEW i \in Batch PROVE SumOver(others, g(i)) \in Int
  <2> DEFINE h == g(i)
  <2>1. \A q \in others : h[q] \in Int
    BY <1>4 DEF Value
  <2>2. IsFiniteSet(others)
    BY <1>2, KeysFinite
  <2> HIDE DEF h, others
  <2>3. SumOver(others, h) \in Int
    BY <2>1, <2>2, SumRule
  <2> QED BY <2>3 DEF h
<1>6. w \in Value
  <2> HIDE DEF g, others
  <2>1. \A i \in Batch : v[p].c[i] + SumOver(others, g(i)) \in Int
    BY <1>2, <1>3, <1>5, Masks
  <2>2. \A i \in Batch : Mask(v[p].c[i] + SumOver(others, g(i))) \in 0 .. 2^K - 1
    BY <1>2, <2>1, Masks
  <2> QED BY <2>2 DEF Value
<1> HIDE DEF w
<1>7. /\ \A batch : Moves(p, {}, others, batch)
      /\ chan' \in [Party -> [Party -> Seq(Value)]]
  <2>1. chan \in [Party -> [Party -> Seq(Value)]]
    BY DEF IInv, TypeOK, Value
  <2>2. \A q \in others : Tail(chan[q][p]) \in Seq(Value)
    BY <1>1, <2>1
  <2> QED BY <1>1, <2>1, <2>2 DEF Moves
<1>8. Op(pc[p]) # "mult"
  BY <1>1
<1>9. ASSUME Packed PROVE w = Shown(p, pc[p])
  <2> DEFINE u(i) == [q \in others |-> Publishing(q, pc[p])[i]]
             c == v[p].c
  <2>1. \A i \in Batch : g(i) = u(i)
    BY <1>4, <1>9
  <2>2. Shown(p, pc[p]) = [i \in Batch |-> Mask(Publishing(p, pc[p])[i] + SumOver(others, u(i)))]
    BY <1>1 DEF Shown
  <2>3. ASSUME NEW i \in Batch
        PROVE  Mask(c[i] + SumOver(others, g(i))) = Mask(Publishing(p, pc[p])[i] + SumOver(others, g(i)))
    <3> DEFINE a == c[i]
               b == Publishing(p, pc[p])[i]
               S == SumOver(others, g(i))
    <3>1. a \in Int /\ S \in Int
      BY <1>2, <1>3, <1>5, Masks
    <3>2. b = Mask(a)
      <4>1. Publishing(p, pc[p]) = Cut(c)
        BY <1>3, <1>9
      <4> QED BY <4>1 DEF Cut
    <3> HIDE DEF a, b, S
    <3>3. b \in Int /\ Mask(a) = Mask(b)
      BY <3>1, <3>2, Ring
    <3>4. Mask(a + S) = Mask(b + S)
      <4>1. Mask(S + a) = Mask(S + b)
        BY ONLY <3>1, <3>3, SameTerm, ZenonT(30)
      <4>2. S + a = a + S /\ S + b = b + S
        BY <3>1, <3>3
      <4> QED BY <4>1, <4>2
    <3> QED BY <3>4 DEF a, b, S
  <2>4. w = [i \in Batch |-> Mask(c[i] + SumOver(others, g(i)))]
    BY DEF w
  <2> HIDE DEF g, u, w, others
  <2> QED BY <2>1, <2>2, <2>3, <2>4
<1>10. Exact(pc[p]) => w = Shown(p, pc[p])
  BY <1>1, <1>9 DEF Exact
<1> QED BY <1>1, <1>2, <1>4, <1>6, <1>7, <1>8, <1>10 DEF LastStep

\* Every step is of one of the three kinds.
LEMMA StepKinds ==
    ASSUME IInv, NEW p \in Party, Step(p)
    PROVE  StartStep(p) \/ RelayStep(p) \/ LastStep(p)
BY MultStarts, OpenStarts, PubStarts, Relays, MultEnds, OpenEnds, PubEnds DEF Step


-----------------------------------------------------------------------------
(***************************************************************************)
(* What the steps do to the sockets.                                       *)
(***************************************************************************)
\* What a party sends depends on its shares of the operands only.
LEMMA SameMessage ==
    ASSUME run' = run, NEW p, NEW k,
           shares'[p][run.program[k].x] = shares[p][run.program[k].x],
           shares'[p][run.program[k].y] = shares[p][run.program[k].y]
    PROVE  /\ Message(p, k)' = Message(p, k)
           /\ \A q : Sent(p, q, k)' = Sent(p, q, k)
<1>1. \A a, b : Masked(a, b, p, k)' = Masked(a, b, p, k)
  BY Frame
<1>2. Message(p, k)' = Message(p, k)
  BY <1>1 DEF Message
<1>3. /\ n' = n /\ Keys' = Keys /\ Batch' = Batch /\ Op(k)' = Op(k)
      /\ Peers("open")' = Peers("open") /\ \A q : Turn(p, q)' = Turn(p, q)
  BY Frame
<1>4. ASSUME NEW m PROVE Opening(p, m, k)' = Opening(p, m, k)
  BY <1>3 DEF Opening, Mask
<1>5. Publishing(p, k)' = Publishing(p, k)
  <2>1. /\ \A j : Ops(p, j)' = Ops(p, j)
        /\ \A j, i : Filled(p, j, k, i)' = Filled(p, j, k, i)
    BY Frame
  <2>2. \A j, i : (Ops(p, j) * Filled(p, j, k, i))' = Ops(p, j) * Filled(p, j, k, i)
    BY <2>1
  <2>3. \A i : [j \in Keys |-> Ops(p, j) * Filled(p, j, k, i)]'
               = [j \in Keys |-> Ops(p, j) * Filled(p, j, k, i)]
    BY <1>3, <2>2
  <2>4. \A a, b, i : Local(a, b, i)' = Local(a, b, i)
    BY <1>3 DEF Local
  <2> QED BY <1>3, <2>3, <2>4 DEF Publishing, Mask
<1>6. ASSUME NEW q PROVE Sent(p, q, k)' = Sent(p, q, k)
  BY <1>2, <1>3, <1>4, <1>5 DEF Sent
<1> QED BY <1>2, <1>6

\* The registers a party has stay as they are.
LEMMA LastShares ==
    ASSUME IInv, NEW p \in Party, LastStep(p)
    PROVE  /\ \A q \in Party, r \in Registers : Has(q, r) => shares'[q][r] = shares[q][r]
           /\ Stable
<1> DEFINE dst == run.program[pc[p]].dst
<1>1. run' = run /\ run \in Cases /\ pc[p] \in Steps /\ pc[p] \in Nat /\ TypeOK /\ Known
  BY Here DEF LastStep, IInv
<1>2. dst \notin Inputs /\ \A l \in Steps : run.program[l].dst = dst => l = pc[p]
  BY <1>1, Program
<1>3. ~Has(p, dst)
  <2>1. \A l \in 1 .. pc[p] - 1 : l \in Steps /\ l # pc[p]
    BY <1>1 DEF Steps
  <2> QED BY <1>2, <2>1 DEF Has
<1>4. shares \in [Party -> [Registers -> {Unknown} \union Share]]
  BY <1>1 DEF TypeOK, Share
<1> HIDE DEF dst
<1>5. shares' = shares \/ shares' = [shares EXCEPT ![p][dst] = Product(p, pc[p])]
  BY DEF LastStep, dst
<1>6. \A q \in Party, r \in Registers : Has(q, r) => shares'[q][r] = shares[q][r]
  <2> TAKE q \in Party, r \in Registers
  <2>1. q = p /\ Has(q, r) => r # dst
    BY <1>3
  <2> QED BY <1>4, <1>5, <2>1
<1>7. ASSUME NEW q \in Party, NEW k \in Steps, k <= pc[q]
      PROVE  /\ Message(q, k)' = Message(q, k)
             /\ \A a : Sent(q, a, k)' = Sent(q, a, k)
  <2>1. /\ Has(q, run.program[k].x) /\ Has(q, run.program[k].y)
        /\ run.program[k].x \in Registers /\ run.program[k].y \in Registers
    BY <1>1, <1>7, Operands
  <2> QED BY <1>1, <1>6, <2>1, SameMessage
<1> QED BY <1>6, <1>7 DEF Stable

\* An instruction a party is not in, or has not moved in.
LEMMA SameSent ==
    ASSUME run' = run, NEW a, NEW q, NEW k,
           pc'[a] = pc[a] /\ (sent'[a] = sent[a] \/ k # pc[a])
    PROVE  (HasSent(a, q, k)' <=> HasSent(a, q, k)) /\ (HasRead(a, q, k)' <=> HasRead(a, q, k))
<1>1. n' = n /\ t' = t /\ Op(k)' = Op(k) /\ \A op : Peers(op)' = Peers(op)
  BY Frame
<1> QED BY <1>1 DEF HasSent, HasRead

\* The sockets after a first step.
LEMMA StartSockets ==
    ASSUME IInv, NEW p \in Party, StartStep(p)
    PROVE  Stable /\ (\E Out : Sends(p, Out)) /\ Queues' /\ Causal'
<1>0. PICK k : k = pc[p]
  OBVIOUS
<1> DEFINE Out == IF Public(p) THEN Party \ {p} ELSE {Off(p, Peers(Op(k)).to[1], n)}
<1>1. /\ Running(p) /\ sent[p] = 0 /\ run' = run /\ pc' = pc /\ shares' = shares
      /\ sent' = [sent EXCEPT ![p] = IF Public(p) THEN n - 1 ELSE 1]
      /\ k \in Steps /\ k \in Nat /\ Op(k) \in Pairwise \union {"multpub"} /\ Sizes
      /\ 1 \in 1..t /\ n \in Nat /\ n - 1 > 0
  BY <1>0, Here, Program DEF StartStep, Sizes
<1>2. PICK batch \in Value :
         (Exact(k) => \A q \in Out : batch = Sent(p, q, k)) /\ Moves(p, Out, {}, batch)
  BY <1>0 DEF StartStep, Firsts
<1>3. Stable
  BY <1>1, SameMessage DEF Stable
<1>4. sent'[p] = (IF Public(p) THEN n - 1 ELSE 1) /\ \A q \in Party \ {p} : sent'[q] = sent[q]
  <2>1. sent \in [Party -> 0..6]
    BY DEF IInv, TypeOK
  <2> QED BY <1>1, <2>1
<1>5. /\ n' = n /\ t' = t /\ \A l : Op(l)' = Op(l)
      /\ \A op : Peers(op)' = Peers(op)
  BY <1>1, Frame
<1>6. Out \subseteq Party \ {p}
  BY <1>0, <1>1, PeersMeet DEF Public
<1>7. ASSUME NEW q \in Party
      PROVE  ~HasSent(p, q, k) /\ (HasSent(p, q, k)' <=> q \in Out)
             /\ ~HasRead(p, q, k) /\ ~HasRead(p, q, k)'
  <2>1. CASE Public(p)
    <3>1. Op(k) = "multpub" /\ sent'[p] > 0
      BY <1>0, <1>1, <1>4, <2>1 DEF Public
    <3> QED BY <1>0, <1>1, <1>5, <2>1, <3>1 DEF HasSent, HasRead
  <2>2. CASE ~Public(p)
    <3>1. Op(k) # "multpub" /\ sent'[p] = 1
      BY <1>0, <1>1, <1>4, <2>2 DEF Public
    <3>2. \A m \in 1..t : ~(0 >= m) /\ (1 >= m <=> m = 1) /\ ~(1 > m) /\ ~(0 > m) /\ ~(k < k)
      BY <1>1
    <3>3. ~HasSent(p, q, k) /\ ~HasRead(p, q, k)
      BY <1>0, <1>1, <3>1, <3>2 DEF HasSent, HasRead
    <3>4. ~HasRead(p, q, k)'
      BY <1>0, <1>1, <1>5, <3>1, <3>2 DEF HasRead
    <3>5. HasSent(p, q, k)' <=> q = Off(p, Peers(Op(k)).to[1], n)
      BY <1>0, <1>1, <1>5, <3>1, <3>2 DEF HasSent
    <3> QED BY <2>2, <3>3, <3>4, <3>5
  <2> QED BY <2>1, <2>2
<1>8. \A a \in Party, q \in Party, l \in Steps : (a # p \/ l # k) =>
          (HasSent(a, q, l)' <=> HasSent(a, q, l)) /\ (HasRead(a, q, l)' <=> HasRead(a, q, l))
  BY <1>0, <1>1, <1>4, SameSent
<1> HIDE DEF Out
<1>9. Sends(p, Out)
  BY <1>0, <1>6, <1>7, <1>8 DEF Sends
<1>10. Takes(p, {})
  BY <1>0, <1>7, <1>8 DEF Takes
<1> QED BY <1>0, <1>1, <1>2, <1>3, <1>9, <1>10, QueuesStep

\* The sockets after a turn of the exchange.
LEMMA RelaySockets ==
    ASSUME IInv, NEW p \in Party, RelayStep(p)
    PROVE  Stable /\ (\E Out : Sends(p, Out)) /\ Queues' /\ Causal'
<1>0. PICK k, m : k = pc[p] /\ m = sent[p]
  OBVIOUS
<1> DEFINE op == Op(k)
           next == Off(p, Peers(op).to[m + 1], n)
<1>1. /\ Running(p) /\ run' = run /\ pc' = pc /\ shares' = shares
      /\ sent' = [sent EXCEPT ![p] = @ + 1] /\ m \in 1 .. t-1
      /\ k \in Steps /\ k \in Nat /\ op \in Pairwise /\ op # "multpub" /\ Sizes /\ m \in Nat
      /\ m \in 1..t /\ m + 1 \in 1..t
  <2>1. t \in Nat
    BY <1>0, Here, Program DEF RelayStep
  <2> QED BY <1>0, <2>1, Here, Program, SMTT(30) DEF RelayStep, Pairwise
<1>2. PICK batch \in Value :
         batch = Sent(p, next, k) /\ Moves(p, {next}, {Source(p)}, batch)
  BY <1>0 DEF RelayStep
<1>3. Stable
  BY <1>1, SameMessage DEF Stable
<1>4. sent'[p] = m + 1 /\ \A q \in Party \ {p} : sent'[q] = sent[q]
  <2>1. sent \in [Party -> 0..6]
    BY DEF IInv, TypeOK
  <2> QED BY <1>0, <1>1, <2>1
<1>5. /\ n' = n /\ t' = t /\ \A l : Op(l)' = Op(l)
      /\ \A o : Peers(o)' = Peers(o)
  BY <1>1, Frame
<1>6. Fetches(p, Source(p)) /\ Source(p) = Off(p, Peers(op).from[m], n)
  BY <1>0, <1>1, Here DEF RelayStep, Source
<1>7. next \in Party \ {p} /\ \A l \in 1..t : next = Off(p, Peers(op).to[l], n) => l = m + 1
  <2>1. next \in Party \ {p}
    BY <1>1, PeersMeet
  <2>2. ASSUME NEW l \in 1..t, next = Off(p, Peers(op).to[l], n) PROVE l = m + 1
    <3> DEFINE e == m + 1
    <3>1. Off(p, Peers(op).to[e], n) = Off(p, Peers(op).to[l], n)
      BY <2>2
    <3>2. Sizes /\ op \in Pairwise /\ e \in 1..t
      BY <1>1
    <3> HIDE DEF next, op, e
    <3>3. l = e
      BY ONLY <3>1, <3>2, l \in 1..t, p \in Party, TurnOnce
    <3> QED BY <3>3 DEF e
  <2> QED BY <2>1, <2>2
<1> HIDE DEF next, op
<1>8. /\ \A l \in 1..t : (l <= m + 1 <=> l <= m \/ l = m + 1) /\ (m + 1 > l <=> m > l \/ l = m)
      /\ \A l \in 1..t : (m >= l <=> l <= m) /\ (m + 1 >= l <=> l <= m + 1)
      /\ ~(k < k) /\ ~(m + 1 <= m)
  BY <1>1
<1>9. ASSUME NEW q \in Party
      PROVE  /\ HasSent(p, q, k)' <=> HasSent(p, q, k) \/ q = next
             /\ HasRead(p, q, k)' <=> HasRead(p, q, k) \/ q = Source(p)
  <2>1. HasSent(p, q, k) <=> \E l \in 1..t : q = Off(p, Peers(op).to[l], n) /\ l <= m
    BY <1>0, <1>1, <1>8 DEF HasSent, op
  <2>2. HasRead(p, q, k) <=> \E l \in 1..t : q = Off(p, Peers(op).from[l], n) /\ m > l
    BY <1>0, <1>1, <1>8 DEF HasRead, op
  <2>3. HasSent(p, q, k)' <=> \E l \in 1..t : q = Off(p, Peers(op).to[l], n) /\ l <= m + 1
    BY <1>0, <1>1, <1>4, <1>5, <1>8 DEF HasSent, op
  <2>4. HasRead(p, q, k)' <=> \E l \in 1..t : q = Off(p, Peers(op).from[l], n) /\ m + 1 > l
    BY <1>0, <1>1, <1>4, <1>5, <1>8 DEF HasRead, op
  <2>5. HasSent(p, q, k)' <=> HasSent(p, q, k) \/ q = next
    BY <1>0, <1>1, <1>8, <2>1, <2>3 DEF next
  <2>6. HasRead(p, q, k)' <=> HasRead(p, q, k) \/ q = Source(p)
    BY <1>0, <1>1, <1>6, <1>8, <2>2, <2>4
  <2> QED BY <2>5, <2>6
<1>10. ~HasSent(p, next, k)
  <2>1. HasSent(p, next, k) => \E l \in 1..t : next = Off(p, Peers(op).to[l], n) /\ l <= m
    BY <1>0, <1>1, <1>8 DEF HasSent, op
  <2> QED BY <1>7, <1>8, <2>1
<1>11. \A a \in Party, q \in Party, l \in Steps : (a # p \/ l # k) =>
          (HasSent(a, q, l)' <=> HasSent(a, q, l)) /\ (HasRead(a, q, l)' <=> HasRead(a, q, l))
  BY <1>0, <1>1, <1>4, SameSent
<1>12. Sends(p, {next})
  BY <1>0, <1>7, <1>9, <1>10, <1>11 DEF Sends
<1>13. Takes(p, {Source(p)})
  BY <1>0, <1>6, <1>9, <1>11 DEF Takes, Fetches
<1> QED BY <1>0, <1>1, <1>2, <1>3, <1>12, <1>13, QueuesStep DEF op

\* The sockets after the last step of an instruction.
LEMMA LastSockets ==
    ASSUME IInv, NEW p \in Party, LastStep(p)
    PROVE  Stable /\ (\E Out : Sends(p, Out)) /\ Queues' /\ Causal'
<1>0. PICK k : k = pc[p]
  OBVIOUS
<1> DEFINE op == Op(k)
           In == IF Public(p) THEN Party \ {p} ELSE {Source(p)}
           last == IF Public(p) THEN n - 1 ELSE t
<1>1. /\ Running(p) /\ run' = run /\ run \in Cases /\ sent[p] = last
      /\ pc' = [pc EXCEPT ![p] = @ + 1]
      /\ sent' = [sent EXCEPT ![p] = 0]
      /\ \A q \in In : Fetches(p, q)
      /\ \A batch : Moves(p, {}, In, batch)
      /\ k \in Steps /\ k \in Nat /\ op \in Pairwise \union {"multpub"} /\ Sizes
      /\ n \in Nat /\ t \in Nat /\ n - 1 > 0 /\ t > 0 /\ Stable
  <2>1. /\ Running(p) /\ run' = run /\ sent[p] = last
        /\ pc' = [pc EXCEPT ![p] = @ + 1]
        /\ sent' = [sent EXCEPT ![p] = 0]
        /\ \A q \in In : Fetches(p, q)
        /\ \A batch : Moves(p, {}, In, batch)
    BY DEF LastStep
  <2>2. run \in Cases /\ k \in Steps /\ k \in Nat /\ op \in Pairwise \union {"multpub"}
    BY <1>0, <2>1, Here
  <2>3. Sizes /\ n \in Nat /\ t \in Nat /\ n - 1 > 0 /\ t > 0
    <3>1. Sizes /\ n \in Nat /\ t \in Nat /\ 1 <= t /\ t < n
      BY <2>2, Program
    <3> QED BY <3>1
  <2> QED BY <2>1, <2>2, <2>3, LastShares
<1>2. /\ sent'[p] = 0 /\ pc'[p] = k + 1
      /\ \A q \in Party \ {p} : sent'[q] = sent[q] /\ pc'[q] = pc[q]
      /\ \A q \in Party : pc[q] \in Nat
  <2>1. sent \in [Party -> 0..6] /\ pc \in [Party -> 1 .. Len(run.program) + 1]
    BY DEF IInv, TypeOK
  <2> QED BY <1>0, <1>1, <2>1, Entries DEF IInv
<1>3. /\ n' = n /\ t' = t /\ \A l : Op(l)' = Op(l)
      /\ \A o : Peers(o)' = Peers(o)
  BY <1>0, <1>1, Frame
<1>4. ~Public(p) => op \in Pairwise /\ op # "multpub" /\ Source(p) = Off(p, Peers(op).from[t], n)
  BY <1>0, <1>1, Here DEF Public, Pairwise, Source
<1>5. In \subseteq Party \ {p}
  BY <1>0, <1>1 DEF Fetches
<1>6. ASSUME NEW q \in Party, NEW l \in Steps, l # k
      PROVE  (HasSent(p, q, l)' <=> HasSent(p, q, l)) /\ (HasRead(p, q, l)' <=> HasRead(p, q, l))
  <2>1. l \in Nat /\ (l < k + 1 <=> l < k) /\ \A m \in 1..t : ~(0 >= m) /\ ~(0 > m)
    BY <1>0, <1>1, <1>6 DEF Steps
  <2>2. HasSent(p, q, l)' <=> HasSent(p, q, l)
    BY <1>0, <1>2, <1>3, <1>6, <2>1 DEF HasSent
  <2>3. HasRead(p, q, l)' <=> HasRead(p, q, l)
    BY <1>0, <1>2, <1>3, <1>6, <2>1 DEF HasRead
  <2> QED BY <2>2, <2>3
<1>7. ASSUME NEW q \in Party
      PROVE  /\ HasSent(p, q, k)' <=> HasSent(p, q, k)
             /\ q # p => (HasRead(p, q, k)' <=> HasRead(p, q, k) \/ q \in In)
  <2>1. k < k + 1 /\ ~(k < k) /\ \A m \in 1..t : t >= m /\ (t > m <=> m # t) /\ t \in 1..t
    BY <1>0, <1>1
  <2>2. CASE Public(p)
    <3>1. Op(k) = "multpub" /\ sent[p] > 0
      BY <1>0, <1>1, <2>2 DEF Public
    <3> QED BY <1>0, <1>2, <1>3, <2>1, <2>2, <3>1 DEF HasSent, HasRead
  <2>3. CASE ~Public(p)
    <3>1. op # "multpub" /\ sent[p] = t
      BY <1>0, <1>1, <1>4, <2>3
    <3>2. HasSent(p, q, k)' <=> HasSent(p, q, k)
      BY <1>0, <1>2, <1>3, <2>1, <3>1 DEF HasSent
    <3>3. HasRead(p, q, k)' <=> \E m \in 1..t : q = Off(p, Peers(op).from[m], n)
      BY <1>0, <1>2, <1>3, <2>1, <3>1 DEF HasRead
    <3>4. HasRead(p, q, k) <=> \E m \in 1..t : q = Off(p, Peers(op).from[m], n) /\ m # t
      BY <1>0, <2>1, <3>1 DEF HasRead
    <3>5. t \in 1..t /\ (q \in In <=> q = Off(p, Peers(op).from[t], n))
      BY <1>0, <1>1, <1>4, <2>3
    <3> QED BY <3>2, <3>3, <3>4, <3>5
  <2> QED BY <2>2, <2>3
<1>8. \A a \in Party \ {p}, q \in Party, l \in Steps :
          (HasSent(a, q, l)' <=> HasSent(a, q, l)) /\ (HasRead(a, q, l)' <=> HasRead(a, q, l))
  BY <1>0, <1>1, <1>2, SameSent
<1> HIDE DEF In
<1>9. Sends(p, {})
  BY <1>0, <1>6, <1>7, <1>8 DEF Sends
<1>10. Takes(p, In)
  BY <1>0, <1>1, <1>5, <1>6, <1>7, <1>8 DEF Takes, Fetches
<1>11. PICK batch : batch = Message(p, k)
  OBVIOUS
<1>12. Moves(p, {}, In, batch)
  BY <1>0, <1>1 DEF In
<1> QED BY <1>0, <1>1, <1>9, <1>10, <1>11, <1>12, QueuesStep


-----------------------------------------------------------------------------
(***************************************************************************)
(* What the steps do to the rest of the state.                             *)
(***************************************************************************)
\* An owner other than the holder itself is a party whose batch is read.
LEMMA OwnerFrom ==
    ASSUME Sizes, NEW p \in Party, NEW j \in Keys
    PROVE  \/ Owner(p, j) = 0
           \/ Owner(p, j) = p
           \/ \E m \in 1..t : Owner(p, j) = Off(p, Peers("mult").from[m], n)
<1>1. Into(j) # {} => (CHOOSE m \in Into(j) : TRUE) \in 1..t
  BY DEF Into
<1> QED BY <1>1 DEF Owner

\* Messages that were read, and the products made of them, do not change: who
\* sent one has come to its instruction.
LEMMA Kept ==
    ASSUME IInv, run' = run, NEW p \in Party, Stable, NEW Out, Sends(p, Out), Causal',
           NEW q \in Party, NEW k \in Steps, k <= pc[q]
    PROVE  /\ Message(q, k)' = Message(q, k)
           /\ \A a \in Party \ {q} : HasRead(q, a, k)' =>
                 Message(a, k)' = Message(a, k) /\ Sent(a, q, k)' = Sent(a, q, k)
           /\ Op(k) = "mult" /\ k < pc'[q] => Product(q, k)' = Product(q, k)
<1>1. Sizes /\ Party' = Party /\ Steps' = Steps /\ \A a \in Party : pc[a] \in Nat
  BY Frame, Program, Entries DEF IInv, TypeOK
<1>2. Message(q, k)' = Message(q, k)
  BY DEF Stable
<1>3. ASSUME NEW a \in Party \ {q}, HasRead(q, a, k)'
      PROVE  Message(a, k)' = Message(a, k) /\ Sent(a, q, k)' = Sent(a, q, k)
  <2>1. HasSent(a, q, k)'
    BY <1>1, <1>3 DEF Causal
  <2>2. HasSent(a, q, k) \/ (a = p /\ k = pc[p])
    BY <2>1 DEF Sends
  <2>3. k \in Nat
    BY DEF Steps
  <2>4. k <= pc[a]
    BY <1>1, <2>2, <2>3 DEF HasSent
  <2> QED BY <2>4 DEF Stable
<1>4. ASSUME Op(k) = "mult", k < pc'[q] PROVE Product(q, k)' = Product(q, k)
  <2>1. ASSUME NEW j \in Keys, Owner(q, j) # 0
        PROVE  Message(Owner(q, j), k)' = Message(Owner(q, j), k)
    <3> DEFINE o == Owner(q, j)
    <3>1. CASE o = q
      <4>1. o' = o
        BY Frame
      <4> QED BY <1>2, <3>1, <4>1
    <3>2. ASSUME NEW m \in 1..t, o = Off(q, Peers("mult").from[m], n)
          PROVE  Message(o, k)' = Message(o, k)
      <4>1. o \in Party \ {q}
        BY <1>1, <3>2, PeersMeet DEF Pairwise
      <4>2. o' = o
        BY Frame
      <4>3. PICK a : a = o
        OBVIOUS
      <4> HIDE DEF o
      <4>4. HasRead(q, a, k)'
        <5>1. n' = n /\ t' = t /\ Op(k)' = Op(k) /\ Peers("mult")' = Peers("mult")
          BY Frame
        <5> QED BY <1>4, <3>2, <4>3, <5>1 DEF HasRead
      <4>5. Message(a, k)' = Message(a, k)
        BY <1>3, <4>1, <4>3, <4>4
      <4> QED BY <4>2, <4>3, <4>5
    <3> QED BY <1>1, <2>1, <3>1, <3>2, OwnerFrom
  <2>2. /\ Keys' = Keys /\ Batch' = Batch
        /\ \A j : Missing(q, j)' = Missing(q, j) /\ Owner(q, j)' = Owner(q, j)
        /\ \A j, i : Z(q, j, k, i)' = Z(q, j, k, i)
        /\ \A T : Uses(T)' = Uses(T)
    BY Frame
  <2>3. \A j \in Keys : Owner(q, j) # 0 =>
           Message(Owner(q, j), k)' = Message(Owner(q, j), k)
    BY <2>1
  <2>4. \A j \in Keys : Uses(Missing(q, j))' = Uses(Missing(q, j))
    BY <2>2
  <2> QED BY <2>2, <2>3, <2>4 DEF Product, Wrap
<1> QED BY <1>2, <1>3, <1>4

\* TypeOK after a step, variable by variable.
LEMMA TypeStep ==
    ASSUME TypeOK, run' = run,
           pc' \in [Party -> 1 .. Len(run.program) + 1],
           sent' \in [Party -> 0..6],
           shares' \in [Party -> [Registers -> {Unknown} \union Share]],
           opened' \in [Everyone -> [Registers -> {Unknown} \union Value]],
           v' \in [Party -> [c : Locally, out : Seq([Batch -> Word]), got : Seq(Value)]],
           drawn' \in [Party -> [Keys -> Nat]],
           chan' \in [Party -> [Party -> Seq(Value)]]
    PROVE  TypeOK' /\ Registers' = Registers
<1>1. Party' = Party /\ Keys' = Keys /\ Batch' = Batch
  BY Frame
<1>2. Registers' = Registers
  <2>1. 1 \in Party
    BY Program DEF TypeOK, Sizes, Party
  <2> QED BY <2>1 DEF Registers
<1>3. run' \in Cases /\ run'.program = run.program
  BY DEF TypeOK
<1> QED BY <1>1, <1>2, <1>3 DEF TypeOK, Share, Value, Locally

\* A party in an instruction it goes on with.
LEMMA LocalsStep ==
    ASSUME IInv, run' = run, NEW p \in Party, Stable, NEW Out, Sends(p, Out), Causal',
           NEW q \in Party, NEW k, k = pc[q], pc'[q] = pc[q], sent[q] > 0,
           v'[q].c = v[q].c, v'[q].out = v[q].out,
           k \in Steps, Op(k) \in Pairwise \union {"multpub"},
           Op(k) \in Pairwise => sent'[q] \in 1..t /\ Len(v'[q].got) = sent'[q] - 1,
           Op(k) \in Pairwise => \A m \in 1 .. sent'[q] - 1 :
              v'[q].got[m] = Sent(Off(q, Peers(Op(k)).from[m], n), q, k)
    PROVE  LocalsAt(q, k)'
<1>1. /\ n' = n /\ t' = t /\ Batch' = Batch /\ Keys' = Keys /\ Op(k)' = Op(k)
      /\ \A op : Peers(op)' = Peers(op)
      /\ Packed' = Packed
  BY Frame
<1>2. Sizes /\ t \in Nat
  BY Program DEF IInv, TypeOK
<1>3. LocalsAt(q, k)
  BY DEF IInv, Locals
<1>7. k <= pc[q] /\ q \in Party
  BY Entries DEF IInv
<1>8. /\ Message(q, k)' = Message(q, k)
      /\ \A a \in Party : Sent(q, a, k)' = Sent(q, a, k)
  BY <1>7 DEF Stable
<1>9. ASSUME Op(k) \in Pairwise, NEW m \in 1 .. sent'[q] - 1
      PROVE  v'[q].got[m] = Sent(Off(q, Peers(Op(k)).from[m], n), q, k)'
  <2>1. sent'[q] > m /\ m \in 1..t /\ Op(k) # "multpub"
    BY <1>2, <1>9 DEF Pairwise
  <2>2. PICK a : a = Off(q, Peers(Op(k)).from[m], n)
    OBVIOUS
  <2>3. a \in Party \ {q}
    BY <1>2, <1>9, <2>1, <2>2, PeersMeet
  <2>4. HasRead(q, a, k)'
    BY <1>1, <1>9, <2>1, <2>2 DEF HasRead
  <2>5. Sent(a, q, k)' = Sent(a, q, k)
    BY <1>7, <2>3, <2>4, Kept
  <2>6. Off(q, Peers(Op(k)).from[m], n)' = a
    BY <1>1, <2>2
  <2> QED BY <1>9, <2>2, <2>5, <2>6
<1>4. CASE Op(k) = "mult"
  <2>1. Message(q, k)' = Message(q, k)
    BY <1>8
  <2>2. \A j \in Keys, i \in Batch :
           v'[q].c[j][i] = Wrap(Uses(Missing(q, j)) * Z(q, j, k, i))'
    <3>1. /\ \A j : Missing(q, j)' = Missing(q, j)
          /\ \A j, i : Z(q, j, k, i)' = Z(q, j, k, i)
          /\ \A T : Uses(T)' = Uses(T)
      BY Frame
    <3> QED BY <1>3, <1>4, <3>1 DEF LocalsAt, Wrap
  <2>3. \A m \in 1..t : v'[q].out[m] = Message(q, k)'
    BY <1>3, <1>4, <2>1 DEF LocalsAt
  <2>4. \A m \in 1 .. sent'[q] - 1 :
           v'[q].got[m] = Sent(Off(q, Peers(Op(k)).from[m], n), q, k)'
    BY <1>4, <1>9 DEF Pairwise
  <2>5. v'[q].out \in [1..t -> [Batch -> Word]]
    BY <1>3, <1>4 DEF LocalsAt
  <2> QED BY <1>1, <1>4, <2>2, <2>3, <2>4, <2>5 DEF LocalsAt, Pairwise
<1>5. CASE Op(k) = "open"
  <2>1. \A m \in 1 .. sent'[q] - 1 :
           v'[q].got[m] = Sent(Off(q, Peers(Op(k)).from[m], n), q, k)'
    BY <1>5, <1>9 DEF Pairwise
  <2>2. \A m \in 1..t : Cut(v[q].out[m])' = Opening(q, m, k)'
    <3> TAKE m \in 1..t
    <3> DEFINE a == Off(q, Peers("open").to[m], n)
    <3>1. a \in Party
      <4>1. \A op \in Pairwise : Off(q, Peers(op).to[m], n) \in Party
        BY <1>2, PeersMeet
      <4> QED BY <4>1 DEF Pairwise
    <3>2. Turn(q, a) = m
      BY <1>2, TurnIs
    <3>3. Turn(q, a)' = m
      <4>1. \A p1, q1 : Turn(p1, q1)' = Turn(p1, q1)
        BY Frame
      <4>2. a' = a
        BY <1>1
      <4> QED BY <3>2, <4>1, <4>2
    <3>4. PICK b : b = a
      OBVIOUS
    <3>5. Turn(q, b) = m /\ Turn(q, b)' = m /\ b \in Party
      <4>1. a' = a
        BY <1>1
      <4> HIDE DEF a
      <4> QED BY <3>1, <3>2, <3>3, <3>4, <4>1
    <3>6. Sent(q, b, k) = Opening(q, m, k) /\ Sent(q, b, k)' = Opening(q, m, k)'
      BY <1>1, <1>5, <3>5 DEF Sent
    <3>7. Cut(v[q].out[m]) = Opening(q, m, k)
      BY <1>3, <1>5 DEF LocalsAt
    <3>8. Cut(v[q].out[m])' = Cut(v[q].out[m])
      BY <1>1 DEF Cut, Mask
    <3> QED BY <1>8, <3>5, <3>6, <3>7, <3>8
  <2> QED BY <1>1, <1>3, <1>5, <2>1, <2>2 DEF LocalsAt, Pairwise
<1>6. CASE Op(k) = "multpub"
  <2>1. Publishing(q, k)' = Publishing(q, k)
    BY <1>1, <1>6, <1>7, <1>8 DEF Sent
  <2>2. Cut(v[q].c)' = Cut(v[q].c)
    BY <1>1 DEF Cut, Mask
  <2> QED BY <1>1, <1>3, <1>6, <2>1, <2>2 DEF LocalsAt
<1> QED BY <1>4, <1>5, <1>6 DEF Pairwise

\* A step that leaves the shares and the instructions as they are.
LEMMA SameShares ==
    ASSUME IInv, run' = run, pc' = pc, shares' = shares,
           NEW p \in Party, Stable, NEW Out, Sends(p, Out), Causal', Registers' = Registers
    PROVE  Known' /\ InputsShared' /\ Products'
<1>1. Party' = Party /\ Keys' = Keys /\ Batch' = Batch /\ \A k : Op(k)' = Op(k)
  BY Frame
<1>2. Known'
  <2>1. \A q, r : Has(q, r)' <=> Has(q, r)
    BY <1>1 DEF Has
  <2> QED BY <1>1, <2>1 DEF IInv, Known
<1>3. InputsShared'
  BY <1>1, Frame DEF IInv, InputsShared
<1>4. Products'
  <2> SUFFICES ASSUME NEW q \in Party, NEW k \in 1 .. pc[q] - 1, Op(k) = "mult"
               PROVE  shares[q][run.program[k].dst] = Product(q, k)'
    BY <1>1 DEF Products
  <2>1. k < pc'[q] /\ k \in Steps /\ k <= pc[q]
    BY Entries DEF IInv, Steps
  <2>2. Product(q, k)' = Product(q, k)
    BY <2>1, Kept
  <2> QED BY <2>2 DEF IInv, Products
<1> QED BY <1>2, <1>3, <1>4


\* TypeOK in the names used here.
LEMMA StateTypes ==
    ASSUME TypeOK
    PROVE  /\ pc \in [Party -> 1 .. Len(run.program) + 1]
           /\ sent \in [Party -> 0..6]
           /\ shares \in [Party -> [Registers -> {Unknown} \union Share]]
           /\ opened \in [Everyone -> [Registers -> {Unknown} \union Value]]
           /\ v \in [Party -> [c : Locally, out : Seq([Batch -> Word]), got : Seq(Value)]]
           /\ drawn \in [Party -> [Keys -> Nat]]
           /\ chan \in [Party -> [Party -> Seq(Value)]]
BY DEF TypeOK, Share, Value, Locally

\* A party that does not move.
LEMMA OtherLocals ==
    ASSUME IInv, run' = run, NEW p \in Party, Stable, NEW Out, Sends(p, Out), Causal',
           NEW q \in Party, v'[q] = v[q], sent'[q] = sent[q], pc'[q] = pc[q], sent[q] > 0
    PROVE  LocalsAt(q, pc[q])'
<1>0. PICK k : k = pc[q]
  OBVIOUS
<1>1. /\ Running(q) /\ k \in Steps /\ Op(k) \in Pairwise \union {"multpub"}
      /\ sent[q] \in Nat /\ t \in Nat
  <2>1. Running(q)
    BY DEF IInv, Turns
  <2>2. run \in Cases
    BY DEF IInv, TypeOK
  <2> QED BY <1>0, <2>1, <2>2, Here, Program
<1>2. LocalsAt(q, k)
  BY <1>0 DEF IInv, Locals
<1>3. Op(k) \in Pairwise => sent'[q] \in 1..t /\ Len(v'[q].got) = sent'[q] - 1
  BY <1>0, <1>1, <1>2 DEF LocalsAt, IInv, Turns, Pairwise
<1>4. Op(k) \in Pairwise => \A m \in 1 .. sent'[q] - 1 :
         v'[q].got[m] = Sent(Off(q, Peers(Op(k)).from[m], n), q, k)
  BY <1>2 DEF LocalsAt, Pairwise
<1>5. LocalsAt(q, k)'
  BY <1>0, <1>1, <1>3, <1>4, LocalsStep
<1> QED BY <1>0, <1>5

\* A first step keeps the invariant: it sends the Message.
LEMMA StartKeeps ==
    ASSUME IInv, NEW p \in Party, StartStep(p)
    PROVE  IInv'
<1>0. PICK k : k = pc[p]
  OBVIOUS
<1>1. /\ Running(p) /\ sent[p] = 0 /\ run' = run /\ pc' = pc /\ shares' = shares
      /\ opened' = opened
      /\ sent' = [sent EXCEPT ![p] = IF Public(p) THEN n - 1 ELSE 1]
      /\ drawn' \in [Party -> [Keys -> Nat]]
      /\ \A q \in Party, j \in Keys :
            drawn'[q][j] = IF q = p THEN Words(j, k + 1) ELSE drawn[q][j]
      /\ chan' \in [Party -> [Party -> Seq(Value)]]
  BY <1>0 DEF StartStep
<1>2. PICK c \in Locally, out \in Seq([Batch -> Word]) :
          /\ v' = [v EXCEPT ![p] = [c |-> c, out |-> out, got |-> <<>>]]
          /\ Op(k) \in Pairwise => out \in [1..t -> [Batch -> Word]]
          /\ Op(k) = "mult" =>
                /\ \A j \in Keys, i \in Batch :
                      c[j][i] = Wrap(Uses(Missing(p, j)) * Z(p, j, k, i))
                /\ \A m \in 1..t : out[m] = Message(p, k)
          /\ Op(k) = "open" => \A m \in 1..t : Cut(out[m]) = Opening(p, m, k)
          /\ Public(p) => c \in [Batch -> Word] /\ (Packed => Cut(c) = Publishing(p, k))
  BY <1>0 DEF StartStep
<1>3. /\ TypeOK /\ k \in Steps /\ k \in Nat /\ Op(k) \in Pairwise \union {"multpub"}
      /\ Sizes /\ t \in Nat /\ n \in Nat /\ 1 <= t /\ t < n /\ n <= 7
      /\ Public(p) <=> Op(k) = "multpub"
  <2>1. TypeOK /\ k \in Steps /\ k \in Nat /\ Op(k) \in Pairwise \union {"multpub"}
    BY <1>0, <1>1, Here DEF IInv
  <2> QED BY <1>0, <2>1, Program DEF Public, TypeOK
<1>4. Stable /\ (\E Out : Sends(p, Out)) /\ Queues' /\ Causal'
  BY StartSockets
<1>5. PICK Out : Sends(p, Out)
  BY <1>4
<1>6. /\ sent'[p] = (IF Public(p) THEN n - 1 ELSE 1) /\ sent'[p] > 0
      /\ sent' \in [Party -> 0..6]
      /\ \A q \in Party \ {p} : sent'[q] = sent[q]
  <2>1. (IF Public(p) THEN n - 1 ELSE 1) \in 1..6
    BY <1>3
  <2> QED BY <1>1, <1>3, <2>1, StateTypes
<1>7. /\ Party' = Party /\ Keys' = Keys /\ Batch' = Batch /\ n' = n /\ t' = t
      /\ \A l : Op(l)' = Op(l)
      /\ \A j, l : Words(j, l)' = Words(j, l)
  BY <1>1, Frame
<1>8. TypeOK' /\ Registers' = Registers
  <2>1. v' \in [Party -> [c : Locally, out : Seq([Batch -> Word]), got : Seq(Value)]]
    BY <1>2, <1>3, StateTypes
  <2> QED BY <1>1, <1>3, <1>6, <2>1, StateTypes, TypeStep
<1>9. Known' /\ InputsShared' /\ Products'
  BY <1>1, <1>4, <1>5, <1>8, SameShares
<1>10. Turns'
  <2> SUFFICES ASSUME NEW q \in Party, sent'[q] > 0
               PROVE  /\ Running(q)'
                      /\ IF Op(pc[q])' = "multpub" THEN sent'[q] = n - 1 ELSE sent'[q] <= t
    BY <1>7 DEF Turns
  <2>1. Op(pc[q])' = Op(pc[q])
    BY <1>1, <1>7
  <2>2. Running(q) <=> Running(q)'
    BY <1>1 DEF Running
  <2>3. CASE q = p
    BY <1>0, <1>1, <1>3, <1>6, <2>1, <2>2, <2>3
  <2>4. CASE q # p
    BY <1>6, <2>1, <2>2, <2>4 DEF IInv, Turns
  <2> QED BY <2>3, <2>4
<1>11. Counts'
  <2> SUFFICES ASSUME NEW q \in Party, NEW j \in Keys
               PROVE  drawn'[q][j] = Words(j, IF sent[q] = 0 THEN pc[q] ELSE pc[q] + 1)'
    BY <1>7 DEF Counts
  <2>1. CASE q = p
    BY <1>0, <1>1, <1>6, <1>7, <2>1
  <2>2. CASE q # p
    BY <1>1, <1>6, <1>7, <2>2 DEF IInv, Counts
  <2> QED BY <2>1, <2>2
<1>12. Locals'
  <2> SUFFICES ASSUME NEW q \in Party, sent'[q] > 0
               PROVE  LocalsAt(q, pc[q])'
    BY <1>7 DEF Locals
  <2>1. CASE q = p
    <3>1. v'[p].c = c /\ v'[p].out = out /\ v'[p].got = <<>> /\ Len(v'[p].got) = 0
      BY <1>2, <1>3, StateTypes
    <3>2. LocalsAt(p, k)'
      <4>1. CASE Op(k) = "mult"
        <5>1. Message(p, k)' = Message(p, k)
          BY <1>0, <1>3, <1>4, <4>1 DEF Stable
        <5>2. \A j \in Keys, i \in Batch :
                 c[j][i] = Wrap(Uses(Missing(p, j)) * Z(p, j, k, i))'
          <6>1. /\ \A j : Missing(p, j)' = Missing(p, j)
                /\ \A j, i : Z(p, j, k, i)' = Z(p, j, k, i)
                /\ \A T : Uses(T)' = Uses(T)
            BY <1>1, Frame
          <6> QED BY <1>2, <4>1, <6>1 DEF Wrap
        <5>3. \A m \in 1..t : out[m] = Message(p, k)'
          BY <1>2, <4>1, <5>1
        <5>4. out \in [1..t -> [Batch -> Word]] /\ sent'[p] = 1 /\ 1 .. sent'[p] - 1 = {}
          BY <1>2, <1>3, <1>6, <4>1 DEF Pairwise
        <5> QED BY <1>7, <3>1, <4>1, <5>2, <5>3, <5>4 DEF LocalsAt
      <4>2. CASE Op(k) = "open"
        <5>1. /\ out \in [1..t -> [Batch -> Word]] /\ sent'[p] = 1 /\ 1 .. sent'[p] - 1 = {}
              /\ \A m \in 1..t : Cut(out[m]) = Opening(p, m, k)
          BY <1>2, <1>3, <1>6, <4>2 DEF Pairwise
        <5>2. ASSUME NEW m PROVE Opening(p, m, k)' = Opening(p, m, k) /\ Cut(out[m])' = Cut(out[m])
          <6>1. Peers("open")' = Peers("open")
            BY <1>1, Frame
          <6> QED BY <1>1, <1>7, <6>1 DEF Opening, Cut, Mask
        <5>3. \A m \in 1..t : Cut(out[m])' = Opening(p, m, k)'
          BY <5>1, <5>2
        <5> QED BY <1>7, <3>1, <4>2, <5>1, <5>3 DEF LocalsAt
      <4>3. CASE Op(k) = "multpub"
        <5>1. Publishing(p, k)' = Publishing(p, k) /\ Packed' = Packed
          <6>1. k <= pc[p]
            BY <1>0, <1>3
          <6>2. \A a \in Party : Sent(p, a, k)' = Sent(p, a, k)
            BY <1>3, <1>4, <6>1 DEF Stable
          <6>3. Packed' = Packed /\ Op(k)' = Op(k)
            BY <1>1, Frame
          <6> QED BY <4>3, <6>2, <6>3 DEF Sent
        <5>2. Cut(c)' = Cut(c)
          BY <1>7 DEF Cut, Mask
        <5> QED BY <1>2, <1>3, <1>7, <3>1, <4>3, <5>1, <5>2 DEF LocalsAt
      <4> QED BY <1>3, <4>1, <4>2, <4>3 DEF Pairwise
    <3> QED BY <1>0, <1>1, <2>1, <3>2
  <2>2. CASE q # p
    <3>1. v'[q] = v[q] /\ sent'[q] = sent[q]
      BY <1>2, <1>3, <1>6, <2>2, StateTypes
    <3> QED BY <1>1, <1>4, <1>5, <3>1, OtherLocals
  <2> QED BY <2>1, <2>2
<1> QED BY <1>4, <1>8, <1>9, <1>10, <1>11, <1>12 DEF IInv


\* A turn of the exchange keeps the invariant: what is read in product k is the
\* sender's Message(k), however far ahead the sender is.
LEMMA RelayKeeps ==
    ASSUME IInv, NEW p \in Party, RelayStep(p)
    PROVE  IInv'
<1>0. PICK k, m : k = pc[p] /\ m = sent[p]
  OBVIOUS
<1>1. /\ Running(p) /\ Op(k) \in Pairwise /\ m \in 1 .. t-1
      /\ run' = run /\ pc' = pc /\ shares' = shares /\ opened' = opened /\ drawn' = drawn
      /\ sent' = [sent EXCEPT ![p] = @ + 1]
      /\ chan' \in [Party -> [Party -> Seq(Value)]]
  BY <1>0 DEF RelayStep
<1>2. PICK b \in Value :
          /\ v' = [v EXCEPT ![p].got = Append(@, b)]
          /\ b = Sent(Source(p), p, k)
  BY <1>0 DEF RelayStep
<1>3. /\ TypeOK /\ k \in Steps /\ k \in Nat /\ m \in Nat /\ Op(k) # "multpub"
      /\ Sizes /\ t \in Nat /\ n \in Nat /\ t < n /\ n <= 7
      /\ Source(p) = Off(p, Peers(Op(k)).from[m], n)
  <2>1. /\ TypeOK /\ k \in Steps /\ k \in Nat /\ m \in Nat /\ Op(k) # "multpub"
        /\ Source(p) = Off(p, Peers(Op(k)).from[m], n)
    BY <1>0, <1>1, Here DEF IInv, Pairwise, Source
  <2> QED BY <2>1, Program DEF TypeOK
<1>4. Stable /\ (\E Out : Sends(p, Out)) /\ Queues' /\ Causal'
  BY RelaySockets
<1>5. PICK Out : Sends(p, Out)
  BY <1>4
<1>6. /\ sent'[p] = m + 1 /\ m + 1 \in 1..t
      /\ sent' \in [Party -> 0..6]
      /\ \A q \in Party \ {p} : sent'[q] = sent[q]
  <2>1. m + 1 \in 1..6 /\ m + 1 \in 1..t
    BY <1>1, <1>3
  <2>2. m + 1 \in 0..6
    BY <2>1
  <2>3. sent \in [Party -> 0..6] /\ sent' = [sent EXCEPT ![p] = m + 1]
    BY <1>0, <1>1, <1>3, StateTypes
  <2> QED BY <2>1, <2>2, <2>3
<1>7. /\ Party' = Party /\ Keys' = Keys /\ n' = n /\ t' = t
      /\ \A l : Op(l)' = Op(l)
      /\ \A j, l : Words(j, l)' = Words(j, l)
  BY <1>1, Frame
<1>8. /\ v' \in [Party -> [c : Locally, out : Seq([Batch -> Word]), got : Seq(Value)]]
      /\ \A q \in Party \ {p} : v'[q] = v[q]
      /\ v'[p].c = v[p].c /\ v'[p].out = v[p].out /\ v'[p].got = Append(v[p].got, b)
      /\ v[p].got \in Seq(Value)
  <2>1. v \in [Party -> [c : Locally, out : Seq([Batch -> Word]), got : Seq(Value)]]
    BY <1>3, StateTypes
  <2>2. v[p].got \in Seq(Value)
    BY <2>1
  <2>3. Append(v[p].got, b) \in Seq(Value)
    BY <2>2
  <2> QED BY <1>2, <2>1, <2>2, <2>3
<1>9. TypeOK' /\ Registers' = Registers
  BY <1>1, <1>3, <1>6, <1>8, StateTypes, TypeStep
<1>10. Known' /\ InputsShared' /\ Products'
  BY <1>1, <1>4, <1>5, <1>9, SameShares
<1>11. Turns'
  <2> SUFFICES ASSUME NEW q \in Party, sent'[q] > 0
               PROVE  /\ Running(q)'
                      /\ IF Op(pc[q])' = "multpub" THEN sent'[q] = n - 1 ELSE sent'[q] <= t
    BY <1>7 DEF Turns
  <2>1. Op(pc[q])' = Op(pc[q])
    BY <1>1, <1>7
  <2>2. Running(q) <=> Running(q)'
    BY <1>1 DEF Running
  <2>3. CASE q = p
    BY <1>0, <1>1, <1>3, <1>6, <2>1, <2>2, <2>3
  <2>4. CASE q # p
    BY <1>6, <2>1, <2>2, <2>4 DEF IInv, Turns
  <2> QED BY <2>3, <2>4
<1>12. Counts'
  <2> SUFFICES ASSUME NEW q \in Party, NEW j \in Keys
               PROVE  drawn[q][j] = Words(j, IF sent[q] = 0 THEN pc[q] ELSE pc[q] + 1)'
    BY <1>1, <1>7 DEF Counts
  <2>1. sent'[q] = 0 <=> sent[q] = 0
    BY <1>0, <1>1, <1>3, <1>6
  <2> QED BY <1>1, <1>7, <2>1 DEF IInv, Counts
<1>13. Locals'
  <2> SUFFICES ASSUME NEW q \in Party, sent'[q] > 0
               PROVE  LocalsAt(q, pc[q])'
    BY <1>7 DEF Locals
  <2>1. CASE q = p
    <3>1. LocalsAt(p, k) /\ sent[p] > 0
      BY <1>0, <1>1, <1>3 DEF IInv, Locals
    <3>2. Len(v[p].got) = m - 1 /\ \A l \in 1 .. m - 1 :
             v[p].got[l] = Sent(Off(p, Peers(Op(k)).from[l], n), p, k)
      BY <1>0, <1>1, <3>1 DEF LocalsAt, Pairwise
    <3>3. /\ Len(v'[p].got) = sent'[p] - 1 /\ v'[p].got[m] = b
          /\ \A l \in 1 .. m - 1 : v'[p].got[l] = v[p].got[l]
      <4> DEFINE g == v[p].got
      <4>1. g \in Seq(Value) /\ Len(g) = m - 1 /\ v'[p].got = Append(g, b)
        BY <1>8, <3>2
      <4> HIDE DEF g
      <4>2. /\ Len(Append(g, b)) = m /\ Append(g, b)[m] = b
            /\ \A l \in 1 .. m - 1 : Append(g, b)[l] = g[l]
        BY <1>3, <4>1
      <4> QED BY <1>3, <1>6, <4>1, <4>2 DEF g
    <3>4. \A l \in 1 .. sent'[p] - 1 :
             v'[p].got[l] = Sent(Off(p, Peers(Op(k)).from[l], n), p, k)
      <4>1. \A l \in 1 .. sent'[p] - 1 : l = m \/ l \in 1 .. m - 1
        BY <1>3, <1>6
      <4> QED BY <1>2, <1>3, <3>2, <3>3, <4>1
    <3>5. LocalsAt(p, k)'
      BY <1>0, <1>1, <1>3, <1>4, <1>5, <1>6, <1>8, <3>1, <3>3, <3>4, LocalsStep
    <3> QED BY <1>0, <1>1, <2>1, <3>5
  <2>2. CASE q # p
    BY <1>1, <1>4, <1>5, <1>6, <1>8, <2>2, OtherLocals
  <2> QED BY <2>1, <2>2
<1> QED BY <1>4, <1>9, <1>10, <1>11, <1>12, <1>13 DEF IInv


\* Shared inputs are shares, and an unwritten register is not.
LEMMA UnknownIs ==
    ASSUME run \in Cases
    PROVE  Unknown \notin Share /\ \A r \in Inputs : \A p \in Party :
              [j \in Keys |-> [i \in Batch |-> Input(run.seed, r, Missing(p, j), i)]] \in Share
<1>1. /\ Unknown \notin [0 .. numShares(run.n) - 1 -> [1 .. run.size -> Word]]
      /\ \A p \in 1 .. run.n, j \in 0 .. numShares(run.n) - 1, r \in Inputs, i \in 1 .. run.size :
            Input(run.seed, r, TSet(p, j, run.n), i) \in Word
  BY InputAssumption
<1>2. ASSUME NEW p \in Party, NEW j \in Keys PROVE Missing(p, j) = TSet(p, j, run.n)
  BY Program, MissingIs DEF n, TSet
<1>3. \A p \in Party, j \in Keys, r \in Inputs, i \in Batch :
         Input(run.seed, r, Missing(p, j), i) \in Word
  BY <1>1, <1>2 DEF Party, Keys, Batch, n
<1> QED BY <1>1, <1>3 DEF Share, Keys, Batch, n

\* The last step of an instruction keeps the invariant: a product becomes known,
\* and no message that was sent before depends on it.
LEMMA LastKeeps ==
    ASSUME IInv, NEW p \in Party, LastStep(p)
    PROVE  IInv'
<1>0. PICK k, dst : k = pc[p] /\ dst = run.program[pc[p]].dst
  OBVIOUS
<1>1. /\ Running(p) /\ sent[p] = IF Public(p) THEN n - 1 ELSE t
      /\ run' = run /\ drawn' = drawn
      /\ pc' = [pc EXCEPT ![p] = @ + 1]
      /\ sent' = [sent EXCEPT ![p] = 0]
      /\ v' = [v EXCEPT ![p] = NoLocals]
      /\ IF Op(k) = "mult"
         THEN /\ shares' = [shares EXCEPT ![p][dst] = Product(p, k)]
              /\ Product(p, k) \in Share /\ opened' = opened
         ELSE /\ shares' = shares
              /\ \E w \in Value : opened' = [opened EXCEPT ![p][dst] = w]
      /\ chan' \in [Party -> [Party -> Seq(Value)]]
  BY <1>0 DEF LastStep
<1>2. /\ TypeOK /\ run \in Cases /\ k \in Steps /\ k \in Nat /\ dst = run.program[k].dst
      /\ t \in Nat /\ 1 <= t /\ n \in Nat /\ t < n /\ n <= 7 /\ sent[p] # 0
  <2>1. /\ TypeOK /\ run \in Cases /\ k \in Steps /\ k \in Nat /\ dst = run.program[k].dst
    BY <1>0, <1>1, Here DEF IInv
  <2>2. t \in Nat /\ 1 <= t /\ n \in Nat /\ t < n /\ n <= 7
    BY <2>1, Program
  <2> QED BY <1>1, <2>1, <2>2
<1>3. Stable /\ (\E Out : Sends(p, Out)) /\ Queues' /\ Causal'
  BY LastSockets
<1>4. PICK Out : Sends(p, Out)
  BY <1>3
<1>5. /\ pc \in [Party -> 1 .. Len(run.program) + 1]
      /\ sent \in [Party -> 0..6]
      /\ shares \in [Party -> [Registers -> {Unknown} \union Share]]
      /\ opened \in [Everyone -> [Registers -> {Unknown} \union Value]]
      /\ v \in [Party -> [c : Locally, out : Seq([Batch -> Word]), got : Seq(Value)]]
      /\ drawn \in [Party -> [Keys -> Nat]]
  BY <1>2, StateTypes
<1>6. /\ dst \in Registers /\ dst \notin Inputs
      /\ \A l \in Steps : run.program[l].dst = dst => l = k
      /\ Registers = Inputs \union Written(run.program)
      /\ \A l \in Steps : run.program[l].dst \in Registers
  BY <1>2, Program DEF IInv, Known
<1>7. /\ Party' = Party /\ Keys' = Keys /\ Batch' = Batch /\ n' = n /\ t' = t
      /\ \A l : Op(l)' = Op(l)
      /\ \A j, l : Words(j, l)' = Words(j, l)
  BY <1>1, Frame
<1>8. /\ pc'[p] = k + 1 /\ sent'[p] = 0
      /\ \A q \in Party \ {p} : pc'[q] = pc[q] /\ sent'[q] = sent[q] /\ v'[q] = v[q]
  BY <1>0, <1>1, <1>5
<1>9. TypeOK' /\ Registers' = Registers
  <2>1. pc' \in [Party -> 1 .. Len(run.program) + 1]
    <3>1. k + 1 \in 1 .. Len(run.program) + 1
      BY <1>2, Program DEF Steps
    <3> QED BY <1>0, <1>1, <1>5, <3>1
  <2>2. sent' \in [Party -> 0..6]
    BY <1>1, <1>5
  <2>3. shares' \in [Party -> [Registers -> {Unknown} \union Share]]
    <3>1. CASE Op(k) = "mult"
      <4> DEFINE x == Product(p, k)
      <4>1. x \in Share /\ shares' = [shares EXCEPT ![p][dst] = x]
        BY <1>1, <3>1
      <4> HIDE DEF x
      <4> QED BY <1>5, <4>1
    <3>2. CASE Op(k) # "mult"
      BY <1>1, <1>5, <3>2
    <3> QED BY <3>1, <3>2
  <2>4. opened' \in [Everyone -> [Registers -> {Unknown} \union Value]]
    <3>1. p \in Everyone
      BY <1>2 DEF Party, Everyone
    <3>2. CASE Op(k) = "mult"
      BY <1>1, <1>5, <3>2
    <3>3. CASE Op(k) # "mult"
      <4>1. PICK w \in Value : opened' = [opened EXCEPT ![p][dst] = w]
        BY <1>1, <3>3
      <4> QED BY <1>5, <3>1, <4>1
    <3> QED BY <3>2, <3>3
  <2>5. v' \in [Party -> [c : Locally, out : Seq([Batch -> Word]), got : Seq(Value)]]
    <3>1. NoLocals \in [c : Locally, out : Seq([Batch -> Word]), got : Seq(Value)]
      BY DEF NoLocals, Locally
    <3> QED BY <1>1, <1>5, <3>1
  <2> QED BY <1>1, <1>2, <1>5, <2>1, <2>2, <2>3, <2>4, <2>5, TypeStep
<1>10. /\ Op(k) = "mult" => shares'[p][dst] = Product(p, k)
       /\ Op(k) # "mult" => shares'[p][dst] = shares[p][dst]
       /\ \A q \in Party, r \in Registers : (q # p \/ r # dst) => shares'[q][r] = shares[q][r]
  BY <1>1, <1>5, <1>6
<1>11. Known'
  <2>1. ASSUME NEW q \in Party, NEW r \in Registers
        PROVE  Has(q, r)' <=> Has(q, r) \/ (q = p /\ r = dst /\ Op(k) = "mult")
    <3>1. Has(q, r)' <=> r \in Inputs \/ \E l \in 1 .. pc'[q] - 1 :
                                   Op(l) = "mult" /\ run.program[l].dst = r
      BY <1>1, <1>7 DEF Has
    <3>2. CASE q # p
      BY <1>8, <3>1, <3>2 DEF Has
    <3>3. CASE q = p
      <4>1. 1 .. pc'[q] - 1 = (1 .. pc[q] - 1) \union {k}
        <5>1. k - 1 = pc[q] - 1 /\ (k + 1) - 1 = pc'[q] - 1
          BY <1>0, <1>8, <3>3
        <5>2. \A l : l \in 1 .. (k + 1) - 1 <=> l \in 1 .. k - 1 \/ l = k
          BY <1>2 DEF Steps
        <5> QED BY <5>1, <5>2
      <4> QED BY <1>2, <3>1, <3>3, <4>1 DEF Has
    <3> QED BY <3>2, <3>3
  <2>2. ASSUME NEW q \in Party, NEW r \in Registers
        PROVE  shares'[q][r] # Unknown <=> Has(q, r)'
    <3>1. CASE q = p /\ r = dst /\ Op(k) = "mult"
      <4>1. Product(p, k) # Unknown
        BY <1>1, <1>2, <3>1, UnknownIs
      <4> QED BY <1>10, <2>1, <3>1, <4>1
    <3>2. CASE ~(q = p /\ r = dst /\ Op(k) = "mult")
      <4>1. shares'[q][r] = shares[q][r]
        BY <1>10, <3>2
      <4> QED BY <2>1, <3>2, <4>1 DEF IInv, Known
    <3> QED BY <3>1, <3>2
  <2> QED BY <1>1, <1>6, <1>7, <1>9, <2>2 DEF Known
<1>12. InputsShared'
  <2>1. \A q \in Party, r \in Inputs : shares'[q][r] = shares[q][r]
    BY <1>6, <1>10
  <2>2. \A q, j : Missing(q, j)' = Missing(q, j)
    BY <1>1, Frame
  <2>3. ASSUME NEW q \in Party, NEW r \in Inputs
        PROVE  shares'[q][r] = [j \in Keys |-> [i \in Batch |->
                                   Input(run.seed, r, Missing(q, j), i)]]'
    <3>1. [j \in Keys |-> [i \in Batch |-> Input(run.seed, r, Missing(q, j), i)]]'
          = [j \in Keys |-> [i \in Batch |-> Input(run.seed, r, Missing(q, j), i)]]
      BY <1>1, <1>7, <2>2
    <3> QED BY <2>1, <3>1 DEF IInv, InputsShared
  <2> QED BY <1>7, <2>3 DEF InputsShared
<1>13. Turns'
  <2> SUFFICES ASSUME NEW q \in Party, sent'[q] > 0
               PROVE  /\ Running(q)'
                      /\ IF Op(pc[q])' = "multpub" THEN sent'[q] = n - 1 ELSE sent'[q] <= t
    BY <1>7 DEF Turns
  <2>1. q # p
    BY <1>8
  <2>2. Op(pc[q])' = Op(pc[q])
    BY <1>7, <1>8, <2>1
  <2>3. Running(q) <=> Running(q)'
    BY <1>1, <1>8, <2>1 DEF Running
  <2> QED BY <1>8, <2>1, <2>2, <2>3 DEF IInv, Turns
<1>14. Counts'
  <2> SUFFICES ASSUME NEW q \in Party, NEW j \in Keys
               PROVE  drawn[q][j] = Words(j, IF sent[q] = 0 THEN pc[q] ELSE pc[q] + 1)'
    BY <1>1, <1>7 DEF Counts
  <2>1. CASE q = p
    <3>1. drawn[p][j] = Words(j, k + 1)
      BY <1>0, <1>2 DEF IInv, Counts
    <3> QED BY <1>7, <1>8, <2>1, <3>1
  <2>2. CASE q # p
    BY <1>7, <1>8, <2>2 DEF IInv, Counts
  <2> QED BY <2>1, <2>2
<1>15. Locals'
  <2> SUFFICES ASSUME NEW q \in Party, sent'[q] > 0
               PROVE  LocalsAt(q, pc[q])'
    BY <1>7 DEF Locals
  <2>1. q # p
    BY <1>8
  <2> QED BY <1>1, <1>3, <1>4, <1>8, <2>1, OtherLocals
<1>16. Products'
  <2> SUFFICES ASSUME NEW q \in Party, NEW l \in 1 .. pc'[q] - 1, Op(l) = "mult"
               PROVE  shares'[q][run.program[l].dst] = Product(q, l)'
    BY <1>1, <1>7 DEF Products
  <2>1. /\ l < pc'[q] /\ l \in Steps /\ l <= pc[q]
        /\ (l < pc[q] \/ (q = p /\ l = k))
    <3>1. pc[q] \in 1 .. Len(run.program) + 1 /\ Len(run.program) \in Nat
      BY <1>2, Entries
    <3>2. CASE q = p
      BY <1>0, <1>2, <1>8, <3>1, <3>2 DEF Steps
    <3>3. CASE q # p
      BY <1>8, <3>1, <3>3 DEF Steps
    <3> QED BY <3>2, <3>3
  <2>2. Product(q, l)' = Product(q, l)
    BY <1>1, <1>3, <1>4, <2>1, Kept
  <2>3. shares'[q][run.program[l].dst] = Product(q, l)
    <3>1. CASE q = p /\ l = k
      BY <1>2, <1>10, <3>1
    <3>2. CASE ~(q = p /\ l = k)
      <4>1. l \in 1 .. pc[q] - 1
        BY <1>2, <2>1, <3>2, Entries
      <4>2. shares[q][run.program[l].dst] = Product(q, l)
        BY <4>1 DEF IInv, Products
      <4>3. run.program[l].dst \in Registers /\ (q = p => run.program[l].dst # dst)
        BY <1>6, <2>1, <3>2
      <4> QED BY <1>10, <4>2, <4>3
    <3> QED BY <3>1, <3>2
  <2> QED BY <2>2, <2>3
<1> QED BY <1>3, <1>9, <1>11, <1>12, <1>13, <1>14, <1>15, <1>16 DEF IInv


-----------------------------------------------------------------------------
\* Nothing is in flight at first, and no word is drawn.
LEMMA Starting == Init => IInv
<1> SUFFICES ASSUME Init PROVE IInv
  OBVIOUS
<1>1. /\ run \in Cases
      /\ pc = [p \in Party |-> 1]
      /\ sent = [p \in Party |-> 0]
      /\ opened = [p \in Everyone |-> [r \in Registers |-> Unknown]]
      /\ v = [p \in Party |-> NoLocals]
      /\ drawn = [p \in Party |-> [j \in Keys |-> 0]]
      /\ chan = [p \in Party |-> [q \in Party |-> <<>>]]
  BY DEF Init
<1>2. /\ 1 \in Party /\ Len(run.program) \in Nat /\ t \in Nat
      /\ \A k \in Steps : run.program[k].dst \notin Inputs /\ Op(k) \in Pairwise \union {"multpub"}
      /\ \A k \in Steps : k \in Nat /\ k >= 1
  BY <1>1, Program DEF Party, Sizes, Steps, Pairwise
<1> DEFINE in(p, r) == [j \in Keys |-> [i \in Batch |-> Input(run.seed, r, Missing(p, j), i)]]
<1>3. shares = [p \in Party |-> [r \in Inputs \union Written(run.program) |->
          IF r \in Written(run.program) THEN Unknown ELSE in(p, r)]]
  BY DEF Init
<1>4. \A r \in Inputs, p \in Party : in(p, r) \in Share
  BY <1>1, UnknownIs
<1>5. Unknown \notin Share /\ Inputs \intersect Written(run.program) = {}
  BY <1>1, UnknownIs, ProgramAssumption
<1> HIDE DEF in
<1>6. /\ Registers = Inputs \union Written(run.program)
      /\ \A p \in Party, r \in Registers :
            shares[p][r] = IF r \in Written(run.program) THEN Unknown ELSE in(p, r)
  BY <1>2, <1>3 DEF Registers
<1>7. TypeOK
  <2>1. shares \in [Party -> [Registers -> {Unknown} \union Share]]
    BY <1>3, <1>4, <1>6
  <2>2. NoLocals \in [c : Locally, out : Seq([Batch -> Word]), got : Seq(Value)]
    BY DEF NoLocals, Locally
  <2>3. v \in [Party -> [c : Locally, out : Seq([Batch -> Word]), got : Seq(Value)]]
    BY <1>1, <2>2
  <2>4. chan \in [Party -> [Party -> Seq(Value)]]
    BY <1>1
  <2>5. opened \in [Everyone -> [Registers -> {Unknown} \union Value]]
    BY <1>1
  <2>6. pc \in [Party -> 1 .. Len(run.program) + 1] /\ sent \in [Party -> 0..6]
        /\ drawn \in [Party -> [Keys -> Nat]]
    BY <1>1, <1>2
  <2> QED BY <1>1, <2>1, <2>3, <2>4, <2>5, <2>6 DEF TypeOK, Share, Value, Locally
<1>8. Known
  <2>1. \A p \in Party : \A r : Has(p, r) <=> r \in Inputs
    BY <1>1 DEF Has
  <2> QED BY <1>4, <1>5, <1>6, <2>1 DEF Known
<1>9. InputsShared
  BY <1>5, <1>6 DEF InputsShared, in
<1>10. Turns
  BY <1>1 DEF Turns
<1>11. Counts
  <2>1. \A op : Before(1, op) = 0
    BY Counting
  <2>2. \A j \in Keys : Words(j, 1) = 0
    <3> TAKE j \in Keys
    <3>1. Ctr(j) \in Nat /\ run.size \in Nat
      <4>1. Sizes /\ run.size \in Nat /\ t \in Nat
        BY <1>1, Program
      <4>2. Ctr(j) = t + 1 \/ Ctr(j) = t
        BY <1>2, <4>1, OwnerIs
      <4> QED BY <4>1, <4>2
    <3>2. Words(j, 1) = run.size * (Ctr(j) * 0 + 0)
      BY <2>1 DEF Words
    <3>3. Ctr(j) * 0 + 0 = 0 /\ run.size * 0 = 0
      BY <3>1
    <3> QED BY <3>2, <3>3
  <2> QED BY <1>1, <2>2 DEF Counts
<1>12. Locals
  BY <1>1 DEF Locals
<1>13. \A p, q \in Party, k \in Steps : ~HasSent(p, q, k) /\ ~HasRead(p, q, k)
  <2> TAKE p, q \in Party, k \in Steps
  <2>1. ~(k < 1) /\ \A m \in 1..t : ~(0 >= m) /\ ~(0 > m)
    BY <1>2
  <2> QED BY <1>1, <2>1 DEF HasSent, HasRead
<1>14. Queues
  <2> SUFFICES ASSUME NEW p \in Party, NEW q \in Party
               PROVE  \E ids \in [1 .. Len(chan[p][q]) -> Steps] :
                         Carries(chan[p][q], ids, InFlight(p, q), p, q)
    BY DEF Queues
  <2>1. InFlight(p, q) = {} /\ 1 .. Len(chan[p][q]) = {}
    <3>1. chan[p][q] = <<>>
      BY <1>1
    <3> QED BY <1>13, <3>1 DEF InFlight
  <2> DEFINE ids == [x \in {} |-> 1]
  <2>2. ids \in [{} -> Steps] /\ ids \in [{} -> {}]
    OBVIOUS
  <2>3. Carries(chan[p][q], ids, {}, p, q)
    BY <2>1, <2>2 DEF Carries
  <2> QED BY <2>1, <2>2, <2>3
<1>15. Causal
  BY <1>13 DEF Causal
<1>16. Products
  BY <1>1 DEF Products
<1> QED BY <1>7, <1>8, <1>9, <1>10, <1>11, <1>12, <1>14, <1>15, <1>16 DEF IInv

\* IInv speaks of the variables only.
LEMMA Stuttering == IInv /\ UNCHANGED vars => IInv'
<1> SUFFICES ASSUME IInv, UNCHANGED vars PROVE IInv'
  OBVIOUS
<1>1. /\ run' = run /\ pc' = pc /\ sent' = sent /\ shares' = shares /\ opened' = opened
      /\ v' = v /\ drawn' = drawn /\ chan' = chan
  BY DEF vars
<1>2. TypeOK' <=> TypeOK
  BY <1>1 DEF TypeOK, Party, Keys, Batch, Registers, n
<1>3. Known' <=> Known
  BY <1>1 DEF Known, Has, Op, Registers, Party, n
<1>4. InputsShared' <=> InputsShared
  BY <1>1 DEF InputsShared, Party, Keys, Batch, Missing, n
<1>5. Turns' <=> Turns
  BY <1>1 DEF Turns, Running, Op, Party, t, n
<1>6. Counts' <=> Counts
  BY <1>1 DEF Counts, Words, Before, Op, Ctr, Party, Keys, n
<1>11. Stable
  BY <1>1, SameMessage DEF Stable
<1>12. \A p \in Party, q \in Party, k \in Steps :
          (HasSent(p, q, k)' <=> HasSent(p, q, k)) /\ (HasRead(p, q, k)' <=> HasRead(p, q, k))
  BY <1>1, SameSent
<1>13. Party' = Party /\ Steps' = Steps /\ \A p \in Party : pc[p] \in Nat
  BY <1>1, Frame, Entries DEF IInv
<1>9. Causal'
  BY <1>12, <1>13 DEF IInv, Causal
<1>14. \A p \in Party : Sends(p, {})
  BY <1>12 DEF Sends
<1>7. Locals'
  BY <1>1, <1>9, <1>11, <1>13, <1>14, OtherLocals DEF Locals
<1>8. Queues'
  <2> SUFFICES ASSUME NEW p \in Party, NEW q \in Party
               PROVE  \E ids \in [1 .. Len(chan[p][q]) -> Steps] :
                         Carries(chan[p][q], ids, InFlight(p, q), p, q)'
    BY <1>1, <1>13 DEF Queues
  <2>1. PICK c, S, U : c = chan[p][q] /\ S = InFlight(p, q) /\ U = InFlight(p, q)'
    OBVIOUS
  <2>2. PICK ids \in [1 .. Len(c) -> Steps] : Carries(c, ids, S, p, q)
    BY <2>1 DEF IInv, Queues
  <2>3. S = U
    BY <1>12, <1>13, <2>1 DEF InFlight
  <2>4. \A k \in S : Sent(p, q, k)' = Sent(p, q, k)
    <3>1. \A k \in S : k \in Steps /\ HasSent(p, q, k)
      BY <2>1 DEF InFlight
    <3>2. \A k \in S : k \in Nat /\ k <= pc[p]
      BY <1>13, <3>1 DEF HasSent, Steps
    <3> QED BY <1>11, <3>1, <3>2 DEF Stable
  <2>5. Carries(c, ids, U, p, q)'
    BY <1>1, <2>2, <2>3, <2>4, StillCarries
  <2> QED BY <1>1, <2>1, <2>2, <2>5
<1>10. Products' <=> Products
  BY <1>1 DEF Products, Product, Owner, Into, Message, Masked, Local, Z, Words, Before, Op, Ctr,
              Uses, Chi, Missing, Peers, Party, Keys, Batch, t, n
<1> QED BY <1>2, <1>3, <1>4, <1>5, <1>6, <1>7, <1>8, <1>9, <1>10 DEF IInv


\* The invariant is inductive.
LEMMA Inductive == IInv /\ [Next]_vars => IInv'
<1>1. ASSUME IInv, Next PROVE IInv'
  <2>1. PICK p \in Party : Step(p)
    BY <1>1 DEF Next
  <2> QED BY <1>1, <2>1, StepKinds, StartKeeps, RelayKeeps, LastKeeps
<1> QED BY <1>1, Stuttering

\* The inductive invariant holds in every state of RssN.
THEOREM Invariant == Spec => []IInv
<1> QED BY Starting, Inductive, PTL DEF Spec

-----------------------------------------------------------------------------
\* Every table of the state keeps its shape, and every socket holds batches of
\* ring values.
THEOREM TypeCorrect == Spec => []TypeOK
<1>1. IInv => TypeOK
  BY DEF IInv
<1> QED BY <1>1, Invariant, PTL

\* Two holders of a share of a product have the same owner, count and words for
\* it (CopiesAlike), so they have the same Product.
LEMMA SharesAgree == IInv => ReplicasAgree
<1> SUFFICES ASSUME IInv, NEW r \in Registers, NEW T \in Ts,
                    NEW p \in Party \ T, NEW q \in Party \ T, NEW i \in Batch,
                    shares[p][r] # Unknown, shares[q][r] # Unknown
             PROVE  Mask(shares[p][r][IndexOf(p, T)][i]) = Mask(shares[q][r][IndexOf(q, T)][i])
  BY DEF ReplicasAgree
<1> DEFINE j == IndexOf(p, T)
           l == IndexOf(q, T)
<1>1. Sizes /\ run \in Cases
  BY Program DEF IInv, TypeOK
<1>2. j \in Keys /\ Missing(p, j) = T /\ l \in Keys /\ Missing(q, l) = T
  BY <1>1, Complete
<1> HIDE DEF j, l
<1>3. Has(p, r) /\ Has(q, r)
  BY DEF IInv, Known
<1>4. CASE r \in Inputs
  <2>1. /\ shares[p][r][j][i] = Input(run.seed, r, Missing(p, j), i)
        /\ shares[q][r][l][i] = Input(run.seed, r, Missing(q, l), i)
    <3>1. InputsShared /\ p \in Party /\ q \in Party
      BY DEF IInv
    <3>2. /\ shares[p][r] = [x \in Keys |-> [y \in Batch |-> Input(run.seed, r, Missing(p, x), y)]]
          /\ shares[q][r] = [x \in Keys |-> [y \in Batch |-> Input(run.seed, r, Missing(q, x), y)]]
      BY <1>4, <3>1 DEF InputsShared
    <3> QED BY <1>2, <3>2
  <2> QED BY <1>2, <2>1 DEF j, l
<1>5. CASE r \notin Inputs
  <2>1. PICK k \in 1 .. pc[p] - 1 : Op(k) = "mult" /\ run.program[k].dst = r
    BY <1>3, <1>5 DEF Has
  <2>2. PICK k2 \in 1 .. pc[q] - 1 : Op(k2) = "mult" /\ run.program[k2].dst = r
    BY <1>3, <1>5 DEF Has
  <2>3. k = k2
    <3>1. k \in Steps /\ k2 \in Steps
      BY Entries DEF IInv, Steps
    <3> QED BY <1>1, <2>1, <2>2, <3>1, Program
  <2>4. shares[p][r] = Product(p, k) /\ shares[q][r] = Product(q, k)
    BY <2>1, <2>2, <2>3 DEF IInv, Products
  <2>5. Owner(p, j) = Owner(q, l) /\ Ctr(j) = Ctr(l)
    BY <1>1, <1>2, CopiesAlike
  <2>6. Z(p, j, k, i) = Z(q, l, k, i)
    BY <1>2, <2>5 DEF Z, Words
  <2>7. Product(p, k)[j][i] = Product(q, k)[l][i]
    BY <1>2, <2>5, <2>6 DEF Product
  <2> QED BY <2>4, <2>7 DEF j, l
<1> QED BY <1>4, <1>5

\* Every share of every register is the same at all its holders (t + 1 parties
\* hold it), whatever the order in which the parties run.
THEOREM ReplicasAgreeAlways == Spec => []ReplicasAgree
<1> QED BY SharesAgree, Invariant, PTL

\* Holders of a key that have ended the same instructions have drawn the same
\* number of its words.
LEMMA CountsAgree == IInv => StreamsInStep
<1> SUFFICES ASSUME IInv, NEW p \in Party, NEW q \in Party,
                    pc[p] = pc[q], sent[p] = 0 <=> sent[q] = 0,
                    NEW T \in Ts, p \notin T, q \notin T
             PROVE  drawn[p][IndexOf(p, T)] = drawn[q][IndexOf(q, T)]
  BY DEF StreamsInStep
<1> DEFINE j == IndexOf(p, T)
           l == IndexOf(q, T)
<1>1. Sizes
  BY Program DEF IInv, TypeOK
<1>2. j \in Keys /\ Missing(p, j) = T /\ l \in Keys /\ Missing(q, l) = T
  BY <1>1, Complete
<1> HIDE DEF j, l
<1>3. Ctr(j) = Ctr(l)
  BY <1>1, <1>2, CopiesAlike
<1>4. \A k : Words(j, k) = Words(l, k)
  BY <1>3 DEF Words
<1> QED BY <1>2, <1>4 DEF IInv, Counts, j, l

\* Parties that stand at the same instruction have taken as many words of every
\* key they have in common.
THEOREM StreamsInStepAlways == Spec => []StreamsInStep
<1> QED BY CountsAgree, Invariant, PTL
=============================================================================
