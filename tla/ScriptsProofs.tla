--------------------------- MODULE ScriptsProofs ---------------------------
(***************************************************************************)
(* The operations that the calls of the code make are matched, for every   *)
(* list of calls: any kinds, any sizes and any element widths, between     *)
(* three, five or seven parties.  With ExchangeProofs, no list of calls    *)
(* ever deadlocks, mixes up frames or leaves one behind.                   *)
(*                                                                         *)
(* The argument.  A program is the concatenation, over the frames of a     *)
(* plan, of what the party does about each frame, so its operations are    *)
(* in the order of their frames; inside a frame the writes come before the *)
(* reads and no peer comes twice.  And the peer tables pair every write    *)
(* with a read of the same slot, which is a matter of looking.             *)
(***************************************************************************)
EXTENDS MCExchange, ExchangeProofs

-----------------------------------------------------------------------------
(***************************************************************************)
(* The rounds of one call carry its vector, for every size, element width  *)
(* and number of parties, not only the boundary cases a run can list.      *)
(***************************************************************************)

\* Division with remainder, for the counts getRounds divides by.
LEMMA DivMod ==
    ASSUME NEW size \in Nat, NEW count \in Nat \ {0}
    PROVE  /\ size \div count \in Nat
           /\ size % count \in 0 .. count - 1
           /\ size = (size \div count) * count + (size % count)
  BY Z3

\* A round before the last one is full.
LEMMA Monotone ==
    ASSUME NEW count \in Nat, NEW i \in Nat, NEW j \in Nat, i <= j
    PROVE  i * count <= j * count
  BY Z3

\* The element counts are those of a vector that is not empty and of elements
\* that fit a round.
CallOK(n, c) ==
    /\ c.size \in Nat \ {0}
    /\ GetRounds(n, c).count \in Nat \ {0}

\* The rounds of a call carry each element of its vector exactly once, in
\* order: no gap, no overlap, nothing beyond the end, whatever the size.
THEOREM CoversTheorem ==
    ASSUME NEW n, NEW c, CallOK(n, c)
    PROVE  Covers(n, c)
  <1> DEFINE size == c.size
             count == GetRounds(n, c).count
             last == GetRounds(n, c).rounds
             q == size \div count
             r == size % count
  <1>1. size \in Nat \ {0} /\ count \in Nat \ {0}
    BY DEF CallOK
  <1>2. last = IF r # 0 THEN q ELSE q - 1
    BY DEF GetRounds
  <1>3. \A k : /\ Chunk(n, c, k).start = k * count
               /\ Chunk(n, c, k).amount =
                     IF k * count + count > size THEN size - k * count ELSE count
    BY DEF Chunk
  <1>4. q \in Nat /\ r \in 0 .. count - 1 /\ size = q * count + r
    BY <1>1, DivMod
  <1>5. Covers(n, c) <=>
           /\ \A k \in 0..last : Chunk(n, c, k).amount >= 0
           /\ \A k \in 1..last :
                 Chunk(n, c, k).start = Chunk(n, c, k-1).start + Chunk(n, c, k-1).amount
           /\ Chunk(n, c, last).start + Chunk(n, c, last).amount = size
    BY DEF Covers
  <1> HIDE DEF size, count, last, q, r
  <1>6. last \in Nat /\ last <= q /\ (r = 0 => last = q - 1 /\ q >= 1) /\ (r # 0 => last = q)
    <2>1. CASE r = 0
      <3>1. q # 0
        BY <1>1, <1>4, <2>1
      <3> QED
        BY <1>2, <1>4, <2>1, <3>1
    <2>2. CASE r # 0
      BY <1>2, <1>4, <2>2
    <2> QED
      BY <2>1, <2>2
  <1>7. ASSUME NEW k \in 0..last
        PROVE  k \in Nat /\ k * count \in Nat /\ k * count <= size
    <2>1. k \in Nat /\ k <= q /\ k * count \in Nat /\ q * count \in Nat
      BY <1>1, <1>4, <1>6
    <2>2. k * count <= q * count
      BY <1>1, <1>4, <2>1, Monotone
    <2> QED
      BY <1>1, <1>4, <2>1, <2>2
  <1>8. \A k \in 0..last : Chunk(n, c, k).amount >= 0
    BY <1>1, <1>3, <1>7
  <1>9. ASSUME NEW k \in 1..last
        PROVE  Chunk(n, c, k).start = Chunk(n, c, k-1).start + Chunk(n, c, k-1).amount
    <2>1. k \in 0..last /\ k - 1 \in Nat
      BY <1>6
    <2>2. (k - 1) * count + count = k * count
      BY <1>1, <2>1, Z3
    <2>3. ~ ((k - 1) * count + count > size)
      BY <1>1, <1>7, <2>1, <2>2
    <2>4. Chunk(n, c, k-1).amount = count /\ Chunk(n, c, k-1).start = (k - 1) * count
      BY <1>3, <2>3
    <2> QED
      BY <1>3, <2>2, <2>4
  <1>10. Chunk(n, c, last).start + Chunk(n, c, last).amount = size
    <2>1. CASE r = 0
      <3>1. last * count + count = q * count
        BY <1>1, <1>4, <1>6, <2>1, Z3
      <3>2. last * count \in Nat /\ last * count + count = size
        BY <1>1, <1>4, <1>6, <1>7, <2>1, <3>1
      <3> QED
        BY <1>1, <1>3, <3>2
    <2>2. CASE r # 0
      <3>1. q * count \in Nat /\ last = q
        BY <1>1, <1>4, <1>6, <2>2
      <3> QED
        BY <1>1, <1>3, <1>4, <2>2, <3>1
    <2> QED
      BY <2>1, <2>2
  <1> QED
    BY <1>5, <1>8, <1>9, <1>10

-----------------------------------------------------------------------------
(***************************************************************************)
(* A concatenation.                                                        *)
(***************************************************************************)

\* The concatenation of the first k sequences, as FlattenSeq builds it.
Builds(f, seqs, k) ==
    f = [i \in 1..k |-> IF i = 1 THEN seqs[i] ELSE f[i-1] \o seqs[i]]

LEMMA FlattenIs ==
    ASSUME NEW seqs, Len(seqs) \in Nat \ {0}, \E f : Builds(f, seqs, Len(seqs))
    PROVE  \E f : Builds(f, seqs, Len(seqs)) /\ FlattenSeq(seqs) = f[Len(seqs)]
<1> DEFINE g == CHOOSE f : Builds(f, seqs, Len(seqs))
<1>1. Builds(g, seqs, Len(seqs))
  OBVIOUS
<1>2. FlattenSeq(seqs) = g[Len(seqs)]
  BY DEF FlattenSeq, Builds
<1> QED BY <1>1, <1>2

\* Induction, with the property given as a set.
LEMMA Induct ==
    ASSUME NEW G, 0 \in G, \A k \in Nat : k \in G => k + 1 \in G
    PROVE  Nat \subseteq G
<1> SUFFICES ASSUME ~(Nat \subseteq G) PROVE FALSE
  OBVIOUS
<1> DEFINE T == Nat \ G
<1>1. T \subseteq Nat /\ T # {}
  OBVIOUS
<1>2. PICK x \in T : \A y \in T : ~(<<y, x>> \in OpToRel(<, Nat))
  <2> HIDE DEF T
  <2> QED BY <1>1, NatLessThanWellFounded, WFMin
<1>3. x \in Nat /\ x # 0 /\ x - 1 \in Nat
  OBVIOUS
<1>4. x - 1 \notin T
  <2>1. <<x - 1, x>> \in OpToRel(<, Nat)
    BY <1>3 DEF OpToRel
  <2> QED BY <1>2, <2>1
<1>5. (x - 1) + 1 \in G
  BY <1>3, <1>4
<1> QED BY <1>3, <1>5

LEMMA FlattenExists ==
    ASSUME NEW seqs
    PROVE  \A k \in Nat : \E f : Builds(f, seqs, k)
<1> DEFINE G == {k \in Nat : \E f : Builds(f, seqs, k)}
<1>1. 0 \in G
  <2>1. Builds([i \in 1..0 |-> i], seqs, 0)
    BY DEF Builds
  <2> QED BY <2>1
<1>2. ASSUME NEW k \in Nat, k \in G PROVE k + 1 \in G
  <2>1. PICK f : Builds(f, seqs, k)
    BY <1>2
  <2> DEFINE g == [i \in 1..k+1 |->
                     IF i <= k THEN f[i]
                     ELSE IF i = 1 THEN seqs[i] ELSE f[i-1] \o seqs[i]]
  <2>2. ASSUME NEW i \in 1..k+1
        PROVE  g[i] = IF i = 1 THEN seqs[i] ELSE g[i-1] \o seqs[i]
    <3>1. CASE i <= k
      <4>1. i \in 1..k /\ g[i] = f[i]
        BY <3>1
      <4>2. f[i] = IF i = 1 THEN seqs[i] ELSE f[i-1] \o seqs[i]
        BY <2>1, <4>1 DEF Builds
      <4>3. i # 1 => g[i-1] = f[i-1]
        BY <4>1
      <4> QED BY <4>1, <4>2, <4>3
    <3>2. CASE i > k
      <4>1. i = k + 1 /\ g[i] = IF i = 1 THEN seqs[i] ELSE f[i-1] \o seqs[i]
        BY <3>2
      <4>2. i # 1 => g[i-1] = f[i-1]
        BY <4>1
      <4> QED BY <4>1, <4>2
    <3> QED BY <3>1, <3>2
  <2>3. g = [i \in 1..k+1 |-> IF i = 1 THEN seqs[i] ELSE g[i-1] \o seqs[i]]
    <3>1. g = [i \in 1..k+1 |-> g[i]]
      OBVIOUS
    <3> HIDE DEF g
    <3> QED BY <2>2, <3>1
  <2>4. Builds(g, seqs, k + 1)
    BY <2>3 DEF Builds
  <2> QED BY <2>4
<1>3. Nat \subseteq G
  <2> HIDE DEF G
  <2> QED BY <1>1, <1>2, Induct
<1> QED BY <1>3

-----------------------------------------------------------------------------
\* Any two elements of a sequence, the earlier one first, are in the relation.
Ordered(s, Rel) ==
    \A i, j \in 1..Len(s) : i < j => <<s[i], s[j]>> \in Rel

LEMMA Concat ==
    ASSUME NEW S, NEW s \in Seq(S), NEW t \in Seq(S), NEW Rel
    PROVE  /\ s \o t \in Seq(S)
           /\ \A e : In(e, s \o t) <=> In(e, s) \/ In(e, t)
           /\ /\ Ordered(s, Rel) /\ Ordered(t, Rel)
              /\ \A d, e : In(d, s) /\ In(e, t) => <<d, e>> \in Rel
              => Ordered(s \o t, Rel)
<1> DEFINE u == s \o t
           m == Len(s)
           n == Len(t)
<1>1. /\ u \in Seq(S) /\ m \in Nat /\ n \in Nat /\ Len(u) = m + n
      /\ \A i \in 1..m : u[i] = s[i]
      /\ \A i \in 1..n : u[m + i] = t[i]
  OBVIOUS
<1>2. \A i \in 1..Len(u) :
         i \in 1..m \/ (i - m \in 1..n /\ i = m + (i - m) /\ u[i] = t[i - m])
  <2> HIDE DEF u, m, n
  <2> SUFFICES ASSUME NEW i \in 1..Len(u), i \notin 1..m
               PROVE  i - m \in 1..n /\ i = m + (i - m) /\ u[i] = t[i - m]
    OBVIOUS
  <2>1. i - m \in 1..n /\ i = m + (i - m)
    BY <1>1
  <2> QED BY <1>1, <2>1
<1>3. ASSUME NEW e PROVE In(e, u) <=> In(e, s) \/ In(e, t)
  <2>1. In(e, u) => In(e, s) \/ In(e, t)
    BY <1>1, <1>2 DEF In
  <2>2. In(e, s) => In(e, u)
    BY <1>1 DEF In
  <2>3. In(e, t) => In(e, u)
    <3> SUFFICES ASSUME NEW k \in 1..n, t[k] = e PROVE In(e, u)
      BY DEF In
    <3>1. m + k \in 1..Len(u) /\ u[m + k] = e
      BY <1>1
    <3> QED BY <3>1 DEF In
  <2> QED BY <2>1, <2>2, <2>3
<1>4. ASSUME Ordered(s, Rel), Ordered(t, Rel),
             \A d, e : In(d, s) /\ In(e, t) => <<d, e>> \in Rel,
             NEW i \in 1..Len(u), NEW j \in 1..Len(u), i < j
      PROVE  <<u[i], u[j]>> \in Rel
  <2> HIDE DEF u
  <2>1. CASE j \in 1..m
    <3>1. i \in 1..m
      BY <1>1, <1>4, <2>1
    <3> QED BY <1>1, <1>4, <2>1, <3>1 DEF Ordered
  <2>2. CASE i \in 1..m /\ j \notin 1..m
    <3>1. In(u[i], s) /\ In(u[j], t)
      BY <1>1, <1>2, <2>2 DEF In
    <3> QED BY <1>4, <3>1
  <2>3. CASE i \notin 1..m /\ j \notin 1..m
    <3>1. i - m \in 1..n /\ j - m \in 1..n /\ u[i] = t[i - m] /\ u[j] = t[j - m]
      BY <1>2, <2>3
    <3>2. i - m < j - m
      BY <1>1, <1>4
    <3> QED BY <1>4, <3>1, <3>2 DEF Ordered
  <2>4. CASE i \notin 1..m /\ j \in 1..m
    BY <1>1, <1>4, <2>4
  <2> QED BY <2>1, <2>2, <2>3, <2>4
<1> QED BY <1>1, <1>3, <1>4 DEF Ordered

\* The elements of a concatenation, and their order.
LEMMA Flatten ==
    ASSUME NEW S, NEW Rel, NEW seqs \in Seq(Seq(S)),
           \A b \in 1..Len(seqs) : Ordered(seqs[b], Rel),
           \A a, b \in 1..Len(seqs) : a < b =>
              \A d, e : In(d, seqs[a]) /\ In(e, seqs[b]) => <<d, e>> \in Rel
    PROVE  /\ FlattenSeq(seqs) \in Seq(S)
           /\ Ordered(FlattenSeq(seqs), Rel)
           /\ \A e : In(e, FlattenSeq(seqs)) <=> \E b \in 1..Len(seqs) : In(e, seqs[b])
<1> DEFINE m == Len(seqs)
           Good(s, k) == /\ s \in Seq(S) /\ Ordered(s, Rel)
                         /\ \A e : In(e, s) <=> \E b \in 1..k : In(e, seqs[b])
<1>1. m \in Nat /\ \A b \in 1..m : seqs[b] \in Seq(S)
  OBVIOUS
<1>2. CASE m = 0
  <2>1. FlattenSeq(seqs) = seqs /\ seqs = <<>>
    BY <1>2 DEF FlattenSeq
  <2> QED BY <1>2, <2>1 DEF Ordered, In
<1>3. CASE m # 0
  <2>1. PICK f : Builds(f, seqs, m) /\ FlattenSeq(seqs) = f[m]
    BY <1>1, <1>3, FlattenExists, FlattenIs
  <2>2. \A i \in 1..m : f[i] = IF i = 1 THEN seqs[i] ELSE f[i-1] \o seqs[i]
    <3> HIDE DEF m
    <3> QED BY <2>1 DEF Builds
  <2> DEFINE G == {k \in Nat : k \in 1..m => Good(f[k], k)}
  <2>3. 0 \in G
    OBVIOUS
  <2>4. ASSUME NEW k \in Nat, k \in G PROVE k + 1 \in G
    <3> SUFFICES ASSUME k + 1 \in 1..m PROVE Good(f[k + 1], k + 1)
      OBVIOUS
    <3> HIDE DEF m, Good
    <3>1. CASE k = 0
      <4>1. f[k + 1] = seqs[1] /\ 1 \in 1..m /\ \A b : b \in 1..k + 1 <=> b = 1
        BY <1>1, <2>2, <3>1
      <4> QED BY <1>1, <4>1 DEF Good, m
    <3>2. CASE k # 0
      <4>1. k \in 1..m /\ f[k + 1] = f[k] \o seqs[k + 1]
        <5>1. k \in 1..m /\ k + 1 # 1 /\ (k + 1) - 1 = k
          BY <1>1, <3>2
        <5>2. f[k + 1] = f[(k + 1) - 1] \o seqs[k + 1]
          BY <2>2, <5>1
        <5> QED BY <5>1, <5>2
      <4>2. Good(f[k], k)
        BY <2>4, <4>1
      <4>3. \A b : b \in 1..k + 1 <=> b \in 1..k \/ b = k + 1
        OBVIOUS
      <4>4. f[k] \in Seq(S) /\ seqs[k + 1] \in Seq(S)
            /\ Ordered(f[k], Rel) /\ Ordered(seqs[k + 1], Rel)
        BY <1>1, <4>2 DEF Good, m
      <4>5. \A d, e : In(d, f[k]) /\ In(e, seqs[k + 1]) => <<d, e>> \in Rel
        <5> SUFFICES ASSUME NEW d, NEW e, In(d, f[k]), In(e, seqs[k + 1])
                     PROVE  <<d, e>> \in Rel
          OBVIOUS
        <5>1. PICK b \in 1..k : In(d, seqs[b])
          BY <4>2 DEF Good
        <5>2. b \in 1..m /\ b < k + 1
          BY <1>1, <4>1
        <5> QED BY <5>1, <5>2 DEF m
      <4>6. /\ f[k + 1] \in Seq(S) /\ Ordered(f[k + 1], Rel)
            /\ \A e : In(e, f[k + 1]) <=> In(e, f[k]) \/ In(e, seqs[k + 1])
        BY <4>1, <4>4, <4>5, Concat
      <4>7. \A e : In(e, f[k]) <=> \E b \in 1..k : In(e, seqs[b])
        BY <4>2 DEF Good
      <4>8. \A e : In(e, f[k + 1]) <=> \E b \in 1..k + 1 : In(e, seqs[b])
        BY <4>3, <4>6, <4>7
      <4> QED BY <4>6, <4>8 DEF Good
    <3> QED BY <3>1, <3>2
  <2>5. m \in G
    <3> HIDE DEF G, m
    <3> QED BY <1>1, <2>3, <2>4, Induct
  <2>6. Good(f[m], m)
    <3> HIDE DEF Good
    <3> QED BY <1>1, <1>3, <2>5
  <2> QED BY <2>1, <2>6
<1> QED BY <1>2, <1>3

-----------------------------------------------------------------------------
(***************************************************************************)
(* The calls the code makes.                                               *)
(***************************************************************************)

\* Any call of SendAndGetDataFromPeer* or multicastToPeers with something to
\* send: elements have at most the sixteen bytes of the widest Lint.
CallOf ==
    [kind : {"mult", "open", "eda", "multicast"}, size : Nat \ {0}, unit : 1..16]

CodeParties == {3, 5, 7}

\* A round has room for at least one element and never exceeds its part of the
\* buffer.
LEMMA Rounds ==
    ASSUME NEW n \in CodeParties, NEW c \in CallOf
    PROVE  /\ GetRounds(n, c).count \in Nat \ {0}
           /\ GetRounds(n, c).rounds \in Nat
           /\ GetRounds(n, c).count * c.unit \in Nat
           /\ GetRounds(n, c).count * c.unit <= BufferSize \div 3
<1> DEFINE part == BufferSize \div n
           u == c.unit
           count == part \div u
           q == c.size \div count
<1>1. part \in Nat /\ part >= 32768 /\ part <= BufferSize \div 3 /\ BufferSize \div 3 \in Nat
  <2>1. CASE n = 3
    BY <2>1 DEF BufferSize
  <2>2. CASE n = 5
    BY <2>2 DEF BufferSize
  <2>3. CASE n = 7
    BY <2>3 DEF BufferSize
  <2> QED BY <2>1, <2>2, <2>3 DEF CodeParties
<1>2. u \in 1..16 /\ c.size \in Nat \ {0} /\ u \in Nat \ {0}
  BY DEF CallOf
<1>3. GetRounds(n, c).count = count
      /\ GetRounds(n, c).rounds = IF c.size % count # 0 THEN q ELSE q - 1
  BY DEF GetRounds
<1> HIDE DEF part, u
<1>4. count \in Nat /\ (part % u) \in 0..u-1 /\ part = count * u + (part % u)
  <2>1. part \in Nat /\ u \in Nat \ {0}
    BY <1>1, <1>2
  <2>2. /\ part \div u \in Nat
        /\ (part % u) \in 0 .. u - 1
        /\ part = (part \div u) * u + (part % u)
    BY <2>1, DivMod
  <2> QED BY <2>2
<1> HIDE DEF count
<1>5. count # 0
  BY <1>1, <1>2, <1>4
<1>6. count * u \in Nat /\ count * u <= part
  <2>1. count * u \in Int
    BY <1>2, <1>4, Z3
  <2>2. count * u >= 0
    BY <1>2, <1>4, Z3
  <2> QED BY <1>1, <1>4, <2>1, <2>2
<1>7. q \in Nat /\ (c.size % count) \in 0..count-1 /\ c.size = q * count + (c.size % count)
  BY <1>2, <1>4, <1>5, DivMod
<1> HIDE DEF q
<1>8. (c.size % count) = 0 => q # 0
  <2>1. 0 * count + 0 = 0
    BY <1>4
  <2> DEFINE m == c.size % count
             size == c.size
  <2>2. size = q * count + m /\ size \in Nat \ {0}
    BY <1>2, <1>7
  <2> HIDE DEF m, size
  <2>3. m = 0 => q # 0
    BY <2>1, <2>2
  <2> QED BY <2>3 DEF m
<1> QED BY <1>1, <1>3, <1>4, <1>5, <1>6, <1>7, <1>8 DEF u

\* The steps of a call stay within its slots.
LEMMA StepsInSlots ==
    ASSUME NEW n \in CodeParties, NEW c \in CallOf
    PROVE  /\ DOMAIN Steps(n, c) = 1..Len(Steps(n, c)) /\ Len(Steps(n, c)) \in Nat
           /\ \A j \in DOMAIN Steps(n, c) :
                 Steps(n, c)[j].slot \in 1..Slots(n, c) /\ Steps(n, c)[j].round \in Nat
<1> DEFINE r == GetRounds(n, c).rounds + 1
           t == Slots(n, c)
<1>1. r \in Nat \ {0}
  BY Rounds
<1>2. t \in Nat \ {0}
  <2>1. Threshold(n) \in {1, 2, 3}
    BY DEF Threshold, CodeParties
  <2> QED BY <2>1 DEF Slots
<1>3. Steps(n, c) = [j \in 1..t * r |-> [slot |-> (j - 1) \div r + 1, round |-> (j - 1) % r]]
  BY DEF Steps
<1> HIDE DEF r, t
<1>4. t * r \in Nat
  BY <1>1, <1>2, Z3
<1>5. DOMAIN Steps(n, c) = 1..t * r /\ Len(Steps(n, c)) = t * r
  BY <1>3, <1>4
<1>6. ASSUME NEW j \in 1..t * r
      PROVE  (j - 1) \div r + 1 \in 1..t /\ ((j - 1) % r) \in Nat
  <2> DEFINE q == (j - 1) \div r
  <2>1. q \in Nat /\ ((j - 1) % r) \in 0..r-1 /\ j - 1 = q * r + ((j - 1) % r)
    <3> DEFINE i == j - 1
    <3>1. i \in Nat
      BY <1>4
    <3> HIDE DEF i
    <3>2. i \div r \in Nat /\ (i % r) \in 0 .. r - 1 /\ i = (i \div r) * r + (i % r)
      BY <1>1, <3>1, DivMod
    <3> QED BY <3>2 DEF i
  <2> HIDE DEF q
  <2>2. q * r \in Nat
    BY <1>1, <2>1, Z3
  <2>3. ~(t <= q)
    <3>1. t <= q => t * r <= q * r
      BY <1>1, <1>2, <2>1, Monotone
    <3> QED BY <1>1, <1>4, <2>1, <2>2, <3>1
  <2>4. q + 1 \in 1..t
    BY <1>2, <2>1, <2>3
  <2> QED BY <1>1, <2>1, <2>4 DEF q
<1>7. ASSUME NEW j \in 1..t * r
      PROVE  Steps(n, c)[j].slot \in 1..t /\ Steps(n, c)[j].round \in Nat
  <2>1. Steps(n, c)[j] = [slot |-> (j - 1) \div r + 1, round |-> (j - 1) % r]
    BY <1>3
  <2> QED BY <1>6, <2>1
<1> QED BY <1>4, <1>5, <1>7 DEF t

\* A frame of a plan belongs to a call and to a slot of that call.
LEMMA PlanIs ==
    ASSUME NEW n \in CodeParties, NEW calls \in Seq(CallOf)
    PROVE  /\ Len(Plan(n, calls)) \in Nat /\ DOMAIN Plan(n, calls) = 1..Len(Plan(n, calls))
           /\ \A f \in DOMAIN Plan(n, calls) :
                 /\ calls[Plan(n, calls)[f].call] \in CallOf
                 /\ Plan(n, calls)[f].slot \in 1..Slots(n, calls[Plan(n, calls)[f].call])
<1> DEFINE Ids == DOMAIN calls
           S == {x \in [call : Ids, slot : Nat, round : Nat] :
                    x.slot \in 1..Slots(n, calls[x.call])}
           part(id) == [j \in DOMAIN Steps(n, calls[id]) |->
                         [call |-> id, slot |-> Steps(n, calls[id])[j].slot,
                          round |-> Steps(n, calls[id])[j].round]]
           seqs == [id \in Ids |-> part(id)]
<1>1. Ids = 1..Len(calls) /\ Len(calls) \in Nat /\ \A id \in Ids : calls[id] \in CallOf
  OBVIOUS
<1>2. ASSUME NEW id \in Ids PROVE part(id) \in Seq(S)
  <2> DEFINE m == Len(Steps(n, calls[id]))
  <2>1. DOMAIN Steps(n, calls[id]) = 1..m /\ m \in Nat
    BY <1>1, StepsInSlots
  <2>2. ASSUME NEW j \in 1..m PROVE part(id)[j] \in S
    <3>1. /\ Steps(n, calls[id])[j].slot \in 1..Slots(n, calls[id])
          /\ Steps(n, calls[id])[j].round \in Nat
      BY <1>1, <2>1, StepsInSlots
    <3>2. part(id)[j] = [call |-> id, slot |-> Steps(n, calls[id])[j].slot,
                         round |-> Steps(n, calls[id])[j].round]
      BY <2>1
    <3>3. Steps(n, calls[id])[j].slot \in Nat
      BY <3>1
    <3> QED BY <3>1, <3>2, <3>3
  <2>3. DOMAIN part(id) = 1..m /\ part(id) = [j \in 1..m |-> part(id)[j]]
    BY <2>1
  <2> HIDE DEF part, S, m
  <2> QED BY <2>1, <2>2, <2>3
<1>3. seqs \in Seq(Seq(S)) /\ Plan(n, calls) = FlattenSeq(seqs)
  <2>1. Plan(n, calls) = FlattenSeq(seqs)
    BY DEF Plan
  <2> HIDE DEF part, S
  <2> QED BY <1>1, <1>2, <2>1
<1> DEFINE All == Seq(S)
<1>4. FlattenSeq(seqs) \in Seq(S)
  <2> DEFINE Rel == {<<d, e>> : d \in S, e \in S}
  <2>1. \A b \in 1..Len(seqs) : Ordered(seqs[b], Rel)
    <3>1. \A b \in 1..Len(seqs) : seqs[b] \in Seq(S)
      <4> HIDE DEF seqs, S
      <4> QED BY <1>3
    <3> HIDE DEF seqs, S
    <3> QED BY <3>1 DEF Ordered
  <2>2. \A a, b \in 1..Len(seqs) : a < b =>
           \A d, e : In(d, seqs[a]) /\ In(e, seqs[b]) => <<d, e>> \in Rel
    <3>1. \A b \in 1..Len(seqs) : seqs[b] \in Seq(S)
      <4> HIDE DEF seqs, S
      <4> QED BY <1>3
    <3>2. \A b \in 1..Len(seqs) : \A e : In(e, seqs[b]) => e \in S
      <4> HIDE DEF seqs, S
      <4> QED BY <3>1 DEF In
    <3> HIDE DEF seqs, S
    <3> QED BY <3>2
  <2> HIDE DEF seqs, S, Rel
  <2> QED BY <1>3, <2>1, <2>2, Flatten
<1>5. Plan(n, calls) \in Seq(S)
  BY <1>3, <1>4
<1>6. \A x \in S : calls[x.call] \in CallOf /\ x.slot \in 1..Slots(n, calls[x.call])
  BY <1>1
<1> HIDE DEF S
<1> QED BY <1>5, <1>6

-----------------------------------------------------------------------------
(***************************************************************************)
(* The tables of peers.                                                    *)
(***************************************************************************)

\* Whom a party writes to in a slot reads from it in that slot, and conversely.
Pairs(T, n, slots) ==
    \A p, q \in 1..n : \A i \in 1..slots :
        /\ T.send[p][i] \in 1..n \union {-1} /\ T.recv[p][i] \in 1..n \union {-1}
        /\ T.send[p][i] = q <=> T.recv[q][i] = p

\* Counting d up and then n - d up comes back to where one was.
LEMMA OffIs ==
    ASSUME NEW n \in CodeParties, NEW p \in 1..n, NEW d \in 1..n-1
    PROVE  /\ Off(p, d, n) = IF p + d <= n THEN p + d ELSE p + d - n
           /\ Off(p, d, n) \in 1..n
<1>1. CASE n = 3
  BY <1>1 DEF Off
<1>2. CASE n = 5
  BY <1>2 DEF Off
<1>3. CASE n = 7
  BY <1>3 DEF Off
<1> QED BY <1>1, <1>2, <1>3 DEF CodeParties

LEMMA OffBack ==
    ASSUME NEW n \in CodeParties, NEW p \in 1..n, NEW q \in 1..n,
           NEW d \in 1..n-1, NEW e \in 1..n-1, d + e = n
    PROVE  Off(p, d, n) = q <=> Off(q, e, n) = p
<1>1. n \in Nat
  BY DEF CodeParties
<1>2. /\ Off(p, d, n) = IF p + d <= n THEN p + d ELSE p + d - n
      /\ Off(q, e, n) = IF q + e <= n THEN q + e ELSE q + e - n
  BY OffIs
<1> QED BY <1>1, <1>2

LEMMA RingPairs ==
    ASSUME NEW n \in CodeParties, NEW slots \in Nat, NEW send, NEW recv,
           DOMAIN send = 1..slots, DOMAIN recv = 1..slots,
           \A i \in 1..slots : send[i] \in 1..n-1 /\ recv[i] \in 1..n-1 /\ send[i] + recv[i] = n
    PROVE  Pairs(Ring(n, send, recv), n, slots)
<1>1. ASSUME NEW p \in 1..n, NEW i \in 1..slots
      PROVE  /\ Ring(n, send, recv).send[p][i] = Off(p, send[i], n)
             /\ Ring(n, send, recv).recv[p][i] = Off(p, recv[i], n)
             /\ Off(p, send[i], n) \in 1..n /\ Off(p, recv[i], n) \in 1..n
  BY OffIs DEF Ring
<1>2. ASSUME NEW p \in 1..n, NEW q \in 1..n, NEW i \in 1..slots
      PROVE  Off(p, send[i], n) = q <=> Off(q, recv[i], n) = p
  BY OffBack
<1> DEFINE T == Ring(n, send, recv)
<1> HIDE DEF T
<1>3. ASSUME NEW p \in 1..n, NEW q \in 1..n, NEW i \in 1..slots
      PROVE  /\ T.send[p][i] \in 1..n \union {-1} /\ T.recv[p][i] \in 1..n \union {-1}
             /\ T.send[p][i] = q <=> T.recv[q][i] = p
  <2>1. /\ T.send[p][i] = Off(p, send[i], n) /\ T.recv[p][i] = Off(p, recv[i], n)
        /\ T.recv[q][i] = Off(q, recv[i], n)
        /\ Off(p, send[i], n) \in 1..n /\ Off(p, recv[i], n) \in 1..n
    BY <1>1 DEF T
  <2> QED BY <1>2, <2>1
<1>4. Pairs(T, n, slots)
  BY <1>3 DEF Pairs
<1> QED BY <1>4 DEF T

LEMMA EdaPairs5 == Pairs(eda_map_5pc, 5, 2)
<1>1. 1..5 = {1, 2, 3, 4, 5} /\ 1..2 = {1, 2}
  OBVIOUS
<1>2. /\ eda_map_5pc.send = << <<5, 4>>, <<1, 5>>, <<2, 1>>, <<-1, -1>>, <<-1, -1>> >>
      /\ eda_map_5pc.recv = << <<2, 3>>, <<3, -1>>, <<-1, -1>>, <<-1, 1>>, <<1, 2>> >>
  BY DEF eda_map_5pc
<1> QED BY <1>1, <1>2 DEF Pairs

LEMMA EdaPairs7 == Pairs(eda_map_7pc, 7, 3)
<1>1. 1..7 = {1, 2, 3, 4, 5, 6, 7} /\ 1..3 = {1, 2, 3}
  OBVIOUS
<1>2. /\ eda_map_7pc.send = << <<7, 6, 5>>, <<1, 7, 6>>, <<2, 1, 7>>, <<3, 2, 1>>,
                               <<-1, -1, -1>>, <<-1, -1, -1>>, <<-1, -1, -1>> >>
      /\ eda_map_7pc.recv = << <<2, 3, 4>>, <<3, 4, -1>>, <<4, -1, -1>>, <<-1, -1, -1>>,
                               <<-1, -1, 1>>, <<-1, 1, 2>>, <<1, 2, 3>> >>
  BY DEF eda_map_7pc
<1> QED BY <1>1, <1>2 DEF Pairs

\* Every call that is no multicast has a table that pairs.
LEMMA TablesPair ==
    ASSUME NEW n \in CodeParties, NEW kind \in {"mult", "open", "eda"}
    PROVE  Pairs(Table(n, kind), n, Threshold(n))
<1>1. CASE n = 3
  <2>1. Pairs(map_3pc, 3, 1)
    <3> DEFINE send == <<2>>
               recv == <<1>>
    <3>1. /\ DOMAIN send = 1..1 /\ DOMAIN recv = 1..1
          /\ \A i \in 1..1 :
                send[i] \in 1..3-1 /\ recv[i] \in 1..3-1 /\ send[i] + recv[i] = 3
      OBVIOUS
    <3>2. map_3pc = Ring(3, send, recv) /\ 3 \in CodeParties /\ 1 \in Nat
      BY DEF map_3pc, CodeParties
    <3> HIDE DEF send, recv
    <3> QED BY <3>1, <3>2, RingPairs
  <2>2. Table(n, kind) = map_3pc /\ Threshold(n) = 1
    BY <1>1 DEF Table, Threshold
  <2> QED BY <1>1, <2>1, <2>2
<1>2. CASE n = 5
  <2>1. Pairs(map_5pc, 5, 2)
    <3> DEFINE send == <<3, 4>>
               recv == <<2, 1>>
    <3>1. /\ DOMAIN send = 1..2 /\ DOMAIN recv = 1..2
          /\ \A i \in 1..2 :
                send[i] \in 1..5-1 /\ recv[i] \in 1..5-1 /\ send[i] + recv[i] = 5
      OBVIOUS
    <3>2. map_5pc = Ring(5, send, recv) /\ 5 \in CodeParties /\ 2 \in Nat
      BY DEF map_5pc, CodeParties
    <3> HIDE DEF send, recv
    <3> QED BY <3>1, <3>2, RingPairs
  <2>2. Pairs(open_map_5pc, 5, 2)
    <3> DEFINE send == <<1, 4>>
               recv == <<4, 1>>
    <3>1. /\ DOMAIN send = 1..2 /\ DOMAIN recv = 1..2
          /\ \A i \in 1..2 :
                send[i] \in 1..5-1 /\ recv[i] \in 1..5-1 /\ send[i] + recv[i] = 5
      OBVIOUS
    <3>2. open_map_5pc = Ring(5, send, recv) /\ 5 \in CodeParties /\ 2 \in Nat
      BY DEF open_map_5pc, CodeParties
    <3> HIDE DEF send, recv
    <3> QED BY <3>1, <3>2, RingPairs
  <2>3. /\ kind = "mult" => Table(n, kind) = map_5pc
        /\ kind = "open" => Table(n, kind) = open_map_5pc
        /\ kind = "eda" => Table(n, kind) = eda_map_5pc
        /\ Threshold(n) = 2
    BY <1>2 DEF Table, Threshold
  <2> QED BY <1>2, <2>1, <2>2, <2>3, EdaPairs5
<1>3. CASE n = 7
  <2>1. Pairs(map_7pc, 7, 3)
    <3> DEFINE send == <<4, 5, 6>>
               recv == <<3, 2, 1>>
    <3>1. /\ DOMAIN send = 1..3 /\ DOMAIN recv = 1..3
          /\ \A i \in 1..3 :
                send[i] \in 1..7-1 /\ recv[i] \in 1..7-1 /\ send[i] + recv[i] = 7
      OBVIOUS
    <3>2. map_7pc = Ring(7, send, recv) /\ 7 \in CodeParties /\ 3 \in Nat
      BY DEF map_7pc, CodeParties
    <3> HIDE DEF send, recv
    <3> QED BY <3>1, <3>2, RingPairs
  <2>2. Pairs(open_map_7pc, 7, 3)
    <3> DEFINE send == <<1, 2, 3>>
               recv == <<6, 5, 4>>
    <3>1. /\ DOMAIN send = 1..3 /\ DOMAIN recv = 1..3
          /\ \A i \in 1..3 :
                send[i] \in 1..7-1 /\ recv[i] \in 1..7-1 /\ send[i] + recv[i] = 7
      OBVIOUS
    <3>2. open_map_7pc = Ring(7, send, recv) /\ 7 \in CodeParties /\ 3 \in Nat
      BY DEF open_map_7pc, CodeParties
    <3> HIDE DEF send, recv
    <3> QED BY <3>1, <3>2, RingPairs
  <2>3. /\ kind = "mult" => Table(n, kind) = map_7pc
        /\ kind = "open" => Table(n, kind) = open_map_7pc
        /\ kind = "eda" => Table(n, kind) = eda_map_7pc
        /\ Threshold(n) = 3
    BY <1>3 DEF Table, Threshold
  <2> QED BY <1>3, <2>1, <2>2, <2>3, EdaPairs7
<1> QED BY <1>1, <1>2, <1>3 DEF CodeParties

-----------------------------------------------------------------------------
(***************************************************************************)
(* What a party does about one frame.                                      *)
(***************************************************************************)
Distinct(s) == \A x, y \in 1..Len(s) : s[x] = s[y] => x = y

\* All parties but p, once each.
LEMMA OthersIs ==
    ASSUME NEW n \in CodeParties, NEW p \in 1..n
    PROVE  /\ Others(n, p) \in Seq(1..n) /\ Distinct(Others(n, p))
           /\ \A q \in 1..n : In(q, Others(n, p)) <=> q # p
<1> DEFINE s == Others(n, p)
<1>1. n \in Nat /\ n - 1 \in Nat
  BY DEF CodeParties
<1>2. s = [j \in 1..n-1 |-> IF j < p THEN j ELSE j + 1]
  BY DEF Others
<1>3. \A j \in 1..n-1 : s[j] = (IF j < p THEN j ELSE j + 1) /\ s[j] \in 1..n /\ s[j] # p
  BY <1>1, <1>2
<1>4. s \in Seq(1..n) /\ Len(s) = n - 1
  <2>1. s = [j \in 1..n-1 |-> s[j]]
    BY <1>2
  <2> HIDE DEF s
  <2> QED BY <1>1, <1>3, <2>1
<1> HIDE DEF s
<1>5. Distinct(s)
  BY <1>1, <1>3, <1>4 DEF Distinct
<1>6. ASSUME NEW q \in 1..n PROVE In(q, s) <=> q # p
  <2>1. In(q, s) => q # p
    BY <1>3, <1>4 DEF In
  <2>2. CASE q < p
    <3>1. q \in 1..n-1 /\ s[q] = q
      BY <1>1, <1>3, <2>2
    <3> QED BY <1>4, <2>2, <3>1 DEF In
  <2>3. CASE q > p
    <3>1. q - 1 \in 1..n-1 /\ ~(q - 1 < p) /\ (q - 1) + 1 = q
      BY <1>1, <2>3
    <3>2. s[q - 1] = q
      BY <1>3, <3>1
    <3> QED BY <1>4, <2>3, <3>1, <3>2 DEF In
  <2> QED BY <2>1, <2>2, <2>3
<1> QED BY <1>4, <1>5, <1>6 DEF s

LEMMA IfAnyIs ==
    ASSUME NEW n \in CodeParties, NEW a \in 1..n \union {-1}
    PROVE  /\ IfAny(a) \in Seq(1..n) /\ Distinct(IfAny(a))
           /\ \A q \in 1..n : In(q, IfAny(a)) <=> a = q
<1>1. CASE a > 0
  <2>1. IfAny(a) = <<a>> /\ a \in 1..n
    BY <1>1 DEF IfAny
  <2>2. <<a>> \in Seq(1..n) /\ Len(<<a>>) = 1 /\ <<a>>[1] = a
    BY <2>1
  <2> QED BY <2>1, <2>2 DEF Distinct, In
<1>2. CASE ~(a > 0)
  <2>1. IfAny(a) = <<>> /\ a \notin 1..n
    BY <1>2 DEF IfAny
  <2> QED BY <2>1 DEF Distinct, In
<1> QED BY <1>1, <1>2

\* A write has its read at the other end, and conversely.
LEMMA Peers ==
    ASSUME NEW n \in CodeParties, NEW c \in CallOf, NEW i \in 1..Slots(n, c), NEW p \in 1..n
    PROVE  /\ Writes(n, c, p, i) \in Seq(1..n) /\ Distinct(Writes(n, c, p, i))
           /\ Reads(n, c, p, i) \in Seq(1..n) /\ Distinct(Reads(n, c, p, i))
           /\ \A q \in 1..n : In(q, Writes(n, c, p, i)) <=> In(p, Reads(n, c, q, i))
<1>1. CASE c.kind = "multicast"
  <2>1. \A q \in 1..n : Writes(n, c, q, i) = Others(n, q) /\ Reads(n, c, q, i) = Others(n, q)
    BY <1>1 DEF Writes, Reads
  <2> QED BY <2>1, OthersIs
<1>2. CASE c.kind # "multicast"
  <2> DEFINE T == Table(n, c.kind)
  <2>1. Pairs(T, n, Slots(n, c))
    <3>1. c.kind \in {"mult", "open", "eda"} /\ Slots(n, c) = Threshold(n)
      BY <1>2 DEF CallOf, Slots
    <3> QED BY <3>1, TablesPair
  <2>2. \A q \in 1..n : /\ Writes(n, c, q, i) = IfAny(T.send[q][i])
                        /\ Reads(n, c, q, i) = IfAny(T.recv[q][i])
    BY <1>2 DEF Writes, Reads
  <2> HIDE DEF T
  <2>3. \A q, r \in 1..n :
           /\ T.send[q][i] \in 1..n \union {-1} /\ T.recv[q][i] \in 1..n \union {-1}
           /\ T.send[q][i] = r <=> T.recv[r][i] = q
    BY <2>1 DEF Pairs
  <2>4. \A q \in 1..n :
           /\ Writes(n, c, q, i) \in Seq(1..n) /\ Distinct(Writes(n, c, q, i))
           /\ Reads(n, c, q, i) \in Seq(1..n) /\ Distinct(Reads(n, c, q, i))
           /\ \A r \in 1..n : /\ In(r, Writes(n, c, q, i)) <=> T.send[q][i] = r
                              /\ In(r, Reads(n, c, q, i)) <=> T.recv[q][i] = r
    <3> TAKE q \in 1..n
    <3>1. /\ T.send[q][i] \in 1..n \union {-1} /\ T.recv[q][i] \in 1..n \union {-1}
          /\ Writes(n, c, q, i) = IfAny(T.send[q][i]) /\ Reads(n, c, q, i) = IfAny(T.recv[q][i])
      BY <2>2, <2>3
    <3>2. /\ IfAny(T.send[q][i]) \in Seq(1..n) /\ Distinct(IfAny(T.send[q][i]))
          /\ \A r \in 1..n : In(r, IfAny(T.send[q][i])) <=> T.send[q][i] = r
      BY <3>1, IfAnyIs
    <3>3. /\ IfAny(T.recv[q][i]) \in Seq(1..n) /\ Distinct(IfAny(T.recv[q][i]))
          /\ \A r \in 1..n : In(r, IfAny(T.recv[q][i])) <=> T.recv[q][i] = r
      BY <3>1, IfAnyIs
    <3> QED BY <3>1, <3>2, <3>3
  <2> QED BY <2>3, <2>4
<1> QED BY <1>1, <1>2

To(q, f) == [do |-> "send", peer |-> q, frame |-> f]
From(q, f) == [do |-> "recv", peer |-> q, frame |-> f]

Operation(n) == [do : {"send", "recv"}, peer : 1..n, frame : Nat]

\* Two operations that may follow each other in a matched program.
Successive(n) ==
    {x \in Operation(n) \X Operation(n) : Rank(x[1]) <= Rank(x[2]) /\ x[1] # x[2]}

LEMMA SuccessiveIs ==
    ASSUME NEW n, NEW d \in Operation(n), NEW e \in Operation(n)
    PROVE  <<d, e>> \in Successive(n) <=> Rank(d) <= Rank(e) /\ d # e
BY DEF Successive

\* One kind of operation, once for each of some peers.
Each(do, w, f) == [x \in DOMAIN w |-> [do |-> do, peer |-> w[x], frame |-> f]]

LEMMA Mapped ==
    ASSUME NEW n, NEW w \in Seq(1..n), Distinct(w), NEW f \in Nat,
           NEW do \in {"send", "recv"}
    PROVE  /\ Each(do, w, f) \in Seq(Operation(n)) /\ Ordered(Each(do, w, f), Successive(n))
           /\ \A e : In(e, Each(do, w, f)) => e.do = do /\ e.frame = f /\ e \in Operation(n)
           /\ \A q : In([do |-> do, peer |-> q, frame |-> f], Each(do, w, f)) <=> In(q, w)
<1> DEFINE op(q) == [do |-> do, peer |-> q, frame |-> f]
           s == [x \in DOMAIN w |-> op(w[x])]
           m == Len(w)
<1>1. m \in Nat /\ DOMAIN w = 1..m /\ \A x \in 1..m : w[x] \in 1..n
  <2> DEFINE P == 1..n
  <2>1. w \in Seq(P)
    OBVIOUS
  <2> HIDE DEF P
  <2>2. m \in Nat /\ DOMAIN w = 1..m /\ \A x \in 1..m : w[x] \in P
    BY <2>1
  <2> QED BY <2>2 DEF P
<1>2. \A q \in 1..n : op(q) \in Operation(n) /\ op(q).do = do /\ op(q).frame = f
  BY DEF Operation
<1>3. \A q, r : op(q) = op(r) => q = r
  <2> TAKE q, r
  <2>1. op(q).peer = q /\ op(r).peer = r
    OBVIOUS
  <2> QED BY <2>1
<1>4. s \in Seq(Operation(n)) /\ Len(s) = m /\ \A x \in 1..m : s[x] = op(w[x])
  <2>1. s = [x \in 1..m |-> op(w[x])]
    BY <1>1
  <2> HIDE DEF op, m
  <2> QED BY <1>1, <1>2, <2>1
<1>5. \A q, r \in 1..n : Rank(op(q)) <= Rank(op(r))
  <2>1. \A q : Rank(op(q)) = 2 * f + (IF do = "recv" THEN 1 ELSE 0)
    BY DEF Rank
  <2> HIDE DEF op
  <2> QED BY <2>1
<1> HIDE DEF s, op, m
<1>6. Ordered(s, Successive(n))
  <2> SUFFICES ASSUME NEW x \in 1..m, NEW y \in 1..m, x < y
               PROVE  <<s[x], s[y]>> \in Successive(n)
    BY <1>4 DEF Ordered
  <2>1. w[x] # w[y]
    BY <1>1 DEF Distinct, m
  <2>2. op(w[x]) # op(w[y]) /\ Rank(op(w[x])) <= Rank(op(w[y]))
    BY <1>1, <1>3, <1>5, <2>1
  <2> QED BY <1>1, <1>2, <1>4, <2>2, SuccessiveIs
<1>7. ASSUME NEW e, In(e, s)
      PROVE  e.do = do /\ e.frame = f /\ e \in Operation(n)
  <2>1. PICK x \in 1..m : e = op(w[x])
    BY <1>4, <1>7 DEF In
  <2> QED BY <1>1, <1>2, <2>1
<1>8. ASSUME NEW q PROVE In(op(q), s) <=> In(q, w)
  <2>1. In(op(q), s) <=> \E x \in 1..m : op(w[x]) = op(q)
    BY <1>4 DEF In
  <2>2. In(q, w) <=> \E x \in 1..m : w[x] = q
    BY DEF In, m
  <2> QED BY <1>3, <2>1, <2>2
<1>9. s = Each(do, w, f)
  BY DEF s, op, Each
<1> QED BY <1>4, <1>6, <1>7, <1>8, <1>9 DEF op

\* A party's operations on one frame: the writes, then the reads.
LEMMA OpsIs ==
    ASSUME NEW n \in CodeParties, NEW c \in CallOf, NEW i \in 1..Slots(n, c),
           NEW p \in 1..n, NEW f \in Nat
    PROVE  /\ Ops(n, c, p, i, f) \in Seq(Operation(n))
           /\ Ordered(Ops(n, c, p, i, f), Successive(n))
           /\ \A e : In(e, Ops(n, c, p, i, f)) => e.frame = f /\ e \in Operation(n)
           /\ \A q : /\ In(To(q, f), Ops(n, c, p, i, f)) <=> In(q, Writes(n, c, p, i))
                     /\ In(From(q, f), Ops(n, c, p, i, f)) <=> In(q, Reads(n, c, p, i))
<1> DEFINE w == Writes(n, c, p, i)
           r == Reads(n, c, p, i)
           s == Each("send", w, f)
           t == Each("recv", r, f)
           o == Ops(n, c, p, i, f)
<1>1. w \in Seq(1..n) /\ Distinct(w) /\ r \in Seq(1..n) /\ Distinct(r)
  BY Peers
<1>2. o = s \o t
  BY DEF Ops, Each
<1> HIDE DEF w, r, o
<1>3. /\ s \in Seq(Operation(n)) /\ Ordered(s, Successive(n))
      /\ \A e : In(e, s) => e.do = "send" /\ e.frame = f /\ e \in Operation(n)
      /\ \A q : In([do |-> "send", peer |-> q, frame |-> f], s) <=> In(q, w)
  BY <1>1, Mapped
<1>4. /\ t \in Seq(Operation(n)) /\ Ordered(t, Successive(n))
      /\ \A e : In(e, t) => e.do = "recv" /\ e.frame = f /\ e \in Operation(n)
      /\ \A q : In([do |-> "recv", peer |-> q, frame |-> f], t) <=> In(q, r)
  BY <1>1, Mapped
<1> HIDE DEF s, t
<1>5. \A d, e : In(d, s) /\ In(e, t) => <<d, e>> \in Successive(n)
  <2> SUFFICES ASSUME NEW d, NEW e, In(d, s), In(e, t) PROVE <<d, e>> \in Successive(n)
    OBVIOUS
  <2>1. /\ d.do = "send" /\ d.frame = f /\ d \in Operation(n)
        /\ e.do = "recv" /\ e.frame = f /\ e \in Operation(n)
    BY <1>3, <1>4
  <2>2. Rank(d) = 2 * f + 0 /\ Rank(e) = 2 * f + 1 /\ d # e
    BY <2>1 DEF Rank
  <2> QED BY <2>1, <2>2, SuccessiveIs
<1>6. /\ o \in Seq(Operation(n)) /\ Ordered(o, Successive(n))
      /\ \A e : In(e, o) <=> In(e, s) \/ In(e, t)
  BY <1>2, <1>3, <1>4, <1>5, Concat
<1>7. ASSUME NEW q
      PROVE  (In(To(q, f), o) <=> In(q, w)) /\ (In(From(q, f), o) <=> In(q, r))
  <2>1. To(q, f).do = "send" /\ From(q, f).do = "recv"
    BY DEF To, From
  <2>2. (In(To(q, f), s) <=> In(q, w)) /\ (In(From(q, f), t) <=> In(q, r))
    BY <1>3, <1>4 DEF To, From
  <2>3. ~In(To(q, f), t) /\ ~In(From(q, f), s)
    BY <1>3, <1>4, <2>1
  <2> QED BY <1>6, <2>2, <2>3
<1>8. \A e : In(e, o) => e.frame = f /\ e \in Operation(n)
  BY <1>3, <1>4, <1>6
<1> QED BY <1>6, <1>7, <1>8 DEF o, w, r

-----------------------------------------------------------------------------
(***************************************************************************)
(* A script.                                                               *)
(***************************************************************************)

\* A party's program: what it does about each frame of the plan, in order.
LEMMA Program ==
    ASSUME NEW n \in CodeParties, NEW calls \in Seq(CallOf), NEW p \in 1..n
    PROVE  LET s == Script(n, calls)
               plan == Plan(n, calls) IN
           /\ s.prog[p] \in Seq(OpOf(s)) /\ Ordered(s.prog[p], Successive(n))
           /\ \A f \in 1..Len(plan) : \A q :
                 /\ In(To(q, f), s.prog[p]) <=>
                       In(q, Writes(n, calls[plan[f].call], p, plan[f].slot))
                 /\ In(From(q, f), s.prog[p]) <=>
                       In(q, Reads(n, calls[plan[f].call], p, plan[f].slot))
<1> DEFINE s == Script(n, calls)
           plan == Plan(n, calls)
           F == 1..Len(plan)
           of(f) == Ops(n, calls[plan[f].call], p, plan[f].slot, f)
           seqs == [f \in DOMAIN plan |-> of(f)]
           O == {o \in Operation(n) : o.frame \in F}
<1>1. /\ Len(plan) \in Nat /\ DOMAIN plan = F
      /\ \A f \in F : /\ calls[plan[f].call] \in CallOf
                      /\ plan[f].slot \in 1..Slots(n, calls[plan[f].call])
  BY PlanIs
<1>2. s.prog[p] = FlattenSeq(seqs) /\ s.n = n /\ Len(s.frames) = Len(plan)
  <2>1. s.frames = [f \in DOMAIN plan |->
           Frame(n, calls[plan[f].call], plan[f].call, plan[f].slot, plan[f].round)]
    BY DEF Script
  <2>2. Len(s.frames) = Len(plan)
    <3> HIDE DEF s, plan
    <3> QED BY <1>1, <2>1
  <2>3. s.prog[p] = FlattenSeq(seqs) /\ s.n = n
    BY DEF Script
  <2> QED BY <2>2, <2>3
<1>3. OpOf(s) = O
  <2>1. OpOf(s) = [do : {"send", "recv"}, peer : 1..n, frame : F]
    <3> HIDE DEF s, plan
    <3> QED BY <1>2 DEF OpOf
  <2>2. F \subseteq Nat
    OBVIOUS
  <2> HIDE DEF F
  <2> QED BY <2>1, <2>2 DEF Operation
<1>4. ASSUME NEW f \in F
      PROVE  /\ of(f) \in Seq(O) /\ Ordered(of(f), Successive(n))
             /\ \A e : In(e, of(f)) => e.frame = f /\ e \in Operation(n)
             /\ \A q : /\ In(To(q, f), of(f)) <=>
                             In(q, Writes(n, calls[plan[f].call], p, plan[f].slot))
                       /\ In(From(q, f), of(f)) <=>
                             In(q, Reads(n, calls[plan[f].call], p, plan[f].slot))
  <2> DEFINE c == calls[plan[f].call]
             i == plan[f].slot
             o == of(f)
  <2>1. c \in CallOf /\ i \in 1..Slots(n, c) /\ f \in Nat
    BY <1>1
  <2>2. o = Ops(n, c, p, i, f)
    OBVIOUS
  <2> HIDE DEF c, i, o, of, plan
  <2>3. /\ o \in Seq(Operation(n)) /\ Ordered(o, Successive(n))
        /\ \A e : In(e, o) => e.frame = f /\ e \in Operation(n)
        /\ \A q : /\ In(To(q, f), o) <=> In(q, Writes(n, c, p, i))
                  /\ In(From(q, f), o) <=> In(q, Reads(n, c, p, i))
    BY <2>1, <2>2, OpsIs
  <2>4. \A e : In(e, o) => e \in O
    BY <2>3
  <2>5. o \in Seq(O)
    <3>1. \A x \in 1..Len(o) : o[x] \in O
      BY <2>4 DEF In
    <3> HIDE DEF O
    <3>2. o \in [1..Len(o) -> O] /\ Len(o) \in Nat
      BY <2>3, <3>1
    <3> QED BY <3>2
  <2> QED BY <2>3, <2>5 DEF o, c, i
<1> HIDE DEF of, plan, O, s
<1>5. seqs \in Seq(Seq(O)) /\ Len(seqs) = Len(plan) /\ \A f \in F : seqs[f] = of(f)
  BY <1>1, <1>4
<1> HIDE DEF seqs, F
<1>6. /\ \A a \in F : Ordered(seqs[a], Successive(n))
      /\ \A a, b \in F : a < b =>
            \A d, e : In(d, seqs[a]) /\ In(e, seqs[b]) => <<d, e>> \in Successive(n)
  <2>1. ASSUME NEW a \in F, NEW b \in F, a < b, NEW d, NEW e,
               In(d, seqs[a]), In(e, seqs[b])
        PROVE  <<d, e>> \in Successive(n)
    <3>1. /\ d.frame = a /\ d \in Operation(n) /\ e.frame = b /\ e \in Operation(n)
      BY <1>4, <1>5, <2>1
    <3>2. a \in Nat /\ b \in Nat
      BY DEF F
    <3>3. Rank(d) \in {2 * a, 2 * a + 1} /\ Rank(e) \in {2 * b, 2 * b + 1}
      BY <3>1, <3>2 DEF Rank
    <3>4. Rank(d) <= Rank(e) /\ d # e
      BY <2>1, <3>1, <3>2, <3>3
    <3> QED BY <3>1, <3>4, SuccessiveIs
  <2>2. \A a \in F : Ordered(seqs[a], Successive(n))
    BY <1>4, <1>5
  <2> QED BY <2>1, <2>2
<1>7. /\ s.prog[p] \in Seq(O) /\ Ordered(s.prog[p], Successive(n))
      /\ \A e : In(e, s.prog[p]) <=> \E b \in F : In(e, seqs[b])
  <2>1. F = 1..Len(seqs)
    BY <1>5 DEF F
  <2> QED BY <1>2, <1>5, <1>6, <2>1, Flatten
<1>8. ASSUME NEW f \in F, NEW e, e.frame = f
      PROVE  In(e, s.prog[p]) <=> In(e, of(f))
  <2>1. \A b \in F : In(e, seqs[b]) => b = f
    BY <1>4, <1>5, <1>8
  <2> QED BY <1>5, <1>7, <2>1
<1>9. \A q, f : To(q, f).frame = f /\ From(q, f).frame = f
  BY DEF To, From
<1>10. \A f \in F : \A q :
          /\ In(To(q, f), s.prog[p]) <=> In(To(q, f), of(f))
          /\ In(From(q, f), s.prog[p]) <=> In(From(q, f), of(f))
  BY <1>8, <1>9
<1>11. \A f \in F : \A q :
          /\ In(To(q, f), s.prog[p]) <=>
                In(q, Writes(n, calls[plan[f].call], p, plan[f].slot))
          /\ In(From(q, f), s.prog[p]) <=>
                In(q, Reads(n, calls[plan[f].call], p, plan[f].slot))
  BY <1>4, <1>10
<1> QED BY <1>3, <1>7, <1>11 DEF s, plan, F

\* The operations of any list of calls are matched: whatever is called, with
\* vectors of whatever size, every write meets its read.
THEOREM CallsMatch ==
    ASSUME NEW n \in CodeParties, NEW calls \in Seq(CallOf),
           SocketBuffer >= BufferSize \div 3 + Overhead
    PROVE  Matched(Script(n, calls))
<1> DEFINE s == Script(n, calls)
           plan == Plan(n, calls)
<1>1. /\ s.n = n /\ n \in Nat
      /\ s.frames = [f \in DOMAIN plan |->
            Frame(n, calls[plan[f].call], plan[f].call, plan[f].slot, plan[f].round)]
      /\ DOMAIN s.prog = 1..n /\ s.prog = [p \in 1..n |-> s.prog[p]]
  BY DEF Script, CodeParties
<1>2. /\ Len(plan) \in Nat /\ DOMAIN plan = 1..Len(plan)
      /\ \A f \in 1..Len(plan) : /\ calls[plan[f].call] \in CallOf
                                 /\ plan[f].slot \in 1..Slots(n, calls[plan[f].call])
  BY PlanIs
<1>3. \A p \in 1..n :
        /\ s.prog[p] \in Seq(OpOf(s)) /\ Ordered(s.prog[p], Successive(n))
        /\ \A f \in 1..Len(plan) : \A q :
              /\ In(To(q, f), s.prog[p]) <=>
                    In(q, Writes(n, calls[plan[f].call], p, plan[f].slot))
              /\ In(From(q, f), s.prog[p]) <=>
                    In(q, Reads(n, calls[plan[f].call], p, plan[f].slot))
  BY Program
<1> HIDE DEF s, plan
<1>4. Len(s.frames) = Len(plan)
  BY <1>1, <1>2
<1>5. \A f \in 1..Len(plan) :
        s.frames[f].bytes \in Nat /\ s.frames[f].bytes <= SocketBuffer
  <2> TAKE f \in 1..Len(plan)
  <2> DEFINE c == calls[plan[f].call]
             b == GetRounds(n, c).count * c.unit
  <2>1. c \in CallOf
    BY <1>2
  <2>2. s.frames[f].bytes = b + Overhead
    BY <1>1, <1>2 DEF Frame
  <2> HIDE DEF c
  <2>3. b \in Nat /\ b <= BufferSize \div 3 /\ BufferSize \div 3 \in Nat
    BY <2>1, Rounds DEF BufferSize
  <2> HIDE DEF b
  <2> QED BY <2>2, <2>3, BufferAssumption DEF Overhead
<1>6. WellTyped(s)
  <2>1. s.prog \in [1..n -> Seq(OpOf(s))]
    <3> HIDE DEF OpOf
    <3> QED BY <1>1, <1>3
  <2> QED BY <1>1, <1>2, <1>4, <1>5, <2>1 DEF WellTyped
<1>7. InOrder(s)
  <2> SUFFICES ASSUME NEW p \in 1..n, NEW i \in 1..Len(s.prog[p]), NEW j \in 1..Len(s.prog[p]),
                      i < j
               PROVE  /\ Rank(s.prog[p][i]) <= Rank(s.prog[p][j])
                      /\ s.prog[p][i] # s.prog[p][j]
    BY <1>1 DEF InOrder
  <2>1. <<s.prog[p][i], s.prog[p][j]>> \in Successive(n)
    BY <1>3 DEF Ordered
  <2> QED BY <2>1 DEF Successive
<1>8. Paired(s)
  <2> SUFFICES ASSUME NEW p \in 1..n, NEW q \in 1..n, NEW f \in 1..Len(plan)
               PROVE  Does(s, p, "send", q, f) <=> Does(s, q, "recv", p, f)
    BY <1>1, <1>4 DEF Paired
  <2>1. /\ Does(s, p, "send", q, f) <=> In(To(q, f), s.prog[p])
        /\ Does(s, q, "recv", p, f) <=> In(From(p, f), s.prog[q])
    BY DEF Does, In, To, From
  <2> DEFINE c == calls[plan[f].call]
             i == plan[f].slot
  <2>2. /\ In(To(q, f), s.prog[p]) <=> In(q, Writes(n, c, p, i))
        /\ In(From(p, f), s.prog[q]) <=> In(p, Reads(n, c, q, i))
    BY <1>3
  <2>3. c \in CallOf /\ i \in 1..Slots(n, c)
    BY <1>2
  <2> HIDE DEF c, i
  <2>4. In(q, Writes(n, c, p, i)) <=> In(p, Reads(n, c, q, i))
    BY <2>3, Peers
  <2> QED BY <2>1, <2>2, <2>4
<1>9. FrameFits(s)
  BY <1>4, <1>5 DEF FrameFits
<1> QED BY <1>6, <1>7, <1>8, <1>9 DEF Matched, s

-----------------------------------------------------------------------------
(***************************************************************************)
(* Exchange, running any lists of calls.                                   *)
(***************************************************************************)
CodeScripts == {Script(n, calls) : n \in CodeParties, calls \in Seq(CallOf)}

\* What is assumed of an instance: it runs calls, and the kernel's buffer holds
\* the largest chunk.
RunsCalls ==
    Scripts \subseteq CodeScripts /\ SocketBuffer >= BufferSize \div 3 + Overhead

LEMMA AllMatched ==
    ASSUME RunsCalls
    PROVE  \A s \in Scripts : Matched(s)
BY CallsMatch DEF RunsCalls, CodeScripts

\* The tables and loops of the code pair every write with a read, in every
\* program of calls.
THEOREM ScriptsMatchedTheorem ==
    ASSUME RunsCalls
    PROVE  Spec => []ScriptsMatched
<1>1. IInv => ScriptsMatched
  BY DEF IInv, ScriptsMatched
<1> QED BY <1>1, AllMatched, Invariance, PTL

\* Whatever the parties call, no untagged chunk is taken for another one, they
\* never all wait for each other, and no chunk is left for the next program.
THEOREM CallsAreSafe ==
    ASSUME RunsCalls
    PROVE  Spec => [](FrameMatch /\ NoDeadlock /\ Drained)
<1>1. (Spec => []FrameMatch) /\ (Spec => []NoDeadlock) /\ (Spec => []Drained)
  BY AllMatched, FrameMatchTheorem, NoDeadlockTheorem, DrainedTheorem
<1> QED BY <1>1, PTL

\* getRounds cuts the vectors at the boundaries of the run without a gap.
LEMMA Boundaries ==
    ASSUME IInv, RunsCalls
    PROVE  RoundsCover
<1>1. script \in CodeScripts
  BY DEF IInv, TypeOK, RunsCalls
<1>2. PICK n \in CodeParties : script.n = n
  BY <1>1 DEF CodeScripts, Script
<1> SUFFICES ASSUME NEW unit \in {1, 2, 4, 8}
             PROVE  LET count == (BufferSize \div n) \div unit IN
                    \A size \in {1, 2, count - 1, count, count + 1, 2*count - 1, 2*count,
                                 2*count + 1, 5*count} :
                        Covers(n, [size |-> size, unit |-> unit])
  BY <1>2 DEF RoundsCover
<1> DEFINE count == (BufferSize \div n) \div unit
<1>3. count \in Nat /\ count >= 2
  <2>1. BufferSize \div n \in {76458, 45875, 32768}
    BY DEF BufferSize, CodeParties
  <2> QED BY <2>1
<1>4. ASSUME NEW size \in Nat \ {0}
      PROVE  Covers(n, [size |-> size, unit |-> unit])
  <2>1. GetRounds(n, [size |-> size, unit |-> unit]).count = count
    BY DEF GetRounds
  <2>2. CallOK(n, [size |-> size, unit |-> unit])
    <3> HIDE DEF count
    <3> QED BY <1>3, <2>1 DEF CallOK
  <2> QED BY <2>2, CoversTheorem
<1> HIDE DEF count
<1>5. {1, 2, count - 1, count, count + 1, 2*count - 1, 2*count, 2*count + 1, 5*count}
         \subseteq Nat \ {0}
  BY <1>3
<1> QED BY <1>4, <1>5 DEF count

\* The rounds carry every element of a vector once, in every state of a run.
THEOREM RoundsCoverTheorem ==
    ASSUME RunsCalls
    PROVE  Spec => []RoundsCover
<1>1. IInv => RoundsCover
  BY Boundaries
<1> QED BY <1>1, AllMatched, Invariance, PTL
=============================================================================
