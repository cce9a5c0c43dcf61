----------------------------- MODULE Rss3Proofs -----------------------------
(***************************************************************************)
(* Three parties compute what one trusted machine would, for every ring,   *)
(* every width of words above it, every program that writes a register     *)
(* once, all inputs, all streams and any contents of uninitialized memory. *)
(*                                                                         *)
(* The argument.  What a party sends in instruction i depends, in the      *)
(* ring, only on its shares of the operands and on the words number        *)
(* Draws(i) + 1 of its two streams, and neither changes any more: Message. *)
(* A socket holds the messages of the instructions its writer has begun    *)
(* and its reader has not ended.  So what a party reads in instruction i   *)
(* is its neighbour's Message(i), both holders of a product's share build  *)
(* it from the same message and the same word, and the three shares add up *)
(* to the product of the secrets: the words drawn cancel.                  *)
(***************************************************************************)
EXTENDS Rss3, WordProofs

Op(i) == program[i].op
Steps == 1 .. Len(program)

\* How many of the instructions before i are one of ops.
Before(i, ops) == Cardinality({j \in 1 .. i - 1 : Op(j) \in ops})

\* How many words a party has taken from each of its streams when it comes to
\* instruction i.
Draws(i) == Before(i, {"mult", "multpub"})
Publics(i) == Before(i, {"multpub"})

\* The last instruction in which p has sent.
Sends(p) == IF busy[p] THEN pc[p] ELSE pc[p] - 1

\* The word of stream s that instruction i uses.
Word3(s, i) == stream[s][Draws(i) + 1]

\* What p sends in instruction i.
Term(p, i) ==
    LET a == shares[p][program[i].x]
        b == shares[p][program[i].y] IN
    IF Op(i) = "open" THEN a[2]
    ELSE IF Op(i) = "mult" THEN Local(a, b) - Word3(Up(p, 2), i)
    ELSE Local(a, b) + Sign(p)[1] * Word3(Up(p, 1), i) + Sign(p)[2] * Word3(Up(p, 2), i)

Message(p, i) == Mask(Term(p, i))

-----------------------------------------------------------------------------
\* What the program is, said of the state.
ProgramOK ==
    /\ Len(program) \in Nat /\ DOMAIN program = Steps
    /\ stream \in [Party -> Seq(0 .. 2^R - 1)]
    /\ \A s \in Party : Len(program) <= Len(stream[s])
    /\ \A i \in Steps :
          /\ Op(i) \in {"mult", "open", "multpub"}
          /\ program[i].dst \in Registers
          /\ \A r \in {program[i].x, program[i].y} :
                /\ r \in Registers
                /\ r \notin Written(program) \/
                   \E j \in 1 .. i - 1 : Op(j) = "mult" /\ program[j].dst = r
    /\ \A i, j \in Steps : program[i].dst = program[j].dst => i = j

\* The registers a party has: the inputs and its finished products.
Has(p, r) ==
    r \notin Written(program) \/
    \E j \in 1 .. pc[p] - 1 : Op(j) = "mult" /\ program[j].dst = r

Known ==
    \A p \in Party, r \in Registers : shares[p][r] # Unknown <=> Has(p, r)

NotYetOpened ==
    \A p \in Party, r \in Registers :
        opened[p][r] # Unknown => \E j \in 1 .. pc[p] - 1 : program[j].dst = r

InputsAgree ==
    \A p \in Party, r \in Registers :
        r \notin Written(program) =>
            Mask(shares[p][r][2]) = Mask(shares[Up(p, 1)][r][1])

BusyRuns == \A p \in Party : busy[p] => Running(p)

Counts ==
    \A p \in Party :
        /\ drawn[p][1] = Draws(pc[p]) +
              (IF busy[p] /\ Op(pc[p]) = "multpub" THEN 1 ELSE 0)
        /\ drawn[p][2] = Draws(Sends(p) + 1)

\* What is on its way to the neighbour that every instruction sends to.
Queues ==
    \A p \in Party : LET q == Up(p, 2) IN
        /\ Len(chan[p][q]) = Sends(p) - (pc[q] - 1)
        /\ \A k \in 1 .. Len(chan[p][q]) : chan[p][q][k] = Message(p, pc[q] - 1 + k)

\* The other neighbour gets the messages of public products only.
PublicQueues ==
    \A p \in Party : LET q == Up(p, 1) IN
        /\ Len(chan[p][q]) = Publics(Sends(p) + 1) - Publics(pc[q])
        /\ \A i \in pc[q] .. Sends(p) : Op(i) = "multpub" =>
              chan[p][q][Publics(i) - Publics(pc[q]) + 1] = Message(p, i)

\* The locals between the send and the receive.
Locals ==
    \A p \in Party : busy[p] =>
        /\ Op(pc[p]) = "mult" =>
              Mask(v[p][1]) = Mask(Word3(Up(p, 2), pc[p])) /\ v[p][2] = Message(p, pc[p])
        /\ Op(pc[p]) = "multpub" => Mask(v[p][1]) = Message(p, pc[p])

\* A product's shares are a word of the share's stream plus a message.
Products ==
    \A p \in Party, j \in Steps :
        (j < pc[p] /\ Op(j) = "mult") =>
            LET c == shares[p][program[j].dst] IN
            /\ Mask(c[1]) = Mask(Word3(Up(p, 1), j) + Message(p, j))
            /\ Mask(c[2]) = Mask(Word3(Up(p, 2), j) + Message(Up(p, 1), j))

IInv ==
    /\ TypeOK /\ ProgramOK /\ BusyRuns
    /\ Known /\ NotYetOpened /\ InputsAgree
    /\ Counts /\ Queues /\ PublicQueues /\ Locals /\ Products

-----------------------------------------------------------------------------
(***************************************************************************)
(* Calculating in the ring.                                                *)
(***************************************************************************)
LEMMA Widths ==
    /\ 2^K \in Nat \ {0} /\ 2^R \in Nat \ {0} /\ 2^W \in Nat \ {0}
    /\ 2^(R-K) \in Nat \ {0} /\ 2^(W-K) \in Nat \ {0} /\ 2^(W-R) \in Nat \ {0}
    /\ 2^R = 2^K * 2^(R-K) /\ 2^W = 2^K * 2^(W-K) /\ 2^W = 2^R * 2^(W-R)
<1>1. /\ K \in Nat /\ R \in Nat /\ W \in Nat
      /\ R - K \in Nat /\ W - K \in Nat /\ W - R \in Nat
      /\ K + (R - K) = R /\ K + (W - K) = W /\ R + (W - R) = W
  BY WidthAssumption
<1>2. /\ 2^K \in Nat \ {0} /\ 2^R \in Nat \ {0} /\ 2^W \in Nat \ {0}
      /\ 2^(R-K) \in Nat \ {0} /\ 2^(W-K) \in Nat \ {0} /\ 2^(W-R) \in Nat \ {0}
  BY <1>1, PowerPositive
<1>3. 2^(K + (R-K)) = 2^K * 2^(R-K)
  BY <1>1, PowerSum
<1>4. 2^(K + (W-K)) = 2^K * 2^(W-K)
  BY <1>1, PowerSum
<1>5. 2^(R + (W-R)) = 2^R * 2^(W-R)
  BY <1>1, PowerSum
<1> QED BY <1>1, <1>2, <1>3, <1>4, <1>5

\* Masking and wrapping give words; masking twice, or wrapping first, is
\* masking once.
LEMMA Masks ==
    ASSUME NEW x \in Int
    PROVE  /\ Mask(x) \in 0 .. 2^K - 1 /\ Mask(x) \in Int /\ Mask(x) \in Word
           /\ Wrap(x) \in Word /\ Wrap(x) \in Int
           /\ Mask(Mask(x)) = Mask(x)
           /\ Mask(Wrap(x)) = Mask(x)
<1> DEFINE m == 2^K
           c == 2^(W-K)
           n == 2^W
<1>1. m \in Nat \ {0} /\ c \in Nat \ {0} /\ n \in Nat \ {0} /\ n = m * c
  BY Widths
<1>2. (x % m) \in 0 .. m - 1 /\ (x % n) \in 0 .. n - 1
  BY <1>1, Divide
<1>3. (x % m) % m = x % m /\ (x % (m * c)) % m = x % m
  BY <1>1, ModMod
<1>4. m <= n
  <2> HIDE DEF m, n, c
  <2> QED BY <1>1, Z3
<1>5. /\ Mask(x) = x % m /\ Wrap(x) = x % n /\ Word = 0 .. n - 1
      /\ Mask(Mask(x)) = (x % m) % m /\ Mask(Wrap(x)) = (x % n) % m
  BY DEF Mask, Wrap, Word
<1>6. (x % m) \in 0 .. n - 1 /\ (x % m) \in Int /\ (x % n) \in Int
  <2> HIDE DEF m, n
  <2> QED BY <1>1, <1>2, <1>4
<1> QED BY <1>1, <1>2, <1>3, <1>5, <1>6

LEMMA WordsAreIntegers ==
    ASSUME NEW x \in Word
    PROVE  x \in Nat /\ x \in Int
BY Widths DEF Word

\* The mask of a sum, difference or product is that of its masked operands.
LEMMA MaskOps ==
    ASSUME NEW a \in Int, NEW b \in Int, NEW c \in Int, NEW d \in Int,
           Mask(a) = Mask(c), Mask(b) = Mask(d)
    PROVE  /\ Mask(a + b) = Mask(c + d)
           /\ Mask(a - b) = Mask(c - d)
           /\ Mask(a * b) = Mask(c * d)
<1>1. 2^K \in Nat \ {0} /\ a % 2^K = c % 2^K /\ b % 2^K = d % 2^K
  BY Widths DEF Mask
<1>2. (a + b) % 2^K = (c + d) % 2^K
  BY <1>1, ModAdd
<1>3. (a - b) % 2^K = (c - d) % 2^K
  BY <1>1, ModSub
<1>4. (a * b) % 2^K = (c * d) % 2^K
  BY <1>1, ModMul
<1> QED BY <1>2, <1>3, <1>4 DEF Mask

LEMMA MaskShift ==
    ASSUME NEW a \in Int, NEW c \in Int, NEW b \in Int, Mask(a) = Mask(c)
    PROVE  /\ Mask(a + b) = Mask(c + b)
           /\ Mask(a - b) = Mask(c - b)
<1> DEFINE d == b
<1>1. d \in Int /\ Mask(b) = Mask(d)
  OBVIOUS
<1> HIDE DEF d
<1>2. Mask(a + b) = Mask(c + d) /\ Mask(a - b) = Mask(c - d)
  BY <1>1, MaskOps
<1> QED BY <1>2 DEF d

\* Sums, named so that the provers recognise them.
Sum2(a, b) == a + b

LEMMA MaskTwo ==
    ASSUME NEW a \in Int, NEW c \in Int, NEW b \in Int, Mask(a) = Mask(c)
    PROVE  Mask(Sum2(a, b)) = Mask(Sum2(c, b))
BY MaskShift DEF Sum2

Sum3(a, b, c) == a + b + c

LEMMA MaskThree ==
    ASSUME NEW a \in Int, NEW b \in Int, NEW c \in Int,
           NEW d \in Int, NEW e \in Int, NEW f \in Int,
           Mask(a) = Mask(d), Mask(b) = Mask(e), Mask(c) = Mask(f)
    PROVE  Mask(Sum3(a, b, c)) = Mask(Sum3(d, e, f))
<1> DEFINE u == a + b
           w == d + e
<1>1. u \in Int /\ w \in Int /\ Mask(u) = Mask(w)
  BY MaskOps
<1> HIDE DEF u, w
<1>2. Mask(u + c) = Mask(w + f)
  BY <1>1, MaskOps
<1> QED BY <1>2 DEF u, w, Sum3

\* Masks let themselves be left out of a sum.
LEMMA MaskSum ==
    ASSUME NEW a \in Int, NEW b \in Int
    PROVE  /\ Mask(Mask(a) + b) = Mask(a + b)
           /\ Mask(a + Mask(b)) = Mask(a + b)
           /\ Mask(Mask(a) + Mask(b)) = Mask(a + b)
<1>1. /\ Mask(a) \in Int /\ Mask(Mask(a)) = Mask(a)
      /\ Mask(b) \in Int /\ Mask(Mask(b)) = Mask(b)
  BY Masks
<1> DEFINE c == Mask(a)
           d == Mask(b)
<1>2. c \in Int /\ d \in Int /\ Mask(c) = Mask(a) /\ Mask(d) = Mask(b)
  BY <1>1
<1> HIDE DEF c, d
<1>3. Mask(c + b) = Mask(a + b) /\ Mask(a + d) = Mask(a + b) /\ Mask(c + d) = Mask(a + b)
  BY <1>2, MaskOps
<1> QED BY <1>3 DEF c, d

\* The bits that memcpy leaves above a random word are no part of the ring.
LEMMA MaskOver ==
    ASSUME NEW old \in Nat, NEW word \in Int
    PROVE  Over(old, word) \in Int /\ Mask(Over(old, word)) = Mask(word)
<1> DEFINE m == 2^K
           b == 2^(R-K)
           q == old \div 2^R
<1>1. m \in Nat \ {0} /\ b \in Nat \ {0} /\ 2^R \in Nat \ {0} /\ 2^R = m * b
  BY Widths
<1>2. q \in Int
  BY <1>1, Divide
<1>3. Over(old, word) = q * (m * b) + word
  BY <1>1 DEF Over
<1>4. Mask(word) = word % m
  BY DEF Mask
<1>5. Mask(Over(old, word)) = (q * (m * b) + word) % m
  BY <1>3 DEF Mask
<1> HIDE DEF m, b, q
<1> DEFINE f == q * b
<1>6. q * (m * b) + word = word + f * m /\ f \in Int /\ q * (m * b) + word \in Int
  BY <1>1, <1>2, Z3
<1> HIDE DEF f
<1>7. (word + f * m) % m = word % m
  BY <1>1, <1>6, SameRemainder
<1> QED BY <1>3, <1>4, <1>5, <1>6, <1>7

LEMMA OverGarbage ==
    ASSUME NEW old \in Garbage, NEW word \in 0 .. 2^R - 1
    PROVE  old \in Nat /\ Over(old, word) \in Word
<1> DEFINE r == 2^R
           g == 2^(W-R)
<1>1. r \in Nat \ {0} /\ g \in Nat \ {0} /\ 2^W = r * g
  BY Widths
<1>2. PICK h \in 0 .. g - 1 : old = h * r
  BY DEF Garbage
<1>3. word \in 0 .. r - 1 /\ Word = 0 .. r * g - 1
  BY <1>1 DEF Word
<1>4. Over(old, word) = (old \div r) * r + word
  BY DEF Over
<1> HIDE DEF r, g
<1>5. old \in Nat
  BY <1>1, <1>2, Z3
<1>6. old \div r \in Int /\ old % r \in 0 .. r - 1 /\ old = (old \div r) * r + (old % r)
  BY <1>1, <1>5, Divide
<1>7. old % r = 0
  <2>1. h * r + 0 = (old \div r) * r + (old % r) /\ h \in Int /\ 0 \in 0 .. r - 1
    BY <1>1, <1>2, <1>6
  <2>2. (h * r + 0 = (old \div r) * r + (old % r)) => (0 = old % r)
    BY <1>1, <1>6, <2>1, RemainderUnique
  <2> QED BY <2>1, <2>2
<1>8. Over(old, word) = h * r + word
  <2>1. (old \div r) * r \in Int
    BY <1>1, <1>6, Z3
  <2>2. (old \div r) * r = old
    BY <1>5, <1>6, <1>7, <2>1
  <2> QED BY <1>2, <1>4, <2>2
<1>9. h * r + word >= 0 /\ h * r + word < r * g /\ h * r + word \in Int
  <2>1. h * r <= (g - 1) * r
    BY <1>1, <1>2, Z3
  <2>2. (g - 1) * r = r * g - r
    BY <1>1, Z3
  <2>3. h * r \in Nat /\ r * g \in Nat
    BY <1>1, <1>2, Z3
  <2> QED BY <1>1, <1>3, <2>1, <2>2, <2>3
<1>10. r * g \in Int
  BY <1>1, Z3
<1> QED BY <1>3, <1>5, <1>8, <1>9, <1>10

-----------------------------------------------------------------------------
(***************************************************************************)
(* Parties, instructions and messages.                                     *)
(***************************************************************************)
LEMMA Ups ==
    ASSUME NEW p \in Party
    PROVE  /\ Up(p, 1) \in Party /\ Up(p, 2) \in Party
           /\ Up(p, 1) # p /\ Up(p, 2) # p /\ Up(p, 1) # Up(p, 2)
           /\ Up(Up(p, 1), 1) = Up(p, 2) /\ Up(Up(p, 1), 2) = p
           /\ Up(Up(p, 2), 1) = p /\ Up(Up(p, 2), 2) = Up(p, 1)
           /\ Party = {p, Up(p, 1), Up(p, 2)}
<1>1. /\ Up(1, 1) = 2 /\ Up(2, 1) = 3 /\ Up(3, 1) = 1
      /\ Up(1, 2) = 3 /\ Up(2, 2) = 1 /\ Up(3, 2) = 2
  BY DEF Up
<1>2. Party = {1, 2, 3}
  BY DEF Party
<1> QED BY <1>1, <1>2

\* Counting instructions.
LEMMA Counting ==
    ASSUME NEW ops, NEW i \in Nat \ {0}
    PROVE  /\ Before(i, ops) \in Nat /\ Before(i, ops) <= i - 1
           /\ Before(i + 1, ops) = Before(i, ops) + (IF Op(i) \in ops THEN 1 ELSE 0)
           /\ \A j \in Nat \ {0} : i <= j => Before(i, ops) <= Before(j, ops)
<1> DEFINE S(k) == {j \in 1 .. k - 1 : Op(j) \in ops}
<1>1. \A k \in Nat \ {0} : IsFiniteSet(S(k)) /\ Cardinality(S(k)) \in Nat
                           /\ Cardinality(S(k)) <= k - 1
  <2> TAKE k \in Nat \ {0}
  <2>1. IsFiniteSet(1 .. k - 1) /\ Cardinality(1 .. k - 1) = IF 1 > k - 1 THEN 0 ELSE k - 1 - 1 + 1
    BY FS_Interval
  <2>2. S(k) \in SUBSET (1 .. k - 1)
    OBVIOUS
  <2>3. IsFiniteSet(S(k)) /\ Cardinality(S(k)) <= Cardinality(1 .. k - 1)
    BY <2>1, <2>2, FS_Subset
  <2>4. Cardinality(S(k)) \in Nat
    BY <2>3, FS_CardinalityType
  <2> HIDE DEF S
  <2> QED BY <2>1, <2>3, <2>4
<1>2. Before(i, ops) = Cardinality(S(i)) /\ \A j : Before(j, ops) = Cardinality(S(j))
  BY DEF Before
<1>3. Before(i + 1, ops) = Before(i, ops) + (IF Op(i) \in ops THEN 1 ELSE 0)
  <2>1. CASE Op(i) \in ops
    <3>1. S(i + 1) = S(i) \cup {i} /\ i \notin S(i)
      BY <2>1
    <3>2. Cardinality(S(i) \cup {i}) = Cardinality(S(i)) + 1
      <4> HIDE DEF S
      <4> QED BY <1>1, <3>1, FS_AddElement
    <3> QED BY <1>2, <2>1, <3>1, <3>2
  <2>2. CASE Op(i) \notin ops
    <3>1. S(i + 1) = S(i)
      BY <2>2
    <3> HIDE DEF S
    <3> QED BY <1>1, <1>2, <2>2, <3>1
  <2> QED BY <2>1, <2>2
<1>4. ASSUME NEW j \in Nat \ {0}, i <= j
      PROVE  Before(i, ops) <= Before(j, ops)
  <2>1. S(i) \in SUBSET S(j)
    BY <1>4
  <2> HIDE DEF S
  <2>2. Cardinality(S(i)) <= Cardinality(S(j))
    BY <1>1, <2>1, FS_Subset
  <2> QED BY <1>2, <2>2
<1> HIDE DEF S
<1> QED BY <1>1, <1>2, <1>3, <1>4

LEMMA Counted ==
    ASSUME NEW i \in Nat \ {0}
    PROVE  /\ Draws(i) \in Nat /\ Publics(i) \in Nat
           /\ Draws(i + 1) = Draws(i) + (IF Op(i) \in {"mult", "multpub"} THEN 1 ELSE 0)
           /\ Publics(i + 1) = Publics(i) + (IF Op(i) = "multpub" THEN 1 ELSE 0)
           /\ \A j \in Nat \ {0} : i <= j => Publics(i) <= Publics(j)
BY Counting DEF Draws, Publics

LEMMA Element ==
    ASSUME NEW S, NEW c \in Seq(S), NEW k \in 1 .. Len(c)
    PROVE  c[k] \in S
OBVIOUS

\* The word an instruction uses is there, and fits its bits.
LEMMA Words3 ==
    ASSUME ProgramOK, NEW i \in Steps, NEW s \in Party
    PROVE  /\ Word3(s, i) \in 0 .. 2^R - 1 /\ Word3(s, i) \in Int
           /\ i \in Nat \ {0} /\ Draws(i) \in Nat /\ Publics(i) \in Nat
<1>1. i \in Nat \ {0} /\ i <= Len(program) /\ Len(program) \in Nat
  BY DEF ProgramOK, Steps
<1>2. Draws(i) \in Nat /\ Draws(i) <= i - 1 /\ Publics(i) \in Nat
  BY <1>1, Counting DEF Draws, Publics
<1>3. stream[s] \in Seq(0 .. 2^R - 1) /\ Len(program) <= Len(stream[s])
  BY DEF ProgramOK
<1>4. Draws(i) + 1 \in 1 .. Len(stream[s])
  BY <1>1, <1>2, <1>3
<1>5. stream[s][Draws(i) + 1] \in 0 .. 2^R - 1
  BY <1>3, <1>4, Element
<1>6. 2^R \in Nat
  BY Widths
<1> QED BY <1>1, <1>2, <1>5, <1>6 DEF Word3

\* Pairs of words that are copies of each other in the ring.
Alike(a, c) == Mask(a[1]) = Mask(c[1]) /\ Mask(a[2]) = Mask(c[2])

LEMMA LocalAlike ==
    ASSUME NEW a \in Word \X Word, NEW b \in Word \X Word,
           NEW c \in Word \X Word, NEW d \in Word \X Word, Alike(a, c), Alike(b, d)
    PROVE  Local(a, b) \in Int /\ Mask(Local(a, b)) = Mask(Local(c, d))
<1>1. /\ a[1] \in Word /\ a[2] \in Word /\ b[1] \in Word /\ b[2] \in Word
      /\ c[1] \in Word /\ c[2] \in Word /\ d[1] \in Word /\ d[2] \in Word
  OBVIOUS
<1>2. /\ a[1] \in Int /\ a[2] \in Int /\ b[1] \in Int /\ b[2] \in Int
      /\ c[1] \in Int /\ c[2] \in Int /\ d[1] \in Int /\ d[2] \in Int
  BY <1>1, WordsAreIntegers
<1> DEFINE a1 == a[1]  a2 == a[2]  b1 == b[1]  b2 == b[2]
           c1 == c[1]  c2 == c[2]  d1 == d[1]  d2 == d[2]
<1>3. /\ a1 \in Int /\ a2 \in Int /\ b1 \in Int /\ b2 \in Int
      /\ c1 \in Int /\ c2 \in Int /\ d1 \in Int /\ d2 \in Int
      /\ Mask(a1) = Mask(c1) /\ Mask(a2) = Mask(c2)
      /\ Mask(b1) = Mask(d1) /\ Mask(b2) = Mask(d2)
  BY <1>2 DEF Alike
<1>4. /\ Local(a, b) = a1 * b1 + a1 * b2 + a2 * b1
      /\ Local(c, d) = c1 * d1 + c1 * d2 + c2 * d1
  BY DEF Local
<1> HIDE DEF a1, a2, b1, b2, c1, c2, d1, d2
<1>5. /\ Mask(a1 * b1) = Mask(c1 * d1)
      /\ Mask(a1 * b2) = Mask(c1 * d2)
      /\ Mask(a2 * b1) = Mask(c2 * d1)
  BY <1>3, MaskOps
<1> DEFINE e1 == a1 * b1  e2 == a1 * b2  e3 == a2 * b1
           f1 == c1 * d1  f2 == c1 * d2  f3 == c2 * d1
<1>6. /\ e1 \in Int /\ e2 \in Int /\ e3 \in Int
      /\ f1 \in Int /\ f2 \in Int /\ f3 \in Int
  BY <1>3, Z3
<1>7. Local(a, b) = e1 + e2 + e3 /\ Local(c, d) = f1 + f2 + f3
  BY <1>4
<1>8. Mask(e1) = Mask(f1) /\ Mask(e2) = Mask(f2) /\ Mask(e3) = Mask(f3)
  BY <1>5
<1> HIDE DEF e1, e2, e3, f1, f2, f3
<1>9. Mask(Sum3(e1, e2, e3)) = Mask(Sum3(f1, f2, f3))
  BY <1>6, <1>8, MaskThree
<1> QED BY <1>6, <1>7, <1>9 DEF Sum3

LEMMA Signs ==
    ASSUME NEW p \in Party
    PROVE  Sign(p)[1] \in Int /\ Sign(p)[2] \in Int
BY DEF Sign, Party

\* A party has the operands of the instructions it has come to.
LEMMA Operands ==
    ASSUME TypeOK, ProgramOK, Known, NEW p \in Party,
           NEW i \in Steps, i <= pc[p], NEW r \in {program[i].x, program[i].y}
    PROVE  r \in Registers /\ Has(p, r) /\ shares[p][r] \in Word \X Word
<1>1. pc[p] \in Nat /\ i \in Nat
  BY DEF TypeOK, ProgramOK, Steps
<1>2. /\ r \in Registers
      /\ r \notin Written(program) \/
         \E j \in 1 .. i - 1 : Op(j) = "mult" /\ program[j].dst = r
  BY DEF ProgramOK
<1>3. Has(p, r)
  BY <1>1, <1>2 DEF Has
<1>4. shares[p][r] # Unknown
  BY <1>2, <1>3 DEF Known
<1> QED BY <1>2, <1>3, <1>4 DEF TypeOK

LEMMA Terms ==
    ASSUME TypeOK, ProgramOK, Known, NEW p \in Party, NEW i \in Steps, i <= pc[p]
    PROVE  /\ Term(p, i) \in Int
           /\ Message(p, i) \in 0 .. 2^K - 1 /\ Message(p, i) \in Int
           /\ Message(p, i) \in Word /\ Mask(Message(p, i)) = Message(p, i)
<1> DEFINE a == shares[p][program[i].x]
           b == shares[p][program[i].y]
<1>1. a \in Word \X Word /\ b \in Word \X Word
  BY Operands
<1>2. Local(a, b) \in Int
  BY <1>1, LocalAlike DEF Alike
<1>3. a[2] \in Int
  BY <1>1, WordsAreIntegers
<1>4. Up(p, 1) \in Party /\ Up(p, 2) \in Party
  BY Ups
<1>5. Word3(Up(p, 1), i) \in Int /\ Word3(Up(p, 2), i) \in Int
  BY <1>4, Words3
<1>6. Sign(p)[1] * Word3(Up(p, 1), i) \in Int /\ Sign(p)[2] * Word3(Up(p, 2), i) \in Int
  BY <1>5, Signs
<1>7. Term(p, i) \in Int
  BY <1>2, <1>3, <1>5, <1>6 DEF Term
<1> QED BY <1>7, Masks DEF Message

\* What no step changes: the program, the streams and, in the ring, a share.
Kept ==
    /\ program' = program /\ stream' = stream
    /\ \A p \in Party, r \in Registers : Has(p, r) =>
          shares'[p][r] \in Word \X Word /\ Alike(shares[p][r], shares'[p][r])

LEMMA CountsKept ==
    ASSUME program' = program, stream' = stream
    PROVE  /\ \A i : Draws(i)' = Draws(i) /\ Publics(i)' = Publics(i) /\ Op(i)' = Op(i)
           /\ \A s, i : Word3(s, i)' = Word3(s, i)
           /\ Steps' = Steps
BY DEF Draws, Publics, Before, Op, Word3, Steps

\* So the messages stay what they are.
LEMMA MessageKept ==
    ASSUME TypeOK, ProgramOK, Known, Kept, NEW p \in Party, NEW i \in Steps, i <= pc[p]
    PROVE  Message(p, i)' = Message(p, i)
<1> DEFINE a == shares[p][program[i].x]
           b == shares[p][program[i].y]
           c == shares'[p][program[i].x]
           d == shares'[p][program[i].y]
<1>1. a \in Word \X Word /\ b \in Word \X Word
  BY Operands
<1>2. c \in Word \X Word /\ d \in Word \X Word /\ Alike(a, c) /\ Alike(b, d)
  BY Operands DEF Kept
<1>3. Local(a, b) \in Int /\ Local(c, d) \in Int /\ Mask(Local(a, b)) = Mask(Local(c, d))
  <2>1. Alike(c, c) /\ Alike(d, d)
    BY DEF Alike
  <2> HIDE DEF a, b, c, d
  <2> QED BY <1>1, <1>2, <2>1, LocalAlike
<1>4. Up(p, 1) \in Party /\ Up(p, 2) \in Party
  BY Ups
<1> DEFINE y == Word3(Up(p, 1), i)
           z == Word3(Up(p, 2), i)
           la == Local(a, b)
           lc == Local(c, d)
           s1 == Sign(p)[1]
           s2 == Sign(p)[2]
<1>5. y \in Int /\ z \in Int /\ s1 \in Int /\ s2 \in Int
  BY <1>4, Words3, Signs
<1>6. /\ Op(i)' = Op(i) /\ Word3(Up(p, 1), i)' = y /\ Word3(Up(p, 2), i)' = z
      /\ program' = program
  BY CountsKept DEF Kept
<1>7. Term(p, i) = IF Op(i) = "open" THEN a[2]
                   ELSE IF Op(i) = "mult" THEN la - z ELSE la + s1 * y + s2 * z
  BY DEF Term
<1>8. Term(p, i)' = IF Op(i) = "open" THEN c[2]
                    ELSE IF Op(i) = "mult" THEN lc - z ELSE lc + s1 * y + s2 * z
  BY <1>6 DEF Term
<1>9. la \in Int /\ lc \in Int /\ Mask(la) = Mask(lc) /\ Mask(a[2]) = Mask(c[2])
  BY <1>2, <1>3 DEF Alike
<1> HIDE DEF a, b, c, d, y, z, la, lc, s1, s2
<1>10. Mask(la - z) = Mask(lc - z)
  BY <1>5, <1>9, MaskShift
<1>11. s1 * y \in Int /\ s2 * z \in Int
  BY <1>5
<1>12. Mask(la + s1 * y + s2 * z) = Mask(lc + s1 * y + s2 * z)
  <2> DEFINE e == s1 * y
             f == s2 * z
  <2>1. e \in Int /\ f \in Int
    BY <1>11
  <2> HIDE DEF e, f
  <2>2. Mask(Sum3(la, e, f)) = Mask(Sum3(lc, e, f))
    BY <1>9, <2>1, MaskThree
  <2> QED BY <2>2 DEF e, f, Sum3
<1>13. Mask(Term(p, i)) = Mask(Term(p, i)')
  BY <1>7, <1>8, <1>9, <1>10, <1>12
<1> QED BY <1>13 DEF Message

-----------------------------------------------------------------------------
(***************************************************************************)
(* What a sending step and a receiving step do, whatever the instruction.  *)
(***************************************************************************)
Public(p) == Op(pc[p]) = "multpub"

SendStep(p) ==
    /\ Running(p) /\ ~busy[p]
    /\ Kept /\ pc' = pc /\ opened' = opened
    /\ busy' = [busy EXCEPT ![p] = TRUE]
    /\ shares' \in [Party -> [Registers -> {Unknown} \union (Word \X Word)]]
    /\ \A q \in Party, r \in Registers : shares'[q][r] = Unknown <=> shares[q][r] = Unknown
    /\ \E w \in Word \X Word :
          /\ v' = [v EXCEPT ![p] = w]
          /\ Op(pc[p]) = "mult" =>
                Mask(w[1]) = Mask(Word3(Up(p, 2), pc[p])) /\ w[2] = Message(p, pc[p])
          /\ Public(p) => Mask(w[1]) = Message(p, pc[p])
    /\ drawn' = [drawn EXCEPT ![p] =
          << drawn[p][1] + (IF Public(p) THEN 1 ELSE 0),
             drawn[p][2] + (IF Op(pc[p]) = "open" THEN 0 ELSE 1) >>]
    /\ chan' = [chan EXCEPT ![p] = [q \in Party |->
          IF q = Up(p, 2) \/ (q = Up(p, 1) /\ Public(p))
          THEN Append(chan[p][q], Message(p, pc[p])) ELSE chan[p][q]]]

RecvStep(p) ==
    LET s == program[pc[p]]
        a == Up(p, 1)
        b == Up(p, 2) IN
    /\ Running(p) /\ busy[p]
    /\ UNCHANGED <<program, stream, v>>
    /\ pc' = [pc EXCEPT ![p] = pc[p] + 1]
    /\ busy' = [busy EXCEPT ![p] = FALSE]
    /\ pc[p] <= Sends(a) /\ chan[a][p] # <<>>
    /\ Public(p) => pc[p] <= Sends(b) /\ chan[b][p] # <<>>
    /\ chan' = [q \in Party |-> [chan[q] EXCEPT ![p] =
          IF q = a \/ (q = b /\ Public(p)) THEN Tail(chan[q][p]) ELSE chan[q][p]]]
    /\ drawn' = [drawn EXCEPT ![p] =
          << drawn[p][1] + (IF Op(pc[p]) = "mult" THEN 1 ELSE 0), drawn[p][2] >>]
    /\ IF Op(pc[p]) = "mult"
       THEN /\ opened' = opened
            /\ \E w \in Word \X Word :
                  /\ shares' = [shares EXCEPT ![p][s.dst] = w]
                  /\ Mask(w[1]) = Mask(Word3(a, pc[p]) + Message(p, pc[p]))
                  /\ Mask(w[2]) = Mask(Word3(b, pc[p]) + Message(a, pc[p]))
       ELSE /\ shares' = shares
            /\ \E w \in 0 .. 2^K - 1 :
                  /\ opened' = [opened EXCEPT ![p][s.dst] = w]
                  /\ Op(pc[p]) = "open" =>
                        w = Mask(shares[p][s.x][1] + shares[p][s.x][2] + Message(a, pc[p]))
                  /\ Public(p) =>
                        w = Mask(Message(p, pc[p]) + Message(a, pc[p]) + Message(b, pc[p]))

\* Types of the state at a party, entry by entry.
LEMMA Entries ==
    ASSUME TypeOK, ProgramOK, NEW p \in Party
    PROVE  /\ pc[p] \in Nat \ {0} /\ busy[p] \in BOOLEAN
           /\ v[p] \in Word \X Word /\ drawn[p] \in Nat \X Nat
           /\ Sends(p) \in Nat
           /\ ~busy[p] => Sends(p) = pc[p] - 1 /\ Sends(p) + 1 = pc[p]
           /\ busy[p] => Sends(p) = pc[p]
           /\ Running(p) => pc[p] \in Steps
           /\ \A q \in Party : /\ chan[p][q] \in Seq(0 .. 2^K - 1)
                               /\ Len(chan[p][q]) \in Nat
           /\ \A r \in Registers : shares[p][r] \in {Unknown} \union (Word \X Word)
<1>1. /\ pc[p] \in Nat \ {0} /\ busy[p] \in BOOLEAN
      /\ v[p] \in Word \X Word /\ drawn[p] \in Nat \X Nat
  BY DEF TypeOK
<1>2. \A q \in Party : chan[p][q] \in Seq(0 .. 2^K - 1)
  BY DEF TypeOK
<1>3. \A q \in Party : Len(chan[p][q]) \in Nat
  BY <1>2
<1>4. \A r \in Registers : shares[p][r] \in {Unknown} \union (Word \X Word)
  BY DEF TypeOK
<1>5. Running(p) => pc[p] \in Steps
  BY <1>1 DEF Running, Steps, ProgramOK
<1> QED BY <1>1, <1>2, <1>3, <1>4, <1>5 DEF Sends

\* A party sends in no instruction it has not come to.
LEMMA Ahead ==
    ASSUME TypeOK, ProgramOK, NEW p \in Party
    PROVE  pc[p] \in Nat /\ Sends(p) \in Nat /\ Sends(p) <= pc[p] /\ pc[p] - 1 <= Sends(p)
<1>1. /\ pc[p] \in Nat \ {0} /\ busy[p] \in BOOLEAN /\ Sends(p) \in Nat
      /\ ~busy[p] => Sends(p) = pc[p] - 1
      /\ busy[p] => Sends(p) = pc[p]
  BY Entries
<1> QED BY <1>1

\* The word drawn next is the one of the instruction a party is in.
LEMMA Drawing ==
    ASSUME IInv, NEW p \in Party, Running(p)
    PROVE  /\ ~busy[p] => Draw(p, 0) = Word3(Up(p, 1), pc[p])
                          /\ Draw(p, 1) = Word3(Up(p, 2), pc[p])
           /\ (busy[p] /\ Op(pc[p]) = "mult") => Draw(p, 0) = Word3(Up(p, 1), pc[p])
<1>1. pc[p] \in Steps /\ (~busy[p] => Sends(p) + 1 = pc[p])
  BY Entries DEF IInv
<1>2. Draws(pc[p]) \in Nat
  BY <1>1, Words3, Ups DEF IInv
<1>3. (~busy[p] \/ (busy[p] /\ Op(pc[p]) = "mult")) => drawn[p][1] = Draws(pc[p])
  BY <1>2 DEF IInv, Counts
<1>4. ~busy[p] => drawn[p][2] = Draws(pc[p])
  BY <1>1 DEF IInv, Counts
<1>5. 0 + 1 = 1 /\ 1 + 1 = 2
  OBVIOUS
<1> QED BY <1>3, <1>4, <1>5 DEF Draw, Word3

\* What a party finds in front when it reads.
LEMMA Reading ==
    ASSUME IInv, NEW p \in Party, Running(p)
    PROVE  /\ chan[Up(p, 1)][p] # <<>> =>
                /\ pc[p] <= Sends(Up(p, 1))
                /\ Head(chan[Up(p, 1)][p]) = Message(Up(p, 1), pc[p])
                /\ Message(Up(p, 1), pc[p]) \in Int
           /\ (Public(p) /\ chan[Up(p, 2)][p] # <<>>) =>
                /\ pc[p] <= Sends(Up(p, 2))
                /\ Head(chan[Up(p, 2)][p]) = Message(Up(p, 2), pc[p])
                /\ Message(Up(p, 2), pc[p]) \in Int
<1> DEFINE a == Up(p, 1)
           b == Up(p, 2)
<1>1. a \in Party /\ b \in Party /\ Up(a, 2) = p /\ Up(b, 1) = p
  BY Ups
<1>2. /\ pc[p] \in Nat \ {0} /\ pc[p] \in Steps
      /\ Sends(a) \in Nat /\ Sends(b) \in Nat
      /\ Len(chan[a][p]) \in Nat /\ Len(chan[b][p]) \in Nat
      /\ chan[a][p] \in Seq(0 .. 2^K - 1) /\ chan[b][p] \in Seq(0 .. 2^K - 1)
  BY <1>1, Entries DEF IInv
<1>3. /\ Len(chan[a][p]) = Sends(a) - (pc[p] - 1)
      /\ \A k \in 1 .. Len(chan[a][p]) : chan[a][p][k] = Message(a, pc[p] - 1 + k)
  BY <1>1 DEF IInv, Queues
<1>4. /\ Len(chan[b][p]) = Publics(Sends(b) + 1) - Publics(pc[p])
      /\ \A i \in pc[p] .. Sends(b) : Op(i) = "multpub" =>
            chan[b][p][Publics(i) - Publics(pc[p]) + 1] = Message(b, i)
  BY <1>1 DEF IInv, PublicQueues
<1> HIDE DEF a, b
<1>5. ASSUME chan[a][p] # <<>>
      PROVE  pc[p] <= Sends(a) /\ Head(chan[a][p]) = Message(a, pc[p])
  <2>1. Len(chan[a][p]) > 0 /\ 1 \in 1 .. Len(chan[a][p]) /\ Head(chan[a][p]) = chan[a][p][1]
    BY <1>2, <1>5
  <2>2. pc[p] - 1 + 1 = pc[p]
    BY <1>2
  <2> QED BY <1>2, <1>3, <2>1, <2>2
<1>6. ASSUME Public(p), chan[b][p] # <<>>
      PROVE  pc[p] <= Sends(b) /\ Head(chan[b][p]) = Message(b, pc[p])
  <2>1. Len(chan[b][p]) > 0 /\ Head(chan[b][p]) = chan[b][p][1]
    BY <1>2, <1>6
  <2>2. /\ Publics(pc[p]) \in Nat /\ Publics(Sends(b) + 1) \in Nat
        /\ Sends(b) + 1 <= pc[p] => Publics(Sends(b) + 1) <= Publics(pc[p])
    <3> DEFINE e == Sends(b) + 1
    <3>1. e \in Nat \ {0}
      BY <1>2
    <3> HIDE DEF e
    <3>2. /\ Publics(pc[p]) \in Nat /\ Publics(e) \in Nat
          /\ e <= pc[p] => Publics(e) <= Publics(pc[p])
      BY <1>2, <3>1, Counted
    <3> QED BY <3>2 DEF e
  <2>4. pc[p] <= Sends(b)
    BY <1>2, <1>4, <2>1, <2>2
  <2>5. pc[p] \in pc[p] .. Sends(b) /\ Op(pc[p]) = "multpub"
        /\ Publics(pc[p]) - Publics(pc[p]) + 1 = 1
    BY <1>2, <1>6, <2>2, <2>4 DEF Public
  <2> QED BY <1>4, <2>1, <2>4, <2>5
<1>7. ASSUME NEW q \in Party, pc[p] <= Sends(q)
      PROVE  Message(q, pc[p]) \in Int
  <2>1. pc[q] \in Nat /\ Sends(q) \in Nat /\ Sends(q) <= pc[q]
    BY Ahead DEF IInv
  <2> QED BY <1>2, <1>7, <2>1, Terms DEF IInv
<1> QED BY <1>1, <1>5, <1>6, <1>7 DEF a, b

\* A step that leaves the shares alone keeps them.
LEMMA SharesSame ==
    ASSUME IInv, shares' = shares, program' = program, stream' = stream
    PROVE  /\ Kept
           /\ shares' \in [Party -> [Registers -> {Unknown} \union (Word \X Word)]]
           /\ \A q \in Party, r \in Registers : shares'[q][r] = Unknown <=> shares[q][r] = Unknown
<1>1. shares \in [Party -> [Registers -> {Unknown} \union (Word \X Word)]]
  BY DEF IInv, TypeOK
<1>2. \A q \in Party, r \in Registers : Has(q, r) => shares[q][r] \in Word \X Word
  BY <1>1 DEF IInv, Known
<1> QED BY <1>1, <1>2 DEF Kept, Alike

LEMMA MultSends ==
    ASSUME IInv, NEW p \in Party, MultSend(p)
    PROVE  SendStep(p)
<1> DEFINE i == pc[p]
           s == program[pc[p]]
           z == Word3(Up(p, 2), i)
           la == Local(shares[p][s.x], shares[p][s.y])
<1>1. /\ Running(p) /\ ~busy[p] /\ Op(i) = "mult" /\ ~Public(p)
      /\ UNCHANGED <<program, pc, shares, opened, stream>>
      /\ busy' = [busy EXCEPT ![p] = TRUE]
      /\ drawn' = [drawn EXCEPT ![p][2] = @ + 1]
  BY DEF MultSend, Instr, Op, Public
<1>2. TypeOK /\ ProgramOK /\ Known /\ i \in Steps /\ i \in Nat
  BY <1>1, Entries DEF IInv
<1>3. PICK old \in Garbage :
        LET c0 == Over(old, Draw(p, 1))
            w == Mask(la - c0) IN
        /\ v' = [v EXCEPT ![p] = <<c0, w>>]
        /\ chan' = [chan EXCEPT ![p][Up(p, 2)] = Append(@, w)]
  BY DEF MultSend, Instr
<1>4. Draw(p, 1) = z /\ z \in 0 .. 2^R - 1 /\ z \in Int /\ Up(p, 2) \in Party
  BY <1>1, <1>2, Drawing, Words3, Ups
<1> DEFINE c0 == Over(old, z)
           w == Mask(la - c0)
<1>5. c0 \in Word /\ c0 \in Int /\ Mask(c0) = Mask(z)
  BY <1>4, OverGarbage, MaskOver, WordsAreIntegers
<1>6. la \in Int
  <2>1. shares[p][s.x] \in Word \X Word /\ shares[p][s.y] \in Word \X Word
    BY <1>2, Operands
  <2> QED BY <2>1, LocalAlike DEF Alike
<1>7. w = Message(p, i)
  <2>1. Message(p, i) = Mask(la - z)
    BY <1>1 DEF Message, Term
  <2> HIDE DEF la, z, c0
  <2> DEFINE ld == la
  <2>2. ld \in Int /\ Mask(la) = Mask(ld)
    BY <1>6
  <2> HIDE DEF ld
  <2>3. Mask(la - c0) = Mask(ld - z)
    BY <1>4, <1>5, <1>6, <2>2, MaskOps
  <2> QED BY <2>1, <2>3 DEF ld
<1>8. /\ v' = [v EXCEPT ![p] = <<c0, w>>] /\ <<c0, w>> \in Word \X Word
      /\ Mask(<<c0, w>>[1]) = Mask(z) /\ <<c0, w>>[2] = Message(p, i)
  <2>1. w \in Word
    BY <1>2, <1>7, Terms
  <2> QED BY <1>3, <1>4, <1>5, <1>7, <2>1
<1>9. chan' = [chan EXCEPT ![p] = [q \in Party |->
          IF q = Up(p, 2) \/ (q = Up(p, 1) /\ Public(p))
          THEN Append(chan[p][q], Message(p, pc[p])) ELSE chan[p][q]]]
  <2>1. chan' = [chan EXCEPT ![p][Up(p, 2)] = Append(@, Message(p, i))]
    BY <1>3, <1>4, <1>7
  <2>2. chan \in [Party -> [Party -> Seq(0 .. 2^K - 1)]]
    BY <1>2 DEF TypeOK
  <2>3. chan' = [chan EXCEPT ![p] = [q \in Party |->
                   IF q = Up(p, 2) THEN Append(chan[p][q], Message(p, i)) ELSE chan[p][q]]]
    BY <1>4, <2>1, <2>2
  <2> QED BY <1>1, <2>3
<1>10. drawn' = [drawn EXCEPT ![p] =
          << drawn[p][1] + (IF Public(p) THEN 1 ELSE 0),
             drawn[p][2] + (IF Op(pc[p]) = "open" THEN 0 ELSE 1) >>]
  <2>1. drawn[p] \in Nat \X Nat
    BY <1>2, Entries
  <2>2. [drawn[p] EXCEPT ![2] = drawn[p][2] + 1] = <<drawn[p][1], drawn[p][2] + 1>>
    BY <2>1
  <2>3. drawn[p][1] + 0 = drawn[p][1]
    BY <2>1
  <2> QED BY <1>1, <2>2, <2>3
<1>11. /\ Kept
       /\ shares' \in [Party -> [Registers -> {Unknown} \union (Word \X Word)]]
       /\ \A q \in Party, r \in Registers : shares'[q][r] = Unknown <=> shares[q][r] = Unknown
  BY <1>1, SharesSame
<1>12. \E u \in Word \X Word :
          /\ v' = [v EXCEPT ![p] = u]
          /\ Op(pc[p]) = "mult" =>
                Mask(u[1]) = Mask(Word3(Up(p, 2), pc[p])) /\ u[2] = Message(p, pc[p])
          /\ Public(p) => Mask(u[1]) = Message(p, pc[p])
  BY <1>1, <1>8
<1> QED BY <1>1, <1>9, <1>10, <1>11, <1>12 DEF SendStep

LEMMA OpenSends ==
    ASSUME IInv, NEW p \in Party, OpenSend(p)
    PROVE  SendStep(p)
<1> DEFINE i == pc[p]
           x == program[pc[p]].x
           a == shares[p][x]
           m == Mask(a[2])
<1>1. /\ Running(p) /\ ~busy[p] /\ Op(i) = "open" /\ ~Public(p) /\ Op(i) # "mult"
      /\ UNCHANGED <<program, pc, opened, v, drawn, stream>>
      /\ busy' = [busy EXCEPT ![p] = TRUE]
      /\ shares' = [shares EXCEPT ![p][x][2] = Mask(@)]
      /\ chan' = [chan EXCEPT ![p][Up(p, 2)] = Append(@, m)]
  BY DEF OpenSend, Instr, Op, Public
<1>2. /\ TypeOK /\ ProgramOK /\ Known /\ i \in Steps /\ i \in Nat
      /\ Up(p, 2) \in Party /\ Up(p, 2) # Up(p, 1)
  BY <1>1, Entries, Ups DEF IInv
<1>3. a \in Word \X Word /\ x \in Registers /\ Has(p, x)
  BY <1>2, Operands
<1>4. m = Message(p, i)
  BY <1>1 DEF Message, Term
<1>5. a[2] \in Int /\ m \in Word /\ Mask(m) = Mask(a[2])
  BY <1>3, WordsAreIntegers, Masks
<1>6. shares \in [Party -> [Registers -> {Unknown} \union (Word \X Word)]]
  BY <1>2 DEF TypeOK
<1> DEFINE b == <<a[1], m>>
<1>7. shares' = [shares EXCEPT ![p] = [shares[p] EXCEPT ![x] = b]]
  <2>1. [a EXCEPT ![2] = m] = b
    BY <1>3
  <2> QED BY <1>1, <2>1
<1>8. b \in Word \X Word /\ Alike(a, b)
  BY <1>3, <1>5 DEF Alike
<1> HIDE DEF b, a, m
<1>9. \A q \in Party, r \in Registers :
        shares'[q][r] = IF q = p /\ r = x THEN b ELSE shares[q][r]
  BY <1>3, <1>6, <1>7
<1>10. shares' \in [Party -> [Registers -> {Unknown} \union (Word \X Word)]]
  BY <1>3, <1>6, <1>7, <1>8
<1>11. \A q \in Party, r \in Registers : shares'[q][r] = Unknown <=> shares[q][r] = Unknown
  BY <1>3, <1>8, <1>9, InputAssumption DEF a
<1>12. Kept
  <2>1. ASSUME NEW q \in Party, NEW r \in Registers, Has(q, r)
        PROVE  shares'[q][r] \in Word \X Word /\ Alike(shares[q][r], shares'[q][r])
    <3>1. shares[q][r] \in Word \X Word /\ Alike(shares[q][r], shares[q][r])
      BY <1>2, <1>6, <2>1 DEF Known, Alike
    <3> QED BY <1>8, <1>9, <3>1 DEF a
  <2> QED BY <1>1, <2>1 DEF Kept
<1>13. chan' = [chan EXCEPT ![p] = [q \in Party |->
          IF q = Up(p, 2) \/ (q = Up(p, 1) /\ Public(p))
          THEN Append(chan[p][q], Message(p, pc[p])) ELSE chan[p][q]]]
  <2>1. chan \in [Party -> [Party -> Seq(0 .. 2^K - 1)]]
    BY <1>2 DEF TypeOK
  <2>2. chan' = [chan EXCEPT ![p] = [q \in Party |->
                   IF q = Up(p, 2) THEN Append(chan[p][q], m) ELSE chan[p][q]]]
    BY <1>1, <1>2, <2>1
  <2> QED BY <1>1, <1>4, <2>2
<1>14. v[p] \in Word \X Word /\ v' = [v EXCEPT ![p] = v[p]]
  BY <1>1, <1>2, Entries DEF TypeOK
<1>15. drawn' = [drawn EXCEPT ![p] =
          << drawn[p][1] + (IF Public(p) THEN 1 ELSE 0),
             drawn[p][2] + (IF Op(pc[p]) = "open" THEN 0 ELSE 1) >>]
  <2>1. drawn[p] \in Nat \X Nat /\ drawn \in [Party -> Nat \X Nat]
    BY <1>2, Entries DEF TypeOK
  <2>2. drawn[p] = <<drawn[p][1] + 0, drawn[p][2] + 0>>
    BY <2>1
  <2>3. drawn = [drawn EXCEPT ![p] = drawn[p]]
    BY <2>1
  <2> QED BY <1>1, <2>2, <2>3
<1> QED BY <1>1, <1>10, <1>11, <1>12, <1>13, <1>14, <1>15 DEF SendStep

LEMMA PubSends ==
    ASSUME IInv, NEW p \in Party, PubSend(p)
    PROVE  SendStep(p)
<1> DEFINE i == pc[p]
           s == program[pc[p]]
           y == Word3(Up(p, 1), i)
           z == Word3(Up(p, 2), i)
           la == Local(shares[p][s.x], shares[p][s.y])
           s1 == Sign(p)[1]
           s2 == Sign(p)[2]
<1>1. /\ Running(p) /\ ~busy[p] /\ Op(i) = "multpub" /\ Public(p)
      /\ UNCHANGED <<program, pc, shares, opened, stream>>
      /\ busy' = [busy EXCEPT ![p] = TRUE]
      /\ drawn' = [drawn EXCEPT ![p] = <<@[1] + 1, @[2] + 1>>]
  BY DEF PubSend, Instr, Op, Public
<1>2. TypeOK /\ ProgramOK /\ Known /\ i \in Steps /\ i \in Nat
  BY <1>1, Entries DEF IInv
<1>3. PICK old_a \in Garbage, old_c \in Garbage :
        LET c == Wrap(la + s1 * Over(old_a, Draw(p, 0)) + s2 * Over(old_c, Draw(p, 1))) IN
        /\ v' = [v EXCEPT ![p] = <<c, 0>>]
        /\ chan' = [chan EXCEPT ![p] = [q \in Party |->
                       IF q = p THEN @[q] ELSE Append(@[q], Mask(c))]]
  BY DEF PubSend, Instr
<1>4. /\ Draw(p, 0) = y /\ y \in 0 .. 2^R - 1 /\ y \in Int
      /\ Draw(p, 1) = z /\ z \in 0 .. 2^R - 1 /\ z \in Int
      /\ Up(p, 1) \in Party /\ Up(p, 2) \in Party
  BY <1>1, <1>2, Drawing, Words3, Ups
<1> DEFINE e == Over(old_a, y)
           f == Over(old_c, z)
           sum == la + s1 * e + s2 * f
           c == Wrap(sum)
<1>5. e \in Int /\ Mask(e) = Mask(y) /\ f \in Int /\ Mask(f) = Mask(z)
  BY <1>4, OverGarbage, MaskOver, WordsAreIntegers
<1>6. la \in Int /\ s1 \in Int /\ s2 \in Int
  <2>1. shares[p][s.x] \in Word \X Word /\ shares[p][s.y] \in Word \X Word
    BY <1>2, Operands
  <2> QED BY <2>1, LocalAlike, Signs DEF Alike
<1>7. Message(p, i) = Mask(la + s1 * y + s2 * z)
  BY <1>1 DEF Message, Term
<1>8. sum \in Int /\ Mask(sum) = Message(p, i)
  <2> HIDE DEF la, s1, s2, e, f, y, z
  <2> DEFINE lb == la
             u1 == s1
             u2 == s2
  <2>1. lb \in Int /\ Mask(la) = Mask(lb) /\ u1 \in Int /\ Mask(s1) = Mask(u1)
        /\ u2 \in Int /\ Mask(s2) = Mask(u2)
    BY <1>6
  <2> HIDE DEF lb, u1, u2
  <2>2. Mask(s1 * e) = Mask(u1 * y) /\ Mask(s2 * f) = Mask(u2 * z)
    BY <1>4, <1>5, <1>6, <2>1, MaskOps
  <2> DEFINE a1 == s1 * e
             a2 == s2 * f
             b1 == u1 * y
             b2 == u2 * z
  <2>3. /\ a1 \in Int /\ a2 \in Int /\ b1 \in Int /\ b2 \in Int
        /\ Mask(a1) = Mask(b1) /\ Mask(a2) = Mask(b2)
    BY <1>4, <1>5, <1>6, <2>1, <2>2
  <2>4. Mask(sum) = Mask((la + a1) + a2) /\ sum = (la + a1) + a2
    OBVIOUS
  <2>5. Message(p, i) = Mask((lb + b1) + b2)
    BY <1>7 DEF lb, u1, u2
  <2> HIDE DEF a1, a2, b1, b2, sum
  <2>6. Mask(Sum3(la, a1, a2)) = Mask(Sum3(lb, b1, b2))
    BY <1>6, <2>1, <2>3, MaskThree
  <2> QED BY <1>6, <2>3, <2>4, <2>5, <2>6 DEF Sum3
<1>9. c \in Word /\ Mask(c) = Message(p, i) /\ 0 \in Word
  <2>1. 0 \in Word
    BY Widths DEF Word
  <2> HIDE DEF sum
  <2> QED BY <1>8, <2>1, Masks
<1>10. v' = [v EXCEPT ![p] = <<c, 0>>] /\ <<c, 0>> \in Word \X Word
       /\ Mask(<<c, 0>>[1]) = Message(p, i)
  BY <1>3, <1>4, <1>9
<1>11. chan' = [chan EXCEPT ![p] = [q \in Party |->
          IF q = Up(p, 2) \/ (q = Up(p, 1) /\ Public(p))
          THEN Append(chan[p][q], Message(p, pc[p])) ELSE chan[p][q]]]
  <2>1. chan' = [chan EXCEPT ![p] = [q \in Party |->
                    IF q = p THEN chan[p][q] ELSE Append(chan[p][q], Message(p, i))]]
    BY <1>3, <1>4, <1>9
  <2>2. \A q \in Party : q # p <=> q = Up(p, 2) \/ q = Up(p, 1)
    BY Ups
  <2>3. [q \in Party |-> IF q = p THEN chan[p][q] ELSE Append(chan[p][q], Message(p, i))] =
        [q \in Party |-> IF q = Up(p, 2) \/ (q = Up(p, 1) /\ Public(p))
                         THEN Append(chan[p][q], Message(p, i)) ELSE chan[p][q]]
    BY <1>1, <2>2
  <2> QED BY <2>1, <2>3
<1>12. drawn' = [drawn EXCEPT ![p] =
          << drawn[p][1] + (IF Public(p) THEN 1 ELSE 0),
             drawn[p][2] + (IF Op(pc[p]) = "open" THEN 0 ELSE 1) >>]
  BY <1>1
<1>13. /\ Kept
       /\ shares' \in [Party -> [Registers -> {Unknown} \union (Word \X Word)]]
       /\ \A q \in Party, r \in Registers : shares'[q][r] = Unknown <=> shares[q][r] = Unknown
  BY <1>1, SharesSame
<1> HIDE DEF c, sum
<1>14. \E u \in Word \X Word :
          /\ v' = [v EXCEPT ![p] = u]
          /\ Op(pc[p]) = "mult" =>
                Mask(u[1]) = Mask(Word3(Up(p, 2), pc[p])) /\ u[2] = Message(p, pc[p])
          /\ Public(p) => Mask(u[1]) = Message(p, pc[p])
  BY <1>1, <1>10
<1> QED BY <1>1, <1>11, <1>12, <1>13, <1>14 DEF SendStep

\* Taking from one socket.
LEMMA TakeOne ==
    ASSUME IInv, NEW p \in Party, ~Public(p),
           chan' = [chan EXCEPT ![Up(p, 1)][p] = Tail(@)]
    PROVE  chan' = [q \in Party |-> [chan[q] EXCEPT ![p] =
              IF q = Up(p, 1) \/ (q = Up(p, 2) /\ Public(p))
              THEN Tail(chan[q][p]) ELSE chan[q][p]]]
<1> DEFINE a == Up(p, 1)
<1>1. chan \in [Party -> [Party -> Seq(0 .. 2^K - 1)]] /\ a \in Party
  BY Ups DEF IInv, TypeOK
<1> HIDE DEF a
<1>2. chan' = [chan EXCEPT ![a] = [chan[a] EXCEPT ![p] = Tail(chan[a][p])]]
  BY <1>1 DEF a
<1>3. [chan EXCEPT ![a] = [chan[a] EXCEPT ![p] = Tail(chan[a][p])]] =
      [q \in Party |-> [chan[q] EXCEPT ![p] = IF q = a THEN Tail(chan[q][p]) ELSE chan[q][p]]]
  <2>1. \A q \in Party : [chan[q] EXCEPT ![p] = chan[q][p]] = chan[q]
    BY <1>1
  <2> QED BY <1>1, <2>1
<1> QED BY <1>2, <1>3 DEF a

LEMMA MultRecvs ==
    ASSUME IInv, NEW p \in Party, MultRecv(p)
    PROVE  RecvStep(p)
<1> DEFINE i == pc[p]
           a == Up(p, 1)
           b == Up(p, 2)
           y == Word3(a, i)
           z == Word3(b, i)
           v1 == v[p][1]
           v2 == v[p][2]
           h == Head(chan[a][p])
           ov == Over(v1, y)
           w1 == Wrap(ov + v2)
           w2 == Wrap(h + v1)
<1>1. /\ Running(p) /\ busy[p] /\ Op(i) = "mult" /\ ~Public(p) /\ chan[a][p] # <<>>
      /\ UNCHANGED <<program, opened, v, stream>>
      /\ pc' = [pc EXCEPT ![p] = pc[p] + 1]
      /\ busy' = [busy EXCEPT ![p] = FALSE]
      /\ drawn' = [drawn EXCEPT ![p][1] = @ + 1]
      /\ chan' = [chan EXCEPT ![a][p] = Tail(@)]
  BY DEF MultRecv, Instr, Op, Public
<1>2. /\ TypeOK /\ ProgramOK /\ Known /\ i \in Steps /\ i \in Nat
      /\ a \in Party /\ b \in Party
  BY <1>1, Entries, Ups DEF IInv
<1>3. i <= Sends(a) /\ h = Message(a, i)
  BY <1>1, Reading
<1>4. Draw(p, 0) = y /\ y \in Int /\ z \in Int
  BY <1>1, <1>2, Drawing, Words3
<1>5. v1 \in Nat /\ v1 \in Int /\ Mask(v1) = Mask(z) /\ v2 = Message(p, i) /\ v2 \in Int
  <2>1. v[p] \in Word \X Word
    BY <1>2, Entries
  <2>2. Mask(v[p][1]) = Mask(z) /\ v[p][2] = Message(p, i)
    BY <1>1 DEF IInv, Locals
  <2> QED BY <2>1, <2>2, WordsAreIntegers
<1>6. h \in Int
  BY <1>1, Reading
<1>7. shares' = [shares EXCEPT ![p][program[pc[p]].dst] = <<w1, w2>>]
  BY <1>4 DEF MultRecv, Instr
<1>8. w1 \in Word /\ Mask(w1) = Mask(y + Message(p, i))
  <2>1. ov \in Int /\ Mask(ov) = Mask(y)
    BY <1>4, <1>5, MaskOver
  <2>2. Mask(ov + v2) = Mask(y + v2) /\ ov + v2 \in Int
    <3>1. Mask(Sum2(ov, v2)) = Mask(Sum2(y, v2))
      BY <1>4, <1>5, <2>1, MaskTwo
    <3> QED BY <1>5, <2>1, <3>1 DEF Sum2
  <2>3. Wrap(ov + v2) \in Word /\ Mask(Wrap(ov + v2)) = Mask(ov + v2)
    BY <2>2, Masks
  <2> QED BY <1>5, <2>2, <2>3
<1>9. w2 \in Word /\ Mask(w2) = Mask(z + Message(a, i))
  <2> HIDE DEF h, v1, z
  <2>1. Mask(v1 + h) = Mask(z + h) /\ h + v1 \in Int /\ h + v1 = v1 + h
    BY <1>4, <1>5, <1>6, MaskShift
  <2>2. Wrap(h + v1) \in Word /\ Mask(Wrap(h + v1)) = Mask(h + v1)
    BY <2>1, Masks
  <2> QED BY <1>3, <2>1, <2>2
<1>10. chan' = [q \in Party |-> [chan[q] EXCEPT ![p] =
          IF q = a \/ (q = b /\ Public(p)) THEN Tail(chan[q][p]) ELSE chan[q][p]]]
  BY <1>1, TakeOne
<1>11. drawn' = [drawn EXCEPT ![p] =
          << drawn[p][1] + (IF Op(pc[p]) = "mult" THEN 1 ELSE 0), drawn[p][2] >>]
  <2>1. drawn[p] \in Nat \X Nat
    BY <1>2, Entries
  <2>2. [drawn[p] EXCEPT ![1] = drawn[p][1] + 1] = <<drawn[p][1] + 1, drawn[p][2]>>
    BY <2>1
  <2> QED BY <1>1, <2>2
<1> HIDE DEF w1, w2
<1>12. \E w \in Word \X Word :
          /\ shares' = [shares EXCEPT ![p][program[pc[p]].dst] = w]
          /\ Mask(w[1]) = Mask(Word3(a, pc[p]) + Message(p, pc[p]))
          /\ Mask(w[2]) = Mask(Word3(b, pc[p]) + Message(a, pc[p]))
  <2>1. <<w1, w2>> \in Word \X Word /\ <<w1, w2>>[1] = w1 /\ <<w1, w2>>[2] = w2
    BY <1>8, <1>9
  <2> QED BY <1>7, <1>8, <1>9, <2>1
<1> QED BY <1>1, <1>3, <1>10, <1>11, <1>12 DEF RecvStep

LEMMA OpenRecvs ==
    ASSUME IInv, NEW p \in Party, OpenRecv(p)
    PROVE  RecvStep(p)
<1> DEFINE i == pc[p]
           a == Up(p, 1)
           b == Up(p, 2)
           s == program[pc[p]]
           x == shares[p][s.x]
           h == Head(chan[a][p])
           w == Mask(x[1] + x[2] + h)
<1>1. /\ Running(p) /\ busy[p] /\ Op(i) = "open" /\ Op(i) # "mult" /\ ~Public(p)
      /\ chan[a][p] # <<>>
      /\ UNCHANGED <<program, shares, v, drawn, stream>>
      /\ pc' = [pc EXCEPT ![p] = pc[p] + 1]
      /\ busy' = [busy EXCEPT ![p] = FALSE]
      /\ opened' = [opened EXCEPT ![p][s.dst] = w]
      /\ chan' = [chan EXCEPT ![a][p] = Tail(@)]
  BY DEF OpenRecv, Instr, Op, Public
<1>2. /\ TypeOK /\ ProgramOK /\ Known /\ i \in Steps /\ i \in Nat
      /\ a \in Party /\ b \in Party
  BY <1>1, Entries, Ups DEF IInv
<1>3. i <= Sends(a) /\ h = Message(a, i)
  BY <1>1, Reading
<1>4. h \in Int
  BY <1>1, Reading
<1>5. x[1] \in Int /\ x[2] \in Int
  <2>1. x \in Word \X Word
    BY <1>2, Operands
  <2> QED BY <2>1, WordsAreIntegers
<1>6. w \in 0 .. 2^K - 1
  <2>1. x[1] + x[2] + h \in Int
    <3> HIDE DEF x, h
    <3> QED BY <1>4, <1>5
  <2> QED BY <2>1, Masks
<1>7. chan' = [q \in Party |-> [chan[q] EXCEPT ![p] =
          IF q = a \/ (q = b /\ Public(p)) THEN Tail(chan[q][p]) ELSE chan[q][p]]]
  BY <1>1, TakeOne
<1>8. drawn' = [drawn EXCEPT ![p] =
          << drawn[p][1] + (IF Op(pc[p]) = "mult" THEN 1 ELSE 0), drawn[p][2] >>]
  <2>1. drawn[p] \in Nat \X Nat /\ drawn \in [Party -> Nat \X Nat]
    BY <1>2, Entries DEF TypeOK
  <2>2. drawn[p] = <<drawn[p][1] + 0, drawn[p][2]>>
    BY <2>1
  <2>3. drawn = [drawn EXCEPT ![p] = drawn[p]]
    BY <2>1
  <2> QED BY <1>1, <2>2, <2>3
<1>9. w = Mask(shares[p][s.x][1] + shares[p][s.x][2] + Message(a, pc[p]))
  BY <1>3
<1> HIDE DEF w
<1> QED BY <1>1, <1>3, <1>6, <1>7, <1>8, <1>9 DEF RecvStep

LEMMA PubRecvs ==
    ASSUME IInv, NEW p \in Party, PubRecv(p)
    PROVE  RecvStep(p)
<1> DEFINE i == pc[p]
           a == Up(p, 1)
           b == Up(p, 2)
           s == program[pc[p]]
           h == Head(chan[a][p])
           g == Head(chan[b][p])
           v1 == v[p][1]
           w == Mask(v1 + g + h)
<1>1. /\ Running(p) /\ busy[p] /\ Op(i) = "multpub" /\ Op(i) # "mult" /\ Op(i) # "open"
      /\ Public(p) /\ chan[a][p] # <<>> /\ chan[b][p] # <<>>
      /\ UNCHANGED <<program, shares, v, drawn, stream>>
      /\ pc' = [pc EXCEPT ![p] = pc[p] + 1]
      /\ busy' = [busy EXCEPT ![p] = FALSE]
      /\ opened' = [opened EXCEPT ![p][s.dst] = w]
      /\ chan' = [chan EXCEPT ![b][p] = Tail(@), ![a][p] = Tail(@)]
  BY DEF PubRecv, Instr, Op, Public
<1>2. /\ TypeOK /\ ProgramOK /\ Known /\ i \in Steps /\ i \in Nat
      /\ a \in Party /\ b \in Party /\ a # b
  BY <1>1, Entries, Ups DEF IInv
<1>3. i <= Sends(a) /\ h = Message(a, i) /\ i <= Sends(b) /\ g = Message(b, i)
  BY <1>1, Reading
<1>4. h \in Int /\ g \in Int
  BY <1>1, Reading
<1>5. v1 \in Int /\ Mask(v1) = Message(p, i)
  <2>1. v[p] \in Word \X Word
    BY <1>2, Entries
  <2>2. Mask(v[p][1]) = Message(p, i)
    BY <1>1 DEF IInv, Locals
  <2> QED BY <2>1, <2>2, WordsAreIntegers
<1>6. Message(p, i) \in Int /\ Mask(Message(p, i)) = Message(p, i)
  BY <1>2, Terms
<1>7. w \in 0 .. 2^K - 1 /\ w = Mask(Message(p, i) + Message(a, i) + Message(b, i))
  <2> DEFINE m == Message(p, i)
  <2>1. m \in Int /\ Mask(v1) = Mask(m)
    BY <1>5, <1>6
  <2> HIDE DEF m, v1, h, g
  <2> DEFINE r == g + h
  <2>2. r \in Int /\ v1 + g + h = v1 + r /\ m + h + g = m + r /\ v1 + r \in Int
    BY <1>4, <1>5, <2>1
  <2> HIDE DEF r
  <2>3. Mask(Sum2(v1, r)) = Mask(Sum2(m, r)) /\ Mask(Sum2(v1, r)) \in 0 .. 2^K - 1
    <3>1. Mask(Sum2(v1, r)) = Mask(Sum2(m, r))
      BY <1>5, <2>1, <2>2, MaskTwo
    <3>2. Sum2(v1, r) \in Int
      BY <2>2 DEF Sum2
    <3> QED BY <3>1, <3>2, Masks
  <2> QED BY <1>3, <2>2, <2>3 DEF m, Sum2
<1>8. chan' = [q \in Party |-> [chan[q] EXCEPT ![p] =
          IF q = a \/ (q = b /\ Public(p)) THEN Tail(chan[q][p]) ELSE chan[q][p]]]
  <2>1. chan \in [Party -> [Party -> Seq(0 .. 2^K - 1)]]
    BY <1>2 DEF TypeOK
  <2>2. chan' = [[chan EXCEPT ![b] = [chan[b] EXCEPT ![p] = Tail(chan[b][p])]]
                     EXCEPT ![a] = [chan[a] EXCEPT ![p] = Tail(chan[a][p])]]
    <3> HIDE DEF a, b
    <3> QED BY <1>1, <1>2, <2>1
  <2>3. \A q \in Party : [chan[q] EXCEPT ![p] = chan[q][p]] = chan[q]
    BY <2>1
  <2> HIDE DEF a, b
  <2> QED BY <1>1, <1>2, <2>1, <2>2, <2>3
<1>9. drawn' = [drawn EXCEPT ![p] =
          << drawn[p][1] + (IF Op(pc[p]) = "mult" THEN 1 ELSE 0), drawn[p][2] >>]
  <2>1. drawn[p] \in Nat \X Nat /\ drawn \in [Party -> Nat \X Nat]
    BY <1>2, Entries DEF TypeOK
  <2>2. drawn[p] = <<drawn[p][1] + 0, drawn[p][2]>>
    BY <2>1
  <2>3. drawn = [drawn EXCEPT ![p] = drawn[p]]
    BY <2>1
  <2> QED BY <1>1, <2>2, <2>3
<1> HIDE DEF w
<1> QED BY <1>1, <1>3, <1>7, <1>8, <1>9 DEF RecvStep

-----------------------------------------------------------------------------
(***************************************************************************)
(* The invariant holds at first.                                           *)
(***************************************************************************)
LEMMA Starts == Init => IInv
<1> SUFFICES ASSUME Init PROVE IInv
  OBVIOUS
<1>1. PICK in \in InputShares :
        shares = [p \in Party |-> [r \in DOMAIN in \union Written(program) |->
            IF r \in DOMAIN in THEN <<in[r][Up(p, 1)], in[r][Up(p, 2)]>> ELSE Unknown]]
  BY DEF Init
<1>2. /\ program \in Programs /\ stream \in Streams
      /\ pc = [p \in Party |-> 1] /\ busy = [p \in Party |-> FALSE]
      /\ opened = [p \in Party |-> [r \in Registers |-> Unknown]]
      /\ v = [p \in Party |-> <<0, 0>>] /\ drawn = [p \in Party |-> <<0, 0>>]
      /\ chan = [p \in Party |-> [q \in Party |-> <<>>]]
  BY DEF Init
<1>3. /\ Len(program) \in Nat /\ DOMAIN program = 1 .. Len(program)
      /\ \A i \in 1 .. Len(program) : program[i].op \in {"mult", "open", "multpub"}
      /\ \A i, j \in 1 .. Len(program) : program[i].dst = program[j].dst => i = j
      /\ \A i \in 1 .. Len(program) :
            {program[i].x, program[i].y} \subseteq Available(program, in, i)
      /\ DOMAIN in \intersect Written(program) = {}
  BY <1>2, ProgramAssumption
<1>4. /\ \A r \in DOMAIN in : in[r] \in [Party -> Word]
      /\ Unknown \notin Word /\ Unknown \notin Word \X Word
  BY InputAssumption
<1>5. Registers = DOMAIN in \union Written(program) /\ 1 \in Party
  BY <1>1 DEF Registers, Party
<1>6. \A p \in Party, r \in Registers :
        shares[p][r] = IF r \in DOMAIN in THEN <<in[r][Up(p, 1)], in[r][Up(p, 2)]>> ELSE Unknown
  BY <1>1, <1>5
<1>7. ASSUME NEW p \in Party, NEW r \in DOMAIN in
      PROVE  /\ shares[p][r] = <<in[r][Up(p, 1)], in[r][Up(p, 2)]>>
             /\ shares[p][r] \in Word \X Word
  <2>1. Up(p, 1) \in Party /\ Up(p, 2) \in Party
    BY Ups
  <2>2. in[r][Up(p, 1)] \in Word /\ in[r][Up(p, 2)] \in Word
    BY <1>4, <2>1
  <2>3. r \in Registers
    BY <1>5
  <2>4. shares[p][r] = <<in[r][Up(p, 1)], in[r][Up(p, 2)]>>
    BY <1>6, <2>3
  <2> QED BY <2>2, <2>4
<1>8. TypeOK
  <2>1. shares \in [Party -> [Registers -> {Unknown} \union (Word \X Word)]]
    BY <1>1, <1>5, <1>6, <1>7
  <2>2. 0 \in Word
    BY Widths DEF Word
  <2>3. chan \in [Party -> [Party -> Seq(0 .. 2^K - 1)]]
    BY <1>2
  <2>4. pc \in [Party -> 1 .. Len(program) + 1]
    BY <1>2, <1>3
  <2> QED BY <1>2, <2>1, <2>2, <2>3, <2>4 DEF TypeOK
<1>9. ProgramOK
  <2>1. stream \in [Party -> Seq(0 .. 2^R - 1)] /\ \A s \in Party : Len(program) <= Len(stream[s])
    BY <1>2, StreamAssumption
  <2>2. ASSUME NEW i \in Steps, NEW r \in {program[i].x, program[i].y}
        PROVE  /\ r \in Registers
               /\ r \notin Written(program) \/
                  \E j \in 1 .. i - 1 : Op(j) = "mult" /\ program[j].dst = r
    <3>1. i \in 1 .. Len(program) /\ 1 .. i - 1 \subseteq DOMAIN program
      BY <1>3 DEF Steps
    <3>2. r \in DOMAIN in \union {program[j].dst : j \in {k \in 1 .. i-1 : program[k].op = "mult"}}
      BY <1>3, <3>1 DEF Available
    <3>3. {program[j].dst : j \in {k \in 1 .. i-1 : program[k].op = "mult"}} \subseteq Written(program)
      BY <3>1 DEF Written
    <3> QED BY <1>3, <1>5, <3>2, <3>3 DEF Op
  <2>3. \A i \in Steps : program[i].dst \in Registers
    BY <1>3, <1>5 DEF Written, Steps
  <2> QED BY <1>3, <2>1, <2>2, <2>3 DEF ProgramOK, Op, Steps
<1>10. \A p \in Party, r \in Registers : Has(p, r) <=> r \in DOMAIN in
  <2>1. \A p \in Party, r \in Registers : Has(p, r) <=> r \notin Written(program)
    BY <1>2 DEF Has
  <2> QED BY <1>3, <1>5, <2>1
<1>11. Known
  <2>1. ASSUME NEW p \in Party, NEW r \in Registers
        PROVE  shares[p][r] # Unknown <=> r \in DOMAIN in
    <3>1. CASE r \in DOMAIN in
      <4>1. shares[p][r] \in Word \X Word
        BY <1>7, <3>1
      <4> QED BY <1>4, <3>1, <4>1
    <3>2. CASE r \notin DOMAIN in
      BY <1>6, <3>2
    <3> QED BY <3>1, <3>2
  <2> QED BY <1>10, <2>1 DEF Known
<1>12. BusyRuns /\ NotYetOpened /\ Locals
  BY <1>2 DEF BusyRuns, NotYetOpened, Locals
<1>13. InputsAgree
  <2> SUFFICES ASSUME NEW p \in Party, NEW r \in Registers, r \notin Written(program)
               PROVE  Mask(shares[p][r][2]) = Mask(shares[Up(p, 1)][r][1])
    BY DEF InputsAgree
  <2>1. r \in DOMAIN in /\ Up(p, 1) \in Party /\ Up(Up(p, 1), 1) = Up(p, 2)
    BY <1>5, Ups
  <2>2. shares[p][r][2] = in[r][Up(p, 2)] /\ shares[Up(p, 1)][r][1] = in[r][Up(p, 2)]
    BY <1>7, <2>1
  <2> QED BY <2>2
<1>14. \A p \in Party : /\ Sends(p) = 0 /\ pc[p] = 1 /\ ~busy[p] /\ drawn[p] = <<0, 0>>
                        /\ \A q \in Party : chan[p][q] = <<>>
  BY <1>2 DEF Sends
<1>15. Draws(1) = 0 /\ Publics(1) = 0
  <2>1. Before(1, {"mult", "multpub"}) \in Nat /\ Before(1, {"mult", "multpub"}) <= 1 - 1
    BY Counting
  <2>2. Before(1, {"multpub"}) \in Nat /\ Before(1, {"multpub"}) <= 1 - 1
    BY Counting
  <2> QED BY <2>1, <2>2 DEF Draws, Publics
<1>16. Counts
  BY <1>14, <1>15 DEF Counts
<1>17. Queues /\ PublicQueues
  <2>1. Len(<<>>) = 0 /\ 0 + 1 = 1 /\ 1 .. 0 = {}
    OBVIOUS
  <2> QED BY <1>14, <1>15, <2>1, Ups DEF Queues, PublicQueues
<1>18. Products
  BY <1>14 DEF Products, Steps
<1> QED BY <1>8, <1>9, <1>11, <1>12, <1>13, <1>16, <1>17, <1>18 DEF IInv

-----------------------------------------------------------------------------
(***************************************************************************)
(* What the invariant says of a step that keeps the shares.                *)
(***************************************************************************)
LEMMA Frame ==
    ASSUME IInv, Kept,
           shares' \in [Party -> [Registers -> {Unknown} \union (Word \X Word)]]
    PROVE  /\ Registers' = Registers /\ Written(program)' = Written(program)
           /\ ProgramOK' /\ InputsAgree'
<1>1. 1 \in Party /\ program' = program /\ stream' = stream
  BY DEF Party, Kept
<1>2. Registers' = Registers
  BY <1>1 DEF Registers
<1>3. Written(program)' = Written(program)
  BY <1>1
<1>4. ProgramOK'
  <2>1. ProgramOK
    BY DEF IInv
  <2>2. \A i : Op(i)' = Op(i)
    BY <1>1 DEF Op
  <2>3. Steps' = Steps
    BY <1>1 DEF Steps
  <2> QED BY <1>1, <1>2, <1>3, <2>1, <2>2, <2>3 DEF ProgramOK
<1>5. InputsAgree'
  <2> SUFFICES ASSUME NEW p \in Party, NEW r \in Registers, r \notin Written(program)
               PROVE  Mask(shares'[p][r][2]) = Mask(shares'[Up(p, 1)][r][1])
    BY <1>1, <1>2, <1>3 DEF InputsAgree, Up, Mask
  <2>1. Mask(shares[p][r][2]) = Mask(shares[Up(p, 1)][r][1])
    BY DEF IInv, InputsAgree
  <2>2. Has(p, r) /\ Has(Up(p, 1), r) /\ Up(p, 1) \in Party
    BY Ups DEF Has
  <2>3. Alike(shares[p][r], shares'[p][r]) /\ Alike(shares[Up(p, 1)][r], shares'[Up(p, 1)][r])
    BY <2>2 DEF Kept
  <2> QED BY <2>1, <2>3 DEF Alike
<1> QED BY <1>2, <1>3, <1>4, <1>5

\* A party that has ended an instruction has read what its neighbour sent in it.
LEMMA Behind ==
    ASSUME IInv, NEW p \in Party
    PROVE  /\ pc[p] - 1 <= Sends(Up(p, 1)) /\ Up(p, 1) \in Party
           /\ Sends(p) \in Nat /\ Sends(p) <= Len(program)
           /\ \A i \in Nat \ {0} : i <= Sends(p) => i \in Steps /\ i <= pc[p]
           /\ \A i \in Nat \ {0} : i < pc[p] =>
                i \in Steps /\ i <= Sends(p) /\ i <= Sends(Up(p, 1)) /\ i <= pc[Up(p, 1)]
<1> DEFINE a == Up(p, 1)
<1>1. a \in Party /\ Up(a, 2) = p
  BY Ups
<1>2. /\ pc[p] \in Nat /\ Sends(p) \in Nat /\ Sends(p) <= pc[p] /\ pc[p] - 1 <= Sends(p)
      /\ pc[a] \in Nat /\ Sends(a) \in Nat /\ Sends(a) <= pc[a]
  BY <1>1, Ahead DEF IInv
<1>3. Len(chan[a][p]) = Sends(a) - (pc[p] - 1) /\ Len(chan[a][p]) \in Nat
  BY <1>1, Entries DEF IInv, Queues
<1>4. Len(program) \in Nat /\ Steps = 1 .. Len(program) /\ pc[p] <= Len(program) + 1
  BY DEF IInv, ProgramOK, TypeOK, Steps
<1>5. Sends(p) <= Len(program)
  <2>1. /\ busy[p] \in BOOLEAN
        /\ busy[p] => pc[p] <= Len(program) /\ Sends(p) = pc[p]
        /\ ~busy[p] => Sends(p) = pc[p] - 1
    BY Entries DEF IInv, BusyRuns, Running
  <2> QED BY <1>2, <1>4, <2>1
<1> HIDE DEF a
<1> QED BY <1>1, <1>2, <1>3, <1>4, <1>5 DEF a

\* The messages sent so far, and those a product was built from, are kept.
LEMMA SentKept ==
    ASSUME IInv, Kept, NEW p \in Party
    PROVE  /\ \A i \in Nat \ {0} : i <= Sends(p) => Message(p, i)' = Message(p, i)
           /\ \A i \in Nat \ {0} : i < pc[p] =>
                /\ Message(p, i)' = Message(p, i)
                /\ Message(Up(p, 1), i)' = Message(Up(p, 1), i)
<1>1. \A q \in Party, i \in Nat \ {0} : i <= Sends(q) => Message(q, i)' = Message(q, i)
  BY Behind, MessageKept DEF IInv
<1> QED BY <1>1, Behind

-----------------------------------------------------------------------------
(***************************************************************************)
(* A sending step keeps the invariant.                                     *)
(***************************************************************************)
LEMMA SendFacts ==
    ASSUME IInv, NEW p \in Party, SendStep(p)
    PROVE  /\ Sends(p) = pc[p] - 1 /\ Sends(p)' = pc[p] /\ busy'[p] /\ pc[p] \in Steps
           /\ \A q \in Party : q # p => Sends(q)' = Sends(q) /\ busy'[q] = busy[q]
           /\ \A q \in Party : \A r : Has(q, r)' <=> Has(q, r)
           /\ \A i : Draws(i)' = Draws(i) /\ Publics(i)' = Publics(i) /\ Op(i)' = Op(i)
           /\ \A s, i : Word3(s, i)' = Word3(s, i)
           /\ Steps' = Steps /\ Registers' = Registers
           /\ ProgramOK' /\ InputsAgree' /\ pc[p] \in Nat \ {0}
<1>1. /\ Running(p) /\ ~busy[p] /\ pc' = pc /\ program' = program /\ stream' = stream
      /\ busy' = [busy EXCEPT ![p] = TRUE]
  BY DEF SendStep, Kept
<1>2. busy \in [Party -> BOOLEAN]
  BY DEF IInv, TypeOK
<1>3. \A q \in Party : busy'[q] = IF q = p THEN TRUE ELSE busy[q]
  BY <1>1, <1>2
<1>4. Sends(p) = pc[p] - 1 /\ pc[p] \in Steps /\ pc[p] \in Nat \ {0}
  BY <1>1, Entries DEF IInv
<1>5. Sends(p)' = pc[p] /\ \A q \in Party : q # p => Sends(q)' = Sends(q)
  BY <1>1, <1>3 DEF Sends
<1>6. \A i : Draws(i)' = Draws(i) /\ Publics(i)' = Publics(i) /\ Op(i)' = Op(i)
  BY <1>1, CountsKept
<1>7. \A s, i : Word3(s, i)' = Word3(s, i)
  BY <1>1, CountsKept
<1>8. Steps' = Steps
  BY <1>1 DEF Steps
<1>9. \A q \in Party : \A r : Has(q, r)' <=> Has(q, r)
  BY <1>1 DEF Has, Written, Op
<1>10. Registers' = Registers /\ ProgramOK' /\ InputsAgree'
  BY Frame DEF SendStep
<1> QED BY <1>3, <1>4, <1>5, <1>6, <1>7, <1>8, <1>9, <1>10

LEMMA SendTypes ==
    ASSUME IInv, NEW p \in Party, SendStep(p)
    PROVE  TypeOK' /\ BusyRuns' /\ Known' /\ NotYetOpened'
<1>1. TypeOK /\ ProgramOK /\ Kept /\ Registers' = Registers
  BY SendFacts DEF IInv, SendStep
<1>2. TypeOK'
  <2>1. /\ program' \in Programs /\ pc' \in [Party -> 1 .. Len(program') + 1]
        /\ busy' \in [Party -> BOOLEAN] /\ stream' \in Streams
    BY <1>1 DEF TypeOK, SendStep, Kept
  <2>2. shares' \in [Party -> [Registers' -> {Unknown} \union (Word \X Word)]]
    BY <1>1 DEF SendStep
  <2>3. opened' \in [Party -> [Registers' -> {Unknown} \union (0 .. 2^K - 1)]]
    BY <1>1 DEF TypeOK, SendStep
  <2>4. v' \in [Party -> Word \X Word]
    BY <1>1 DEF TypeOK, SendStep
  <2>5. drawn' \in [Party -> Nat \X Nat]
    <3>1. /\ drawn[p][1] + (IF Public(p) THEN 1 ELSE 0) \in Nat
          /\ drawn[p][2] + (IF Op(pc[p]) = "open" THEN 0 ELSE 1) \in Nat
      BY <1>1, Entries
    <3> QED BY <1>1, <3>1 DEF TypeOK, SendStep
  <2>6. chan' \in [Party -> [Party -> Seq(0 .. 2^K - 1)]]
    <3>1. Message(p, pc[p]) \in 0 .. 2^K - 1
      <4>1. pc[p] \in Steps /\ pc[p] <= pc[p]
        BY SendFacts
      <4> QED BY <1>1, <4>1, Terms DEF IInv
    <3>2. \A q \in Party : chan[p][q] \in Seq(0 .. 2^K - 1)
      BY <1>1, Entries
    <3>3. \A q \in Party : Append(chan[p][q], Message(p, pc[p])) \in Seq(0 .. 2^K - 1)
      BY <3>1, <3>2
    <3>4. chan \in [Party -> [Party -> Seq(0 .. 2^K - 1)]]
      BY <1>1 DEF TypeOK
    <3> QED BY <3>2, <3>3, <3>4 DEF SendStep
  <2> QED BY <2>1, <2>2, <2>3, <2>4, <2>5, <2>6 DEF TypeOK, Party, Word
<1>3. BusyRuns'
  BY SendFacts DEF IInv, BusyRuns, SendStep, Running, Kept, Party
<1>4. Known'
  <2>1. \A q \in Party, r \in Registers : shares'[q][r] # Unknown <=> Has(q, r)'
    <3>1. \A q \in Party, r \in Registers : shares'[q][r] = Unknown <=> shares[q][r] = Unknown
      BY DEF SendStep
    <3>2. \A q \in Party, r \in Registers : shares[q][r] # Unknown <=> Has(q, r)
      BY DEF IInv, Known
    <3>3. \A q \in Party : \A r : Has(q, r)' <=> Has(q, r)
      BY SendFacts
    <3> QED BY <3>1, <3>2, <3>3
  <2> QED BY <1>1, <2>1 DEF Known, Party
<1>5. NotYetOpened'
  BY <1>1 DEF IInv, NotYetOpened, SendStep, Kept, Party
<1> QED BY <1>2, <1>3, <1>4, <1>5

LEMMA SendCounts ==
    ASSUME IInv, NEW p \in Party, SendStep(p)
    PROVE  Counts'
<1>1. /\ pc' = pc /\ drawn \in [Party -> Nat \X Nat]
      /\ drawn' = [drawn EXCEPT ![p] =
            << drawn[p][1] + (IF Public(p) THEN 1 ELSE 0),
               drawn[p][2] + (IF Op(pc[p]) = "open" THEN 0 ELSE 1) >>]
  BY DEF SendStep, IInv, TypeOK
<1>2. ASSUME NEW q \in Party
      PROVE  /\ drawn'[q][1] = Draws(pc[q]) +
                   (IF busy'[q] /\ Op(pc[q]) = "multpub" THEN 1 ELSE 0)
             /\ drawn'[q][2] = Draws(Sends(q)' + 1)
  <2>1. CASE q = p
    <3>1. ~busy[p] /\ Sends(p) + 1 = pc[p] /\ busy'[p] /\ Sends(p)' = pc[p]
      <4>1. Sends(p) = pc[p] - 1 /\ pc[p] \in Nat \ {0} /\ busy'[p] /\ Sends(p)' = pc[p]
        BY SendFacts
      <4>2. Sends(p) + 1 = pc[p]
        BY <4>1
      <4> QED BY <4>1, <4>2 DEF SendStep
    <3>2. drawn[p][1] = Draws(pc[p]) + 0 /\ drawn[p][2] = Draws(pc[p])
      BY <3>1 DEF IInv, Counts
    <3>3. /\ Draws(pc[p]) \in Nat
          /\ Draws(pc[p] + 1) = Draws(pc[p]) + (IF Op(pc[p]) \in {"mult", "multpub"} THEN 1 ELSE 0)
      BY SendFacts, Counted
    <3>4. Op(pc[p]) \in {"mult", "open", "multpub"}
      BY SendFacts DEF IInv, ProgramOK
    <3>5. drawn'[p] = << drawn[p][1] + (IF Public(p) THEN 1 ELSE 0),
                         drawn[p][2] + (IF Op(pc[p]) = "open" THEN 0 ELSE 1) >>
      BY <1>1
    <3> QED BY <2>1, <3>1, <3>2, <3>3, <3>4, <3>5 DEF Public
  <2>2. CASE q # p
    BY <1>1, <2>2, SendFacts DEF IInv, Counts
  <2> QED BY <2>1, <2>2
<1> QED BY <1>1, <1>2, SendFacts DEF Counts, Party

\* The sockets after a send.
LEMMA SendChan ==
    ASSUME IInv, NEW p \in Party, SendStep(p)
    PROVE  /\ chan'[p][Up(p, 2)] = Append(chan[p][Up(p, 2)], Message(p, pc[p]))
           /\ chan'[p][Up(p, 1)] = IF Public(p) THEN Append(chan[p][Up(p, 1)], Message(p, pc[p]))
                                   ELSE chan[p][Up(p, 1)]
           /\ \A q \in Party : q # p => chan'[q] = chan[q]
           /\ \A i \in Nat \ {0} : i <= Sends(p)' => Message(p, i)' = Message(p, i)
           /\ \A q \in Party, i \in Nat \ {0} : i <= Sends(q) => Message(q, i)' = Message(q, i)
<1>1. chan \in [Party -> [Party -> Seq(0 .. 2^K - 1)]]
  BY DEF IInv, TypeOK
<1>2. chan' = [chan EXCEPT ![p] = [q \in Party |->
        IF q = Up(p, 2) \/ (q = Up(p, 1) /\ Public(p))
        THEN Append(chan[p][q], Message(p, pc[p])) ELSE chan[p][q]]]
  BY DEF SendStep
<1>3. Up(p, 1) \in Party /\ Up(p, 2) \in Party /\ Up(p, 1) # Up(p, 2)
  BY Ups
<1>4. \A q \in Party, i \in Nat \ {0} : i <= Sends(q) => Message(q, i)' = Message(q, i)
  BY SentKept DEF SendStep
<1>5. ASSUME NEW i \in Nat \ {0}, i <= Sends(p)'
      PROVE  Message(p, i)' = Message(p, i)
  <2>1. i \in Steps /\ i <= pc[p]
    <3>1. /\ i <= pc[p] /\ pc[p] \in Steps
      BY <1>5, SendFacts
    <3> QED BY <3>1 DEF IInv, ProgramOK, Steps
  <2> QED BY <2>1, MessageKept DEF IInv, SendStep
<1> QED BY <1>1, <1>2, <1>3, <1>4, <1>5

LEMMA SendSame ==
    ASSUME NEW p \in Party, SendStep(p)
    PROVE  pc' = pc /\ program' = program
BY DEF SendStep, Kept

LEMMA SendQueues ==
    ASSUME IInv, NEW p \in Party, SendStep(p)
    PROVE  Queues'
<1> SUFFICES ASSUME NEW w \in Party
             PROVE  /\ Len(chan'[w][Up(w, 2)]) = Sends(w)' - (pc[Up(w, 2)] - 1)
                    /\ \A k \in 1 .. Len(chan'[w][Up(w, 2)]) :
                          chan'[w][Up(w, 2)][k] = Message(w, pc[Up(w, 2)] - 1 + k)'
  BY SendSame DEF Queues, Party, Up
<1> DEFINE q == Up(w, 2)
           c == chan[w][q]
<1>1. /\ q \in Party /\ pc[q] \in Nat \ {0} /\ Sends(w) \in Nat
      /\ c \in Seq(0 .. 2^K - 1) /\ Len(c) \in Nat
  BY Ups, Entries DEF IInv
<1>2. Len(c) = Sends(w) - (pc[q] - 1) /\ \A k \in 1 .. Len(c) : c[k] = Message(w, pc[q] - 1 + k)
  BY DEF IInv, Queues
<1>3. \A i \in Nat \ {0} : i <= Sends(w) => Message(w, i)' = Message(w, i)
  BY SendChan
<1> HIDE DEF q, c
<1>4. \A k \in 1 .. Len(c) : c[k] = Message(w, pc[q] - 1 + k)'
  <2> TAKE k \in 1 .. Len(c)
  <2>1. pc[q] - 1 + k \in Nat \ {0} /\ pc[q] - 1 + k <= Sends(w)
    BY <1>1, <1>2
  <2>2. PICK i \in Nat \ {0} : i = pc[q] - 1 + k
    BY <2>1
  <2>3. c[k] = Message(w, i) /\ Message(w, i)' = Message(w, i)
    BY <1>2, <1>3, <2>1, <2>2
  <2>4. Message(w, pc[q] - 1 + k)' = Message(w, i)'
    BY <2>2, SendSame
  <2> QED BY <2>3, <2>4
<1>5. CASE w = p
  <2> DEFINE m == Message(p, pc[p])
  <2>1. chan'[w][q] = Append(c, m)
    BY <1>5, SendChan DEF q, c
  <2>2. Sends(w)' = Sends(w) + 1 /\ pc[p] = Sends(w) + 1
    <3>1. Sends(p) = pc[p] - 1 /\ Sends(p)' = pc[p] /\ pc[p] \in Nat \ {0}
      BY SendFacts
    <3> QED BY <1>5, <3>1
  <2>3. m = Message(w, pc[p])'
    <3>1. pc[p] \in Nat \ {0} /\ pc[p] <= Sends(p)'
      BY SendFacts
    <3> QED BY <1>5, <3>1, SendChan, SendSame
  <2> HIDE DEF m
  <2>4. /\ Len(Append(c, m)) = Len(c) + 1
        /\ \A k \in 1 .. Len(c) + 1 : Append(c, m)[k] = IF k = Len(c) + 1 THEN m ELSE c[k]
    BY <1>1
  <2>5. pc[q] - 1 + (Len(c) + 1) = pc[p]
    BY <1>1, <1>2, <2>2
  <2>6. \A k \in 1 .. Len(c) + 1 : Append(c, m)[k] = Message(w, pc[q] - 1 + k)'
    BY <1>1, <1>4, <2>3, <2>4, <2>5, SendSame
  <2> QED BY <1>1, <1>2, <2>1, <2>2, <2>4, <2>6 DEF q
<1>6. CASE w # p
  <2>1. chan'[w][q] = c /\ Sends(w)' = Sends(w)
    BY <1>6, SendChan, SendFacts DEF c
  <2> QED BY <1>2, <1>4, <2>1 DEF q
<1> QED BY <1>5, <1>6

\* Where a public product's message stands among those not yet read.
LEMMA PublicPlace ==
    ASSUME NEW i \in Nat \ {0}, NEW n \in Nat \ {0}, NEW m \in Nat \ {0},
           n <= i, i <= m, Op(i) = "multpub"
    PROVE  /\ Publics(i) - Publics(n) + 1 \in 1 .. Publics(m + 1) - Publics(n)
           /\ Publics(i) \in Nat /\ Publics(n) \in Nat /\ Publics(m + 1) \in Nat
<1>1. Publics(i) \in Nat /\ Publics(n) \in Nat /\ Publics(n) <= Publics(i)
  BY Counted
<1>2. Publics(i + 1) = Publics(i) + 1
  BY <1>1, Counted
<1> DEFINE a == i + 1
           b == m + 1
<1>3. a \in Nat \ {0} /\ b \in Nat \ {0} /\ a <= b
  OBVIOUS
<1> HIDE DEF a, b
<1>4. Publics(a) <= Publics(b) /\ Publics(b) \in Nat
  BY <1>3, Counted
<1>5. Publics(i) + 1 <= Publics(m + 1) /\ Publics(m + 1) \in Nat
  BY <1>2, <1>4 DEF a, b
<1> QED BY <1>1, <1>5

LEMMA SendPublic ==
    ASSUME IInv, NEW p \in Party, SendStep(p)
    PROVE  PublicQueues'
<1> SUFFICES ASSUME NEW w \in Party
             PROVE  /\ Len(chan'[w][Up(w, 1)]) = Publics(Sends(w)' + 1) - Publics(pc[Up(w, 1)])
                    /\ \A i \in pc[Up(w, 1)] .. Sends(w)' : Op(i) = "multpub" =>
                          chan'[w][Up(w, 1)][Publics(i) - Publics(pc[Up(w, 1)]) + 1] = Message(w, i)'
  <2> SUFFICES ASSUME NEW w \in Party
               PROVE  /\ Len(chan[w][Up(w, 1)])' =
                            Publics(Sends(w) + 1)' - Publics(pc[Up(w, 1)])'
                      /\ \A i \in (pc[Up(w, 1)] .. Sends(w))' : Op(i)' = "multpub" =>
                            (chan[w][Up(w, 1)][Publics(i) - Publics(pc[Up(w, 1)]) + 1])'
                                = Message(w, i)'
    BY DEF PublicQueues, Party, Up
  <2>1. pc'[Up(w, 1)] = pc[Up(w, 1)]
    BY SendSame
  <2>2. /\ Publics(Sends(w) + 1)' = Publics(Sends(w)' + 1)
        /\ Publics(pc[Up(w, 1)])' = Publics(pc[Up(w, 1)])
    BY <2>1, SendFacts
  <2>3. \A i : Publics(i)' = Publics(i) /\ Op(i)' = Op(i)
    BY SendFacts
  <2> QED BY <2>1, <2>2, <2>3
<1> DEFINE q == Up(w, 1)
           c == chan[w][q]
<1>1. /\ q \in Party /\ pc[q] \in Nat \ {0} /\ Sends(w) \in Nat
      /\ c \in Seq(0 .. 2^K - 1) /\ Len(c) \in Nat
  BY Ups, Entries DEF IInv
<1>2. /\ Len(c) = Publics(Sends(w) + 1) - Publics(pc[q])
      /\ \A i \in pc[q] .. Sends(w) : Op(i) = "multpub" =>
            c[Publics(i) - Publics(pc[q]) + 1] = Message(w, i)
  BY DEF IInv, PublicQueues
<1>3. \A i \in Nat \ {0} : i <= Sends(w) => Message(w, i)' = Message(w, i)
  BY SendChan
<1> HIDE DEF q, c
<1>4. \A i \in pc[q] .. Sends(w) : Op(i) = "multpub" =>
            c[Publics(i) - Publics(pc[q]) + 1] = Message(w, i)'
  BY <1>1, <1>2, <1>3, SendSame
<1>5. CASE w = p
  <2> DEFINE m == Message(p, pc[p])
             e == pc[p]
  <2>1. e = Sends(w) + 1 /\ Sends(w)' = e /\ e \in Nat \ {0}
    <3>1. Sends(p) = pc[p] - 1 /\ Sends(p)' = pc[p] /\ pc[p] \in Nat \ {0}
      BY SendFacts
    <3> QED BY <1>5, <3>1
  <2>2. m = Message(w, e)'
    BY <1>5, <2>1, SendChan, SendSame
  <2>3. chan'[w][q] = IF Op(e) = "multpub" THEN Append(c, m) ELSE c
    BY <1>5, SendChan DEF q, c, Public
  <2> HIDE DEF m, e
  <2>4. /\ Publics(e) \in Nat /\ Publics(pc[q]) \in Nat
        /\ Publics(e + 1) = Publics(e) + (IF Op(e) = "multpub" THEN 1 ELSE 0)
    BY <1>1, <2>1, Counted
  <2>5. Len(c) = Publics(e) - Publics(pc[q])
    BY <1>2, <2>1
  <2>6. CASE Op(e) = "multpub"
    <3>1. /\ Len(Append(c, m)) = Len(c) + 1
          /\ \A k \in 1 .. Len(c) + 1 : Append(c, m)[k] = IF k = Len(c) + 1 THEN m ELSE c[k]
      BY <1>1
    <3>2. ASSUME NEW i \in pc[q] .. e, Op(i) = "multpub"
          PROVE  Append(c, m)[Publics(i) - Publics(pc[q]) + 1] = Message(w, i)'
      <4>1. CASE i = e
        <5>1. Publics(i) - Publics(pc[q]) + 1 = Len(c) + 1 /\ Len(c) + 1 \in 1 .. Len(c) + 1
          BY <1>1, <2>4, <2>5, <4>1
        <5>2. Append(c, m)[Publics(i) - Publics(pc[q]) + 1] = m
          BY <3>1, <5>1
        <5>3. Message(w, i)' = Message(w, e)'
          BY <4>1, SendSame DEF e
        <5> QED BY <2>2, <5>2, <5>3
      <4>2. CASE i # e
        <5>1. i \in Nat \ {0} /\ pc[q] <= i /\ i <= Sends(w) /\ Sends(w) \in Nat \ {0}
          BY <1>1, <2>1, <4>2
        <5>2. Publics(i) - Publics(pc[q]) + 1 \in 1 .. Publics(Sends(w) + 1) - Publics(pc[q])
          BY <1>1, <3>2, <5>1, PublicPlace
        <5>3. Publics(i) - Publics(pc[q]) + 1 \in 1 .. Len(c)
          BY <1>2, <5>2
        <5>4. c[Publics(i) - Publics(pc[q]) + 1] = Message(w, i)'
          BY <1>1, <1>4, <3>2, <5>1
        <5> QED BY <1>1, <3>1, <5>3, <5>4
      <4> QED BY <4>1, <4>2
    <3>3. Len(Append(c, m)) = Publics(e + 1) - Publics(pc[q])
      BY <2>4, <2>5, <2>6, <3>1
    <3> QED BY <2>1, <2>3, <2>6, <3>2, <3>3 DEF q
  <2>7. CASE Op(e) # "multpub"
    <3>1. Publics(e + 1) = Publics(e)
      BY <2>4, <2>7
    <3>2. ASSUME NEW i \in pc[q] .. e, Op(i) = "multpub"
          PROVE  c[Publics(i) - Publics(pc[q]) + 1] = Message(w, i)'
      <4>1. i \in pc[q] .. Sends(w)
        BY <1>1, <2>1, <2>7, <3>2
      <4> QED BY <1>4, <3>2, <4>1
    <3> QED BY <2>1, <2>3, <2>5, <2>7, <3>1, <3>2 DEF q
  <2> QED BY <2>6, <2>7
<1>6. CASE w # p
  <2>1. chan'[w][q] = c /\ Sends(w)' = Sends(w)
    BY <1>6, SendChan, SendFacts DEF c
  <2> QED BY <1>2, <1>4, <2>1 DEF q
<1> QED BY <1>5, <1>6

LEMMA SendLocals ==
    ASSUME IInv, NEW p \in Party, SendStep(p)
    PROVE  Locals' /\ Products'
<1>1. /\ pc' = pc /\ program' = program
      /\ \A i : Op(i)' = Op(i)
      /\ \A s, i : Word3(s, i)' = Word3(s, i)
      /\ Steps' = Steps
  BY SendFacts DEF SendStep, Kept
<1>2. Locals'
  <2>1. ASSUME NEW q \in Party, busy'[q]
        PROVE  /\ Op(pc[q]) = "mult" =>
                    Mask(v'[q][1]) = Mask(Word3(Up(q, 2), pc[q])) /\ v'[q][2] = Message(q, pc[q])'
               /\ Op(pc[q]) = "multpub" => Mask(v'[q][1]) = Message(q, pc[q])'
    <3>1. CASE q = p
      <4>1. PICK w \in Word \X Word :
              /\ v' = [v EXCEPT ![p] = w]
              /\ Op(pc[p]) = "mult" =>
                    Mask(w[1]) = Mask(Word3(Up(p, 2), pc[p])) /\ w[2] = Message(p, pc[p])
              /\ Public(p) => Mask(w[1]) = Message(p, pc[p])
        BY DEF SendStep
      <4>2. v'[p] = w
        BY <4>1 DEF IInv, TypeOK
      <4>3. Message(p, pc[p])' = Message(p, pc[p])
        <5>1. pc[p] \in Nat \ {0} /\ pc[p] <= Sends(p)'
          BY SendFacts
        <5> QED BY <5>1, SendChan, SendSame
      <4> QED BY <3>1, <4>1, <4>2, <4>3 DEF Public
    <3>2. CASE q # p
      <4>1. busy[q] /\ v'[q] = v[q]
        BY <2>1, <3>2, SendFacts DEF SendStep, IInv, TypeOK
      <4>2. Message(q, pc[q])' = Message(q, pc[q])
        <5>1. pc[q] \in Nat \ {0} /\ pc[q] <= Sends(q)
          BY <4>1, Entries DEF IInv
        <5> QED BY <5>1, SendChan, SendSame
      <4> QED BY <4>1, <4>2 DEF IInv, Locals
    <3> QED BY <3>1, <3>2
  <2> QED BY <1>1, <2>1 DEF Locals, Party, Mask, Up
<1>3. Products'
  <2>1. ASSUME NEW q \in Party, NEW j \in Steps, j < pc[q], Op(j) = "mult"
        PROVE  LET c == shares'[q][program[j].dst] IN
               /\ Mask(c[1]) = Mask(Word3(Up(q, 1), j) + Message(q, j)')
               /\ Mask(c[2]) = Mask(Word3(Up(q, 2), j) + Message(Up(q, 1), j)')
    <3>1. /\ j \in Nat \ {0} /\ program[j].dst \in Registers
          /\ pc[q] \in Nat
      <4>1. program[j].dst \in Registers /\ j \in Nat \ {0}
        BY DEF IInv, ProgramOK, Steps
      <4> QED BY <4>1, Entries DEF IInv
    <3>2. Message(q, j)' = Message(q, j) /\ Message(Up(q, 1), j)' = Message(Up(q, 1), j)
      BY <2>1, <3>1, SentKept DEF SendStep
    <3>3. Has(q, program[j].dst)
      BY <2>1, <3>1 DEF Has
    <3>4. Alike(shares[q][program[j].dst], shares'[q][program[j].dst])
      BY <3>1, <3>3 DEF SendStep, Kept
    <3> QED BY <2>1, <3>2, <3>4 DEF IInv, Products, Alike
  <2> QED BY <1>1, <2>1 DEF Products, Party, Mask, Up
<1> QED BY <1>2, <1>3

LEMMA SendKeeps ==
    ASSUME IInv, NEW p \in Party, SendStep(p)
    PROVE  IInv'
BY SendTypes, SendFacts, SendCounts, SendQueues, SendPublic, SendLocals DEF IInv

-----------------------------------------------------------------------------
(***************************************************************************)
(* A receiving step keeps the invariant.                                   *)
(***************************************************************************)
LEMMA RecvSame ==
    ASSUME NEW p \in Party, RecvStep(p)
    PROVE  /\ program' = program /\ stream' = stream /\ v' = v
           /\ pc' = [pc EXCEPT ![p] = pc[p] + 1] /\ busy' = [busy EXCEPT ![p] = FALSE]
           /\ Running(p) /\ busy[p]
           /\ \A i : Draws(i)' = Draws(i) /\ Publics(i)' = Publics(i) /\ Op(i)' = Op(i)
           /\ \A s, i : Word3(s, i)' = Word3(s, i)
           /\ Steps' = Steps
<1>1. program' = program /\ stream' = stream
  BY DEF RecvStep
<1> QED BY <1>1, CountsKept DEF RecvStep

LEMMA RecvFacts ==
    ASSUME IInv, NEW p \in Party, RecvStep(p)
    PROVE  /\ pc[p] \in Steps /\ pc[p] \in Nat \ {0} /\ Sends(p) = pc[p]
           /\ pc'[p] = pc[p] + 1 /\ ~busy'[p]
           /\ \A q \in Party : q # p => pc'[q] = pc[q] /\ busy'[q] = busy[q]
           /\ \A q \in Party : Sends(q)' = Sends(q)
           /\ program[pc[p]].dst \in Registers
           /\ program[pc[p]].dst \in Written(program)
           /\ ~Has(p, program[pc[p]].dst)
<1>1. /\ pc \in [Party -> 1 .. Len(program) + 1] /\ busy \in [Party -> BOOLEAN]
      /\ ProgramOK /\ TypeOK
  BY DEF IInv, TypeOK
<1>2. /\ pc' = [pc EXCEPT ![p] = pc[p] + 1] /\ busy' = [busy EXCEPT ![p] = FALSE]
      /\ Running(p) /\ busy[p]
  BY RecvSame
<1>3. pc[p] \in Steps /\ pc[p] \in Nat \ {0} /\ Sends(p) = pc[p]
  BY <1>1, <1>2, Entries
<1>4. /\ pc'[p] = pc[p] + 1 /\ ~busy'[p]
      /\ \A q \in Party : q # p => pc'[q] = pc[q] /\ busy'[q] = busy[q]
  BY <1>1, <1>2
<1>5. Sends(p)' = Sends(p)
  <2>1. Sends(p)' = pc'[p] - 1
    BY <1>4 DEF Sends
  <2> QED BY <1>3, <1>4, <2>1
<1>6. \A q \in Party : Sends(q)' = Sends(q)
  <2>1. \A q \in Party : q # p => Sends(q)' = Sends(q)
    BY <1>4 DEF Sends
  <2> QED BY <1>5, <2>1
<1>7. program[pc[p]].dst \in Registers /\ program[pc[p]].dst \in Written(program)
  BY <1>1, <1>3 DEF ProgramOK, Written
<1>8. ~Has(p, program[pc[p]].dst)
  <2>1. ASSUME NEW j \in 1 .. pc[p] - 1, program[j].dst = program[pc[p]].dst
        PROVE  FALSE
    <3>1. j \in Steps /\ j # pc[p]
      BY <1>1, <1>3 DEF ProgramOK, Steps
    <3> QED BY <1>1, <1>3, <2>1, <3>1 DEF ProgramOK
  <2> QED BY <1>7, <2>1 DEF Has
<1> QED BY <1>3, <1>4, <1>6, <1>7, <1>8

LEMMA RecvShares ==
    ASSUME IInv, NEW p \in Party, RecvStep(p)
    PROVE  /\ Kept /\ Registers' = Registers /\ ProgramOK' /\ InputsAgree'
           /\ shares' \in [Party -> [Registers -> {Unknown} \union (Word \X Word)]]
           /\ \A q \in Party, r \in Registers :
                (shares'[q][r] # Unknown) <=>
                   (shares[q][r] # Unknown \/
                    (q = p /\ Op(pc[p]) = "mult" /\ r = program[pc[p]].dst))
           /\ \A q \in Party, r \in Registers : Has(q, r) => shares'[q][r] = shares[q][r]
<1> DEFINE d == program[pc[p]].dst
<1>1. /\ shares \in [Party -> [Registers -> {Unknown} \union (Word \X Word)]]
      /\ program' = program /\ stream' = stream
      /\ d \in Registers /\ ~Has(p, d)
      /\ Unknown \notin Word \X Word
  BY RecvSame, RecvFacts, InputAssumption DEF IInv, TypeOK
<1> HIDE DEF d
<1>2. /\ shares' \in [Party -> [Registers -> {Unknown} \union (Word \X Word)]]
      /\ \A q \in Party, r \in Registers :
                (shares'[q][r] # Unknown) <=>
                   (shares[q][r] # Unknown \/ (q = p /\ Op(pc[p]) = "mult" /\ r = d))
      /\ \A q \in Party, r \in Registers : Has(q, r) => shares'[q][r] = shares[q][r]
  <2>1. CASE Op(pc[p]) = "mult"
    <3>1. PICK w \in Word \X Word : shares' = [shares EXCEPT ![p][d] = w]
      BY <2>1 DEF RecvStep, d
    <3>2. shares' \in [Party -> [Registers -> {Unknown} \union (Word \X Word)]]
      BY <1>1, <3>1
    <3>3. \A q \in Party, r \in Registers :
            shares'[q][r] = IF q = p /\ r = d THEN w ELSE shares[q][r]
      BY <1>1, <3>1
    <3> QED BY <1>1, <2>1, <3>2, <3>3
  <2>2. CASE Op(pc[p]) # "mult"
    <3>1. shares' = shares
      BY <2>2 DEF RecvStep
    <3> QED BY <1>1, <2>2, <3>1
  <2> QED BY <2>1, <2>2
<1>3. Kept
  <2>1. \A q \in Party, r \in Registers : Has(q, r) => shares[q][r] \in Word \X Word
    BY <1>1 DEF IInv, Known
  <2> QED BY <1>1, <1>2, <2>1 DEF Kept, Alike
<1> QED BY <1>2, <1>3, Frame DEF d

LEMMA RecvHas ==
    ASSUME IInv, NEW p \in Party, RecvStep(p), NEW q \in Party, NEW r
    PROVE  /\ Has(q, r)' <=>
                (Has(q, r) \/ (q = p /\ Op(pc[p]) = "mult" /\ r = program[pc[p]].dst))
           /\ (\E j \in 1 .. pc'[q] - 1 : program[j].dst = r) <=>
                ((\E j \in 1 .. pc[q] - 1 : program[j].dst = r)
                 \/ (q = p /\ r = program[pc[p]].dst))
<1> DEFINE i == pc[p]
           m == pc[q]
<1>1. /\ program' = program /\ i \in Nat \ {0} /\ m \in Nat \ {0}
      /\ pc'[q] = IF q = p THEN i + 1 ELSE m
      /\ q = p => m = i
      /\ program[i].dst \in Written(program)
  BY RecvFacts, RecvSame, Entries DEF IInv
<1>2. Has(q, r) <=> r \notin Written(program) \/
                    \E j \in 1 .. m - 1 : Op(j) = "mult" /\ program[j].dst = r
  BY DEF Has
<1>3. Has(q, r)' <=> r \notin Written(program) \/
                     \E j \in 1 .. pc'[q] - 1 : Op(j) = "mult" /\ program[j].dst = r
  BY <1>1 DEF Has, Op, Written
<1> HIDE DEF i, m
<1>4. CASE q = p
  <2>1. \A j : j \in 1 .. pc'[q] - 1 <=> (j \in 1 .. m - 1 \/ j = i)
    BY <1>1, <1>4
  <2> QED BY <1>1, <1>2, <1>3, <1>4, <2>1 DEF i, m
<1>5. CASE q # p
  BY <1>1, <1>2, <1>3, <1>5 DEF m
<1> QED BY <1>4, <1>5

LEMMA RecvTypes ==
    ASSUME IInv, NEW p \in Party, RecvStep(p)
    PROVE  TypeOK' /\ BusyRuns' /\ Known' /\ NotYetOpened'
<1>1. /\ TypeOK /\ ProgramOK /\ Registers' = Registers /\ program' = program
      /\ pc[p] \in Steps /\ program[pc[p]].dst \in Registers
  BY RecvFacts, RecvShares, RecvSame DEF IInv
<1>2. TypeOK'
  <2>1. /\ program' \in Programs /\ busy' \in [Party -> BOOLEAN] /\ stream' \in Streams
        /\ v' \in [Party -> Word \X Word]
    BY <1>1, RecvSame DEF TypeOK
  <2>2. pc' \in [Party -> 1 .. Len(program') + 1]
    <3>1. pc[p] + 1 \in 1 .. Len(program) + 1
      BY <1>1 DEF Steps, ProgramOK
    <3>2. pc' = [pc EXCEPT ![p] = pc[p] + 1]
      BY RecvSame
    <3> QED BY <1>1, <3>1, <3>2 DEF TypeOK
  <2>3. shares' \in [Party -> [Registers' -> {Unknown} \union (Word \X Word)]]
    BY <1>1, RecvShares
  <2>4. opened' \in [Party -> [Registers' -> {Unknown} \union (0 .. 2^K - 1)]]
    <3>1. opened' = opened \/ \E w \in 0 .. 2^K - 1 :
              opened' = [opened EXCEPT ![p][program[pc[p]].dst] = w]
      BY DEF RecvStep
    <3>2. opened \in [Party -> [Registers -> {Unknown} \union (0 .. 2^K - 1)]]
      BY <1>1 DEF TypeOK
    <3> DEFINE S == 0 .. 2^K - 1
               d == program[pc[p]].dst
    <3>3. d \in Registers
      BY <1>1
    <3> HIDE DEF S, d
    <3>4. opened' \in [Party -> [Registers -> {Unknown} \union S]]
      BY <3>1, <3>2, <3>3 DEF S, d
    <3> QED BY <1>1, <3>4 DEF S
  <2>5. drawn' \in [Party -> Nat \X Nat]
    <3>1. /\ drawn[p] \in Nat \X Nat
          /\ drawn' = [drawn EXCEPT ![p] =
                << drawn[p][1] + (IF Op(pc[p]) = "mult" THEN 1 ELSE 0), drawn[p][2] >>]
      BY <1>1, Entries DEF RecvStep
    <3> QED BY <1>1, <3>1 DEF TypeOK
  <2>6. chan' \in [Party -> [Party -> Seq(0 .. 2^K - 1)]]
    <3>1. chan \in [Party -> [Party -> Seq(0 .. 2^K - 1)]]
      BY <1>1 DEF TypeOK
    <3>2. \A q \in Party : (q = Up(p, 1) \/ (q = Up(p, 2) /\ Public(p))) => chan[q][p] # <<>>
      BY DEF RecvStep
    <3>3. \A q \in Party : chan[q][p] # <<>> => Tail(chan[q][p]) \in Seq(0 .. 2^K - 1)
      <4>1. \A q \in Party : chan[q][p] \in Seq(0 .. 2^K - 1)
        BY <3>1
      <4> DEFINE S == 0 .. 2^K - 1
      <4>2. \A c \in Seq(S) : c # <<>> => Tail(c) \in Seq(S)
        <5> HIDE DEF S
        <5> QED OBVIOUS
      <4> QED BY <4>1, <4>2
    <3>4. chan' = [q \in Party |-> [chan[q] EXCEPT ![p] =
            IF q = Up(p, 1) \/ (q = Up(p, 2) /\ Public(p))
            THEN Tail(chan[q][p]) ELSE chan[q][p]]]
      BY DEF RecvStep
    <3> DEFINE t(q) == IF q = Up(p, 1) \/ (q = Up(p, 2) /\ Public(p))
                       THEN Tail(chan[q][p]) ELSE chan[q][p]
    <3>5. \A q \in Party : t(q) \in Seq(0 .. 2^K - 1)
      BY <3>1, <3>2, <3>3
    <3>6. chan' = [q \in Party |-> [chan[q] EXCEPT ![p] = t(q)]]
      BY <3>4
    <3> HIDE DEF t
    <3> QED BY <3>1, <3>5, <3>6
  <2> QED BY <2>1, <2>2, <2>3, <2>4, <2>5, <2>6 DEF TypeOK, Party, Word
<1>3. BusyRuns'
  <2>1. \A q \in Party : busy'[q] => q # p /\ busy[q] /\ pc'[q] = pc[q]
    BY RecvFacts
  <2> QED BY <1>1, <2>1 DEF IInv, BusyRuns, Running, Party
<1>4. Known'
  <2>1. ASSUME NEW q \in Party, NEW r \in Registers
        PROVE  shares'[q][r] # Unknown <=> Has(q, r)'
    <3>1. shares[q][r] # Unknown <=> Has(q, r)
      BY DEF IInv, Known
    <3>2. Has(q, r)' <=>
            (Has(q, r) \/ (q = p /\ Op(pc[p]) = "mult" /\ r = program[pc[p]].dst))
      BY RecvHas
    <3>3. shares'[q][r] # Unknown <=>
            (shares[q][r] # Unknown \/ (q = p /\ Op(pc[p]) = "mult" /\ r = program[pc[p]].dst))
      BY RecvShares
    <3> QED BY <3>1, <3>2, <3>3
  <2> QED BY <1>1, <2>1 DEF Known, Party
<1>5. NotYetOpened'
  <2>1. ASSUME NEW q \in Party, NEW r \in Registers, opened'[q][r] # Unknown
        PROVE  \E j \in 1 .. pc'[q] - 1 : program[j].dst = r
    <3>1. opened[q][r] # Unknown \/ (q = p /\ r = program[pc[p]].dst)
      <4>1. opened' = opened \/ \E w \in 0 .. 2^K - 1 :
                opened' = [opened EXCEPT ![p][program[pc[p]].dst] = w]
        BY DEF RecvStep
      <4> QED BY <1>1, <2>1, <4>1 DEF TypeOK
    <3> QED BY <3>1, RecvHas DEF IInv, NotYetOpened
  <2> QED BY <1>1, <2>1 DEF NotYetOpened, Party
<1> QED BY <1>2, <1>3, <1>4, <1>5

LEMMA RecvCounts ==
    ASSUME IInv, NEW p \in Party, RecvStep(p)
    PROVE  Counts'
<1>1. /\ drawn \in [Party -> Nat \X Nat]
      /\ drawn' = [drawn EXCEPT ![p] =
            << drawn[p][1] + (IF Op(pc[p]) = "mult" THEN 1 ELSE 0), drawn[p][2] >>]
  BY DEF RecvStep, IInv, TypeOK
<1>2. ASSUME NEW q \in Party
      PROVE  /\ drawn'[q][1] = Draws(pc'[q]) +
                   (IF busy'[q] /\ Op(pc'[q]) = "multpub" THEN 1 ELSE 0)
             /\ drawn'[q][2] = Draws(Sends(q) + 1)
  <2>1. CASE q = p
    <3>1. busy[p] /\ ~busy'[p] /\ pc'[p] = pc[p] + 1 /\ pc[p] \in Nat \ {0}
      BY RecvSame, RecvFacts
    <3>2. /\ drawn[p][1] = Draws(pc[p]) + (IF Op(pc[p]) = "multpub" THEN 1 ELSE 0)
          /\ drawn[p][2] = Draws(Sends(p) + 1)
      BY <3>1 DEF IInv, Counts
    <3>3. /\ Draws(pc[p]) \in Nat
          /\ Draws(pc[p] + 1) = Draws(pc[p]) + (IF Op(pc[p]) \in {"mult", "multpub"} THEN 1 ELSE 0)
      BY <3>1, Counted
    <3>4. drawn'[p] = <<drawn[p][1] + (IF Op(pc[p]) = "mult" THEN 1 ELSE 0), drawn[p][2]>>
      BY <1>1
    <3> QED BY <2>1, <3>1, <3>2, <3>3, <3>4
  <2>2. CASE q # p
    BY <1>1, <2>2, RecvFacts DEF IInv, Counts
  <2> QED BY <2>1, <2>2
<1>3. \A q \in Party : Sends(q)' = Sends(q)
  BY RecvFacts
<1>4. \A i : Draws(i)' = Draws(i) /\ Op(i)' = Op(i)
  BY RecvSame
<1> QED BY <1>2, <1>3, <1>4 DEF Counts, Party

\* The sockets after a receive.
LEMMA RecvChan ==
    ASSUME IInv, NEW p \in Party, RecvStep(p), NEW w \in Party, NEW q \in Party
    PROVE  /\ q # p => chan'[w][q] = chan[w][q]
           /\ chan'[w][p] = IF w = Up(p, 1) \/ (w = Up(p, 2) /\ Public(p))
                            THEN Tail(chan[w][p]) ELSE chan[w][p]
           /\ chan[w][q] \in Seq(0 .. 2^K - 1) /\ Len(chan[w][q]) \in Nat
           /\ (w = Up(p, 1) \/ (w = Up(p, 2) /\ Public(p))) =>
                /\ Len(Tail(chan[w][p])) = Len(chan[w][p]) - 1
                /\ \A k \in 1 .. Len(chan[w][p]) - 1 : Tail(chan[w][p])[k] = chan[w][p][k + 1]
           /\ \A i \in Nat \ {0} : i <= Sends(w) => Message(w, i)' = Message(w, i)
<1>1. chan \in [Party -> [Party -> Seq(0 .. 2^K - 1)]]
  BY DEF IInv, TypeOK
<1> DEFINE t(u) == IF u = Up(p, 1) \/ (u = Up(p, 2) /\ Public(p))
                   THEN Tail(chan[u][p]) ELSE chan[u][p]
<1>2. chan' = [u \in Party |-> [chan[u] EXCEPT ![p] = t(u)]]
  BY DEF RecvStep
<1>3. (w = Up(p, 1) \/ (w = Up(p, 2) /\ Public(p))) => chan[w][p] # <<>>
  BY DEF RecvStep
<1>4. /\ chan[w][q] \in Seq(0 .. 2^K - 1) /\ Len(chan[w][q]) \in Nat
      /\ chan[w][p] \in Seq(0 .. 2^K - 1)
  BY <1>1
<1>5. chan[w][p] # <<>> =>
        /\ Len(Tail(chan[w][p])) = Len(chan[w][p]) - 1
        /\ \A k \in 1 .. Len(chan[w][p]) - 1 : Tail(chan[w][p])[k] = chan[w][p][k + 1]
  <2> DEFINE c == chan[w][p]
             S == 0 .. 2^K - 1
  <2>1. c \in Seq(S)
    BY <1>4
  <2> HIDE DEF c, S
  <2>2. c # <<>> => /\ Len(Tail(c)) = Len(c) - 1
                    /\ \A k \in 1 .. Len(c) - 1 : Tail(c)[k] = c[k + 1]
    BY <2>1
  <2> QED BY <2>2 DEF c
<1>6. \A i \in Nat \ {0} : i <= Sends(w) => Message(w, i)' = Message(w, i)
  BY RecvShares, SentKept
<1>7. /\ q # p => chan'[w][q] = chan[w][q]
      /\ chan'[w][p] = t(w)
  <2> HIDE DEF t
  <2> QED BY <1>1, <1>2
<1> QED BY <1>3, <1>4, <1>5, <1>6, <1>7

LEMMA RecvQueues ==
    ASSUME IInv, NEW p \in Party, RecvStep(p)
    PROVE  Queues'
<1> SUFFICES ASSUME NEW w \in Party
             PROVE  /\ Len(chan'[w][Up(w, 2)]) = Sends(w) - (pc'[Up(w, 2)] - 1)
                    /\ \A k \in 1 .. Len(chan'[w][Up(w, 2)]) :
                          chan'[w][Up(w, 2)][k] = Message(w, pc[Up(w, 2)] - 1 + k)'
  <2>1. \A q \in Party : Sends(q)' = Sends(q)
    BY RecvFacts
  <2> QED BY <2>1 DEF Queues, Party, Up
<1> DEFINE q == Up(w, 2)
           c == chan[w][q]
<1>1. /\ q \in Party /\ pc[q] \in Nat \ {0} /\ Sends(w) \in Nat
      /\ Len(c) \in Nat
  BY Ups, Entries DEF IInv
<1>2. Len(c) = Sends(w) - (pc[q] - 1) /\ \A k \in 1 .. Len(c) : c[k] = Message(w, pc[q] - 1 + k)
  BY DEF IInv, Queues
<1>3. \A i \in Nat \ {0} : i <= Sends(w) => Message(w, i)' = Message(w, i)
  BY <1>1, RecvChan
<1>4. CASE q = p
  <2>1. w = Up(p, 1)
    BY <1>4, Ups
  <2>2. pc'[q] = pc[q] + 1
    BY <1>4, RecvFacts
  <2>3. /\ chan'[w][q] = Tail(c) /\ Len(Tail(c)) = Len(c) - 1
        /\ \A k \in 1 .. Len(c) - 1 : Tail(c)[k] = c[k + 1]
    BY <1>1, <1>4, <2>1, RecvChan
  <2> HIDE DEF q, c
  <2>4. ASSUME NEW k \in 1 .. Len(c) - 1
        PROVE  Tail(c)[k] = Message(w, pc[q] - 1 + k)'
    <3>1. PICK i \in Nat \ {0} : i = pc[q] + k
      BY <1>1
    <3>2. i = pc[q] - 1 + (k + 1) /\ k + 1 \in 1 .. Len(c) /\ i <= Sends(w)
      <4>1. Len(c) = Sends(w) - (pc[q] - 1)
        BY <1>2
      <4>2. k \in Nat /\ 1 <= k /\ k <= Len(c) - 1
        BY <1>1
      <4> QED BY <1>1, <3>1, <4>1, <4>2, SMTT(30)
    <3>3. Tail(c)[k] = Message(w, i)
      BY <1>2, <2>3, <3>2
    <3>4. pc'[q] - 1 + k = i
      BY <1>1, <2>2, <3>1
    <3>5. Message(w, pc[q] - 1 + k)' = Message(w, i)'
      BY <3>4
    <3> QED BY <1>3, <3>2, <3>3, <3>5
  <2>5. Len(c) - 1 = Sends(w) - (pc'[q] - 1)
    BY <1>1, <1>2, <2>2
  <2> QED BY <2>3, <2>4, <2>5 DEF q
<1>5. CASE q # p
  <2>1. chan'[w][q] = c /\ pc'[q] = pc[q]
    BY <1>1, <1>5, RecvChan, RecvFacts
  <2> HIDE DEF q, c
  <2>2. ASSUME NEW k \in 1 .. Len(c)
        PROVE  c[k] = Message(w, pc[q] - 1 + k)'
    <3>1. PICK i \in Nat \ {0} : i = pc[q] - 1 + k
      BY <1>1
    <3>2. i <= Sends(w) /\ c[k] = Message(w, i)
      BY <1>1, <1>2, <3>1
    <3>3. Message(w, pc[q] - 1 + k)' = Message(w, i)'
      BY <2>1, <3>1
    <3> QED BY <1>3, <3>2, <3>3
  <2> QED BY <1>2, <2>1, <2>2 DEF q
<1> QED BY <1>4, <1>5

LEMMA RecvPublic ==
    ASSUME IInv, NEW p \in Party, RecvStep(p)
    PROVE  PublicQueues'
<1> SUFFICES ASSUME NEW w \in Party
             PROVE  /\ Len(chan'[w][Up(w, 1)]) = Publics(Sends(w) + 1) - Publics(pc'[Up(w, 1)])
                    /\ \A i \in pc'[Up(w, 1)] .. Sends(w) : Op(i) = "multpub" =>
                          chan'[w][Up(w, 1)][Publics(i) - Publics(pc'[Up(w, 1)]) + 1]
                             = Message(w, i)'
  <2>1. \A q \in Party : Sends(q)' = Sends(q)
    BY RecvFacts
  <2>2. \A i : Publics(i)' = Publics(i) /\ Op(i)' = Op(i)
    BY RecvSame
  <2> QED BY <2>1, <2>2 DEF PublicQueues, Party, Up
<1> DEFINE q == Up(w, 1)
           c == chan[w][q]
<1>1. /\ q \in Party /\ pc[q] \in Nat \ {0} /\ Sends(w) \in Nat
      /\ Len(c) \in Nat
  BY Ups, Entries DEF IInv
<1>2. /\ Len(c) = Publics(Sends(w) + 1) - Publics(pc[q])
      /\ \A i \in pc[q] .. Sends(w) : Op(i) = "multpub" =>
            c[Publics(i) - Publics(pc[q]) + 1] = Message(w, i)
  BY DEF IInv, PublicQueues
<1>3. \A i \in Nat \ {0} : i <= Sends(w) => Message(w, i)' = Message(w, i)
  BY <1>1, RecvChan
<1>4. /\ Publics(pc[q]) \in Nat
      /\ Publics(pc[q] + 1) = Publics(pc[q]) + (IF Op(pc[q]) = "multpub" THEN 1 ELSE 0)
  BY <1>1, Counted
<1>5. Publics(Sends(w) + 1) \in Nat
  <2> DEFINE e == Sends(w) + 1
  <2>1. e \in Nat \ {0}
    BY <1>1
  <2> HIDE DEF e
  <2>2. Publics(e) \in Nat
    BY <2>1, Counted
  <2> QED BY <2>2 DEF e
<1>6. CASE q = p /\ Public(p)
  <2>1. w = Up(p, 2)
    BY <1>6, Ups
  <2>2. pc'[q] = pc[q] + 1 /\ Op(pc[q]) = "multpub"
    BY <1>6, RecvFacts DEF Public
  <2>3. /\ chan'[w][q] = Tail(c) /\ Len(Tail(c)) = Len(c) - 1
        /\ \A k \in 1 .. Len(c) - 1 : Tail(c)[k] = c[k + 1]
    BY <1>1, <1>6, <2>1, RecvChan
  <2>4. Publics(pc[q] + 1) = Publics(pc[q]) + 1
    BY <1>4, <2>2
  <2> HIDE DEF q, c
  <2>5. ASSUME NEW i \in pc[q] + 1 .. Sends(w), Op(i) = "multpub"
        PROVE  Tail(c)[Publics(i) - Publics(pc[q] + 1) + 1] = Message(w, i)'
    <3> DEFINE n == pc[q] + 1
               k == Publics(i) - Publics(n) + 1
    <3>1. i \in Nat \ {0} /\ n \in Nat \ {0} /\ n <= i /\ i <= Sends(w) /\ Sends(w) \in Nat \ {0}
          /\ i \in pc[q] .. Sends(w)
      BY <1>1
    <3> HIDE DEF n
    <3>2. k \in 1 .. Publics(Sends(w) + 1) - Publics(n) /\ Publics(i) \in Nat /\ Publics(n) \in Nat
      BY <2>5, <3>1, PublicPlace
    <3>3. Publics(n) = Publics(pc[q]) + 1
      BY <2>4 DEF n
    <3>4. k \in 1 .. Len(c) - 1 /\ k + 1 = Publics(i) - Publics(pc[q]) + 1
      BY <1>1, <1>2, <1>4, <1>5, <3>2, <3>3, SMTT(30)
    <3>5. Tail(c)[k] = Message(w, i)
      BY <1>2, <2>3, <2>5, <3>1, <3>4
    <3> QED BY <1>3, <3>1, <3>5 DEF n
  <2>6. Len(c) - 1 = Publics(Sends(w) + 1) - Publics(pc[q] + 1)
    BY <1>2, <1>4, <1>5, <2>4
  <2> QED BY <2>2, <2>3, <2>5, <2>6 DEF q
<1>7. CASE q = p /\ ~Public(p)
  <2>1. w # Up(p, 1) /\ w \in Party
    BY <1>7, Ups
  <2>2. pc'[q] = pc[q] + 1 /\ Op(pc[q]) # "multpub" /\ chan'[w][q] = c
    BY <1>7, <2>1, RecvFacts, RecvChan DEF Public
  <2>3. Publics(pc'[q]) = Publics(pc[q])
    BY <1>4, <2>2
  <2> HIDE DEF q, c
  <2>4. ASSUME NEW i \in pc'[q] .. Sends(w), Op(i) = "multpub"
        PROVE  c[Publics(i) - Publics(pc[q]) + 1] = Message(w, i)'
    <3>1. i \in pc[q] .. Sends(w) /\ i \in Nat \ {0} /\ i <= Sends(w)
      BY <1>1, <2>2
    <3> QED BY <1>2, <1>3, <2>4, <3>1
  <2> QED BY <1>2, <2>2, <2>3, <2>4 DEF q
<1>8. CASE q # p
  <2>1. chan'[w][q] = c /\ pc'[q] = pc[q]
    BY <1>1, <1>8, RecvChan, RecvFacts
  <2> HIDE DEF q, c
  <2>2. ASSUME NEW i \in pc[q] .. Sends(w), Op(i) = "multpub"
        PROVE  c[Publics(i) - Publics(pc[q]) + 1] = Message(w, i)'
    <3>1. i \in Nat \ {0} /\ i <= Sends(w)
      BY <1>1
    <3> QED BY <1>2, <1>3, <2>2, <3>1
  <2> QED BY <1>2, <2>1, <2>2 DEF q
<1> QED BY <1>6, <1>7, <1>8

LEMMA RecvLocals ==
    ASSUME IInv, NEW p \in Party, RecvStep(p)
    PROVE  Locals' /\ Products'
<1>1. /\ program' = program /\ v' = v
      /\ \A i : Op(i)' = Op(i)
      /\ \A s, i : Word3(s, i)' = Word3(s, i)
      /\ Steps' = Steps
      /\ Kept /\ ProgramOK /\ TypeOK
  BY RecvSame, RecvShares DEF IInv
<1>2. Locals'
  <2>1. ASSUME NEW q \in Party, busy'[q]
        PROVE  /\ pc'[q] = pc[q]
               /\ Op(pc[q]) = "mult" =>
                    Mask(v[q][1]) = Mask(Word3(Up(q, 2), pc[q])) /\ v[q][2] = Message(q, pc[q])'
               /\ Op(pc[q]) = "multpub" => Mask(v[q][1]) = Message(q, pc[q])'
    <3>1. q # p /\ busy[q] /\ pc'[q] = pc[q]
      BY <2>1, RecvFacts
    <3>2. pc[q] \in Nat \ {0} /\ pc[q] <= Sends(q)
      BY <1>1, <3>1, Entries
    <3>3. PICK i \in Nat \ {0} : i = pc[q]
      BY <3>2
    <3>4. Message(q, i)' = Message(q, i)
      BY <1>1, <3>2, <3>3, SentKept
    <3>5. Message(q, pc[q])' = Message(q, i)'
      BY <3>1, <3>3
    <3> QED BY <3>1, <3>3, <3>4, <3>5 DEF IInv, Locals
  <2> QED BY <1>1, <2>1 DEF Locals, Party, Mask, Up
<1>3. Products'
  <2>1. ASSUME NEW q \in Party, NEW j \in Steps, j < pc'[q], Op(j) = "mult"
        PROVE  LET c == shares'[q][program[j].dst] IN
               /\ Mask(c[1]) = Mask(Word3(Up(q, 1), j) + Message(q, j)')
               /\ Mask(c[2]) = Mask(Word3(Up(q, 2), j) + Message(Up(q, 1), j)')
    <3>1. j \in Nat \ {0} /\ program[j].dst \in Registers
      BY <1>1 DEF ProgramOK, Steps
    <3>2. pc[q] \in Nat
      BY <1>1, Entries
    <3>3. CASE j < pc[q]
      <4>1. Message(q, j)' = Message(q, j) /\ Message(Up(q, 1), j)' = Message(Up(q, 1), j)
        BY <1>1, <3>1, <3>3, SentKept
      <4>2. Has(q, program[j].dst)
        BY <2>1, <3>1, <3>2, <3>3 DEF Has
      <4>3. Alike(shares[q][program[j].dst], shares'[q][program[j].dst])
        BY <1>1, <3>1, <4>2 DEF Kept
      <4> QED BY <2>1, <3>3, <4>1, <4>3 DEF IInv, Products, Alike
    <3>4. CASE ~(j < pc[q])
      <4>1. q = p /\ j = pc[p]
        <5>1. q = p
          BY <2>1, <3>4, RecvFacts
        <5>2. pc'[q] = pc[q] + 1
          BY <5>1, RecvFacts
        <5> QED BY <2>1, <3>1, <3>2, <3>4, <5>1, <5>2
      <4>2. PICK w \in Word \X Word :
              /\ shares' = [shares EXCEPT ![p][program[pc[p]].dst] = w]
              /\ Mask(w[1]) = Mask(Word3(Up(p, 1), pc[p]) + Message(p, pc[p]))
              /\ Mask(w[2]) = Mask(Word3(Up(p, 2), pc[p]) + Message(Up(p, 1), pc[p]))
        BY <2>1, <4>1 DEF RecvStep
      <4>3. shares'[p][program[pc[p]].dst] = w
        BY <1>1, <3>1, <4>1, <4>2 DEF TypeOK
      <4>4. /\ Message(p, j)' = Message(p, j)
            /\ Message(Up(p, 1), j)' = Message(Up(p, 1), j)
        <5>1. j <= Sends(p) /\ j <= Sends(Up(p, 1)) /\ Up(p, 1) \in Party
          <6>1. Sends(p) = pc[p] /\ pc[p] \in Nat
            BY RecvFacts
          <6>2. pc[p] <= Sends(Up(p, 1)) /\ Up(p, 1) \in Party
            BY Ups DEF RecvStep
          <6> QED BY <4>1, <6>1, <6>2
        <5> QED BY <1>1, <3>1, <5>1, SentKept
      <4> QED BY <4>1, <4>2, <4>3, <4>4
    <3> QED BY <3>3, <3>4
  <2> QED BY <1>1, <2>1 DEF Products, Party, Mask, Up
<1> QED BY <1>2, <1>3

LEMMA RecvKeeps ==
    ASSUME IInv, NEW p \in Party, RecvStep(p)
    PROVE  IInv'
BY RecvTypes, RecvShares, RecvCounts, RecvQueues, RecvPublic, RecvLocals DEF IInv

-----------------------------------------------------------------------------
(***************************************************************************)
(* The invariant, and what it says of types, copies and streams.           *)
(***************************************************************************)
LEMMA Stutters == IInv /\ UNCHANGED vars => IInv'
<1> SUFFICES ASSUME IInv, UNCHANGED vars PROVE IInv'
  OBVIOUS
<1>1. /\ program' = program /\ pc' = pc /\ busy' = busy /\ shares' = shares
      /\ opened' = opened /\ v' = v /\ drawn' = drawn /\ stream' = stream /\ chan' = chan
  BY DEF vars
<1>2. /\ \A i : Draws(i)' = Draws(i) /\ Publics(i)' = Publics(i) /\ Op(i)' = Op(i)
      /\ \A s, i : Word3(s, i)' = Word3(s, i)
      /\ Steps' = Steps /\ Registers' = Registers
  BY <1>1, CountsKept DEF Registers
<1>3. \A p, i : Message(p, i)' = Message(p, i)
  BY <1>1, <1>2 DEF Message, Term
<1>4. \A p, r : Has(p, r)' <=> Has(p, r)
  BY <1>1, <1>2 DEF Has
<1>5. \A p : Sends(p)' = Sends(p)
  BY <1>1 DEF Sends
<1>6. TypeOK' /\ ProgramOK' /\ BusyRuns'
  BY <1>1, <1>2 DEF IInv, TypeOK, ProgramOK, BusyRuns, Running
<1>7. Known' /\ NotYetOpened' /\ InputsAgree'
  BY <1>1, <1>2, <1>4 DEF IInv, Known, NotYetOpened, InputsAgree
<1>8. Counts'
  BY <1>1, <1>2, <1>5 DEF IInv, Counts
<1>9. Queues'
  BY <1>1, <1>3, <1>5 DEF IInv, Queues
<1>10. PublicQueues'
  BY <1>1, <1>2, <1>3, <1>5 DEF IInv, PublicQueues
<1>11. Locals' /\ Products'
  BY <1>1, <1>2, <1>3 DEF IInv, Locals, Products
<1> QED BY <1>6, <1>7, <1>8, <1>9, <1>10, <1>11 DEF IInv

LEMMA StepKinds ==
    ASSUME IInv, NEW p \in Party, Step(p)
    PROVE  SendStep(p) \/ RecvStep(p)
BY MultSends, OpenSends, PubSends, MultRecvs, OpenRecvs, PubRecvs DEF Step

LEMMA Inductive == IInv /\ [Next]_vars => IInv'
<1> SUFFICES ASSUME IInv, [Next]_vars PROVE IInv'
  OBVIOUS
<1>1. CASE Next
  <2>1. PICK p \in Party : Step(p)
    BY <1>1 DEF Next
  <2> QED BY <2>1, StepKinds, SendKeeps, RecvKeeps
<1>2. CASE UNCHANGED vars
  BY <1>2, Stutters
<1> QED BY <1>1, <1>2

\* Every state of Rss_Mult, Rss_Open and Rss_MultPub has the invariant.
THEOREM Invariant == Spec => []IInv
BY Starts, Inductive, PTL DEF Spec

\* Shares, locals and messages are words of their widths in every state.
THEOREM TypeCorrect == Spec => []TypeOK
<1>1. IInv => TypeOK
  BY DEF IInv
<1> QED BY <1>1, Invariant, PTL

LEMMA Agree == IInv => ReplicasAgree
<1> SUFFICES ASSUME IInv, NEW p \in Party, NEW r \in Registers,
                    shares[p][r] # Unknown, shares[Up(p, 1)][r] # Unknown
             PROVE  Mask(shares[p][r][2]) = Mask(shares[Up(p, 1)][r][1])
  BY DEF ReplicasAgree
<1> DEFINE q == Up(p, 1)
<1>1. q \in Party /\ Up(q, 1) = Up(p, 2)
  BY Ups
<1>2. Has(p, r) /\ Has(q, r)
  BY <1>1 DEF IInv, Known
<1>3. CASE r \notin Written(program)
  BY <1>3 DEF IInv, InputsAgree
<1>4. CASE r \in Written(program)
  <2>1. PICK j \in 1 .. pc[p] - 1 : Op(j) = "mult" /\ program[j].dst = r
    BY <1>2, <1>4 DEF Has
  <2>2. PICK k \in 1 .. pc[q] - 1 : Op(k) = "mult" /\ program[k].dst = r
    BY <1>2, <1>4 DEF Has
  <2>3. /\ j \in Nat \ {0} /\ k \in Nat \ {0} /\ j < pc[p] /\ k < pc[q]
        /\ j \in Steps /\ k \in Steps
    <3>1. pc[p] \in Nat /\ pc[q] \in Nat
      BY <1>1, Entries DEF IInv
    <3>2. j \in Nat \ {0} /\ k \in Nat \ {0} /\ j < pc[p] /\ k < pc[q]
      BY <3>1
    <3> QED BY <1>1, <3>2, Behind
  <2>4. j = k
    BY <2>1, <2>2, <2>3 DEF IInv, ProgramOK
  <2>5. Mask(shares[p][r][2]) = Mask(Word3(Up(p, 2), j) + Message(q, j))
    BY <2>1, <2>3 DEF IInv, Products
  <2>6. Mask(shares[q][r][1]) = Mask(Word3(Up(q, 1), j) + Message(q, j))
    BY <1>1, <2>2, <2>3, <2>4 DEF IInv, Products
  <2> QED BY <1>1, <2>5, <2>6
<1> QED BY <1>3, <1>4

\* Two parties never disagree on a share they both hold, in whatever order
\* Rss_Mult, Rss_Open and Rss_MultPub are called and however far one party is
\* ahead of another.
THEOREM ReplicasAgreeAlways == Spec => []ReplicasAgree
BY Invariant, Agree, PTL

LEMMA InStep == IInv => StreamsInStep
<1> SUFFICES ASSUME IInv, NEW p \in Party, pc[p] = pc[Up(p, 1)], ~busy[p], ~busy[Up(p, 1)]
             PROVE  drawn[p][2] = drawn[Up(p, 1)][1]
  BY DEF StreamsInStep
<1> DEFINE q == Up(p, 1)
<1>1. q \in Party
  BY Ups
<1>2. Sends(p) + 1 = pc[p] /\ pc[q] \in Nat \ {0}
  BY <1>1, Entries DEF IInv
<1>3. drawn[p][2] = Draws(pc[p])
  BY <1>2 DEF IInv, Counts
<1>4. drawn[q][1] = Draws(pc[q]) + 0 /\ Draws(pc[q]) \in Nat
  BY <1>1, <1>2, Counted DEF IInv, Counts
<1> QED BY <1>3, <1>4

\* prg_getrandom: at the same instruction two neighbours have taken as many
\* words from the stream they share.
THEOREM StreamsInStepAlways == Spec => []StreamsInStep
BY Invariant, InStep, PTL

-----------------------------------------------------------------------------
(***************************************************************************)
(* The secret in a register.                                               *)
(***************************************************************************)
\* The three shares that p and its neighbour have of register r.
Shared(p, r) == Mask(Sum3(shares[p][r][1], shares[p][r][2], shares[Up(p, 1)][r][2]))

Pair(p, r) == Has(p, r) /\ Has(Up(p, 1), r)

LEMMA SharedRange ==
    ASSUME IInv, NEW p \in Party, NEW r \in Registers, Pair(p, r)
    PROVE  /\ Shared(p, r) \in 0 .. 2^K - 1 /\ Shared(p, r) # Unknown
           /\ shares[p][r] \in Word \X Word /\ shares[Up(p, 1)][r] \in Word \X Word
           /\ shares[p][r][1] \in Int /\ shares[p][r][2] \in Int
           /\ shares[Up(p, 1)][r][1] \in Int /\ shares[Up(p, 1)][r][2] \in Int
<1> DEFINE a == Up(p, 1)
<1>1. a \in Party
  BY Ups
<1>2. shares[p][r] # Unknown /\ shares[a][r] # Unknown
  BY <1>1 DEF IInv, Known, Pair
<1>3. shares[p][r] \in Word \X Word /\ shares[a][r] \in Word \X Word
  BY <1>1, <1>2, Entries DEF IInv
<1>4. /\ shares[p][r][1] \in Int /\ shares[p][r][2] \in Int
      /\ shares[a][r][1] \in Int /\ shares[a][r][2] \in Int
  BY <1>3, WordsAreIntegers
<1>5. Sum3(shares[p][r][1], shares[p][r][2], shares[a][r][2]) \in Int
  BY <1>4 DEF Sum3
<1>6. Shared(p, r) \in 0 .. 2^K - 1 /\ Shared(p, r) \in Word
  BY <1>5, Masks DEF Shared
<1> QED BY <1>3, <1>4, <1>6, InputAssumption

\* Any two parties add up the same secret.
LEMMA SharedSame ==
    ASSUME IInv, NEW p \in Party, NEW q \in Party, NEW r \in Registers,
           Pair(p, r), Pair(q, r)
    PROVE  Shared(p, r) = Shared(q, r)
<1>1. ASSUME NEW t \in Party, Pair(t, r), Pair(Up(t, 1), r)
      PROVE  Shared(t, r) = Shared(Up(t, 1), r)
  <2> DEFINE a == Up(t, 1)
             b == Up(t, 2)
             x == shares[t][r]
             y == shares[a][r]
             z == shares[b][r]
  <2>1. a \in Party /\ b \in Party /\ Up(a, 1) = b /\ Up(b, 1) = t
    BY Ups
  <2>2. Has(t, r) /\ Has(a, r) /\ Has(b, r)
    BY <1>1, <2>1 DEF Pair
  <2>3. shares[t][r] # Unknown /\ shares[a][r] # Unknown /\ shares[b][r] # Unknown
    BY <2>1, <2>2 DEF IInv, Known
  <2>4. Mask(x[2]) = Mask(y[1]) /\ Mask(z[2]) = Mask(x[1])
    BY <2>1, <2>3, Agree DEF ReplicasAgree
  <2>5. /\ x[1] \in Int /\ x[2] \in Int /\ y[1] \in Int /\ y[2] \in Int
        /\ z[1] \in Int /\ z[2] \in Int
    BY <1>1, <2>1, SharedRange
  <2>6. /\ Shared(t, r) = Mask(Sum3(x[1], x[2], y[2]))
        /\ Shared(a, r) = Mask(Sum3(y[1], y[2], z[2]))
    BY <2>1 DEF Shared
  <2> DEFINE x1 == x[1]  x2 == x[2]  y1 == y[1]  y2 == y[2]  z2 == z[2]  u == y2
  <2>7. /\ x1 \in Int /\ x2 \in Int /\ y1 \in Int /\ y2 \in Int /\ z2 \in Int /\ u \in Int
        /\ Mask(x1) = Mask(z2) /\ Mask(x2) = Mask(y1) /\ Mask(y2) = Mask(u)
        /\ Shared(t, r) = Mask(Sum3(x1, x2, y2))
        /\ Shared(a, r) = Mask(Sum3(y1, y2, z2))
    BY <2>4, <2>5, <2>6
  <2>8. y2 = u
    OBVIOUS
  <2> HIDE DEF x1, x2, y1, y2, z2, u
  <2>9. Mask(Sum3(x1, x2, y2)) = Mask(Sum3(z2, y1, u))
    BY <2>7, MaskThree
  <2>10. Sum3(z2, y1, u) = Sum3(y1, y2, z2)
    BY <2>7, <2>8 DEF Sum3
  <2> QED BY <2>7, <2>9, <2>10
<1> DEFINE a == Up(p, 1)
           b == Up(p, 2)
<1>2. a \in Party /\ b \in Party /\ Up(a, 1) = b /\ Up(b, 1) = p /\ Party = {p, a, b}
  BY Ups
<1>3. CASE q = p
  BY <1>3
<1>4. CASE q = a
  BY <1>1, <1>4
<1>5. CASE q = b
  BY <1>1, <1>2, <1>5
<1> QED BY <1>2, <1>3, <1>4, <1>5

LEMMA Secrets ==
    ASSUME IInv, NEW r \in Registers
    PROVE  /\ \A p \in Party : Pair(p, r) => Secret(r) = Shared(p, r) /\ Secret(r) # Unknown
           /\ (\A p \in Party : ~Pair(p, r)) => Secret(r) = Unknown
<1> DEFINE H == Holders(r)
<1>1. H \subseteq Party /\ \A p \in Party : p \in H <=> Has(p, r)
  BY DEF IInv, Known, Holders
<1>2. IsFiniteSet(H) /\ Cardinality(H) \in Nat
  <2>1. IsFiniteSet(1 .. 3)
    <3>1. 1 \in Int /\ 3 \in Int
      OBVIOUS
    <3> QED BY ONLY <3>1, FS_Interval
  <2>2. IsFiniteSet(H)
    BY <1>1, <2>1, FS_Subset DEF Party
  <2> QED BY <2>2, FS_CardinalityType
<1>3. ASSUME NEW p \in Party, Pair(p, r)
      PROVE  Secret(r) = Shared(p, r) /\ Secret(r) # Unknown
  <2>1. Up(p, 1) \in Party /\ Up(p, 1) # p
    BY Ups
  <2>2. {p, Up(p, 1)} \subseteq H
    BY <1>1, <1>3, <2>1 DEF Pair
  <2>3. Cardinality({p, Up(p, 1)}) = 2
    <3>1. IsFiniteSet({p}) /\ Cardinality({p}) = 1
      BY FS_Singleton
    <3>2. Cardinality({p} \cup {Up(p, 1)}) = Cardinality({p}) + 1
      BY <2>1, <3>1, FS_AddElement
    <3>3. {p} \cup {Up(p, 1)} = {p, Up(p, 1)}
      OBVIOUS
    <3> QED BY <3>1, <3>2, <3>3
  <2>4. Cardinality({p, Up(p, 1)}) <= Cardinality(H)
    BY <1>2, <2>2, FS_Subset
  <2>5. ~(Cardinality(Holders(r)) < 2)
    BY <1>2, <2>3, <2>4
  <2> DEFINE c == CHOOSE q \in Party : q \in Holders(r) /\ Up(q, 1) \in Holders(r)
  <2>6. c \in Party /\ c \in H /\ Up(c, 1) \in H
    BY <2>2
  <2>7. Pair(c, r)
    BY <1>1, <2>6 DEF Pair
  <2>8. Secret(r) = Shared(c, r)
    BY <2>5 DEF Secret, Shared, Sum3
  <2> HIDE DEF c
  <2>9. Shared(c, r) = Shared(p, r) /\ Shared(p, r) # Unknown
    BY <1>3, <2>6, <2>7, SharedSame, SharedRange
  <2> QED BY <2>8, <2>9
<1>4. ASSUME \A p \in Party : ~Pair(p, r)
      PROVE  Secret(r) = Unknown
  <2>1. \A p \in Party, q \in Party : p \in H /\ q \in H => p = q
    <3> SUFFICES ASSUME NEW p \in Party, NEW q \in Party, p \in H, q \in H, p # q
                 PROVE  FALSE
      OBVIOUS
    <3>1. q = Up(p, 1) \/ p = Up(q, 1)
      BY Ups
    <3> QED BY <1>1, <1>4, <3>1 DEF Pair
  <2>2. Cardinality(H) < 2
    <3>1. CASE H = {}
      <4>1. Cardinality({}) = 0
        BY FS_EmptySet
      <4> HIDE DEF H
      <4> QED BY <3>1, <4>1
    <3>2. CASE H # {}
      <4>1. PICK p : p \in H
        BY <3>2
      <4>2. H = {p}
        BY <1>1, <2>1, <4>1
      <4>3. Cardinality({p}) = 1
        BY FS_Singleton
      <4> HIDE DEF H
      <4> QED BY <4>2, <4>3
    <3> QED BY <3>1, <3>2
  <2> QED BY <2>2 DEF Secret
<1> QED BY <1>3, <1>4

-----------------------------------------------------------------------------
(***************************************************************************)
(* The products that the parties have locally add up to the product.       *)
(***************************************************************************)
L(p, x, y) == Local(shares[p][x], shares[p][y])

HaveAll(r) == \A p \in Party : Has(p, r)

\* One secret: three integers, of which each party has two.
LEMMA Split ==
    ASSUME IInv, NEW p \in Party, NEW r \in Registers, HaveAll(r)
    PROVE  LET a == Up(p, 1)
               b == Up(p, 2)
               x1 == shares[p][r][1]
               x2 == shares[a][r][1]
               x3 == shares[b][r][1] IN
           /\ x1 \in Int /\ x2 \in Int /\ x3 \in Int
           /\ x1 \in Word /\ x2 \in Word /\ x3 \in Word
           /\ shares[p][r] \in Word \X Word /\ Alike(shares[p][r], <<x1, x2>>)
           /\ shares[a][r] \in Word \X Word /\ Alike(shares[a][r], <<x2, x3>>)
           /\ shares[b][r] \in Word \X Word /\ Alike(shares[b][r], <<x3, x1>>)
           /\ Secret(r) = Mask(Sum3(x1, x2, x3)) /\ Secret(r) # Unknown
<1> DEFINE a == Up(p, 1)
           b == Up(p, 2)
<1>1. a \in Party /\ b \in Party /\ Up(a, 1) = b /\ Up(b, 1) = p
  BY Ups
<1>2. Has(p, r) /\ Has(a, r) /\ Has(b, r)
  BY <1>1 DEF HaveAll
<1>3. shares[p][r] # Unknown /\ shares[a][r] # Unknown /\ shares[b][r] # Unknown
  BY <1>1, <1>2 DEF IInv, Known
<1>4. shares[p][r] \in Word \X Word /\ shares[a][r] \in Word \X Word /\ shares[b][r] \in Word \X Word
  BY <1>1, <1>3, Entries DEF IInv
<1>5. /\ Mask(shares[p][r][2]) = Mask(shares[a][r][1])
      /\ Mask(shares[a][r][2]) = Mask(shares[b][r][1])
      /\ Mask(shares[b][r][2]) = Mask(shares[p][r][1])
  BY <1>1, <1>3, Agree DEF ReplicasAgree
<1> DEFINE x1 == shares[p][r][1]
           x2 == shares[a][r][1]
           x3 == shares[b][r][1]
           y2 == shares[p][r][2]
           y3 == shares[a][r][2]
<1>6. /\ x1 \in Word /\ x2 \in Word /\ x3 \in Word /\ y2 \in Word /\ y3 \in Word
  BY <1>4
<1>7. /\ x1 \in Int /\ x2 \in Int /\ x3 \in Int /\ y2 \in Int /\ y3 \in Int
  BY <1>6, WordsAreIntegers
<1>8. Secret(r) = Shared(p, r) /\ Secret(r) # Unknown
  BY <1>1, <1>2, Secrets DEF Pair
<1>9. Shared(p, r) = Mask(Sum3(x1, y2, y3))
  BY DEF Shared
<1>10. Mask(Sum3(x1, y2, y3)) = Mask(Sum3(x1, x2, x3))
  <2> DEFINE x0 == x1
  <2>1. x0 \in Int /\ Mask(x1) = Mask(x0) /\ Mask(y2) = Mask(x2) /\ Mask(y3) = Mask(x3)
    BY <1>5, <1>7
  <2> HIDE DEF x0, x1, x2, x3, y2, y3
  <2>2. Mask(Sum3(x1, y2, y3)) = Mask(Sum3(x0, x2, x3))
    BY <1>7, <2>1, MaskThree
  <2> QED BY <2>2 DEF x0
<1>11. /\ Alike(shares[p][r], <<x1, x2>>) /\ Alike(shares[a][r], <<x2, x3>>)
       /\ Alike(shares[b][r], <<x3, x1>>)
  BY <1>5 DEF Alike
<1> QED BY <1>4, <1>6, <1>7, <1>8, <1>9, <1>10, <1>11

Cross(x1, x2, y1, y2) == x1 * y1 + x1 * y2 + x2 * y1

LEMMA LocalPair ==
    ASSUME NEW a \in Word \X Word, NEW b \in Word \X Word,
           NEW x1 \in Word, NEW x2 \in Word, NEW y1 \in Word, NEW y2 \in Word,
           Alike(a, <<x1, x2>>), Alike(b, <<y1, y2>>)
    PROVE  /\ Local(a, b) \in Int
           /\ Mask(Local(a, b)) = Mask(Cross(x1, x2, y1, y2))
           /\ Cross(x1, x2, y1, y2) \in Int
<1> DEFINE c == <<x1, x2>>
           d == <<y1, y2>>
<1>1. /\ c \in Word \X Word /\ d \in Word \X Word
      /\ c[1] = x1 /\ c[2] = x2 /\ d[1] = y1 /\ d[2] = y2
  OBVIOUS
<1>2. Local(c, d) = Cross(x1, x2, y1, y2)
  BY <1>1 DEF Local, Cross
<1>3. Alike(c, c) /\ Alike(d, d) /\ Alike(a, c) /\ Alike(b, d)
  BY DEF Alike
<1> HIDE DEF c, d
<1>4. /\ Local(a, b) \in Int /\ Mask(Local(a, b)) = Mask(Local(c, d))
      /\ Local(c, d) \in Int
  BY <1>1, <1>3, LocalAlike
<1> QED BY <1>2, <1>4

\* Nine products of three shares each.
LEMMA Nine ==
    ASSUME NEW x1 \in Int, NEW x2 \in Int, NEW x3 \in Int,
           NEW y1 \in Int, NEW y2 \in Int, NEW y3 \in Int
    PROVE  Sum3(Cross(x1, x2, y1, y2), Cross(x2, x3, y2, y3), Cross(x3, x1, y3, y1))
             = Sum3(x1, x2, x3) * Sum3(y1, y2, y3)
BY Z3 DEF Sum3, Cross

LEMMA LocalSum ==
    ASSUME IInv, NEW p \in Party, NEW x \in Registers, NEW y \in Registers,
           HaveAll(x), HaveAll(y)
    PROVE  /\ L(p, x, y) \in Int /\ L(Up(p, 1), x, y) \in Int /\ L(Up(p, 2), x, y) \in Int
           /\ Mask(Sum3(L(p, x, y), L(Up(p, 1), x, y), L(Up(p, 2), x, y)))
                = Times(Secret(x), Secret(y))
           /\ Secret(x) # Unknown /\ Secret(y) # Unknown
<1> DEFINE a == Up(p, 1)
           b == Up(p, 2)
           x1 == shares[p][x][1]
           x2 == shares[a][x][1]
           x3 == shares[b][x][1]
           y1 == shares[p][y][1]
           y2 == shares[a][y][1]
           y3 == shares[b][y][1]
           e1 == Cross(x1, x2, y1, y2)
           e2 == Cross(x2, x3, y2, y3)
           e3 == Cross(x3, x1, y3, y1)
           l1 == L(p, x, y)
           l2 == L(a, x, y)
           l3 == L(b, x, y)
<1>1. /\ x1 \in Int /\ x2 \in Int /\ x3 \in Int
      /\ x1 \in Word /\ x2 \in Word /\ x3 \in Word
      /\ shares[p][x] \in Word \X Word /\ Alike(shares[p][x], <<x1, x2>>)
      /\ shares[a][x] \in Word \X Word /\ Alike(shares[a][x], <<x2, x3>>)
      /\ shares[b][x] \in Word \X Word /\ Alike(shares[b][x], <<x3, x1>>)
      /\ Secret(x) = Mask(Sum3(x1, x2, x3)) /\ Secret(x) # Unknown
  BY Split
<1>2. /\ y1 \in Int /\ y2 \in Int /\ y3 \in Int
      /\ y1 \in Word /\ y2 \in Word /\ y3 \in Word
      /\ shares[p][y] \in Word \X Word /\ Alike(shares[p][y], <<y1, y2>>)
      /\ shares[a][y] \in Word \X Word /\ Alike(shares[a][y], <<y2, y3>>)
      /\ shares[b][y] \in Word \X Word /\ Alike(shares[b][y], <<y3, y1>>)
      /\ Secret(y) = Mask(Sum3(y1, y2, y3)) /\ Secret(y) # Unknown
  BY Split
<1>3. l1 \in Int /\ Mask(l1) = Mask(e1) /\ e1 \in Int
  <2> DEFINE c == shares[p][x]
             d == shares[p][y]
  <2>1. /\ c \in Word \X Word /\ Alike(c, <<x1, x2>>)
        /\ d \in Word \X Word /\ Alike(d, <<y1, y2>>)
        /\ l1 = Local(c, d)
    BY <1>1, <1>2 DEF L
  <2> HIDE DEF c, d, x1, x2, y1, y2, l1
  <2>2. Local(c, d) \in Int /\ Mask(Local(c, d)) = Mask(e1) /\ e1 \in Int
    BY <1>1, <1>2, <2>1, LocalPair
  <2> QED BY <2>1, <2>2
<1>4. l2 \in Int /\ Mask(l2) = Mask(e2) /\ e2 \in Int
  <2> DEFINE c == shares[a][x]
             d == shares[a][y]
  <2>1. /\ c \in Word \X Word /\ Alike(c, <<x2, x3>>)
        /\ d \in Word \X Word /\ Alike(d, <<y2, y3>>)
        /\ l2 = Local(c, d)
    BY <1>1, <1>2 DEF L
  <2> HIDE DEF c, d, x2, x3, y2, y3, a, l2
  <2>2. Local(c, d) \in Int /\ Mask(Local(c, d)) = Mask(e2) /\ e2 \in Int
    BY <1>1, <1>2, <2>1, LocalPair
  <2> QED BY <2>1, <2>2
<1>5. l3 \in Int /\ Mask(l3) = Mask(e3) /\ e3 \in Int
  <2> DEFINE c == shares[b][x]
             d == shares[b][y]
  <2>1. /\ c \in Word \X Word /\ Alike(c, <<x3, x1>>)
        /\ d \in Word \X Word /\ Alike(d, <<y3, y1>>)
        /\ l3 = Local(c, d)
    BY <1>1, <1>2 DEF L
  <2> HIDE DEF c, d, x1, x3, y1, y3, b, l3
  <2>2. Local(c, d) \in Int /\ Mask(Local(c, d)) = Mask(e3) /\ e3 \in Int
    BY <1>1, <1>2, <2>1, LocalPair
  <2> QED BY <2>1, <2>2
<1> HIDE DEF x1, x2, x3, y1, y2, y3, l1, l2, l3
<1>6. Sum3(e1, e2, e3) = Sum3(x1, x2, x3) * Sum3(y1, y2, y3)
  BY <1>1, <1>2, Nine, SMTT(30)
<1> HIDE DEF e1, e2, e3
<1>7. Mask(Sum3(l1, l2, l3)) = Mask(Sum3(e1, e2, e3))
  BY <1>3, <1>4, <1>5, MaskThree
<1> DEFINE s == Sum3(x1, x2, x3)
           t == Sum3(y1, y2, y3)
           u == Mask(s)
           w == Mask(t)
<1>8. s \in Int /\ t \in Int
  BY <1>1, <1>2 DEF Sum3
<1> HIDE DEF s, t
<1>9. u \in Int /\ w \in Int /\ Mask(u) = Mask(s) /\ Mask(w) = Mask(t)
  BY <1>8, Masks
<1>10. Secret(x) = u /\ Secret(y) = w
  BY <1>1, <1>2 DEF s, t
<1> HIDE DEF u, w
<1>11. Mask(s * t) = Mask(u * w)
  BY <1>8, <1>9, MaskOps
<1>12. Mask(Sum3(l1, l2, l3)) = Times(Secret(x), Secret(y))
  BY <1>6, <1>7, <1>10, <1>11 DEF Times, s, t
<1> QED BY <1>1, <1>2, <1>3, <1>4, <1>5, <1>12 DEF l1, l2, l3

\* Who has come to an instruction has its operands.
LEMMA Came ==
    ASSUME IInv, NEW i \in Steps, \A q \in Party : i <= pc[q]
    PROVE  /\ program[i].x \in Registers /\ program[i].y \in Registers
           /\ program[i].dst \in Registers
           /\ HaveAll(program[i].x) /\ HaveAll(program[i].y)
BY Operands DEF IInv, HaveAll, ProgramOK

\* A word added to a message: the message's mask may be left out.
Blind(w, l, z) == w + (l - z)
Blinded(w, l, z) == w + Mask(l - z)

LEMMA Blinding ==
    ASSUME NEW w \in Int, NEW l \in Int, NEW z \in Int
    PROVE  Mask(Blinded(w, l, z)) = Mask(Blind(w, l, z)) /\ Blind(w, l, z) \in Int
<1> DEFINE e == l - z
<1>1. e \in Int
  OBVIOUS
<1> HIDE DEF e
<1>2. Mask(w + Mask(e)) = Mask(w + e) /\ w + e \in Int
  BY <1>1, MaskSum
<1> QED BY <1>2 DEF e, Blind, Blinded

\* A product that two neighbours have is the product of the secrets: every
\* word drawn is added once and subtracted once.
ProductRule ==
    \A i \in Steps, p \in Party :
        (Op(i) = "mult" /\ i < pc[p] /\ i < pc[Up(p, 1)]) =>
            /\ Secret(program[i].dst) = Times(Secret(program[i].x), Secret(program[i].y))
            /\ Secret(program[i].x) # Unknown /\ Secret(program[i].y) # Unknown

LEMMA ProductValue == IInv => ProductRule
<1> SUFFICES ASSUME IInv, NEW i \in Steps, NEW p \in Party,
                    Op(i) = "mult", i < pc[p], i < pc[Up(p, 1)]
             PROVE  /\ Secret(program[i].dst) = Times(Secret(program[i].x), Secret(program[i].y))
                    /\ Secret(program[i].x) # Unknown /\ Secret(program[i].y) # Unknown
  BY DEF ProductRule
<1> DEFINE a == Up(p, 1)
           b == Up(p, 2)
           d == program[i].dst
           x == program[i].x
           y == program[i].y
           c1 == shares[p][d][1]
           c2 == shares[p][d][2]
           c3 == shares[a][d][2]
           l1 == L(p, x, y)
           l2 == L(a, x, y)
           l3 == L(b, x, y)
           w1 == Word3(p, i)
           w2 == Word3(a, i)
           w3 == Word3(b, i)
<1>1. /\ a \in Party /\ b \in Party /\ Party = {p, a, b} /\ Up(a, 1) = b
      /\ Up(a, 2) = p /\ Up(b, 2) = a
      /\ i \in Nat \ {0} /\ w1 \in Int /\ w2 \in Int /\ w3 \in Int
  BY Ups, Words3 DEF IInv
<1>2. \A q \in Party : i <= pc[q]
  <2>1. i <= pc[b]
    BY <1>1, Behind
  <2>2. pc[p] \in Nat /\ pc[a] \in Nat
    BY <1>1, Entries DEF IInv
  <2> QED BY <1>1, <2>1, <2>2
<1>3. /\ x \in Registers /\ y \in Registers /\ d \in Registers
      /\ HaveAll(x) /\ HaveAll(y)
  BY <1>2, Came
<1>4. /\ l1 \in Int /\ l2 \in Int /\ l3 \in Int
      /\ Mask(Sum3(l1, l2, l3)) = Times(Secret(x), Secret(y))
      /\ Secret(x) # Unknown /\ Secret(y) # Unknown
  BY <1>3, LocalSum
<1>5. Pair(p, d)
  <2>1. Has(p, d) /\ Has(a, d)
    <3>1. pc[p] \in Nat /\ pc[a] \in Nat
      BY <1>1, Entries DEF IInv
    <3>2. i \in 1 .. pc[p] - 1 /\ i \in 1 .. pc[a] - 1
      BY <1>1, <3>1
    <3> QED BY <3>2 DEF Has
  <2> QED BY <2>1 DEF Pair
<1>6. /\ c1 \in Int /\ c2 \in Int /\ c3 \in Int
      /\ Secret(d) = Mask(Sum3(c1, c2, c3))
  <2>1. Secret(d) = Shared(p, d)
    BY <1>3, <1>5, Secrets
  <2> QED BY <1>3, <1>5, <2>1, SharedRange DEF Shared
<1>7. /\ Mask(c1) = Mask(w2 + Message(p, i))
      /\ Mask(c2) = Mask(w3 + Message(a, i))
      /\ Mask(c3) = Mask(w1 + Message(b, i))
  BY <1>1 DEF IInv, Products
<1>8. /\ Message(p, i) = Mask(l1 - w3)
      /\ Message(a, i) = Mask(l2 - w1)
      /\ Message(b, i) = Mask(l3 - w2)
  BY <1>1 DEF Message, Term, L
<1> DEFINE e1 == Blind(w2, l1, w3)
           e2 == Blind(w3, l2, w1)
           e3 == Blind(w1, l3, w2)
<1> HIDE DEF l1, l2, l3, w1, w2, w3, c1, c2, c3, a, b, d, x, y
<1>10. /\ Mask(c1) = Mask(e1) /\ Mask(c2) = Mask(e2) /\ Mask(c3) = Mask(e3)
       /\ e1 \in Int /\ e2 \in Int /\ e3 \in Int
  <2>1. /\ Mask(c1) = Mask(Blinded(w2, l1, w3)) /\ Mask(c2) = Mask(Blinded(w3, l2, w1))
        /\ Mask(c3) = Mask(Blinded(w1, l3, w2))
    BY <1>7, <1>8 DEF Blinded
  <2>2. /\ Mask(Blinded(w2, l1, w3)) = Mask(e1) /\ Mask(Blinded(w3, l2, w1)) = Mask(e2)
        /\ Mask(Blinded(w1, l3, w2)) = Mask(e3)
        /\ e1 \in Int /\ e2 \in Int /\ e3 \in Int
    BY <1>1, <1>4, Blinding
  <2> QED BY <2>1, <2>2
<1>11. Sum3(e1, e2, e3) = Sum3(l1, l2, l3)
  BY <1>1, <1>4 DEF Sum3, Blind
<1> HIDE DEF e1, e2, e3
<1>12. Mask(Sum3(c1, c2, c3)) = Mask(Sum3(e1, e2, e3))
  BY <1>6, <1>10, MaskThree
<1> QED BY <1>4, <1>6, <1>11, <1>12 DEF d, x, y

LEMMA OpenValue ==
    ASSUME IInv, NEW p \in Party, NEW i \in Steps, Op(i) = "open",
           i <= pc[p], i <= pc[Up(p, 1)]
    PROVE  LET x == program[i].x IN
           /\ Mask(shares[p][x][1] + shares[p][x][2] + Message(Up(p, 1), i)) = Secret(x)
           /\ Secret(x) # Unknown
<1> DEFINE x == program[i].x
           a == Up(p, 1)
           x1 == shares[p][x][1]
           x2 == shares[p][x][2]
           y2 == shares[a][x][2]
           m == Message(a, i)
<1>1. a \in Party
  BY Ups
<1>2. x \in Registers /\ Pair(p, x)
  BY <1>1, Operands DEF IInv, Pair
<1>3. Secret(x) = Mask(Sum3(x1, x2, y2)) /\ Secret(x) # Unknown
  BY <1>2, Secrets DEF Shared
<1>4. x1 \in Int /\ x2 \in Int /\ y2 \in Int
  BY <1>2, SharedRange
<1>5. m = Mask(y2)
  BY DEF Message, Term
<1> HIDE DEF x1, x2, y2, m
<1> DEFINE u1 == x1
           u2 == x2
<1>6. m \in Int /\ Mask(m) = Mask(y2) /\ u1 \in Int /\ u2 \in Int
      /\ Mask(x1) = Mask(u1) /\ Mask(x2) = Mask(u2)
  BY <1>4, <1>5, Masks
<1> HIDE DEF u1, u2
<1>7. Mask(Sum3(x1, x2, m)) = Mask(Sum3(u1, u2, y2))
  BY <1>4, <1>6, MaskThree
<1>8. Mask(x1 + x2 + m) = Mask(Sum3(x1, x2, y2))
  BY <1>7 DEF u1, u2, Sum3
<1> QED BY <1>3, <1>8 DEF x1, x2, m

LEMMA PublicValue ==
    ASSUME IInv, NEW p \in Party, NEW i \in Steps, Op(i) = "multpub",
           \A q \in Party : i <= pc[q]
    PROVE  /\ Mask(Message(p, i) + Message(Up(p, 1), i) + Message(Up(p, 2), i))
                = Times(Secret(program[i].x), Secret(program[i].y))
           /\ Secret(program[i].x) # Unknown /\ Secret(program[i].y) # Unknown
<1> DEFINE a == Up(p, 1)
           b == Up(p, 2)
           x == program[i].x
           y == program[i].y
           l1 == L(p, x, y)
           l2 == L(a, x, y)
           l3 == L(b, x, y)
           w1 == Word3(p, i)
           w2 == Word3(a, i)
           w3 == Word3(b, i)
           t1 == Term(p, i)
           t2 == Term(a, i)
           t3 == Term(b, i)
           m1 == Message(p, i)
           m2 == Message(a, i)
           m3 == Message(b, i)
<1>1. /\ a \in Party /\ b \in Party /\ Up(a, 1) = b /\ Up(a, 2) = p
      /\ Up(b, 1) = p /\ Up(b, 2) = a
      /\ w1 \in Int /\ w2 \in Int /\ w3 \in Int
  BY Ups, Words3 DEF IInv
<1>2. x \in Registers /\ y \in Registers /\ HaveAll(x) /\ HaveAll(y)
  BY Came
<1>3. /\ l1 \in Int /\ l2 \in Int /\ l3 \in Int
      /\ Mask(Sum3(l1, l2, l3)) = Times(Secret(x), Secret(y))
      /\ Secret(x) # Unknown /\ Secret(y) # Unknown
  BY <1>2, LocalSum
<1>4. /\ t1 \in Int /\ t2 \in Int /\ t3 \in Int
      /\ m1 = Mask(t1) /\ m2 = Mask(t2) /\ m3 = Mask(t3)
      /\ m1 \in Int /\ m2 \in Int /\ m3 \in Int
      /\ Mask(m1) = m1 /\ Mask(m2) = m2 /\ Mask(m3) = m3
  BY <1>1, Terms DEF IInv, Message
<1>5. /\ t1 = l1 + Sign(p)[1] * w2 + Sign(p)[2] * w3
      /\ t2 = l2 + Sign(a)[1] * w3 + Sign(a)[2] * w1
      /\ t3 = l3 + Sign(b)[1] * w1 + Sign(b)[2] * w2
  BY <1>1 DEF Term, L
<1>6. /\ Sign(1) = <<1, 1>> /\ Sign(2) = <<-1, 1>> /\ Sign(3) = <<-1, -1>>
      /\ (p = 1 /\ a = 2 /\ b = 3) \/ (p = 2 /\ a = 3 /\ b = 1) \/ (p = 3 /\ a = 1 /\ b = 2)
  <2>1. Sign(1) = <<1, 1>> /\ Sign(2) = <<-1, 1>> /\ Sign(3) = <<-1, -1>>
    BY DEF Sign
  <2>2. p = 1 \/ p = 2 \/ p = 3
    BY DEF Party
  <2>3. /\ Up(1, 1) = 2 /\ Up(2, 1) = 3 /\ Up(3, 1) = 1
        /\ Up(1, 2) = 3 /\ Up(2, 2) = 1 /\ Up(3, 2) = 2
    BY DEF Up
  <2> QED BY <2>1, <2>2, <2>3
<1> HIDE DEF l1, l2, l3, w1, w2, w3, t1, t2, t3, m1, m2, m3, a, b, x, y
<1>7. Sum3(t1, t2, t3) = Sum3(l1, l2, l3)
  <2> DEFINE s1 == Sign(p)[1]  r1 == Sign(p)[2]
             s2 == Sign(a)[1]  r2 == Sign(a)[2]
             s3 == Sign(b)[1]  r3 == Sign(b)[2]
  <2>1. /\ t1 = l1 + s1 * w2 + r1 * w3
        /\ t2 = l2 + s2 * w3 + r2 * w1
        /\ t3 = l3 + s3 * w1 + r3 * w2
    BY <1>5
  <2>2. \/ s1 = 1 /\ r1 = 1 /\ s2 = -1 /\ r2 = 1 /\ s3 = -1 /\ r3 = -1
        \/ s1 = -1 /\ r1 = 1 /\ s2 = -1 /\ r2 = -1 /\ s3 = 1 /\ r3 = 1
        \/ s1 = -1 /\ r1 = -1 /\ s2 = 1 /\ r2 = 1 /\ s3 = -1 /\ r3 = 1
    BY <1>6
  <2> HIDE DEF s1, r1, s2, r2, s3, r3
  <2> QED BY <1>1, <1>3, <2>1, <2>2, Z3 DEF Sum3
<1>8. Mask(Sum3(m1, m2, m3)) = Mask(Sum3(t1, t2, t3))
  BY <1>4, MaskThree
<1>9. Mask(m1 + m2 + m3) = Mask(Sum3(m1, m2, m3))
  BY DEF Sum3
<1> QED BY <1>3, <1>7, <1>8, <1>9 DEF m1, m2, m3, a, b, x, y

-----------------------------------------------------------------------------
(***************************************************************************)
(* The parties together are the machine of Ideal.                          *)
(***************************************************************************)
SecretRule ==
    \A r \in Registers :
        /\ \A p \in Party : Pair(p, r) => Secret(r) = Shared(p, r) /\ Secret(r) # Unknown
        /\ (\A p \in Party : ~Pair(p, r)) => Secret(r) = Unknown

LEMMA SecretRules == IInv => SecretRule
BY Secrets DEF SecretRule

LEMMA NextRules == IInv' => SecretRule' /\ ProductRule'
BY SecretRules, ProductValue, PTL

\* A step that keeps the shares keeps the secrets that two neighbours have.
LEMMA SecretStays ==
    ASSUME IInv, IInv', Kept, Registers' = Registers, NEW r \in Registers,
           NEW q \in Party, Pair(q, r), Pair(q, r)'
    PROVE  Secret(r)' = Secret(r)
<1> DEFINE a == Up(q, 1)
           x1 == shares[q][r][1]
           x2 == shares[q][r][2]
           x3 == shares[a][r][2]
           y1 == shares'[q][r][1]
           y2 == shares'[q][r][2]
           y3 == shares'[a][r][2]
<1>1. a \in Party
  BY Ups
<1>2. Secret(r) = Mask(Sum3(x1, x2, x3))
  BY Secrets DEF Shared
<1>3. Secret(r)' = Shared(q, r)'
  BY NextRules DEF SecretRule, Party
<1>4. Shared(q, r)' = Mask(Sum3(y1, y2, y3))
  BY DEF Shared, Mask, Sum3, Up
<1>5. /\ shares'[q][r] \in Word \X Word /\ Alike(shares[q][r], shares'[q][r])
      /\ shares'[a][r] \in Word \X Word /\ Alike(shares[a][r], shares'[a][r])
  BY <1>1 DEF Kept, Pair
<1>6. x1 \in Int /\ x2 \in Int /\ x3 \in Int
  BY SharedRange
<1>7. y1 \in Int /\ y2 \in Int /\ y3 \in Int
  BY <1>5, WordsAreIntegers
<1>8. Mask(x1) = Mask(y1) /\ Mask(x2) = Mask(y2) /\ Mask(x3) = Mask(y3)
  BY <1>5 DEF Alike
<1> HIDE DEF x1, x2, x3, y1, y2, y3
<1>9. Mask(Sum3(x1, x2, x3)) = Mask(Sum3(y1, y2, y3))
  BY <1>6, <1>7, <1>8, MaskThree
<1> QED BY <1>2, <1>3, <1>4, <1>9

LEMMA SecretSame ==
    ASSUME IInv, IInv', Kept, Registers' = Registers, NEW r \in Registers,
           \A q \in Party : Has(q, r)' <=> Has(q, r)
    PROVE  Secret(r)' = Secret(r)
<1>1. \A q \in Party : Pair(q, r)' <=> Pair(q, r)
  BY Ups DEF Pair, Up
<1>2. CASE \E q \in Party : Pair(q, r)
  BY <1>1, <1>2, SecretStays
<1>3. CASE \A q \in Party : ~Pair(q, r)
  <2>1. Secret(r) = Unknown
    BY <1>3, Secrets
  <2>2. Secret(r)' = Unknown
    <3>1. \A q \in Party : ~Pair(q, r)'
      BY <1>1, <1>3
    <3>2. r \in Registers'
      OBVIOUS
    <3> QED BY <3>1, <3>2, NextRules DEF SecretRule, Party
  <2> QED BY <2>1, <2>2
<1> QED BY <1>2, <1>3

val == [r \in Registers |-> Secret(r)]

LEMMA ValSame ==
    ASSUME Registers' = Registers, \A r \in Registers : Secret(r)' = Secret(r)
    PROVE  val' = val
BY DEF val

LEMMA InitRefines == Init => Abstract!Init
<1> SUFFICES ASSUME Init PROVE Abstract!Init
  OBVIOUS
<1>1. IInv
  BY Starts
<1>2. ASSUME NEW r \in Registers
      PROVE  Secret(r) = Unknown <=> \E i \in DOMAIN program : program[i].dst = r
  <2>1. r \in Written(program) <=> \E i \in DOMAIN program : program[i].dst = r
    BY DEF Written
  <2>2. \A p \in Party : Has(p, r) <=> r \notin Written(program)
    BY DEF Init, Has
  <2>3. \A p \in Party : Pair(p, r) <=> r \notin Written(program)
    BY <2>2, Ups DEF Pair
  <2>4. 1 \in Party
    BY DEF Party
  <2> QED BY <1>1, <2>1, <2>3, <2>4, Secrets
<1>3. \A p \in Party, r \in Registers : opened[p][r] = Unknown
  BY DEF Init
<1> QED BY <1>2, <1>3 DEF Abstract!Init

LEMMA SendRefines ==
    ASSUME IInv, IInv', NEW p \in Party, SendStep(p)
    PROVE  program' = program /\ val' = val /\ opened' = opened
<1>1. program' = program /\ opened' = opened /\ Kept
  BY DEF SendStep, Kept
<1>2. Registers' = Registers /\ \A q \in Party : \A r : Has(q, r)' <=> Has(q, r)
  BY SendFacts
<1> QED BY <1>1, <1>2, SecretSame, ValSame

LEMMA RevealRefines ==
    ASSUME IInv, IInv', NEW p \in Party, RecvStep(p), Op(pc[p]) # "mult"
    PROVE  \E i \in DOMAIN program : Abstract!Reveal(p, i)
<1> DEFINE i == pc[p]
           a == Up(p, 1)
           b == Up(p, 2)
           s == program[pc[p]]
<1>1. /\ i \in Steps /\ i \in DOMAIN program /\ i \in Nat \ {0}
      /\ Op(i) \in {"open", "multpub"} /\ s.dst \in Registers
      /\ s.x \in Registers /\ s.y \in Registers
  BY RecvFacts DEF IInv, ProgramOK
<1>2. /\ program' = program /\ Kept /\ Registers' = Registers
      /\ a \in Party /\ b \in Party /\ Party = {p, a, b}
  BY RecvSame, RecvShares, Ups
<1>3. val' = val
  <2>1. \A q \in Party : \A r : Has(q, r)' <=> Has(q, r)
    BY RecvHas
  <2> QED BY <1>2, <2>1, SecretSame, ValSame
<1>4. i <= pc[p] /\ i <= pc[a] /\ (Public(p) => i <= pc[b])
  <2>1. i <= Sends(a) /\ (Public(p) => i <= Sends(b))
    BY DEF RecvStep
  <2>2. /\ Sends(a) \in Nat /\ pc[a] \in Nat /\ Sends(a) <= pc[a]
        /\ Sends(b) \in Nat /\ pc[b] \in Nat /\ Sends(b) <= pc[b]
    BY <1>2, Ahead DEF IInv
  <2> QED BY <1>1, <2>1, <2>2
<1>5. opened[p][s.dst] = Unknown
  <2>1. ASSUME opened[p][s.dst] # Unknown PROVE FALSE
    <3>1. PICK j \in 1 .. pc[p] - 1 : program[j].dst = s.dst
      BY <1>1, <2>1 DEF IInv, NotYetOpened
    <3>2. j \in Steps /\ j # i
      BY <1>1 DEF IInv, ProgramOK, Steps
    <3> QED BY <1>1, <3>1, <3>2 DEF IInv, ProgramOK
  <2> QED BY <2>1
<1>6. Secret(s.x) # Unknown /\ Secret(s.y) # Unknown
  <2>1. Pair(p, s.x) /\ Pair(p, s.y)
    BY <1>1, <1>2, <1>4, Operands DEF IInv, Pair
  <2> QED BY <1>1, <2>1, Secrets
<1>7. PICK w \in 0 .. 2^K - 1 :
        /\ opened' = [opened EXCEPT ![p][s.dst] = w]
        /\ Op(i) = "open" =>
              w = Mask(shares[p][s.x][1] + shares[p][s.x][2] + Message(a, i))
        /\ Public(p) => w = Mask(Message(p, i) + Message(a, i) + Message(b, i))
  BY DEF RecvStep
<1>8. w = IF s.op = "open" THEN Secret(s.x) ELSE Times(Secret(s.x), Secret(s.y))
  <2>1. CASE Op(i) = "open"
    BY <1>1, <1>4, <1>7, <2>1, OpenValue DEF Op
  <2>2. CASE Op(i) = "multpub"
    <3>1. \A q \in Party : i <= pc[q]
      BY <1>2, <1>4, <2>2 DEF Public
    <3> QED BY <1>1, <1>7, <2>2, <3>1, PublicValue DEF Op, Public
  <2> QED BY <1>1, <2>1, <2>2
<1>9. Abstract!Reveal(p, i)
  <2>1. s.op \in {"open", "multpub"}
    BY <1>1 DEF Op
  <2>2. /\ [r \in Registers |-> Secret(r)][s.x] = Secret(s.x)
        /\ [r \in Registers |-> Secret(r)][s.y] = Secret(s.y)
    BY <1>1
  <2>3. opened' = [opened EXCEPT ![p][s.dst] =
           IF s.op = "open" THEN Secret(s.x) ELSE Times(Secret(s.x), Secret(s.y))]
    BY <1>7, <1>8
  <2>4. [r \in Registers |-> Secret(r)]' = [r \in Registers |-> Secret(r)]
    BY <1>3 DEF val
  <2> QED BY <1>2, <1>5, <1>6, <2>1, <2>2, <2>3, <2>4 DEF Abstract!Reveal
<1> QED BY <1>1, <1>9

LEMMA MultiplyRefines ==
    ASSUME IInv, IInv', NEW p \in Party, RecvStep(p), Op(pc[p]) = "mult"
    PROVE  \/ \E i \in DOMAIN program : Abstract!Multiply(i)
           \/ program' = program /\ val' = val /\ opened' = opened
<1> DEFINE a == Up(p, 1)
           b == Up(p, 2)
<1>0. PICK i, d, x, y : /\ i = pc[p] /\ d = program[i].dst
                        /\ x = program[i].x /\ y = program[i].y
  OBVIOUS
<1>1. /\ i \in Steps /\ i \in DOMAIN program /\ i \in Nat \ {0}
      /\ d \in Registers /\ d \in Written(program)
      /\ x \in Registers /\ y \in Registers
      /\ pc'[p] = i + 1 /\ \A q \in Party : q # p => pc'[q] = pc[q]
      /\ ~Has(p, d) /\ Op(i) = "mult"
  BY <1>0, RecvFacts DEF IInv, ProgramOK
<1>2. /\ program' = program /\ opened' = opened /\ Kept /\ Registers' = Registers
      /\ a \in Party /\ b \in Party /\ Party = {p, a, b} /\ a # p /\ b # p
      /\ Up(a, 1) = b /\ Up(b, 1) = p
      /\ Steps' = Steps /\ \A j : Op(j)' = Op(j)
  BY RecvSame, RecvShares, Ups DEF RecvStep
<1>3. /\ \A q \in Party : \A r : r # d => (Has(q, r)' <=> Has(q, r))
      /\ Has(p, d)' /\ (Has(a, d)' <=> Has(a, d)) /\ (Has(b, d)' <=> Has(b, d))
  BY <1>0, <1>2, RecvHas
<1>4. \A r \in Registers : r # d => Secret(r)' = Secret(r)
  BY <1>2, <1>3, SecretSame
<1>5. CASE Has(a, d) /\ Has(b, d)
  <2>1. Pair(a, d) /\ Pair(a, d)'
    BY <1>2, <1>3, <1>5 DEF Pair, Up
  <2>2. Secret(d)' = Secret(d)
    BY <1>1, <1>2, <2>1, SecretStays
  <2> QED BY <1>2, <1>4, <2>2, ValSame
<1>6. CASE ~Has(a, d) /\ ~Has(b, d)
  <2>1. \A q \in Party : ~Pair(q, d) /\ ~Pair(q, d)'
    <3>1. ~Pair(p, d) /\ ~Pair(a, d) /\ ~Pair(b, d)
      BY <1>1, <1>2, <1>6 DEF Pair
    <3>2. ~Pair(p, d)' /\ ~Pair(a, d)' /\ ~Pair(b, d)'
      BY <1>2, <1>3, <1>6 DEF Pair, Up
    <3> QED BY <1>2, <3>1, <3>2
  <2>2. Secret(d) = Unknown
    BY <1>1, <2>1, Secrets
  <2>3. Secret(d)' = Unknown
    BY <1>1, <1>2, <2>1, NextRules DEF SecretRule, Party
  <2> QED BY <1>2, <1>4, <2>2, <2>3, ValSame
<1>7. ASSUME NEW q \in Party, (Has(a, d) /\ q = p) \/ (Has(b, d) /\ q = b),
             ~Has(a, d) \/ ~Has(b, d)
      PROVE  Abstract!Multiply(i)
  <2>1. Secret(d) = Unknown
    <3>1. ~Pair(p, d) /\ ~Pair(a, d) /\ ~Pair(b, d)
      BY <1>1, <1>2, <1>7 DEF Pair
    <3>2. \A t \in Party : ~Pair(t, d)
      BY <1>2, <3>1
    <3> QED BY <1>1, <3>2, Secrets
  <2>2. i < pc'[q] /\ i < pc'[Up(q, 1)] /\ q \in Party
    <3>1. ASSUME NEW t \in Party, Has(t, d)
          PROVE  i < pc[t]
      <4>1. PICK j \in 1 .. pc[t] - 1 : Op(j) = "mult" /\ program[j].dst = d
        BY <1>1, <3>1 DEF Has
      <4>2. pc[t] \in Nat /\ j \in Nat \ {0} /\ j < pc[t]
        BY Entries DEF IInv
      <4>3. j \in Steps
        BY <4>2, Behind
      <4>4. j = i
        BY <1>0, <1>1, <4>1, <4>3 DEF IInv, ProgramOK
      <4> QED BY <4>2, <4>4
    <3>2. i < pc'[p]
      BY <1>0, <1>1
    <3> QED BY <1>1, <1>2, <1>7, <3>1, <3>2
  <2>3. /\ Secret(d)' = Times(Secret(x)', Secret(y)')
        /\ Secret(x)' # Unknown /\ Secret(y)' # Unknown
    <3>1. ProductRule'
      BY NextRules
    <3>2. \A k \in Steps, t \in Party : (Op(k) = "mult" /\ k < pc'[t] /\ k < pc'[Up(t, 1)]) =>
            /\ Secret(program[k].dst)' = Times(Secret(program[k].x)', Secret(program[k].y)')
            /\ Secret(program[k].x)' # Unknown /\ Secret(program[k].y)' # Unknown
      BY <1>2, <3>1 DEF ProductRule, Party, Times, Mask, Up
    <3> QED BY <1>0, <1>1, <1>2, <2>2, <3>2
  <2>4. x # d /\ y # d
    <3>1. Has(p, x) /\ Has(p, y)
      <4>1. i <= pc[p]
        BY <1>0, <1>1
      <4> QED BY <1>0, <1>1, <4>1, Operands DEF IInv
    <3> QED BY <1>1, <3>1
  <2>5. Secret(x)' = Secret(x) /\ Secret(y)' = Secret(y)
    BY <1>1, <1>4, <2>4
  <2>6. val' = [val EXCEPT ![d] = Times(Secret(x), Secret(y))]
    <3>1. val' = [r \in Registers |-> Secret(r)']
      BY <1>2 DEF val
    <3>2. \A r \in Registers :
            Secret(r)' = IF r = d THEN Times(Secret(x), Secret(y)) ELSE Secret(r)
      BY <1>4, <2>3, <2>5
    <3>3. val = [r \in Registers |-> Secret(r)]
      BY DEF val
    <3> QED BY <1>1, <3>1, <3>2, <3>3
  <2>7. val[d] = Unknown /\ val[x] = Secret(x) /\ val[y] = Secret(y)
        /\ Secret(x) # Unknown /\ Secret(y) # Unknown
    BY <1>1, <2>1, <2>3, <2>5 DEF val
  <2>8. program[i].op = "mult"
    BY <1>1 DEF Op
  <2> QED BY <1>0, <1>2, <2>6, <2>7, <2>8 DEF Abstract!Multiply, val
<1>8. CASE Has(a, d) /\ ~Has(b, d)
  <2>1. Abstract!Multiply(i)
    BY <1>7, <1>8
  <2> QED BY <1>1, <2>1
<1>9. CASE ~Has(a, d) /\ Has(b, d)
  <2>1. Abstract!Multiply(i)
    BY <1>2, <1>7, <1>9
  <2> QED BY <1>1, <2>1
<1> QED BY <1>5, <1>6, <1>8, <1>9

LEMMA NextRefines ==
    ASSUME IInv, IInv', [Next]_vars
    PROVE  \/ \E i \in DOMAIN program :
                 Abstract!Multiply(i) \/ \E p \in Party : Abstract!Reveal(p, i)
           \/ program' = program /\ val' = val /\ opened' = opened
<1>1. CASE UNCHANGED vars
  BY <1>1 DEF vars, val, Registers, Secret, Holders
<1>2. CASE Next
  <2>1. PICK p \in Party : Step(p)
    BY <1>2 DEF Next
  <2>2. CASE SendStep(p)
    BY <2>2, SendRefines
  <2>3. CASE RecvStep(p)
    BY <2>3, MultiplyRefines, RevealRefines
  <2> QED BY <2>1, <2>2, <2>3, StepKinds
<1> QED BY <1>1, <1>2

\* Rss_Mult, Rss_Open and Rss_MultPub, run by three parties at their own pace
\* over the words of shared streams, compute what one trusted machine would: a
\* product of the secrets appears at once, and what is opened is a secret.
THEOREM ComputesTheIdeal == Spec => RefinesIdeal
<1>1. IInv /\ IInv' /\ [Next]_vars => [Abstract!Next]_(Abstract!ivars)
  BY NextRefines DEF Abstract!Next, Abstract!ivars, val
<1> QED BY <1>1, InitRefines, Invariant, PTL DEF Spec, RefinesIdeal, Abstract!Spec
=============================================================================
