----------------------------- MODULE Replicated -----------------------------
(***************************************************************************)
(* Computing on replicated shares: the local operations of the protocols   *)
(* and what the exchanges of protocols_basic leave with every party.  The  *)
(* messages of an exchange and their interleavings are those of Rss3 and   *)
(* RssN; here all parties do it at once.                                   *)
(*                                                                         *)
(* A sharing x is a batch of secrets: x[p][j] is the array party p has for *)
(* its share j.  Shares of integers are summed, shares of bit strings are  *)
(* combined by exclusive or; both are words of W bits.                     *)
(***************************************************************************)
EXTENDS Sharing, FiniteSets, Functions, Sequences, TLC
LOCAL INSTANCE Bitwise

CONSTANTS
    W,              \* bits of a Lint
    Prg(_, _, _)    \* Prg(seed, T, k): a number, the k-th of the stream of T

ASSUME WordAssumption == W \in Nat \ {0}

VARIABLES
    run,            \* the case that is computed, with the number of parties
    drawn           \* drawn[p][j]: how many words p took from key j

n == run.n
t == (n - 1) \div 2
Party == 1..n
Sizes == {3, 5, 7}
KeysOf(m) == 0 .. numShares(m) - 1
Keys == KeysOf(n)
Word == 0 .. 2^W - 1
Wrap(x) == x % 2^W              \* Lint arithmetic
Low(x, k) == x % 2^k            \* & SHIFT[k]

\* Word x Word tables of the C operators ^ and &.
XorTable == [a \in Word |-> [b \in Word |-> a ^^ b]]
AndTable == [a \in Word |-> [b \in Word |-> a & b]]
BitXor(a, b) == XorTable[a][b]
BitAnd(a, b) == AndTable[a][b]
Bit(a, b) == (a \div 2^b) % 2

SumOver(S, f) == SumFunctionOnSet(f, S)
XorOver(S, f) == FoldFunctionOnSet(BitXor, 0, f, S)

\* TSet(p, j, m), and the first party that holds that share with the index
\* it holds it at, tabulated.
TSets == [m \in Sizes |-> [p \in 1..m |-> [j \in KeysOf(m) |-> TSet(p, j, m)]]]
Missing(p, j) == TSets[n][p][j]
Chi(p) == Missing(p, 0)

Copies == [m \in Sizes |-> [p \in 1..m |-> [j \in KeysOf(m) |->
    CHOOSE c \in (1..m) \X KeysOf(m) :
        /\ TSets[m][c[1]][c[2]] = TSets[m][p][j]
        /\ \A q \in 1 .. c[1] - 1 : q \in TSets[m][p][j] ]]]
Firsts == [m \in Sizes |-> {Copies[m][p][j] : p \in 1..m, j \in KeysOf(m)}]

\* The index at which p holds the share that q holds at j, and -1.
Indexes == [m \in Sizes |-> [p \in 1..m |-> [q \in 1..m |-> [j \in KeysOf(m) |->
    LET at == {l \in KeysOf(m) : TSets[m][p][l] = TSets[m][q][j]} IN
    IF at = {} THEN -1 ELSE CHOOSE l \in at : TRUE]]]]

-----------------------------------------------------------------------------
\* Operations on every share, or every pair of shares, of a batch.
Each(F(_), x) ==
    [p \in Party |-> [j \in Keys |-> [i \in DOMAIN x[p][j] |-> F(x[p][j][i])]]]

Both(F(_, _), x, y) ==
    [p \in Party |-> [j \in Keys |-> [i \in DOMAIN x[p][j] |-> F(x[p][j][i], y[p][j][i])]]]

x ++ y == Both(LAMBDA a, b : Wrap(a + b), x, y)
x -- y == Both(LAMBDA a, b : Wrap(a - b), x, y)
x (+) y == Both(BitXor, x, y)
Shl(x, d) == Each(LAMBDA a : Wrap(a * 2^d), x)
Shr(x, d) == Each(LAMBDA a : a \div 2^d, x)
BitAt(x, b) == Each(LAMBDA a : Bit(a, b), x)
Only(x, k) == Each(LAMBDA a : Low(a, k), x)

\* The values from..to of a batch, and two batches as one.
Part(x, from, to) == [p \in Party |-> [j \in Keys |-> SubSeq(x[p][j], from, to)]]
Join(x, y) == [p \in Party |-> [j \in Keys |-> x[p][j] \o y[p][j]]]

\* Public values: c[p] is the array party p has.
All(size, w) == [p \in Party |-> [i \in 1..size |-> w]]
EachPub(F(_), c) == [p \in Party |-> [i \in DOMAIN c[p] |-> F(c[p][i])]]
Times(c, x) ==
    [p \in Party |-> [j \in Keys |-> [i \in DOMAIN c[p] |-> Wrap(c[p][i] * x[p][j][i])]]]
Mask(c, x) ==
    [p \in Party |-> [j \in Keys |-> [i \in DOMAIN c[p] |-> BitAnd(c[p][i], x[p][j][i])]]]

\* Faulty variant: one of the holders puts it in another share.
ai_misplaced(m) ==
    CASE m = 3 -> << {0}, {1}, {} >>
      [] m = 5 -> << {0}, {}, {}, {5}, {4} >>
      [] m = 7 -> << {0}, {}, {}, {}, {18}, {16}, {10} >>

\* ai, the sharing of one: the share that every party puts a constant in.
ai(m) ==
    CASE m = 3 -> << {0}, {}, {1} >>
      [] m = 5 -> << {0}, {}, {}, {5}, {3} >>
      [] m = 7 -> << {0}, {}, {}, {}, {19}, {16}, {10} >>

Const(c) ==
    [p \in Party |-> [j \in Keys |-> [i \in DOMAIN c[p] |->
        IF j \in ai(n)[p] THEN c[p][i] ELSE 0]]]

-----------------------------------------------------------------------------
\* The k-th of the words that prg_getrandom(j, ..) is asked for next.
Draw(p, j, k) == Prg(run.seed, Missing(p, j), drawn[p][j] + k) % 2^W

\* The word numbers of p's own generator are those of its key 0.
Own(p, k) == Prg(run.seed, Party \ {p}, drawn[p][0] + k) % 2^W

\* A batch of random secrets: size words of every key.
Random(size) ==
    [p \in Party |-> [j \in Keys |-> [i \in 1..size |-> Draw(p, j, i)]]]

\* What x shares, below 2^k, taken from the first holder of every share.
Secret(x, k) ==
    [i \in DOMAIN x[1][0] |->
        Low(SumOver(Firsts[n], [c \in Firsts[n] |-> x[c[1]][c[2]][i]]), k)]

BitSecret(x, k) ==
    [i \in DOMAIN x[1][0] |->
        Low(XorOver(Firsts[n], [c \in Firsts[n] |-> x[c[1]][c[2]][i]]), k)]

\* Every party outside T has the same share of T, modulo 2^k.
Agree(x, k) ==
    \A p \in Party, j \in Keys : \A i \in DOMAIN x[p][j] :
        LET c == Copies[n][p][j] IN Low(x[p][j][i], k) = Low(x[c[1]][c[2]][i], k)

\* What p combines: its own copies, and those of the shares it lacks.
Copy(x, p, c, i) ==
    LET j == Indexes[n][p][c[1]][c[2]] IN
    IF j = -1 THEN x[c[1]][c[2]][i] ELSE x[p][j][i]

\* Rss_Open: the same sum at every party, cut to ring_size.  (The sums that
\* seven parties send each other are wrong, see RssN; this is their purpose.)
Rss_Open(x, k) ==
    [p \in Party |-> [i \in DOMAIN x[p][0] |->
        Low(SumOver(Firsts[n], [c \in Firsts[n] |-> Copy(x, p, c, i)]), k)]]

Rss_Open_Bitwise(x, k) ==
    [p \in Party |-> [i \in DOMAIN x[p][0] |->
        Low(XorOver(Firsts[n], [c \in Firsts[n] |-> Copy(x, p, c, i)]), k)]]

-----------------------------------------------------------------------------
\* The parties that take z from the stream of T.
Maskers(T) == {q \in Party \ T : Chi(q) # T}

\* The shares that v of other parties goes into: how far on the sender is.
MultFrom(m) ==
    CASE m = 3 -> (1 :> 1)
      [] m = 5 -> (5 :> 2 @@ 3 :> 1)
      [] m = 7 -> (19 :> 3 @@ 16 :> 2 @@ 10 :> 1)

\* The products of which party p holds both factors.
Local(x, y, p, i) ==
    SumOver(Keys, [j \in Keys |->
        x[p][j][i] * SumOver(Cross(n)[j + 1], [l \in Keys |-> y[p][l][i]])])

BitLocal(x, y, p, i) ==
    XorOver(Keys, [j \in Keys |->
        BitAnd(x[p][j][i], XorOver(Cross(n)[j + 1], [l \in Keys |-> y[p][l][i]]))])

\* What a product, or a public product, takes from every key.
MultDraws(size) == [p \in Party |-> [j \in Keys |-> size * prg_ctrs(n)[j + 1]]]
EachDraws(size) == [p \in Party |-> [j \in Keys |-> size]]

\* The sharing of what the parties have computed parts of: local(p, i) is the
\* part of p for secret i of len.  At(i, c, q, T) is the number of the word
\* that the Masker q of T uses for it when c are drawn for each.
Masked(local(_, _), len, k, At(_, _, _, _)) ==
    LET z(p, j, i, q) == Draw(p, j, At(i, prg_ctrs(n)[j + 1], q, Missing(p, j)))
        masks(p) == {j \in Keys : Missing(p, j) # Chi(p)}
        v(p, i) == Wrap(local(p, i) - SumOver(masks(p), [j \in masks(p) |-> z(p, j, i, p)]))
        c(p, j, i) == LET M == Maskers(Missing(p, j)) IN
                      SumOver(M, [q \in M |-> z(p, j, i, q)]) IN
    [p \in Party |-> [j \in Keys |-> [i \in 1..len |->
        Wrap(c(p, j, i)
             + (IF j = 0 THEN v(p, i)
                ELSE IF j \in DOMAIN MultFrom(n)
                THEN Low(v(Off(p, MultFrom(n)[j], n), i), k) ELSE 0))]]]

\* Three parties use a word once, five count on in trackers, seven take the
\* first for every Masker; Rss_Mult_Byte_7pc takes the first for all secrets.
Once(i, c, q, T) == i
Tracked(i, c, q, T) == (i - 1) * c + Cardinality({r \in Maskers(T) : r < q}) + 1
Untracked(i, c, q, T) == (i - 1) * c + 1
First(i, c, q, T) == 1

\* Rss_Mult: the same word for all the Maskers of a T.
Rss_Mult(x, y, k) == Masked(LAMBDA p, i : Local(x, y, p, i), Len(x[1][0]), k, Untracked)

\* Every secret of x with the secret b of y.
Rss_Mult_fixed_b(x, y, b, k) ==
    Rss_Mult(x, [p \in Party |-> [j \in Keys |-> [i \in DOMAIN x[p][j] |-> y[p][j][b]]]], k)

\* A product of bit strings.
BitMult(x, y, k, At(_, _, _, _)) ==
    LET z(p, j, i, q) == Draw(p, j, At(i, prg_ctrs(n)[j + 1], q, Missing(p, j)))
        masks(p) == {j \in Keys : Missing(p, j) # Chi(p)}
        v(p, i) == BitXor(BitLocal(x, y, p, i), XorOver(masks(p), [j \in Keys |-> z(p, j, i, p)]))
        c(p, j, i) == LET M == Maskers(Missing(p, j)) IN
                      XorOver(M, [q \in M |-> z(p, j, i, q)]) IN
    [p \in Party |-> [j \in Keys |-> [i \in DOMAIN x[p][j] |->
        BitXor(c(p, j, i),
            IF j = 0 THEN v(p, i)
            ELSE IF j \in DOMAIN MultFrom(n)
            THEN Low(v(Off(p, MultFrom(n)[j], n), i), k) ELSE 0)]]]

Rss_Mult_Bitwise(x, y, k)     == BitMult(x, y, k, Once)
Rss_Mult_Byte(x, y)           == BitMult(x, y, W, Once)
Rss_Mult_Bitwise_mp(x, y, k)  == BitMult(x, y, k, Tracked)
Rss_Mult_Byte_mp(x, y)        == BitMult(x, y, W, Tracked)
Rss_Mult_Bitwise_7pc(x, y, k) == BitMult(x, y, k, Untracked)
Rss_Mult_Byte_7pc(x, y)       == BitMult(x, y, W, First)

\* Rss_MultPub, after the words of the keys have cancelled (RssN).
Rss_MultPub(x, y, k) ==
    [p \in Party |-> [i \in DOMAIN x[p][0] |->
        Low(SumOver(Party, [q \in Party |-> Local(x, y, q, i)]), k)]]
=============================================================================
