------------------------------ MODULE Composite ------------------------------
(***************************************************************************)
(* The protocols on shared integers (protocols_composite): their sign, the *)
(* smaller and the larger of two, truncation and conversion to another     *)
(* ring.  All mask their argument with a random number, open the sum and   *)
(* correct the public result with shares of the number.                    *)
(***************************************************************************)
EXTENDS RandomShares, Comparison

\* Some three-party functions look for the second holder of ai at pid
\* numShares: party 2, which puts the constant in a share of its own.
ConstNumShares(c) ==
    IF run.repaired THEN Const(c)
    ELSE [p \in Party |-> [j \in Keys |-> [i \in DOMAIN c[p] |->
             IF <<p, j>> \in {<<1, 0>>, <<numShares(n), numShares(n) - 1>>} THEN c[p][i] ELSE 0]]]

\* Faulty variant: the sum is made in a wider type than the Lint it is for.
Weighted_wide(x, len, count) ==
    [p \in Party |-> [j \in Keys |-> [i \in 1..size |->
        SumOver(0 .. count - 1, [b \in 0 .. count - 1 |-> x[p][j][(i - 1) * len + b + 1] * 2^b])]]]

\* Secrets whose bits are shared one by one, count of every len: the number
\* they make, as an integer and as a bit string.
Weighted(x, len, count) ==
    [p \in Party |-> [j \in Keys |-> [i \in 1..size |->
        Wrap(SumOver(0 .. count - 1, [b \in 0 .. count - 1 |-> x[p][j][(i - 1) * len + b + 1] * 2^b]))]]]
Packed(x, len, count) ==
    [p \in Party |-> [j \in Keys |-> [i \in 1..size |->
        FromBits(count, LAMBDA b : Bit(x[p][j][(i - 1) * len + b + 1], 0))]]]

\* Faulty variant: a wrapped difference is not noticed.
Sign_unborrowed(c) ==
    sh.a -- c ++ sh.rprime ++ Shl(sh.b, ring_size - 1)

\* a less its low bits, which are c - r' or, if c < r', borrow 2^(k-1), for
\* the opened sum c as shares; its top bit is masked by b.
Sign(c) ==
    sh.a -- c ++ sh.rprime -- Shl(sh.u_2, ring_size - 1) ++ Shl(sh.b, ring_size - 1)

\* From step i on: r masks a, rprime is r without its top bit, r_2 its bits.
MSBFrom(fn, i, bitLT, const(_)) ==
    \/ /\ Running(fn, i)
       /\ Learn([c |-> EachPub(LAMBDA w : Low(w, ring_size - 1),
                               Rss_Open(sh.a ++ sh.r, ring_size))])
    \/ /\ Running(fn, i + 1)
       /\ Call(bitLT, Num(ring_size, size, 0), [b |-> sh.r_2], [a |-> pub.c], [res |-> "u_2"])
    \/ /\ Running(fn, i + 2)
       /\ Learn([e |-> EachPub(LAMBDA w : Bit(w, ring_size - 1),
                               Rss_Open(Sign(const(pub.c)), ring_size))])
    \/ /\ Running(fn, i + 3)
       /\ Return([res |-> const(pub.e) ++ sh.b -- Shl(Times(pub.e, sh.b), 1)])

\* new_Rss_MSB: r from an edaBit.
new_MSB(fn, randBit, eda, bitLT) ==
    \/ /\ Running(fn, 1)
       /\ Call(randBit, Num(ring_size, size, 0), None, None, [b |-> "b"])
    \/ /\ Running(fn, 2)
       /\ Call(eda, Num(ring_size, size, 0), None, None, [r |-> "r", b_2 |-> "b_2"])
    \/ /\ Running(fn, 3)
       /\ Let([rprime |-> sh.r -- Shl(BitAt(sh.b_2, ring_size - 1), ring_size - 1),
               r_2 |-> Only(sh.b_2, ring_size - 1)])
    \/ MSBFrom(fn, 4, bitLT, Const)

new_Rss_MSB         == new_MSB("new_Rss_MSB", "Rss_RandBit", "Rss_edaBit", "Rss_BitLT")
new_Rss_MSB_time    == new_MSB("new_Rss_MSB_time", "Rss_RandBit", "Rss_edaBit", "Rss_BitLT")
new_Rss_MSB_mp      == new_MSB("new_Rss_MSB_mp", "Rss_RandBit_mp", "Rss_edaBit_mp", "Rss_BitLT_mp")
new_Rss_MSB_time_mp == new_MSB("new_Rss_MSB_time_mp", "Rss_RandBit_mp", "Rss_edaBit_mp", "Rss_BitLT_mp")
new_Rss_MSB_7pc     == new_MSB("new_Rss_MSB_7pc", "Rss_RandBit_7pc", "Rss_edaBit_7pc", "Rss_BitLT_7pc")

\* Rss_MSB: r from random bits, ring_size of every secret, then all the b.
MSB(fn, randBit, bitLT, const(_)) ==
    \/ /\ Running(fn, 1)
       /\ Call(randBit, Num(ring_size, size * (ring_size + 1), 0), None, None, [b |-> "r_shares"])
    \/ /\ Running(fn, 2)
       /\ Let([b |-> Part(sh.r_shares, size * ring_size + 1, size * (ring_size + 1)),
               r |-> Weighted(sh.r_shares, ring_size, ring_size),
               rprime |-> Weighted(sh.r_shares, ring_size, ring_size - 1),
               r_2 |-> Packed(sh.r_shares, ring_size, ring_size - 1)])
    \/ MSBFrom(fn, 3, bitLT, const)

Rss_MSB     == MSB("Rss_MSB", "Rss_RandBit", "Rss_BitLT", ConstNumShares)
Rss_MSB_mp  == MSB("Rss_MSB_mp", "Rss_RandBit_mp", "Rss_BitLT_mp", Const)
Rss_MSB_7pc == MSB("Rss_MSB_7pc", "Rss_RandBit_7pc", "Rss_BitLT_7pc", Const)

-----------------------------------------------------------------------------
\* c * (x - y) + y for the sign c of a - b: x where it is negative.
Select(fn, msb, b, x, y) ==
    \/ /\ Running(fn, 1)
       /\ Call(msb, Num(ring_size, size, 0), [a |-> sh.a -- b], None, [res |-> "c"])
    \/ /\ Running(fn, 2)
       /\ LetDraw([d |-> Rss_Mult(sh.c, x -- y, ring_size)], MultDraws(size))
    \/ /\ Running(fn, 3)
       /\ Return([res |-> sh.d ++ y])

\* The secret number m of b for every secret of a.
Fixed(b) == [p \in Party |-> [j \in Keys |-> [i \in 1..size |-> b[p][j][m]]]]

Larger(fn, msb) == Select(fn, msb, sh.b, sh.b, sh.a)
FixedLarger(fn, msb) == Select(fn, msb, Fixed(sh.b), Fixed(sh.b), sh.a)
FixedSmaller(fn, msb) == Select(fn, msb, Fixed(sh.b), sh.a, Fixed(sh.b))

Rss_LT               == Larger("Rss_LT", "Rss_MSB")
new_Rss_LT           == Larger("new_Rss_LT", "new_Rss_MSB")
fixed_Rss_LT         == FixedLarger("fixed_Rss_LT", "new_Rss_MSB")
fixed_Rss_GT         == FixedSmaller("fixed_Rss_GT", "new_Rss_MSB")
fixed_Rss_LT_time    == FixedLarger("fixed_Rss_LT_time", "new_Rss_MSB_time")
fixed_Rss_GT_time    == FixedSmaller("fixed_Rss_GT_time", "new_Rss_MSB_time")
Rss_LT_mp            == Larger("Rss_LT_mp", "Rss_MSB_mp")
new_Rss_LT_mp        == Larger("new_Rss_LT_mp", "new_Rss_MSB_mp")
fixed_Rss_LT_mp      == FixedLarger("fixed_Rss_LT_mp", "new_Rss_MSB_mp")
fixed_Rss_GT_mp      == FixedSmaller("fixed_Rss_GT_mp", "new_Rss_MSB_mp")
fixed_Rss_LT_time_mp == FixedLarger("fixed_Rss_LT_time_mp", "new_Rss_MSB_time_mp")
fixed_Rss_GT_time_mp == FixedSmaller("fixed_Rss_GT_time_mp", "new_Rss_MSB_time_mp")

\* fixed_Rss_GT_LT_time: the signs of a - b and of a at once; the smaller of
\* a and b, doubled if a is negative.
GT_LT(fn, msb) ==
    \/ /\ Running(fn, 1)
       /\ Call(msb, Num(ring_size, 2 * size, 0), [a |-> Join(sh.a -- Fixed(sh.b), sh.a)], None,
               [res |-> "c"])
    \/ /\ Running(fn, 2)
       /\ LetDraw([d |-> Rss_Mult(Part(sh.c, 1, size), sh.a -- Fixed(sh.b), ring_size)],
                  MultDraws(size))
    \/ /\ Running(fn, 3)
       /\ Let([res |-> sh.d ++ Fixed(sh.b), c |-> Part(sh.c, size + 1, 2 * size)])
    \/ /\ Running(fn, 4)
       /\ LetDraw([d |-> Rss_Mult(sh.c, sh.res, ring_size)], MultDraws(size))
    \/ /\ Running(fn, 5)
       /\ Return([res |-> sh.d ++ sh.res])

fixed_Rss_GT_LT_time    == GT_LT("fixed_Rss_GT_LT_time", "new_Rss_MSB_time")
fixed_Rss_GT_LT_time_mp == GT_LT("fixed_Rss_GT_LT_time_mp", "new_Rss_MSB_time_mp")

-----------------------------------------------------------------------------
\* Faulty variant: the overflow of x + r is forgotten.
Overflow_none(c, shares) == Const(All(size, 0))

\* b: the top bits of r and of c, also as shares, differ, that is x + r has overflowed.
Overflow(c, shares) ==
    sh.r_km1 ++ Shr(shares, ring_size - 1)
             -- Shl(Times(EachPub(LAMBDA w : w \div 2^(ring_size - 1), c), sh.r_km1), 1)

\* Rss_truncPr_1: x without its m low bits; the top bit of x must be 0.
truncPr(fn, edaTrunc, const(_)) ==
    \/ /\ Running(fn, 1)
       /\ Call(edaTrunc, Num(ring_size, size, m), None, None,
               [r |-> "r", r_prime |-> "r_m_prime", r_km1 |-> "r_km1"])
    \/ /\ Running(fn, 2)
       /\ Learn([c |-> Rss_Open(sh.x ++ sh.r, ring_size)])
    \/ /\ Running(fn, 3)
       /\ Let([b |-> Overflow(pub.c, const(pub.c)),
               r_m_prime |-> sh.r_m_prime -- Shl(sh.r_km1, ring_size - 1 - m)])
    \/ /\ Running(fn, 4)
       /\ Return([res |-> const(EachPub(LAMBDA w : Low(w \div 2^m, ring_size - m - 1), pub.c))
                          -- sh.r_m_prime ++ Shl(sh.b, ring_size - m - 1)])

Rss_truncPr_1       == truncPr("Rss_truncPr_1", "Rss_edaBit_trunc", Const)
Rss_truncPr_time    == truncPr("Rss_truncPr_time", "Rss_edaBit_trunc", ConstNumShares)
Rss_truncPr_1_mp    == truncPr("Rss_truncPr_1_mp", "Rss_edaBit_trunc_mp", Const)
Rss_truncPr_time_mp == truncPr("Rss_truncPr_time_mp", "Rss_edaBit_trunc_mp", Const)

\* Rss_truncPriv: x times the secret power of two number priv_m_index of
\* priv_m, and then m bits less.
truncPriv(fn, trunc) ==
    \/ /\ Running(fn, 1)
       /\ LetDraw([prod |-> Rss_Mult_fixed_b(sh.x, sh.priv_m, pub.priv_m_index[1][1], ring_size)],
                  MultDraws(size))
    \/ /\ Running(fn, 2)
       /\ Call(trunc, Num(ring_size, size, m), [x |-> sh.prod], None, [res |-> "res"])
    \/ /\ Running(fn, 3)
       /\ Return([res |-> sh.res])

Rss_truncPriv         == truncPriv("Rss_truncPriv", "Rss_truncPr_1")
Rss_truncPriv_time    == truncPriv("Rss_truncPriv_time", "Rss_truncPr_time")
Rss_truncPriv_mp      == truncPriv("Rss_truncPriv_mp", "Rss_truncPr_1_mp")
Rss_truncPriv_time_mp == truncPriv("Rss_truncPriv_time_mp", "Rss_truncPr_time_mp")

-----------------------------------------------------------------------------
\* The bits of the public words c one by one.
Spread(c) ==
    [p \in Party |-> [e \in 1 .. size * ring_size |->
        Bit(c[p][((e - 1) \div ring_size) + 1], (e - 1) % ring_size)]]

\* From step 3 on: a less r is opened, the bits b_2 of r are added to it, and
\* the bits of the sum become integers of ring_size_prime (m) bits.
ConvertFrom3(fn, bitAdd) ==
    \/ /\ Running(fn, 3)
       /\ Learn([c |-> Rss_Open(sh.a -- sh.r, ring_size)])
    \/ /\ Running(fn, 4)
       /\ Call(bitAdd, Num(ring_size, size, 0), [b |-> sh.b_2], [a |-> pub.c], [res |-> "a_2"])
    \/ /\ Running(fn, 5)
       /\ Learn([c |-> Rss_Open_Bitwise(sh.a_2 (+) Packed(sh.r_shares, ring_size, ring_size),
                                        ring_size)])
    \/ /\ Running(fn, 6)
       /\ Let([a_k_prime |-> Unmask(Spread(pub.c), sh.r_shares)])
    \/ /\ Running(fn, 7)
       /\ Return([res |-> Weighted(sh.a_k_prime, ring_size, ring_size)])

new_Convert(fn, randBit, eda, bitAdd) ==
    \/ /\ Running(fn, 1)
       /\ Call(randBit, Num(m, size * ring_size, 0), None, None, [b |-> "r_shares"])
    \/ /\ Running(fn, 2)
       /\ Call(eda, Num(ring_size, size, 0), None, None, [r |-> "r", b_2 |-> "b_2"])
    \/ ConvertFrom3(fn, bitAdd)

new_Rss_Convert    == new_Convert("new_Rss_Convert", "Rss_RandBit", "Rss_edaBit", "Rss_BitAdd_pub")
new_Rss_Convert_mp ==
    new_Convert("new_Rss_Convert_mp", "Rss_RandBit_mp", "Rss_edaBit_mp", "Rss_BitAdd_pub_mp")

\* Rss_Convert: r from half of the random bits.
Rss_Convert ==
    \/ /\ Running("Rss_Convert", 1)
       /\ Call("Rss_RandBit", Num(m, 2 * size * ring_size, 0), None, None, [b |-> "bits"])
    \/ /\ Running("Rss_Convert", 2)
       /\ Let([r |-> Weighted(sh.bits, ring_size, ring_size),
               b_2 |-> Packed(sh.bits, ring_size, ring_size),
               r_shares |-> Part(sh.bits, size * ring_size + 1, 2 * size * ring_size)])
    \/ ConvertFrom3("Rss_Convert", "Rss_BitAdd_pub")

CompositeStep ==
    \/ new_Rss_MSB \/ new_Rss_MSB_time \/ new_Rss_MSB_mp \/ new_Rss_MSB_time_mp \/ new_Rss_MSB_7pc
    \/ Rss_MSB \/ Rss_MSB_mp \/ Rss_MSB_7pc
    \/ Rss_LT \/ new_Rss_LT \/ fixed_Rss_LT \/ fixed_Rss_GT \/ fixed_Rss_LT_time \/ fixed_Rss_GT_time
    \/ Rss_LT_mp \/ new_Rss_LT_mp \/ fixed_Rss_LT_mp \/ fixed_Rss_GT_mp
    \/ fixed_Rss_LT_time_mp \/ fixed_Rss_GT_time_mp
    \/ fixed_Rss_GT_LT_time \/ fixed_Rss_GT_LT_time_mp
    \/ Rss_truncPr_1 \/ Rss_truncPr_time \/ Rss_truncPr_1_mp \/ Rss_truncPr_time_mp
    \/ Rss_truncPriv \/ Rss_truncPriv_time \/ Rss_truncPriv_mp \/ Rss_truncPriv_time_mp
    \/ new_Rss_Convert \/ new_Rss_Convert_mp \/ Rss_Convert
=============================================================================
