----------------------------- MODULE Comparison -----------------------------
(***************************************************************************)
(* Comparing a public with a shared bit string (bitLT): the carry out of   *)
(* a + ~b + 1, from a tree whose every round halves the positions.         *)
(***************************************************************************)
EXTENDS Adders

\* The factors: p and g of the even positions, and p of the odd ones twice.
OptimalBuffer(p, g, r) ==
    FromBits(W, LAMBDA b :
        IF b % 2 = 0 THEN (IF b < r THEN Bit(p, b) ELSE 0)
        ELSE IF b - 1 < r THEN Bit(g, b - 1) ELSE 0)
OptimalBuffer_odd(p, r) ==
    FromBits(W, LAMBDA b :
        LET odd == IF b % 2 = 0 THEN b + 1 ELSE b IN
        IF odd < r THEN Bit(p, odd) ELSE 0)

\* Faulty variant: with an odd number of positions the last one is dropped.
Halve_even(u, old, r, odd) ==
    FromBits(r \div 2, LAMBDA j :
        (Bit(u, 2 * j + odd) + (IF odd = 1 THEN Bit(old, 2 * j + 1) ELSE 0)) % 2)

\* The halves of p (odd = 0) or g (odd = 1) after a round; the last of an odd
\* number of positions is kept.
Halve(u, old, r, odd) ==
    FromBits((r + 1) \div 2, LAMBDA j :
        IF 2 * j + 1 < r
        THEN (Bit(u, 2 * j + odd) + (IF odd = 1 THEN Bit(old, 2 * j + 1) ELSE 0)) % 2
        ELSE Bit(old, r - 1))

\* new_Rss_CarryOutAux; result(p, g) is what it leaves in res.
CarryOutAux(fn, MultByte(_, _), result(_, _)) ==
    \/ /\ Running(fn, 1) /\ Top.r > 1
       /\ Let([a |-> Both(LAMBDA p, g : OptimalBuffer(p, g, Top.r), sh.p, sh.g),
               b |-> Each(LAMBDA p : OptimalBuffer_odd(p, Top.r), sh.p)])
    \/ /\ Running(fn, 2)
       /\ LetDraw([u |-> MultByte(sh.a, sh.b)], MultDraws(size))
    \/ /\ Running(fn, 3)
       /\ NextRound([p |-> Both(LAMBDA u, p : Halve(u, p, Top.r, 0), sh.u, sh.p),
                     g |-> Both(LAMBDA u, g : Halve(u, g, Top.r, 1), sh.u, sh.g)],
                    (Top.r + 1) \div 2)
    \/ /\ Running(fn, 1) /\ Top.r <= 1
       /\ Return([res |-> result(sh.p, sh.g)])

\* With three parties d[2], d[3] are the generate shares.
Generate(p, g) == BitAt(g, 0)

\* Five and seven parties kept those indices, but have their generate shares
\* from d[numShares] on; the shares the caller cleared stay 0.
d2_d3(p, g) ==
    IF run.repaired THEN BitAt(g, 0)
    ELSE [q \in Party |-> [j \in Keys |-> [i \in 1..size |->
             IF j < 2 THEN Bit(p[q][j + 2][i], 0) ELSE 0]]]

new_Rss_CarryOutAux     == CarryOutAux("new_Rss_CarryOutAux", Rss_Mult_Byte, Generate)
new_Rss_CarryOutAux_mp  == CarryOutAux("new_Rss_CarryOutAux_mp", Rss_Mult_Byte_mp, d2_d3)
new_Rss_CarryOutAux_7pc == CarryOutAux("new_Rss_CarryOutAux_7pc", Rss_Mult_Byte_7pc, d2_d3)

\* A carry into position 0 adds p to g there.
WithCarryIn(p, g) == Both(LAMBDA a, b : BitXor(b, Bit(a, 0)), p, g)

\* Rss_CarryOut of a + b + 1, a public.
CarryOut(fn, aux) ==
    LET d_p == Const(pub.a) (+) sh.b IN
    \/ /\ Running(fn, 1)
       /\ Let([d_p |-> d_p, d_g |-> WithCarryIn(d_p, Mask(pub.a, sh.b))])
    \/ /\ Running(fn, 2)
       /\ Call(aux, Num(ring_size, size, 0), [p |-> sh.d_p, g |-> sh.d_g], None, [res |-> "res"])
    \/ /\ Running(fn, 3)
       /\ Return([res |-> sh.res])

Rss_CarryOut     == CarryOut("Rss_CarryOut", "new_Rss_CarryOutAux")
Rss_CarryOut_mp  == CarryOut("Rss_CarryOut_mp", "new_Rss_CarryOutAux_mp")
Rss_CarryOut_7pc == CarryOut("Rss_CarryOut_7pc", "new_Rss_CarryOutAux_7pc")

\* Rss_BitLT: b' is b negated, and so is the carry.
BitLT(fn, carryOut) ==
    \/ /\ Running(fn, 1)
       /\ Call(carryOut, Num(ring_size, size, 0),
               [b |-> sh.b (+) Const(All(size, 2^W - 1))], [a |-> pub.a], [res |-> "carry"])
    \/ /\ Running(fn, 2)
       /\ Return([res |-> BitAt(sh.carry, 0) (+) Const(All(size, 1))])

Rss_BitLT     == BitLT("Rss_BitLT", "Rss_CarryOut")
Rss_BitLT_mp  == BitLT("Rss_BitLT_mp", "Rss_CarryOut_mp")
Rss_BitLT_7pc == BitLT("Rss_BitLT_7pc", "Rss_CarryOut_7pc")

ComparisonStep ==
    \/ new_Rss_CarryOutAux \/ new_Rss_CarryOutAux_mp \/ new_Rss_CarryOutAux_7pc
    \/ Rss_CarryOut \/ Rss_CarryOut_mp \/ Rss_CarryOut_7pc
    \/ Rss_BitLT \/ Rss_BitLT_mp \/ Rss_BitLT_7pc
=============================================================================
