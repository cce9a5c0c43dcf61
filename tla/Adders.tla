------------------------------- MODULE Adders -------------------------------
(***************************************************************************)
(* Addition of shared bit strings (bitAdd, bitAddTrunc): a carry-lookahead *)
(* adder whose rounds pair the bit that ends the low half of a block with  *)
(* every bit of its high half.  d_p and d_g are the propagate and generate *)
(* halves of the array d of the code.                                      *)
(***************************************************************************)
EXTENDS Frames

\* r_size rounded up to a power of two, and its logarithm.
Log2Up(r) == CHOOSE e \in 0..W : 2^e >= r /\ \A f \in 0 .. e - 1 : 2^f < r

\* index_array of round i: the positions whose carries are combined.
Pairs(r, i) ==
    LET r2 == 2^Log2Up(r)
        half == 2^(i - 1)
        y(c) == (half + (((c - 1) \div half) + 1) * 2 * half) % r2
        hi(c) == (y(c) + ((c - 1) % half) + 1) % (r2 + 1) IN
    SelectSeq([c \in 1 .. r2 \div 2 |-> <<y(c) - 1, hi(c) - 1>>],
              LAMBDA pair : pair[1] + 1 <= r /\ pair[2] + 1 <= r)

index_array == [r \in 1..W |-> [i \in 1 .. Log2Up(r) |-> Pairs(r, i)]]

\* The word whose bit b is f(b), for b below len.
FromBits(len, f(_)) == SumOver(0 .. len - 1, [b \in 0 .. len - 1 |-> f(b) * 2^b])

\* The factors that pair j puts in bits 2j and 2j + 1: p and g of its first
\* position, and p of the second twice.
CarryBuffer2(p, g, idx) ==
    FromBits(2 * Len(idx), LAMBDA b :
        Bit(IF b % 2 = 0 THEN p ELSE g, idx[b \div 2 + 1][1]))
CarryBuffer2_hi(p, idx) == FromBits(2 * Len(idx), LAMBDA b : Bit(p, idx[b \div 2 + 1][2]))

\* The products u back in the second positions: p replaced, g combined.
PairAt(idx, b) == {c \in DOMAIN idx : idx[c][2] = b}
SetP(p, u, idx) ==
    FromBits(W, LAMBDA b : IF PairAt(idx, b) = {} THEN Bit(p, b)
                           ELSE Bit(u, 2 * (CHOOSE c \in PairAt(idx, b) : TRUE) - 2))
SetG(g, u, idx) ==
    FromBits(W, LAMBDA b : IF PairAt(idx, b) = {} THEN Bit(g, b)
                           ELSE (Bit(u, 2 * (CHOOSE c \in PairAt(idx, b) : TRUE) - 1)
                                 + Bit(g, b)) % 2)

\* Rss_CircleOpL: log2 rounds of one product of packed bits each.
CircleOpL(fn, MultByte(_, _)) ==
    LET idx == index_array[ring_size][Top.round + 1]
        more == Top.round < Log2Up(ring_size) IN
    \/ /\ Running(fn, 1) /\ more
       /\ Let([a |-> Both(LAMBDA p, g : CarryBuffer2(p, g, idx), sh.p, sh.g),
               b |-> Each(LAMBDA p : CarryBuffer2_hi(p, idx), sh.p)])
    \/ /\ Running(fn, 2)
       /\ LetDraw([u |-> MultByte(sh.a, sh.b)], MultDraws(size))
    \/ /\ Running(fn, 3)
       /\ NextRound([p |-> Both(LAMBDA p, u : SetP(p, u, idx), sh.p, sh.u),
                     g |-> Both(LAMBDA g, u : SetG(g, u, idx), sh.g, sh.u)], 0)
    \/ /\ Running(fn, 1) /\ ~more
       /\ Return([g |-> sh.g])

Rss_CircleOpL          == CircleOpL("Rss_CircleOpL", Rss_Mult_Byte)
Rss_CircleOpL_mp_test  == CircleOpL("Rss_CircleOpL_mp_test", Rss_Mult_Byte_mp)
Rss_CircleOpL_7pc_test == CircleOpL("Rss_CircleOpL_7pc_test", Rss_Mult_Byte_7pc)

\* The call of it on d, and the sum once the carries are known.
Carries(circle) ==
    Call(circle, Num(ring_size, size, 0), [p |-> sh.d_p, g |-> sh.d_g], None, [g |-> "carries"])

\* Faulty variant: the carries stay where they arise.
Sum_unshifted == sh.d_p (+) sh.carries

Sum == sh.d_p (+) Shl(sh.carries, 1)

\* Rss_BitAdd of two shared numbers.
BitAdd(fn, MultBitwise(_, _, _), circle) ==
    \/ /\ Running(fn, 1)
       /\ LetDraw([d_p |-> sh.a (+) sh.b, d_g |-> MultBitwise(sh.a, sh.b, ring_size)],
                  MultDraws(size))
    \/ Running(fn, 2) /\ Carries(circle)
    \/ Running(fn, 3) /\ Return([res |-> Sum])

Rss_BitAdd     == BitAdd("Rss_BitAdd", Rss_Mult_Bitwise, "Rss_CircleOpL")
Rss_BitAdd_mp  == BitAdd("Rss_BitAdd_mp", Rss_Mult_Bitwise_mp, "Rss_CircleOpL_mp_test")
Rss_BitAdd_7pc == BitAdd("Rss_BitAdd_7pc", Rss_Mult_Bitwise_7pc, "Rss_CircleOpL_7pc_test")

\* The overload of Rss_BitAdd whose first number is public.
BitAddPub(fn, circle) ==
    \/ /\ Running(fn, 1)
       /\ Let([d_p |-> Const(pub.a) (+) sh.b, d_g |-> Mask(pub.a, sh.b)])
    \/ Running(fn, 2) /\ Carries(circle)
    \/ Running(fn, 3) /\ Return([res |-> Sum])

Rss_BitAdd_pub     == BitAddPub("Rss_BitAdd_pub", "Rss_CircleOpL")
Rss_BitAdd_pub_mp  == BitAddPub("Rss_BitAdd_pub_mp", "Rss_CircleOpL_mp_test")
Rss_BitAdd_pub_7pc == BitAddPub("Rss_BitAdd_pub_7pc", "Rss_CircleOpL_7pc_test")

-----------------------------------------------------------------------------
\* The threshold + 1 numbers of r_bitwise, of which number c is this batch.
Number(c) == Part(sh.r_bitwise, c * size + 1, (c + 1) * size)

AddThem(add, a, b, len, as) ==
    Call(add, Num(ring_size, len, 0), [a |-> a, b |-> b], None, [res |-> as])

\* Rss_nBitAdd: two numbers, one addition.
Rss_nBitAdd ==
    \/ /\ Running("Rss_nBitAdd", 1)
       /\ AddThem("Rss_BitAdd", Number(0), Number(1), size, "res")
    \/ /\ Running("Rss_nBitAdd", 2)
       /\ Return([res |-> sh.res])

\* Rss_nBitAdd_mp: three numbers, the third is added to the sum of the others.
Rss_nBitAdd_mp ==
    \/ /\ Running("Rss_nBitAdd_mp", 1)
       /\ AddThem("Rss_BitAdd_mp", Number(0), Number(1), size, "res")
    \/ /\ Running("Rss_nBitAdd_mp", 2)
       /\ AddThem("Rss_BitAdd_mp", sh.res, Number(2), size, "res")
    \/ /\ Running("Rss_nBitAdd_mp", 3)
       /\ Return([res |-> sh.res])

\* Rss_nBitAdd_7pc: four numbers, two sums as one batch and the sum of these.
Rss_nBitAdd_7pc ==
    \/ /\ Running("Rss_nBitAdd_7pc", 1)
       /\ AddThem("Rss_BitAdd_7pc", Join(Number(0), Number(1)), Join(Number(2), Number(3)),
                  2 * size, "c")
    \/ /\ Running("Rss_nBitAdd_7pc", 2)
       /\ AddThem("Rss_BitAdd_7pc", Part(sh.c, 1, size), Part(sh.c, size + 1, 2 * size),
                  size, "res")
    \/ /\ Running("Rss_nBitAdd_7pc", 3)
       /\ Return([res |-> sh.res])

-----------------------------------------------------------------------------
\* Rss_BitAdd_trunc: also the carries out of bit m - 1 and out of the last
\* bit, and the last bit of the sum, one batch after the other.
BitAdd_trunc(fn, MultBitwise(_, _, _), circle) ==
    \/ /\ Running(fn, 1)
       /\ LetDraw([d_p |-> sh.a (+) sh.b, d_g |-> MultBitwise(sh.a, sh.b, ring_size)],
                  MultDraws(size))
    \/ Running(fn, 2) /\ Carries(circle)
    \/ /\ Running(fn, 3)
       /\ Return([res |-> Sum,
                  carry |-> Join(Join(BitAt(sh.carries, m - 1), BitAt(sh.carries, ring_size - 1)),
                                 BitAt(Sum, ring_size - 1))])

Rss_BitAdd_trunc == BitAdd_trunc("Rss_BitAdd_trunc", Rss_Mult_Bitwise, "Rss_CircleOpL")
Rss_BitAdd_trunc_mp ==
    BitAdd_trunc("Rss_BitAdd_trunc_mp", Rss_Mult_Bitwise_mp, "Rss_CircleOpL_mp_test")

Rss_nBitAdd_trunc ==
    \/ /\ Running("Rss_nBitAdd_trunc", 1)
       /\ Call("Rss_BitAdd_trunc", Num(ring_size, size, m), [a |-> Number(0), b |-> Number(1)],
               None, [res |-> "res", carry |-> "carry"])
    \/ /\ Running("Rss_nBitAdd_trunc", 2)
       /\ Return([carry |-> sh.carry])

\* Rss_nBitAdd_trunc_mp hands its size over as m and its m as size, and keeps
\* the carries of the last addition.
Rss_nBitAdd_trunc_mp ==
    \/ /\ Running("Rss_nBitAdd_trunc_mp", 1)
       /\ Call("Rss_BitAdd_trunc_mp", Num(ring_size, m, size), [a |-> Number(0), b |-> Number(1)],
               None, [res |-> "res", carry |-> "carry"])
    \/ /\ Running("Rss_nBitAdd_trunc_mp", 2)
       /\ Call("Rss_BitAdd_trunc_mp", Num(ring_size, m, size), [a |-> sh.res, b |-> Number(2)],
               None, [res |-> "res", carry |-> "carry"])
    \/ /\ Running("Rss_nBitAdd_trunc_mp", 3)
       /\ Return([carry |-> sh.carry])

AdderStep ==
    \/ Rss_CircleOpL \/ Rss_CircleOpL_mp_test \/ Rss_CircleOpL_7pc_test
    \/ Rss_BitAdd \/ Rss_BitAdd_mp \/ Rss_BitAdd_7pc
    \/ Rss_BitAdd_pub \/ Rss_BitAdd_pub_mp \/ Rss_BitAdd_pub_7pc
    \/ Rss_nBitAdd \/ Rss_nBitAdd_mp \/ Rss_nBitAdd_7pc
    \/ Rss_BitAdd_trunc \/ Rss_BitAdd_trunc_mp \/ Rss_nBitAdd_trunc
    \/ Rss_nBitAdd_trunc_mp
=============================================================================
