---------------------------- MODULE RandomShares ----------------------------
(***************************************************************************)
(* Random secrets nobody knows (protocols_rand): random bits, and numbers  *)
(* shared both as an integer and as a bit string.  Every one of t + 1      *)
(* parties shares a number of its own; all but one of its shares come from *)
(* the generators of their holders, and only the last one is sent.         *)
(***************************************************************************)
EXTENDS Adders

\* The root of e modulo 2^R bit by bit, with its inverse: <<c1, c2>> after
\* bit j of both, and the last bit of the inverse.
rss_sqrt_inv(e, R) ==
    LET c[j \in 1 .. R - 2] ==
            IF j = 1 THEN <<1, 1>>
            ELSE LET old == c[j - 1]
                     c1 == old[1] + Bit(Wrap(e - old[1] * old[1]), j + 1) * 2^j IN
                 <<c1, old[2] + Bit(Wrap(1 - c1 * old[2]), j) * 2^j>>
        last == c[R - 2] IN
    last[2] + Bit(Wrap(1 - last[1] * last[2]), R - 1) * 2^(R - 1)

\* Faulty variant: a may be even.
Odd_even(u) == Shl(u, 1)

\* a, a random odd number.
Odd(u) == Shl(u, 1) ++ Const(All(size, 1))

\* Rss_RandBit: a divided by the root of its square is 1 or -1.
RandBit(fn) ==
    \/ /\ Running(fn, 1)
       /\ LetDraw([a |-> Odd(Random(size))], EachDraws(size))
    \/ /\ Running(fn, 2)
       /\ LearnDraw([e |-> Rss_MultPub(sh.a, sh.a, ring_size + 2)], EachDraws(size))
    \/ /\ Running(fn, 3)
       /\ Learn([c |-> EachPub(LAMBDA e : rss_sqrt_inv(e, ring_size + 2), pub.e)])
    \/ /\ Running(fn, 4)
       /\ Return([b |-> Shr(Times(pub.c, sh.a) ++ Const(All(size, 1)), 1)])

Rss_RandBit     == RandBit("Rss_RandBit")
Rss_RandBit_mp  == RandBit("Rss_RandBit_mp")
Rss_RandBit_7pc == RandBit("Rss_RandBit_7pc")

-----------------------------------------------------------------------------
\* index_map: the share in which a party puts what it receives of number c.
index_map(q) ==
    CASE q = 5 -> << <<0,3,5>>, <<0,0,3>>, <<0,0,0>>, <<5,0,0>>, <<3,5,0>> >>
      [] q = 7 -> << <<0,10,16,19>>, <<0,0,10,16>>, <<0,0,0,10>>, <<0,0,0,0>>,
                     <<19,0,0,0>>, <<16,19,0,0>>, <<10,16,19,0>> >>

\* eda_map: the parties it receives from, by the buffer, and reset_value,
\* the buffer it takes first.
eda_map(q) ==
    CASE q = 5 -> << <<2,3>>, <<3,0>>, <<0,0>>, <<0,1>>, <<1,2>> >>
      [] q = 7 -> << <<2,3,4>>, <<3,4,0>>, <<4,0,0>>, <<0,0,0>>, <<0,0,1>>,
                     <<0,1,2>>, <<1,2,3>> >>

reset_value(q) ==
    CASE q = 5 -> <<0,0,0,1,0>>
      [] q = 7 -> <<0,0,0,0,2,1,0>>

\* prg_bools: the shares it generates of the number of another party.
prg_bools(q) ==
    CASE q = 5 -> << {0,1,3}, {0,2,4}, {1,2}, {4,5} >>
      [] q = 7 -> << 11..19, (4..9) \union (17..19), (1..3) \union (7..9) \union (13..15),
                     {0,2,3,5,6,9,11,12,15,18}, {0,1,3,4,6,8,10,12,14,17},
                     {0,1,2,4,5,7,10,11,13,16} >>

\* One less, modulo n - 1.  The divisor is unsigned, and so is -1 in the
\* code; 2^32 - 1 is n - 2 modulo n - 1 for five parties but not for seven.
Down(i) ==
    IF i > 0 THEN i - 1
    ELSE IF run.repaired THEN n - 2
    ELSE ((2^16 % (n - 1)) * (2^16 % (n - 1)) - 1) % (n - 1)

\* index at the number of party c: one less after every number not its own.
index(p, c) ==
    LET at[s \in 0..t] == IF s = 0 THEN (IF p = 1 THEN Down(0) ELSE p - 2) ELSE Down(at[s - 1]) IN
    at[c - 1 - (IF p < c THEN 1 ELSE 0)]

\* The shares of the number of party c that party p generates.  The rows of
\* five parties are those of the parties 1, 2, .. before p, and so index
\* counts; the rows of seven parties are in the opposite order.
Generates(p, c) ==
    IF n = 3 THEN (IF Off(p, 2, 3) = c THEN {0} ELSE {})
    ELSE IF n = 7 /\ run.repaired THEN prg_bools(n)[n - 1 - index(p, c)]
    ELSE prg_bools(n)[index(p, c) + 1]

\* The party whose own share p puts in share j of that number, and 0.
Sender(p, c, j) ==
    IF n = 3 THEN (IF j = 1 /\ Off(p, 1, 3) = c THEN c ELSE 0)
    ELSE IF j > 0 /\ index_map(n)[p][c] = j
    THEN eda_map(n)[p][reset_value(n)[p] + 1
                       + Cardinality({d \in 1 .. c - 1 : index_map(n)[p][d] > 0})]
    ELSE 0

\* Share 0 of the owner c: its number less the shares it generates.
OwnShare(c, x, number, bits) ==
    IF bits
    THEN BitXor(number, XorOver(Keys \ {0}, [j \in Keys |-> Draw(c, j, x)]))
    ELSE Wrap(number - SumOver(Keys \ {0}, [j \in Keys |-> Draw(c, j, x)]))

\* r_values: what p has as share j of the number(c) of party c, shared with
\* the words number x of every key.
r_values(p, c, j, x, number(_), bits) ==
    LET from == Sender(p, c, j) IN
    IF p = c THEN (IF j = 0 THEN OwnShare(c, x, number(c), bits) ELSE Draw(p, j, x))
    ELSE IF from # 0 THEN Low(OwnShare(from, x, number(from), bits), ring_size)
    ELSE IF j \in Generates(p, c) THEN Draw(p, j, x)
    ELSE 0

\* The t + 1 numbers of a batch one after the other, and their sums; slot(i)
\* is the number of the words for secret i and number(c, i) what is shared.
Numbers(slot(_), number(_, _)) ==
    [p \in Party |-> [j \in Keys |-> [e \in 1 .. (t + 1) * size |->
        LET i == ((e - 1) % size) + 1 IN
        r_values(p, (e - 1) \div size + 1, j, slot(i), LAMBDA c : number(c, i), TRUE)]]]

Sums(slot(_), number(_, _)) ==
    [p \in Party |-> [j \in Keys |-> [i \in 1..size |->
        Wrap(SumOver(1 .. t + 1, [c \in 1 .. t + 1 |->
            r_values(p, c, j, slot(i), LAMBDA d : number(d, i), FALSE)]))]]]

\* Rss_GenerateRandomShares: integers and bit strings of the same numbers.
GenerateRandomShares(fn, integer(_), bitstring(_), words) ==
    /\ Running(fn, 1)
    /\ ReturnDraw([res |-> Sums(integer, Own), res_bitwise |-> Numbers(bitstring, Own)],
                  EachDraws(words * size))

\* Three parties store all integers before all bit strings; the others take
\* two words in turn, the same ones for every number.
Rss_GenerateRandomShares ==
    GenerateRandomShares("Rss_GenerateRandomShares", LAMBDA i : i, LAMBDA i : size + i, 2)
Rss_GenerateRandomShares_mp ==
    GenerateRandomShares("Rss_GenerateRandomShares_mp",
                         LAMBDA i : 2 * i - 1, LAMBDA i : 2 * i, (t + 1) * 2)
Rss_GenerateRandomShares_7pc ==
    GenerateRandomShares("Rss_GenerateRandomShares_7pc",
                         LAMBDA i : 2 * i - 1, LAMBDA i : 2 * i, (t + 1) * 2)

\* Rss_edaBit: the sum of the numbers as an integer r, and as bits b_2.
edaBit(fn, generate, add) ==
    \/ /\ Running(fn, 1)
       /\ Call(generate, Num(ring_size, size, 0), None, None,
               [res |-> "r", res_bitwise |-> "r_bitwise"])
    \/ /\ Running(fn, 2)
       /\ Call(add, Num(ring_size, size, 0), [r_bitwise |-> sh.r_bitwise], None, [res |-> "b_2"])
    \/ /\ Running(fn, 3)
       /\ Return([r |-> sh.r, b_2 |-> sh.b_2])

Rss_edaBit     == edaBit("Rss_edaBit", "Rss_GenerateRandomShares", "Rss_nBitAdd")
Rss_edaBit_mp  == edaBit("Rss_edaBit_mp", "Rss_GenerateRandomShares_mp", "Rss_nBitAdd_mp")
Rss_edaBit_7pc == edaBit("Rss_edaBit_7pc", "Rss_GenerateRandomShares_7pc", "Rss_nBitAdd_7pc")

-----------------------------------------------------------------------------
\* The bit that a random bit b, opened as c, was added to.
Unmask(c, b) == Const(c) ++ b -- Shl(Times(c, b), 1)

\* Rss_b2a: bit 0 of every string as an integer.
b2a(fn, randBit) ==
    \/ /\ Running(fn, 1)
       /\ Call(randBit, Num(ring_size, size, 0), None, None, [b |-> "b"])
    \/ /\ Running(fn, 2)
       /\ Learn([c |-> Rss_Open_Bitwise(sh.a (+) BitAt(sh.b, 0), ring_size)])
    \/ /\ Running(fn, 3)
       /\ Return([res |-> Unmask(pub.c, sh.b)])

Rss_b2a    == b2a("Rss_b2a", "Rss_RandBit")
Rss_b2a_mp == b2a("Rss_b2a_mp", "Rss_RandBit_mp")

\* The numbers cut to ring_size, and without their m low bits.
r_bits(c, i) == Low(Own(c, i), ring_size)
r_prime(c, i) == r_bits(c, i) \div 2^m

\* Rss_GenerateRandomShares_trunc: also the integers r_prime.
Rss_GenerateRandomShares_trunc ==
    /\ Running("Rss_GenerateRandomShares_trunc", 1)
    /\ ReturnDraw([res |-> Sums(LAMBDA i : i, r_bits),
                   res_prime |-> Sums(LAMBDA i : 2 * size + i, r_prime),
                   res_bitwise |-> Numbers(LAMBDA i : size + i, r_bits)],
                  EachDraws(3 * size))

\* Five parties share r_bits in the third slot too, and that slot is the
\* first of the next secret.
Rss_GenerateRandomShares_trunc_mp ==
    /\ Running("Rss_GenerateRandomShares_trunc_mp", 1)
    /\ ReturnDraw([res |-> Sums(LAMBDA i : 2 * i - 1, r_bits),
                   res_prime |-> Sums(LAMBDA i : 2 * i + 1,
                       LAMBDA c, i : r_bits(c, IF i < size THEN i + 1 ELSE size)),
                   res_bitwise |-> Numbers(LAMBDA i : 2 * i, r_bits)],
                  EachDraws((t + 1) * 3 * size))

\* Faulty variant, and what Rss_edaBit_trunc_test does: the carry out of the
\* number is not taken back.
Carried_low(prime, carry) == prime ++ Part(carry, 1, size)

\* r_prime with the carry out of the m low bits added, and the carry out of
\* the number taken back.
Carried(prime, carry) ==
    prime ++ Part(carry, 1, size) -- Shl(Part(carry, size + 1, 2 * size), ring_size - m)

\* Rss_edaBit_trunc: r, r without its m low bits, and the top bit of r.
edaBit_trunc(fn, generate, add, toArithmetic, carried(_, _)) ==
    \/ /\ Running(fn, 1)
       /\ Call(generate, Num(ring_size, size, m), None, None,
               [res |-> "r", res_prime |-> "r_prime", res_bitwise |-> "r_bitwise"])
    \/ /\ Running(fn, 2)
       /\ Call(add, Num(ring_size, size, m), [r_bitwise |-> sh.r_bitwise], None,
               [carry |-> "bits"])
    \/ /\ Running(fn, 3)
       /\ Call(toArithmetic, Num(ring_size, 3 * size, 0), [a |-> sh.bits], None, [res |-> "carry"])
    \/ /\ Running(fn, 4)
       /\ Return([r |-> sh.r, r_km1 |-> Part(sh.carry, 2 * size + 1, 3 * size),
                  r_prime |-> carried(sh.r_prime, sh.carry)])

Rss_edaBit_trunc ==
    edaBit_trunc("Rss_edaBit_trunc", "Rss_GenerateRandomShares_trunc", "Rss_nBitAdd_trunc",
                 "Rss_b2a", Carried)
Rss_edaBit_trunc_test ==
    edaBit_trunc("Rss_edaBit_trunc_test", "Rss_GenerateRandomShares_trunc", "Rss_nBitAdd_trunc",
                 "Rss_b2a", Carried_low)
Rss_edaBit_trunc_mp ==
    edaBit_trunc("Rss_edaBit_trunc_mp", "Rss_GenerateRandomShares_trunc_mp",
                 "Rss_nBitAdd_trunc_mp", "Rss_b2a_mp", Carried)

RandomStep ==
    \/ Rss_RandBit \/ Rss_RandBit_mp \/ Rss_RandBit_7pc
    \/ Rss_GenerateRandomShares \/ Rss_GenerateRandomShares_mp \/ Rss_GenerateRandomShares_7pc
    \/ Rss_edaBit \/ Rss_edaBit_mp \/ Rss_edaBit_7pc
    \/ Rss_b2a \/ Rss_b2a_mp
    \/ Rss_GenerateRandomShares_trunc \/ Rss_GenerateRandomShares_trunc_mp
    \/ Rss_edaBit_trunc \/ Rss_edaBit_trunc_test \/ Rss_edaBit_trunc_mp
=============================================================================
