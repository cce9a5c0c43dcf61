------------------------------- MODULE Layers -------------------------------
(***************************************************************************)
(* The layers of the networks without weights (protocols_ml, neural_ops    *)
(* and svm_ops): activations, pooling and maxima built from comparisons.   *)
(***************************************************************************)
EXTENDS Linear

Zeros(len) == Const(All(len, 0))

\* Rss_LT, or another choice of the larger of two, of len pairs.
Compare(lt, a, b, len, as) ==
    Call(lt, Num(ring_size, len, 0), [a |-> a, b |-> b], None, [res |-> as])

ReLU(fn, lt) ==
    \/ Running(fn, 1) /\ Compare(lt, sh.a, Zeros(size), size, "res")
    \/ Running(fn, 2) /\ Return([res |-> sh.res])

old_ReLU    == ReLU("old_ReLU", "Rss_LT")
eda_ReLU    == ReLU("eda_ReLU", "new_Rss_LT")
old_ReLU_mp == ReLU("old_ReLU_mp", "Rss_LT_mp")
eda_ReLU_mp == ReLU("eda_ReLU_mp", "new_Rss_LT_mp")

\* ReLU_6_alpha: the larger of a and 0, then the smaller of it and bound
\* number m.
ReLU_6(fn, lt, gt) ==
    \/ /\ Running(fn, 1)
       /\ Call(lt, Num(ring_size, size, 1), [a |-> sh.a, b |-> Zeros(1)], None, [res |-> "res"])
    \/ /\ Running(fn, 2)
       /\ Call(gt, Num(ring_size, size, m), [a |-> sh.res, b |-> sh.upper], None, [res |-> "res"])
    \/ Running(fn, 3) /\ Return([res |-> sh.res])

ReLU_6_alpha    == ReLU_6("ReLU_6_alpha", "fixed_Rss_LT", "fixed_Rss_GT")
ReLU_6_alpha_mp == ReLU_6("ReLU_6_alpha_mp", "fixed_Rss_LT_mp", "fixed_Rss_GT_mp")

\* ReLU_6_alpha_timer, of the array it leaves its result in.
ReLU_6_timer(fn, gt_lt) ==
    \/ /\ Running(fn, 1)
       /\ Call(gt_lt, Num(ring_size, size, m), [a |-> sh.a, b |-> sh.upper], None, [res |-> "res"])
    \/ Running(fn, 2) /\ Return([res |-> sh.res])

ReLU_6_alpha_timer    == ReLU_6_timer("ReLU_6_alpha_timer", "fixed_Rss_GT_LT_time")
ReLU_6_alpha_timer_mp == ReLU_6_timer("ReLU_6_alpha_timer_mp", "fixed_Rss_GT_LT_time_mp")

\* The second of the pairs of MaxPool: half a row of h = w pixels further.
Above(e) ==
    LET half == (d.c * d.h * d.w) \div 4 IN
    2 * half * Image(e, half) + (e % (d.w \div 2)) + (Within(e, half) \div (d.w \div 2)) * d.w
Below(e) == Above(e) + (d.h \div 2)

\* MaxPool of 2 x 2 windows: of the neighbours in a row, and of those maxima
\* in a column, of c images of h x w pixels.
MaxPool(fn, lt) ==
    LET len == ((d.c * d.h * d.w) \div 2) * d.batch IN
    \/ /\ Running(fn, 1)
       /\ Compare(lt, Gather(sh.a, len, LAMBDA e : 2 * e, 0),
                  Gather(sh.a, len, LAMBDA e : 2 * e + 1, 0), len, "temp")
    \/ /\ Running(fn, 2)
       /\ Compare(lt, Gather(sh.temp, len \div 2, Above, 0),
                  Gather(sh.temp, len \div 2, Below, 0), len \div 2, "res")
    \/ Running(fn, 3) /\ Return([res |-> sh.res])

old_MaxPool    == MaxPool("old_MaxPool", "Rss_LT")
eda_MaxPool    == MaxPool("eda_MaxPool", "new_Rss_LT")
old_MaxPool_mp == MaxPool("old_MaxPool_mp", "Rss_LT_mp")
eda_MaxPool_mp == MaxPool("eda_MaxPool_mp", "new_Rss_LT_mp")

\* Rss_avg_pool_trunc: the sum of the dim * dim pixels of a channel, without
\* as many bits as their number has after its first.
Log2Down(x) == CHOOSE b \in 0 .. x : 2^b <= x /\ x < 2^(b + 1)
avg_pool(fn, trunc) ==
    \/ /\ Running(fn, 1)
       /\ Call(trunc, Num(ring_size, d.c * d.batch, Log2Down(d.dim * d.dim)),
               [x |-> channel_sums(sh.a, d.c, d.dim, d.batch)], None, [res |-> "res"])
    \/ Running(fn, 2) /\ Return([res |-> sh.res])

Rss_avg_pool_trunc    == avg_pool("Rss_avg_pool_trunc", "Rss_truncPr_time")
Rss_avg_pool_trunc_mp == avg_pool("Rss_avg_pool_trunc_mp", "Rss_truncPr_time_mp")

-----------------------------------------------------------------------------
\* Every one of the m images of a batch, of size entries, is halved: up of
\* the last entry of an odd number, which has no partner.
new_size == size \div 2
new_size_ceil == (size + 1) \div 2
Kept(e) == e % new_size_ceil = new_size

\* The halves a0 (from 0) and a1 (from new_size); the entry without partner
\* is never written, and holds what memory holds.
Garbage == IF size % 2 = 1 THEN {0, 2^W - 1} ELSE {0}
Half(x, from, garbage) ==
    Gather(x, new_size_ceil * m,
           LAMBDA e : IF Kept(e) THEN Nowhere
                      ELSE Image(e, new_size_ceil) * size + from + (e % new_size_ceil),
           garbage)

\* Faulty variant: the last entry is not carried over.
Carrying_none(new, x) == new

\* The results with the entry without partner in its place.
Carrying(new, x) ==
    [p \in Party |-> [j \in Keys |-> [i \in 1 .. new_size_ceil * m |->
        IF Kept(i - 1) THEN x[p][j][(Image(i - 1, new_size_ceil) + 1) * size] ELSE new[p][j][i]]]]

Maximum(fn, lt) ==
    \/ /\ Running(fn, 1) /\ size > 1
       /\ \E g \in Garbage :
              Compare(lt, Half(sh.a, 0, g), Half(sh.a, new_size, g), new_size_ceil * m, "ap")
    \/ /\ Running(fn, 2)
       /\ Call(fn, Num(ring_size, new_size_ceil, m), [a |-> Carrying(sh.ap, sh.a)], None,
               [res |-> "res"])
    \/ Running(fn, 3) /\ Return([res |-> sh.res])
    \/ Running(fn, 1) /\ size <= 1 /\ Return([res |-> sh.a])

maximum     == Maximum("maximum", "Rss_LT")
eda_maximum == Maximum("eda_maximum", "new_Rss_LT")

\* The values 0, .., size - 1 for every image, as arg_max finds them.
Positions == [p \in Party |-> [i \in 1 .. size * m |-> (i - 1) % size]]

\* arg_max_helper: the larger of two, and its index by the same bit c.
ArgMaxSteps(fn, msb) ==
    \/ /\ Running(fn, 1) /\ size > 1
       /\ \E g \in Garbage :
              Let([a0 |-> Half(sh.a, 0, g), a1 |-> Half(sh.a, new_size, g)])
    \/ /\ Running(fn, 2)
       /\ Call(msb, Num(ring_size, new_size_ceil * m, 0), [a |-> sh.a0 -- sh.a1], None,
               [res |-> "c"])
    \/ /\ Running(fn, 3)
       /\ LetDraw([d0 |-> Rss_Mult(sh.c, sh.a1 -- sh.a0, ring_size)], MultDraws(new_size_ceil * m))

ArgMaxHelper(fn, msb) ==
    \/ ArgMaxSteps(fn, msb)
    \/ /\ Running(fn, 4)
       /\ \E g \in Garbage :
              Let([ap |-> Carrying(sh.d0 ++ sh.a0, sh.a),
                   a0_index |-> Half(sh.a_index, 0, g), a1_index |-> Half(sh.a_index, new_size, g)])
    \/ /\ Running(fn, 5)
       /\ LetDraw([d0 |-> Rss_Mult(sh.c, sh.a1_index -- sh.a0_index, ring_size)],
                  MultDraws(new_size_ceil * m))
    \/ /\ Running(fn, 6)
       /\ Call(fn, Num(ring_size, new_size_ceil, m),
               [a |-> sh.ap, a_index |-> Carrying(sh.d0 ++ sh.a0_index, sh.a_index)], None,
               [res |-> "res", res_index |-> "res_index"])
    \/ /\ Running(fn, 7)
       /\ Return([res |-> sh.res, res_index |-> sh.res_index])
    \/ /\ Running(fn, 1) /\ size <= 1
       /\ Return([res |-> sh.a, res_index |-> sh.a_index])

\* arg_max: c chooses between i and i + new_size.
ArgMax(fn, msb, helper) ==
    \/ ArgMaxSteps(fn, msb)
    \/ /\ Running(fn, 4)
       /\ LET found == Each(LAMBDA w : Wrap(w * new_size), sh.c)
                       ++ Half(Const(Positions), 0, 0) IN
          Call(helper, Num(ring_size, new_size_ceil, m),
               [a |-> Carrying(sh.d0 ++ sh.a0, sh.a), a_index |-> Carrying(found, Const(Positions))],
               None, [res |-> "res", res_index |-> "res_index"])
    \/ /\ Running(fn, 5)
       /\ Return([res |-> sh.res, res_index |-> sh.res_index])
    \/ /\ Running(fn, 1) /\ size <= 1
       /\ Return([res |-> sh.a, res_index |-> Zeros(m)])

arg_max_helper             == ArgMaxHelper("arg_max_helper", "Rss_MSB")
eda_arg_max_helper         == ArgMaxHelper("eda_arg_max_helper", "new_Rss_MSB")
eda_arg_max_helper_time    == ArgMaxHelper("eda_arg_max_helper_time", "new_Rss_MSB_time")
eda_arg_max_helper_mp      == ArgMaxHelper("eda_arg_max_helper_mp", "new_Rss_MSB_mp")
eda_arg_max_helper_time_mp == ArgMaxHelper("eda_arg_max_helper_time_mp", "new_Rss_MSB_time_mp")

arg_max             == ArgMax("arg_max", "Rss_MSB", "arg_max_helper")
eda_arg_max         == ArgMax("eda_arg_max", "new_Rss_MSB", "eda_arg_max_helper")
eda_arg_max_time    == ArgMax("eda_arg_max_time", "new_Rss_MSB_time", "eda_arg_max_helper_time")
eda_arg_max_mp      == ArgMax("eda_arg_max_mp", "new_Rss_MSB_mp", "eda_arg_max_helper_mp")
eda_arg_max_time_mp ==
    ArgMax("eda_arg_max_time_mp", "new_Rss_MSB_time_mp", "eda_arg_max_helper_time_mp")

LayerStep ==
    \/ old_ReLU \/ eda_ReLU \/ old_ReLU_mp \/ eda_ReLU_mp
    \/ ReLU_6_alpha \/ ReLU_6_alpha_mp \/ ReLU_6_alpha_timer \/ ReLU_6_alpha_timer_mp
    \/ old_MaxPool \/ eda_MaxPool \/ old_MaxPool_mp \/ eda_MaxPool_mp
    \/ Rss_avg_pool_trunc \/ Rss_avg_pool_trunc_mp
    \/ maximum \/ eda_maximum
    \/ arg_max \/ eda_arg_max \/ eda_arg_max_time \/ eda_arg_max_mp \/ eda_arg_max_time_mp
    \/ arg_max_helper \/ eda_arg_max_helper \/ eda_arg_max_helper_time
    \/ eda_arg_max_helper_mp \/ eda_arg_max_helper_time_mp
=============================================================================
