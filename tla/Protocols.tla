----------------------------- MODULE Protocols -----------------------------
(***************************************************************************)
(* A program calls one protocol on shared inputs.  The protocol runs step  *)
(* by step with all the calls it makes; every call that returns must have  *)
(* computed what its function promises, on whatever its caller gave it.    *)
(***************************************************************************)
EXTENDS Networks

CONSTANTS
    Cases,              \* the calls: function, numbers and secrets
    Share(_, _, _, _)   \* Share(seed, x, T, i): the i-th share of T of input x

vars == <<run, drawn, stack, done>>

\* Inputs: random shares of all sets T but one, which completes the secret, in
\* the ring of the input.
Ring(x) == IF x \in DOMAIN run.rings THEN run.rings[x] ELSE run.k
Rest == {Missing(f[1], f[2]) : f \in Firsts[n]} \ {Chi(1)}
Given(x, T, i) == Low(Share(run.seed, x, T, i), Ring(x))

Input(x, secrets, T, i) ==
    IF T # Chi(1) THEN Given(x, T, i)
    ELSE Low(secrets[i] - SumOver(Rest, [S \in Rest |-> Given(x, S, i)]), Ring(x))

BitInput(x, secrets, T, i) ==
    IF T # Chi(1) THEN Given(x, T, i)
    ELSE BitXor(secrets[i], XorOver(Rest, [S \in Rest |-> Given(x, S, i)]))

Shared(In(_, _, _, _), inputs) ==
    [x \in DOMAIN inputs |-> [p \in Party |-> [j \in Keys |-> [i \in DOMAIN inputs[x] |->
        In(x, inputs[x], Missing(p, j), i)]]]]
Public(inputs) == [x \in DOMAIN inputs |-> [p \in Party |-> inputs[x]]]

-----------------------------------------------------------------------------
BitAdds == {"Rss_BitAdd", "Rss_BitAdd_mp", "Rss_BitAdd_7pc"}
PublicAdds == {"Rss_BitAdd_pub", "Rss_BitAdd_pub_mp", "Rss_BitAdd_pub_7pc"}
TruncAdds == {"Rss_BitAdd_trunc", "Rss_BitAdd_trunc_mp"}
BitLTs == {"Rss_BitLT", "Rss_BitLT_mp", "Rss_BitLT_7pc"}
RandBits == {"Rss_RandBit", "Rss_RandBit_mp", "Rss_RandBit_7pc"}
EdaBits == {"Rss_edaBit", "Rss_edaBit_mp", "Rss_edaBit_7pc"}
EdaTruncs == {"Rss_edaBit_trunc", "Rss_edaBit_trunc_test", "Rss_edaBit_trunc_mp"}
B2As == {"Rss_b2a", "Rss_b2a_mp"}
MSBs == {"new_Rss_MSB", "new_Rss_MSB_time", "new_Rss_MSB_mp", "new_Rss_MSB_time_mp",
         "new_Rss_MSB_7pc", "Rss_MSB", "Rss_MSB_mp", "Rss_MSB_7pc"}
Largers == {"Rss_LT", "new_Rss_LT", "Rss_LT_mp", "new_Rss_LT_mp"}
FixedLargers == {"fixed_Rss_LT", "fixed_Rss_LT_time", "fixed_Rss_LT_mp", "fixed_Rss_LT_time_mp"}
FixedSmallers == {"fixed_Rss_GT", "fixed_Rss_GT_time", "fixed_Rss_GT_mp", "fixed_Rss_GT_time_mp"}
GT_LTs == {"fixed_Rss_GT_LT_time", "fixed_Rss_GT_LT_time_mp"}
Truncs == {"Rss_truncPr_1", "Rss_truncPr_time", "Rss_truncPr_1_mp", "Rss_truncPr_time_mp"}
TruncPrivs == {"Rss_truncPriv", "Rss_truncPriv_time", "Rss_truncPriv_mp", "Rss_truncPriv_time_mp"}
Converts == {"new_Rss_Convert", "new_Rss_Convert_mp", "Rss_Convert"}
MatMults == {"Rss_MatMult", "Rss_MatMultArray", "Rss_MatMultArray_batch", "Rss_MatMultArray_batch_mp"}
PointwiseProducts == {"Rss_pw_matrixmul", "Rss_pw_matrixmul_mp"}
ReLUs == {"old_ReLU", "eda_ReLU", "old_ReLU_mp", "eda_ReLU_mp"}
ReLU6s == {"ReLU_6_alpha", "ReLU_6_alpha_mp"}
ReLU6Timers == {"ReLU_6_alpha_timer", "ReLU_6_alpha_timer_mp"}
MaxPools == {"old_MaxPool", "eda_MaxPool", "old_MaxPool_mp", "eda_MaxPool_mp"}
Maxima == {"maximum", "eda_maximum"}
ArgMaxs == {"arg_max", "eda_arg_max", "eda_arg_max_time", "eda_arg_max_mp", "eda_arg_max_time_mp"}
Conv2ds == {"Rss_pointwise_conv2d", "Rss_conv2d_first", "Rss_conv2d", "Rss_conv2d_final_layer",
            "Rss_conv2d_no_act"}

Init ==
    /\ run \in Cases
    /\ drawn = [p \in Party |-> [j \in Keys |-> 0]]
    /\ stack = << Frame("program", Num(run.k, run.size, 0), None, None, None),
                  Frame(run.fn, Num(run.k, run.size, run.m) @@ [d |-> run.d],
                        Shared(Input, run.ints) @@ Shared(BitInput, run.bits), Public(run.pub),
                        None) >>
    /\ done = None

\* The call of the program has returned.
Finished == Len(stack) = 1 /\ UNCHANGED vars

Next ==
    \/ AdderStep
    \/ ComparisonStep
    \/ RandomStep
    \/ CompositeStep
    \/ LinearStep
    \/ LayerStep
    \/ NetworkStep
    \/ Finished

Spec == Init /\ [][Next]_vars

-----------------------------------------------------------------------------
\* What has just returned.
Returned(names) == done # None /\ done.frame.fn \in names
k_ == done.frame.num.k
m_ == done.frame.num.m
Arg(x) == done.frame.sh[x]
Res(x) == done.res[x]
Signed(w, k) == IF Bit(w, k - 1) = 1 THEN w - 2^k ELSE w

\* The calls in progress are the program's and others, the innermost has a
\* next step, and every array of a party is as long as the others'.
TypeOK ==
    /\ run \in Cases
    /\ drawn \in [Party -> [Keys -> Nat]]
    /\ Len(stack) >= 1 /\ stack[1].fn = "program"
    /\ \A f \in 1 .. Len(stack) : \A x \in DOMAIN stack[f].sh :
           /\ stack[f].sh[x] \in [Party -> [Keys -> Seq(Word)]]
           /\ \A p \in Party, j \in Keys : Len(stack[f].sh[x][p][j]) = Len(stack[f].sh[x][1][0])

\* Replicas agree: at every step of every protocol all holders of a share
\* have the same value of it, modulo the ring of the call, and all parties
\* have opened the same public values.  A mask taken from the wrong place of
\* a stream, or a constant put in by one of two holders, goes unnoticed by
\* the parties until a result is opened.
ReplicasAgree ==
    \A f \in 1 .. Len(stack) :
        /\ \A x \in DOMAIN stack[f].sh : Agree(stack[f].sh[x], stack[f].num.k)
        /\ \A x \in DOMAIN stack[f].pub, p \in Party : stack[f].pub[x][p] = stack[f].pub[x][1]

\* Bits from..to of p are 1, and a carry arises and is propagated there.
AllOnes(p, from, to) == \A b \in from..to : Bit(p, b) = 1
CarryOf(p, g, from, to) ==
    \E b \in from..to : Bit(g, b) = 1 /\ AllOnes(p, b + 1, to)

Caller == stack[Len(stack) - 1]
Covers(P, G, b, d_p, d_g, from, to) ==
    /\ (Bit(P, b) = 1) = AllOnes(d_p, from, to)
    /\ (Bit(G, b) = 1) = CarryOf(d_p, d_g, from, to)

\* After i rounds of CircleOpL (bitAdd) the bits at x say whether the block
\* of 2^i bits around x, up to x, propagates and generates a carry.  An index
\* array that misses a pair leaves a block short for one argument in many.
AdderRound ==
    (/\ Top.fn \in {"Rss_CircleOpL", "Rss_CircleOpL_mp_test", "Rss_CircleOpL_7pc_test"}
     /\ Top.at = 1) =>
    LET P == BitSecret(sh.p, ring_size)
        G == BitSecret(sh.g, ring_size)
        d_p == BitSecret(Caller.sh.d_p, ring_size)
        d_g == BitSecret(Caller.sh.d_g, ring_size) IN
    \A e \in 1..size, x \in 0 .. ring_size - 1 :
        Covers(P[e], G[e], x, d_p[e], d_g[e], (x \div 2^Top.round) * 2^Top.round, x)

\* After i rounds of new_Rss_CarryOutAux (bitLT) position j of the r that are
\* left stands for the 2^i bits from j * 2^i on, the last one for the rest:
\* an odd number of positions must not lose its last one.
CarryRound ==
    (/\ Top.fn \in {"new_Rss_CarryOutAux", "new_Rss_CarryOutAux_mp", "new_Rss_CarryOutAux_7pc"}
     /\ Top.at = 1) =>
    LET P == BitSecret(sh.p, ring_size)
        G == BitSecret(sh.g, ring_size)
        d_p == BitSecret(Caller.sh.d_p, ring_size)
        d_g == BitSecret(Caller.sh.d_g, ring_size)
        last(j) == IF j = Top.r - 1 THEN ring_size - 1 ELSE (j + 1) * 2^Top.round - 1 IN
    \A e \in 1..size, j \in 0 .. Top.r - 1 :
        Covers(P[e], G[e], j, d_p[e], d_g[e], j * 2^Top.round, last(j))

\* Both trees of carries cover what they have passed, after every round.
CarriesRight == AdderRound /\ CarryRound

\* Bitwise addition adds, with the carries the truncating one keeps, and
\* Rss_BitLT compares, on every bit string their callers produce, those of
\* random numbers with bits above the ring among them.
BitsRight ==
    /\ Returned(BitAdds \union TruncAdds) =>
       \A i \in 1 .. done.frame.num.size :
           LET a == BitSecret(Arg("a"), k_)[i]
               b == BitSecret(Arg("b"), k_)[i] IN
           /\ BitSecret(Res("res"), k_)[i] = Low(a + b, k_)
           /\ done.frame.fn \in TruncAdds =>
              LET carry == BitSecret(Res("carry"), 1)
                  len == done.frame.num.size IN
              /\ carry[i] = Bit(Low(a, m_) + Low(b, m_), m_)
              /\ carry[len + i] = Bit(a + b, k_)
              /\ carry[2 * len + i] = Bit(a + b, k_ - 1)
    /\ Returned(PublicAdds) =>
       \A i \in 1 .. done.frame.num.size :
           BitSecret(Res("res"), k_)[i] =
               Low(done.frame.pub.a[1][i] + BitSecret(Arg("b"), k_)[i], k_)
    /\ Returned(BitLTs) =>
       \A i \in 1 .. done.frame.num.size :
           (BitSecret(Res("res"), 1)[i] = 1) =
               (Low(done.frame.pub.a[1][i], k_) < BitSecret(Arg("b"), k_)[i])

\* A random bit is 0 or 1 in its ring, an edaBit is one number in both of its
\* forms, a bit keeps its value when it becomes an integer, and the parts of
\* a truncation's number are its own.  (Five parties' Rss_edaBit_trunc_mp is
\* known not to; Rss_edaBit_trunc_test leaves the carry in r_prime.)
RandomRight ==
    /\ Returned(RandBits) => \A i \in 1 .. done.frame.num.size : Secret(Res("b"), k_)[i] \in {0, 1}
    /\ Returned(EdaBits) => Secret(Res("r"), k_) = BitSecret(Res("b_2"), k_)
    /\ Returned(B2As) => Secret(Res("res"), k_) = BitSecret(Arg("a"), 1)
    /\ Returned(EdaTruncs \ {"Rss_edaBit_trunc_mp"}) =>
       \A i \in 1 .. done.frame.num.size :
           LET r == Secret(Res("r"), k_)[i]
               known == IF done.frame.fn = "Rss_edaBit_trunc" THEN k_ ELSE k_ - m_ IN
           /\ Low(Secret(Res("r_prime"), k_)[i], known) = r \div 2^m_
           /\ Secret(Res("r_km1"), k_)[i] = Bit(r, k_ - 1)

\* The sign of every integer, and the larger or the smaller of any two whose
\* difference does not overflow.
SelectionRight ==
    /\ Returned(MSBs) =>
       \A i \in 1 .. done.frame.num.size :
           Secret(Res("res"), k_)[i] = Bit(Secret(Arg("a"), k_)[i], k_ - 1)
    /\ Returned(Largers \union FixedLargers \union FixedSmallers) =>
       \A i \in 1 .. done.frame.num.size :
           LET a == Signed(Secret(Arg("a"), k_)[i], k_)
               b == Signed(Secret(Arg("b"), k_)[IF done.frame.fn \in Largers THEN i ELSE m_], k_)
               res == Signed(Secret(Res("res"), k_)[i], k_)
               first == (a < b) = (done.frame.fn \in FixedSmallers) IN
           a - b \in -(2^(k_ - 1)) .. 2^(k_ - 1) - 1 => res = IF first THEN a ELSE b

\* A truncated integer is at most one above its quotient, and a converted one
\* keeps its value in the other ring.
RescalingRight ==
    /\ Returned(Truncs \ {"Rss_truncPr_1_mp", "Rss_truncPr_time_mp"}) =>
       \A i \in 1 .. done.frame.num.size :
           LET x == Secret(Arg("x"), k_)[i] IN
           Bit(x, k_ - 1) = 0 =>
               Secret(Res("res"), k_)[i] \in {x \div 2^m_, Low((x \div 2^m_) + 1, k_)}
    /\ Returned(Converts) =>
       /\ Secret(Res("res"), m_) = Secret(Arg("a"), k_)
       /\ Agree(Res("res"), m_)

\* The secret at position e, counted from 0, of argument x and of a result.
ArgAt(x, e) == Signed(Secret(Arg(x), k_)[e + 1], k_)
ResAt(x, e) == Secret(Res(x), k_)[e + 1]
d_ == done.frame.num.d
Sum2(S, f(_)) == SumOver(S, [e \in S |-> f(e)])
AddsToDest == {"Rss_MatMultArray_batch_mp", "Rss_pw_matrixmul_mp", "Rss_dw_matrixmul_mp"}
Before(e) == IF done.frame.fn \in AddsToDest THEN ArgAt("dest", e) ELSE 0

\* A product of shared matrices is their product, for every matrix of a batch,
\* and a product of windows and of channels sums every window with every
\* weight once: what five parties compute is added to their destination.
\* (Rss_dw_matrixmul of three parties is known to sum something else.)
ProductsRight ==
    /\ Returned(MatMults) =>
       \A g \in 0 .. d_.batch - 1, r \in 0 .. d_.m - 1, c \in 0 .. d_.s - 1 :
           LET e == (g * d_.m + r) * d_.s + c
               a(q) == ArgAt("a", (g * d_.flag_a * d_.m + r) * d_.n + q)
               b(q) == ArgAt("b", (g * d_.flag_b * d_.n + q) * d_.s + c) IN
           ResAt("res", e) =
               Low(Before(e) + Sum2(0 .. d_.n - 1, LAMBDA q : a(q) * b(q)), k_)
    /\ Returned(PointwiseProducts) =>
       LET terms == d_.f * d_.f * d_.c
           windows == d_.batch * d_.dim * d_.dim IN
       \A w \in 0 .. windows - 1, o \in 0 .. d_.out - 1 :
           LET e == w * d_.out + o IN
           ResAt("res", e) =
               Low(Before(e)
                   + Sum2(0 .. terms - 1, LAMBDA q :
                         ArgAt("a", w * terms + q) * ArgAt("b", q * d_.out + o)), k_)
    /\ Returned({"Rss_dw_matrixmul_mp"}) =>
       LET out == d_.dim \div d_.stride IN
       \A r \in 0 .. out - 1, s \in 0 .. out - 1, c \in 0 .. d_.c - 1 :
           LET e == (r * out + s) * d_.c + c
               first == IF d_.stride = 1 THEN 0 ELSE 1
               pixel(u, v) == ((r * d_.stride + first + u) * (d_.dim + 2)
                               + s * d_.stride + first + v) * d_.c + c IN
           ResAt("res", e) =
               Low(Before(e)
                   + Sum2((0 .. d_.f - 1) \X (0 .. d_.f - 1), LAMBDA g :
                         ArgAt("a", pixel(g[1], g[2])) * ArgAt("b", (g[1] * d_.f + g[2]) * d_.c + c)),
                   k_)

\* What is not too large to be compared with anything that is not either.
Narrow(v) == v \in -(2^(k_ - 2)) .. 2^(k_ - 2) - 1
Largest(S) == CHOOSE v \in S : \A w \in S : w <= v
Smaller(v, w) == IF v < w THEN v ELSE w
AllArg(x) == {ArgAt(x, e) : e \in 0 .. Len(Arg(x)[1][0]) - 1}

\* Activations bound, pooling takes the largest, or the mean, of the pixels of
\* its own window in its own image, and the largest of a row of any length is
\* found with its place.  (ReLU_6_alpha_timer doubles what is negative.)
PoolingRight ==
    /\ Returned(ReLUs) =>
       \A e \in 0 .. done.frame.num.size - 1 : ResAt("res", e) = Largest({0, ArgAt("a", e)})
    /\ Returned(ReLU6s \union ReLU6Timers) =>
       \A e \in 0 .. done.frame.num.size - 1 :
           LET bound == ArgAt("upper", m_ - 1) IN
           bound >= 0 /\ (ArgAt("a", e) >= 0 \/ Returned(ReLU6s)) =>
               ResAt("res", e) = Smaller(Largest({0, ArgAt("a", e)}), bound)
    /\ Returned(MaxPools) /\ (\A v \in AllArg("a") : Narrow(v)) =>
       \A i \in 0 .. d_.batch * d_.c - 1, r \in 0 .. (d_.h \div 2) - 1, s \in 0 .. (d_.w \div 2) - 1 :
           LET pixel(u, v) == ArgAt("a", (i * d_.h + 2 * r + u) * d_.w + 2 * s + v) IN
           Signed(ResAt("res", (i * (d_.h \div 2) + r) * (d_.w \div 2) + s), k_) =
               Largest({pixel(0, 0), pixel(0, 1), pixel(1, 0), pixel(1, 1)})
    /\ Returned({"Rss_avg_pool_trunc"}) =>
       \A g \in 0 .. d_.batch - 1, c \in 0 .. d_.c - 1 :
           LET area == d_.dim * d_.dim
               mean == Sum2(0 .. area - 1,
                            LAMBDA q : ArgAt("a", (g * area + q) * d_.c + c)) \div area IN
           area = 2^Log2Down(area) /\ mean \in 0 .. (2^(k_ - 1) \div area) - 1 =>
               ResAt("res", g * d_.c + c) \in {mean, mean + 1}
    /\ Returned(Maxima \union ArgMaxs) /\ (\A v \in AllArg("a") : Narrow(v)) =>
       \A g \in 0 .. m_ - 1 :
           LET len == done.frame.num.size
               best == Largest({ArgAt("a", g * len + q) : q \in 0 .. len - 1}) IN
           /\ Signed(ResAt("res", g), k_) = best
           /\ done.frame.fn \in ArgMaxs =>
              ResAt("res_index", g) < len /\ ArgAt("a", g * len + ResAt("res_index", g)) = best

\* What a convolution sums for channel o of pixel (r, s) of image g: every
\* pixel of the window that is in the image, and 0 for the others, less the
\* zero point, with its weight.
Inside(v) == v \in 0 .. d_.dim - 1
PadBefore == Largest({0, ((d_.dim \div d_.stride) - 1) * d_.stride + d_.f - d_.dim}) \div 2
Offsets == done.frame.fn \notin {"Rss_conv2d", "Rss_conv2d_no_act"}
ZeroPoint(x) == IF Offsets THEN ArgAt(x, d_.layer) ELSE 0
Convolved(g, r, s, o) ==
    LET row(u) == r * d_.stride + u - PadBefore
        col(v) == s * d_.stride + v - PadBefore
        entry(u, v, c) ==
            IF Inside(row(u)) /\ Inside(col(v))
            THEN ArgAt("a", ((g * d_.dim + row(u)) * d_.dim + col(v)) * d_.c + c) ELSE 0
        weight(u, v, c) == ArgAt("W", ((u * d_.f + v) * d_.c + c) * d_.out + o) IN
    ArgAt("b", o)
    + (IF done.frame.fn = "Rss_conv2d_final_layer" THEN ZeroPoint("zout") ELSE 0)
    + Sum2((0 .. d_.f - 1) \X (0 .. d_.f - 1) \X (0 .. d_.c - 1), LAMBDA q :
          (entry(q[1], q[2], q[3]) - ZeroPoint("zin")) * (weight(q[1], q[2], q[3]) - ZeroPoint("zw")))

\* The value of a layer for the sum acc of image g: activated, scaled and
\* truncated up to the one that truncation may add.  Rss_pointwise_conv2d
\* does so with the first image only; the timer variants not if acc < 0.
LayerValues(acc, g) ==
    LET scaled == Smaller(Largest({0, acc}), ArgAt("upper", d_.layer)) * ArgAt("trunc", d_.layer) IN
    CASE done.frame.fn = "Rss_conv2d_no_act" -> {Low(acc, k_)}
      [] done.frame.fn = "Rss_pointwise_conv2d" /\ g > 0 -> {Low(acc, k_)}
      [] acc < 0 /\ done.frame.fn \in {"Rss_conv2d_first", "Rss_conv2d_final_layer"} -> 0 .. 2^k_ - 1
      [] OTHER -> {scaled \div 2^m_, (scaled \div 2^m_) + 1}

\* A convolutional layer is the convolution with "same" padding, bounded and
\* rescaled.  (Left padding is short by a factor of c, and the images of a
\* batch are taken to be too near, when windows of more than one pixel have
\* several channels or images.)
ConvolutionRight ==
    Returned(Conv2ds) /\ (d_.f = 1 \/ (d_.c = 1 /\ d_.batch = 1)) =>
    LET out == d_.dim \div d_.stride IN
    \A g \in 0 .. d_.batch - 1, r \in 0 .. out - 1, s \in 0 .. out - 1, o \in 0 .. d_.out - 1 :
        LET acc == Convolved(g, r, s, o) IN
        acc \in -(2^(k_ - 1)) .. 2^(k_ - 1) - 1 =>
            ResAt("res", ((g * out + r) * out + s) * d_.out + o) \in LayerValues(acc, g)

\* The network of minionn on integers: positions in images of rows of dim.
Convolve(x, dim, channels, W_, b, f, o, r, s) ==
    ArgAt(b, o) + Sum2((0 .. channels - 1) \X (0 .. f - 1) \X (0 .. f - 1), LAMBDA q :
        ArgAt(W_, ((o * channels + q[1]) * f + q[2]) * f + q[3])
        * x[(q[1] * dim + r + q[2]) * dim + s + q[3]])

ConvPool(x, dim, channels, W_, b) ==
    LET pool == (dim - d_.f + 1) \div 2 IN
    [e \in 0 .. d_.c * pool * pool - 1 |->
        LET at(u, v) == Convolve(x, dim, channels, W_, b, d_.f, e \div (pool * pool),
                                 2 * ((e \div pool) % pool) + u, 2 * (e % pool) + v) IN
        Largest({0, at(0, 0), at(0, 1), at(1, 0), at(1, 1)})]
FullLayer(x, W_, b, rows) ==
    [o \in 0 .. rows - 1 |->
        ArgAt(b, o) + Sum2(DOMAIN x, LAMBDA q : ArgAt(W_, o * Cardinality(DOMAIN x) + q) * x[q])]


Scores(g) ==
    LET pixels == [e \in 0 .. d_.dim * d_.dim - 1 |-> ArgAt("a", g * d_.dim * d_.dim + e)]
        pool1 == (d_.dim - d_.f + 1) \div 2
        image2 == ConvPool(ConvPool(pixels, d_.dim, 1, "W1", "b1"), pool1, d_.c, "W2", "b2")
        hidden == [o \in 0 .. d_.hidden - 1 |->
                       Largest({0, FullLayer(image2, "W3", "b3", d_.hidden)[o]})] IN
    FullLayer(hidden, "W4", "b4", d_.classes)

\* A prediction: the opened class of every image of a batch has the largest
\* of the scores the network computes on integers, as long as the scores and
\* their differences fit in the last ring: every conversion to a larger ring
\* keeps the values, and every layer takes what the one before has left.
PredictionRight ==
    Returned({"minionn"}) =>
    \A g \in 0 .. d_.batch - 1 :
        LET scores == Scores(g)
            class == done.frame.pub.res[1][g + 1] IN
        (\A o, p \in DOMAIN scores : scores[o] - scores[p] < 2^(d_.rings[3] - 1)) =>
            class \in DOMAIN scores /\ \A o \in DOMAIN scores : scores[o] <= scores[class]
=============================================================================
