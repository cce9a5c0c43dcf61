---------------------------- MODULE MCProtocols ----------------------------
(***************************************************************************)
(* Protocols with eight-bit Lints and rings of 1 to 6 bits.  Inputs and    *)
(* streams are words mixed from a seed, the set T and a position.          *)
(***************************************************************************)
EXTENDS Protocols

\* The functions that do not compute what they promise as they are written.
Defective ==
    {"Rss_MSB", "Rss_LT", "Rss_truncPr_time", "Rss_truncPriv_time"} \union
    {"Rss_BitLT_mp", "Rss_MSB_mp", "new_Rss_MSB_mp", "new_Rss_MSB_time_mp", "Rss_LT_mp",
     "new_Rss_LT_mp", "fixed_Rss_LT_mp", "fixed_Rss_GT_mp", "fixed_Rss_LT_time_mp",
     "fixed_Rss_GT_time_mp", "fixed_Rss_GT_LT_time_mp"} \union
    {"old_ReLU", "old_MaxPool", "maximum", "arg_max", "Rss_avg_pool_trunc", "minionn",
     "Rss_dw_pw_conv2d", "Rss_conv2d_first", "Rss_conv2d_final_layer"} \union
    {"old_ReLU_mp", "eda_ReLU_mp", "ReLU_6_alpha_mp", "ReLU_6_alpha_timer_mp", "old_MaxPool_mp",
     "eda_MaxPool_mp", "eda_arg_max_mp", "eda_arg_max_time_mp", "Rss_depthwise_conv2d_mp",
     "Rss_pointwise_conv2d_mp", "Rss_dw_pw_conv2d_mp", "Rss_conv2d_first_mp", "Rss_conv2d_mp",
     "Rss_conv2d_final_layer_mp"} \union
    {"Rss_BitLT_7pc", "Rss_edaBit_7pc", "new_Rss_MSB_7pc", "Rss_MSB_7pc"}

\* A call without dimensions, of the secrets or public numbers x and y.
Ints(fn, x, y) ==
    CASE fn \in MSBs \union Converts -> [a |-> x]
      [] fn \in Largers \union FixedLargers \union FixedSmallers \union GT_LTs ->
             [a |-> x, b |-> y]
      [] fn \in Truncs -> [x |-> x]
      [] fn \in TruncPrivs -> [x |-> x, priv_m |-> y]
      [] OTHER -> None
BitStrings(fn, x, y) ==
    CASE fn \in BitAdds \union TruncAdds -> [a |-> x, b |-> y]
      [] fn \in PublicAdds \union BitLTs -> [b |-> y]
      [] fn \in B2As -> [a |-> x]
      [] OTHER -> None
Publics(fn, x) ==
    CASE fn \in PublicAdds \union BitLTs -> [a |-> x]
      [] fn \in TruncPrivs -> [priv_m_index |-> <<1>>]
      [] OTHER -> None

Case(fn, q, k, third, x, y, seed) ==
    [fn |-> fn, n |-> q, k |-> k, size |-> Len(x), m |-> third, d |-> None, rings |-> None,
     ints |-> Ints(fn, x, y), bits |-> BitStrings(fn, x, y), pub |-> Publics(fn, x),
     seed |-> seed, repaired |-> fn \in Defective]

\* Batches of two, the first secrets a and b.
Two(fn, q, k, third, a, b) ==
    Case(fn, q, k, third, <<a, (a + 3 * b + 1) % 2^k>>, <<b, (5 * b + a + 2) % 2^k>>, a + 3 * b)
One(fn, q, k, third, a, b) == Case(fn, q, k, third, <<a>>, <<b>>, a + 5 * b)

\* Every sign, every comparison and every bit string over three bits.
Exhaustive ==
    {One(fn, 3, 3, 1, a, b) : fn \in {"new_Rss_LT", "Rss_BitLT", "Rss_BitAdd"},
                              a \in 0..7, b \in 0..7}

Bitwise3 ==
    UNION {{Two(fn, 3, k, k - 1, a, b) :
                fn \in {"Rss_BitAdd", "Rss_BitAdd_pub", "Rss_BitLT", "Rss_BitAdd_trunc"},
                a \in {1, 2^k - 1}, b \in {1, 2^(k - 1), 2^k - 2}} : k \in 2..6} \union
    {Two(fn, 3, 1, 1, a, b) : fn \in {"Rss_BitAdd", "Rss_BitAdd_pub"}, a \in 0..1, b \in 0..1}

Random3 ==
    {Two(fn, 3, k, third, seed, 0) :
         fn \in {"Rss_RandBit", "Rss_edaBit", "Rss_edaBit_trunc", "Rss_edaBit_trunc_test"},
         k \in 4..5, third \in 1..2, seed \in 0..3} \union
    {Case("Rss_b2a", 3, 4, 0, <<a, 1>>, <<0, 0>>, 1) : a \in 0..1}

Integers3 ==
    {Two(fn, 3, 4, 1, a, b) :
         fn \in (MSBs \union Largers \union FixedLargers \union FixedSmallers \union GT_LTs) \intersect
                {"new_Rss_MSB", "new_Rss_MSB_time", "Rss_MSB", "Rss_LT", "fixed_Rss_LT",
                 "fixed_Rss_GT", "fixed_Rss_LT_time", "fixed_Rss_GT_time", "fixed_Rss_GT_LT_time"},
         a \in {3, 9}, b \in {1, 14}} \union
    {One(fn, 3, 4, third, a, b) :
         fn \in {"Rss_truncPr_1", "Rss_truncPr_time"}, third \in 1..2, a \in 0..7, b \in 0..1} \union
    {Two(fn, 3, 5, 2, 3, 1) : fn \in {"Rss_truncPriv", "Rss_truncPriv_time"}} \union
    {One(fn, 3, 3, third, a, b) :
         fn \in {"new_Rss_Convert", "Rss_Convert"}, third \in {3, 5, 6}, a \in 0..7, b \in 0..1}

Five ==
    {Two(fn, 5, 4, 2, 5, 14) :
         fn \in {"Rss_BitAdd_mp", "Rss_BitAdd_pub_mp", "Rss_BitLT_mp", "Rss_RandBit_mp",
                 "Rss_edaBit_mp", "new_Rss_MSB_mp", "new_Rss_MSB_time_mp"}} \union
    {One(fn, 5, 3, 1, a, 2) :
         fn \in {"Rss_MSB_mp", "Rss_LT_mp", "new_Rss_LT_mp", "fixed_Rss_LT_mp", "fixed_Rss_GT_mp",
                 "fixed_Rss_LT_time_mp", "fixed_Rss_GT_time_mp", "fixed_Rss_GT_LT_time_mp",
                 "Rss_truncPriv_mp", "Rss_truncPriv_time_mp"}, a \in {1, 3}} \union
    {Case("Rss_b2a_mp", 5, 4, 0, <<a, 1>>, <<0, 0>>, 1) : a \in 0..1} \union
    {One("new_Rss_Convert_mp", 5, 3, 5, 6, 1)}

Seven ==
    {Two(fn, 7, 3, 2, 5, 2) :
         fn \in {"Rss_BitAdd_7pc", "Rss_BitAdd_pub_7pc", "Rss_BitLT_7pc"}} \union
    {One(fn, 7, 3, 2, 5, 2) :
         fn \in {"Rss_RandBit_7pc", "Rss_edaBit_7pc", "new_Rss_MSB_7pc", "Rss_MSB_7pc"}}

\* Secrets below 2^width around zero, in a ring of k bits.
Secrets(len, width, k, seed) ==
    [i \in 1..len |-> (((7 * i + 5 * seed + 3 * i * i + ((i * (i + seed)) \div 3)) % 2^width) - 2^(width - 1)) % 2^k]

LayerCase(fn, q, k, length, third, dims, ints, seed) ==
    [fn |-> fn, n |-> q, k |-> k, size |-> length, m |-> third, d |-> dims, rings |-> None,
     ints |-> ints, bits |-> None, pub |-> None, seed |-> seed, repaired |-> fn \in Defective]

MatMultCase(fn, q, rows, terms, columns, batch, flags, seed) ==
    LayerCase(fn, q, 6, rows * columns * batch, 0,
              [m |-> rows, n |-> terms, s |-> columns, batch |-> batch,
               flag_a |-> flags[1], flag_b |-> flags[2]],
              [a |-> Secrets(rows * terms * batch, 4, 6, seed),
               b |-> Secrets(terms * columns * batch, 5, 6, seed + 1),
               dest |-> Secrets(rows * columns * batch, 3, 6, seed + 2)], seed)

\* Products: batches of two images, windows of one and of four pixels.
ImageCase(fn, q, c, dim, f, stride, out, batch, pixels, weights, seed) ==
    LayerCase(fn, q, 6, 0, 0,
              [c |-> c, dim |-> dim, f |-> f, stride |-> stride, out |-> out, batch |-> batch],
              [a |-> Secrets(pixels, 4, 6, seed), b |-> Secrets(weights, 3, 6, seed + 1),
               dest |-> Secrets(out * batch * (dim \div stride)^2, 3, 6, seed + 2)], seed)

Products ==
    {MatMultCase(fn, 3, 2, 3, 2, 1, <<0, 0>>, 1) : fn \in {"Rss_MatMult", "Rss_MatMultArray"}} \union
    {MatMultCase("Rss_MatMultArray_batch", 3, 2, 2, 3, 2, flags, 2) : flags \in {0, 1} \X {0, 1}} \union
    {MatMultCase("Rss_MatMultArray_batch_mp", 5, 2, 2, 1, 2, <<0, 1>>, 3)} \union
    {ImageCase(p.fn, p.q, 2, 2, 1, 1, 2, 2, 16, 4, p.q) :
         p \in {[fn |-> "Rss_pw_matrixmul", q |-> 3], [fn |-> "Rss_pw_matrixmul_mp", q |-> 5]}} \union
    {ImageCase("Rss_pw_matrixmul", 3, 1, 2, 2, 1, 2, 1, 16, 8, 4),
     ImageCase("Rss_dw_matrixmul", 3, 9, 1, 3, 1, 9, 1, 81, 81, 5),
     ImageCase("Rss_dw_matrixmul_mp", 5, 2, 2, 3, 1, 2, 1, 32, 18, 6),
     ImageCase("Rss_dw_matrixmul_mp", 5, 1, 2, 3, 2, 1, 1, 16, 9, 7)}

\* Layers without weights: odd and even numbers, batches, 2 x 2 and 4 x 4
\* pixels.
Plain(fn, q, k, len, third, dims, seed) ==
    LayerCase(fn, q, k, len, third, dims,
              [a |-> Secrets(40, k - 1, k, seed), upper |-> <<1, 3, 2>>], seed)
Images(c, dim, batch) == [c |-> c, h |-> dim, w |-> dim, dim |-> dim, batch |-> batch]
Trim(case, len) == [case EXCEPT !.ints.a = SubSeq(@, 1, len)]

Pools ==
    {Trim(Plain(fn, 3, 4, 3, 2, None, seed), 3) :
         fn \in {"old_ReLU", "eda_ReLU", "ReLU_6_alpha", "ReLU_6_alpha_timer"}, seed \in 1..3} \union
    {Trim(Plain(fn, 3, 4, 0, 0, Images(1, 2, 2), seed), 8) :
         fn \in {"old_MaxPool", "eda_MaxPool"}, seed \in 1..2} \union
    {Trim(Plain("eda_MaxPool", 3, 4, 0, 0, Images(2, 4, 1), 3), 32)} \union
    {Trim(Plain("Rss_avg_pool_trunc", 3, 6, 0, 0, Images(2, 2, 1), seed), 8) : seed \in 1..4} \union
    {Trim(Plain(fn, 3, 4, len, 2, None, len), 2 * len) :
         fn \in {"maximum", "eda_maximum"}, len \in {1, 3, 4}} \union
    {Trim(Plain(fn, 3, 4, len, 2, None, len), 2 * len) :
         fn \in {"arg_max", "eda_arg_max", "eda_arg_max_time"}, len \in {1, 3, 5}} \union
    {Trim(Plain(fn, 5, 3, 1, 2, None, seed), 1) :
         fn \in {"old_ReLU_mp", "eda_ReLU_mp", "ReLU_6_alpha_mp", "ReLU_6_alpha_timer_mp"},
         seed \in 1..2} \union
    {Trim(Plain(fn, 5, 3, 0, 0, Images(1, 2, 1), 1), 4) :
         fn \in {"old_MaxPool_mp", "eda_MaxPool_mp"}} \union
    {Trim(Plain("Rss_avg_pool_trunc_mp", 5, 4, 0, 0, Images(2, 2, 1), 1), 8)} \union
    {Trim(Plain(fn, 5, 3, 3, 1, None, 2), 3) : fn \in {"eda_arg_max_mp", "eda_arg_max_time_mp"}}

\* Layers with weights: number 1 of two in the arrays of all layers, dest
\* as it was allocated.
Zeroes(len) == [i \in 1..len |-> 0]
ConvCase(fn, q, k, third, c, dim, f, stride, out, batch, weights, result, zero, seed) ==
    LayerCase(fn, q, k, 0, third,
        [c |-> c, dim |-> dim, f |-> f, stride |-> stride, out |-> out, batch |-> batch, layer |-> 1],
        [a |-> Secrets(c * dim * dim * batch, 2, k, seed), W |-> Secrets(weights, 2, k, seed + 1),
         b |-> Secrets(out, 2, k, seed + 2), dest |-> Zeroes(result), next |-> Zeroes(result),
         upper |-> <<3, 5, 3>>, trunc |-> <<1, 2, 1>>, zin |-> <<0, zero, 0>>,
         zw |-> <<0, 1, 0>>, zout |-> <<0, zero, 0>>,
         W2 |-> Secrets(c * out, 2, k, seed + 3), b2 |-> Secrets(out, 2, k, seed + 4),
         dest2 |-> Zeroes(result)], seed)

Convolutions ==
    {ConvCase(fn, 3, 5, 1, 1, 2, 3, stride, 2, 1, 18, 8 \div (stride * stride), 0, stride) :
         fn \in {"Rss_conv2d_first", "Rss_conv2d", "Rss_conv2d_final_layer"}, stride \in 1..2} \union
    {ConvCase(fn, 3, 5, 1, 2, 2, 1, 1, 2, batch, 4, 8 * batch, 1, batch) :
         fn \in {"Rss_pointwise_conv2d", "Rss_conv2d_no_act", "Rss_conv2d_final_layer"},
         batch \in 1..2} \union
    {ConvCase(fn, 3, 5, 1, 9, 1, 3, 1, 9, 1, 81, 9, 0, 3) :
         fn \in {"Rss_depthwise_conv2d", "Rss_dw_pw_conv2d"}} \union
    {ConvCase(fn, 5, 4, 1, 1, 2, 3, 2, 1, 1, 9, 1, 0, 4) :
         fn \in {"Rss_depthwise_conv2d_mp", "Rss_dw_pw_conv2d_mp", "Rss_conv2d_first_mp",
                 "Rss_conv2d_mp", "Rss_conv2d_final_layer_mp", "Rss_conv2d_no_act_mp"}} \union
    {ConvCase("Rss_pointwise_conv2d_mp", 5, 4, 1, 2, 1, 1, 1, 1, 2, 2, 2, 0, 5)}

\* A network of 7 x 7 pixels and windows of 2 x 2: images of 6 x 6, 3 x 3,
\* 2 x 2 and 1 x 1 pixels, two hidden values, three classes.
NetworkCase(batch, seed) ==
    LET ring(w, k) == [i \in DOMAIN w |-> w[i] % 2^k] IN
    [LayerCase("minionn", 3, 4, 0, 0,
        [c |-> 1, dim |-> 7, f |-> 2, hidden |-> 2, classes |-> 3, batch |-> batch,
         rings |-> <<5, 6, 6>>],
        [a |-> [i \in 1 .. 49 * batch |-> IF (i + (i \div 7)) % (seed + 2) < 2 THEN 1 ELSE 0],
         W1 |-> ring(<<1, -1, 1, 1>>, 4),
         b1 |-> ring(<<-1>>, 4),
         W2 |-> ring(<<1, 2, -1, 1>>, 5), b2 |-> ring(<<1>>, 5),
         W3 |-> ring(<<2, -1>>, 6), b3 |-> ring(<<-3, 6>>, 6),
         W4 |-> ring(<<1, -1, -1, 2, 0, 1>>, 6), b4 |-> ring(<<-1, -4, 1>>, 6)], seed)
     EXCEPT !.rings = [x \in {"W2", "b2"} |-> 5] @@ [x \in {"W3", "b3", "W4", "b4"} |-> 6]]

Predictions == {NetworkCase(p[1], p[2]) : p \in {<<1, 1>>, <<1, 6>>, <<2, 9>>, <<1, 12>>}}

\* Five parties compare and seven make an edaBit, with the code as it is.
AsWritten(cases) == {[c EXCEPT !.repaired = FALSE] : c \in cases}
MCBitLT5 ==
    AsWritten({Two("Rss_BitLT_mp", 5, k, 0, a, b) : k \in 3..4, a \in 0..3, b \in 1..3})
MCEda7 ==
    AsWritten({Two("Rss_edaBit_7pc", 7, k, 0, seed, 0) : k \in 3..4, seed \in 0..3})

MCCases ==
    Exhaustive \union Bitwise3 \union Random3 \union Integers3 \union Five \union Seven \union
    Products \union Pools \union Convolutions \union Predictions

Code(T) == SumOver(T, [p \in T |-> 2^p])
Mix(a, b, c) == ((a * 7 + b * 5 + c * 3 + (b \div 4) * (c + a)) * (a + b + 2 * c + 1)) \div 3

MCShare(seed, x, T, i) == Mix(seed, Code(T), 2 * i + (IF x \in {"a", "x"} THEN 0 ELSE 1))
MCPrg(seed, T, k) == Mix(seed + 9, Code(T), k + 4)
=============================================================================
