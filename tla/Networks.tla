------------------------------ MODULE Networks ------------------------------
(***************************************************************************)
(* The convolutional layers of nn_layers, each a product of the windows of *)
(* an image with the weights, biases, an activation and a truncation, and  *)
(* the prediction of the driver minionn.                                   *)
(*                                                                         *)
(* A layer gets its image a (x[layer_id - 1], x[layer_id] or input_x), the *)
(* weights and biases W and b, the array dest it leaves its products in,   *)
(* and for all layers of the network the bounds upper, the factors trunc   *)
(* and the zero points zin, zw and zout.                                   *)
(***************************************************************************)
EXTENDS Layers

OutDim == d.dim \div d.stride
OutSize(channels) == channels * OutDim * OutDim

\* The product of a layer, from step i on, and what the biases make of it.
Weighing(fn, i, product, x, y, len, dims, biased) ==
    \/ /\ Running(fn, i)
       /\ Call(product, WithDims(len, dims), [a |-> x, b |-> y, dest |-> sh.dest], None,
               [res |-> "res"])
    \/ /\ Running(fn, i + 1)
       /\ Let([res |-> biased])

\* The first len results of layer number l are activated and truncated.
Activating(fn, i, relu, trunc, len, l) ==
    \/ /\ Running(fn, i)
       /\ Call(relu, Num(ring_size, len, l + 1), [a |-> Part(sh.res, 1, len), upper |-> sh.upper],
               None, [res |-> "active"])
    \/ /\ Running(fn, i + 1)
       /\ Call(trunc, Num(ring_size, len, m), [x |-> sh.active, priv_m |-> sh.trunc],
               [priv_m_index |-> All(1, l + 1)], [res |-> "active"])

Activated ==
    Join(sh.active, Part(sh.res, Len(sh.active[1][0]) + 1, Len(sh.res[1][0])))

\* Images and weights without the zero point of their layer.
Windows == extract_patch(sh.a, d.c, d.dim, d.f, d.stride, d.batch)
Offset == sub_zp(Windows, sh.zin, d.layer)
Padded == sub_zp(pad_original(sh.a, d.c, d.dim, d.batch), sh.zin, d.layer)
Weights == sub_zp(sh.W, sh.zw, d.layer)

Depthwise(fn, product) ==
    Weighing(fn, 1, product, Padded, Weights, d.batch * OutSize(d.c), d,
             pw_add_biases(sh.res, sh.b, d.c))

Pointwise2d(fn, product, x, y, biased) ==
    Weighing(fn, 1, product, x, y, d.batch * OutSize(d.out), [d EXCEPT !.dim = OutDim], biased)
Biased == pw_add_biases(sh.res, sh.b, d.out)

\* The first image of a batch is activated, and no other.
depthwise_conv2d(fn, product, relu, trunc) ==
    \/ Depthwise(fn, product)
    \/ Activating(fn, 3, relu, trunc, OutSize(d.c), d.layer)
    \/ Running(fn, 5) /\ Return([res |-> Activated, W |-> Weights])

Rss_depthwise_conv2d ==
    depthwise_conv2d("Rss_depthwise_conv2d", "Rss_dw_matrixmul", "ReLU_6_alpha", "Rss_truncPriv")
Rss_depthwise_conv2d_mp ==
    depthwise_conv2d("Rss_depthwise_conv2d_mp", "Rss_dw_matrixmul_mp", "ReLU_6_alpha_mp",
                     "Rss_truncPriv_mp")

pointwise_conv2d(fn, product, relu, trunc) ==
    \/ Pointwise2d(fn, product, Offset, Weights, Biased)
    \/ Activating(fn, 3, relu, trunc, OutSize(d.out), d.layer)
    \/ Running(fn, 5) /\ Return([res |-> Activated, W |-> Weights])

Rss_pointwise_conv2d ==
    pointwise_conv2d("Rss_pointwise_conv2d", "Rss_pw_matrixmul", "ReLU_6_alpha", "Rss_truncPriv")
Rss_pointwise_conv2d_mp ==
    pointwise_conv2d("Rss_pointwise_conv2d_mp", "Rss_pw_matrixmul_mp", "ReLU_6_alpha_mp",
                     "Rss_truncPriv_mp")

\* Rss_dw_pw_conv2d: a depthwise layer, and a pointwise one on its result.
dw_pw_conv2d(fn, dw, pw, relu, trunc) ==
    LET layer2 == d.layer + 1
        pixels == extract_patch(sh.a, d.c, OutDim, 1, 1, d.batch) IN
    \/ Depthwise(fn, dw)
    \/ Activating(fn, 3, relu, trunc, d.batch * OutSize(d.c), d.layer)
    \/ /\ Running(fn, 5)
       /\ Let([a |-> Activated, W |-> Weights, W2 |-> sub_zp(sh.W2, sh.zw, layer2),
               dest |-> sh.dest2])
    \/ Weighing(fn, 6, pw, sub_zp(pixels, sh.zin, layer2), sh.W2, d.batch * OutSize(d.out),
                [d EXCEPT !.dim = OutDim, !.f = 1], pw_add_biases(sh.res, sh.b2, d.out))
    \/ Activating(fn, 8, relu, trunc, d.batch * OutSize(d.out), layer2)
    \/ /\ Running(fn, 10)
       /\ Return([res |-> Activated, x |-> sh.a, W |-> sh.W, W2 |-> sh.W2])

Rss_dw_pw_conv2d ==
    dw_pw_conv2d("Rss_dw_pw_conv2d", "Rss_dw_matrixmul", "Rss_pw_matrixmul", "ReLU_6_alpha_timer",
                 "Rss_truncPriv_time")
Rss_dw_pw_conv2d_mp ==
    dw_pw_conv2d("Rss_dw_pw_conv2d_mp", "Rss_dw_matrixmul_mp", "Rss_pw_matrixmul_mp",
                 "ReLU_6_alpha_timer_mp", "Rss_truncPriv_time_mp")

\* Rss_conv2d_first adds the zero point of its output to the array next, of
\* the layer after it.
conv2d_first(fn, product, relu, trunc) ==
    \/ Pointwise2d(fn, product, Offset, Weights, Biased)
    \/ Activating(fn, 3, relu, trunc, d.batch * OutSize(d.out), d.layer)
    \/ /\ Running(fn, 5)
       /\ Return([res |-> Activated, W |-> Weights, next |-> add_zp(sh.next, sh.zout, d.layer)])

Rss_conv2d_first ==
    conv2d_first("Rss_conv2d_first", "Rss_pw_matrixmul", "ReLU_6_alpha_timer",
                 "Rss_truncPriv_time")
Rss_conv2d_first_mp ==
    conv2d_first("Rss_conv2d_first_mp", "Rss_pw_matrixmul_mp", "ReLU_6_alpha_timer_mp",
                 "Rss_truncPriv_time_mp")

\* Rss_conv2d: without zero points.
conv2d(fn, product, relu, trunc) ==
    \/ Pointwise2d(fn, product, Windows, sh.W, Biased)
    \/ Activating(fn, 3, relu, trunc, d.batch * OutSize(d.out), d.layer)
    \/ Running(fn, 5) /\ Return([res |-> Activated])

Rss_conv2d == conv2d("Rss_conv2d", "Rss_pw_matrixmul", "ReLU_6_alpha", "Rss_truncPriv")
Rss_conv2d_mp ==
    conv2d("Rss_conv2d_mp", "Rss_pw_matrixmul_mp", "ReLU_6_alpha_mp", "Rss_truncPriv_mp")

conv2d_final_layer(fn, product, relu, trunc) ==
    \/ Pointwise2d(fn, product, Offset, Weights, add_zp(Biased, sh.zout, d.layer))
    \/ Activating(fn, 3, relu, trunc, d.batch * OutSize(d.out), d.layer)
    \/ Running(fn, 5) /\ Return([res |-> Activated, W |-> Weights])

Rss_conv2d_final_layer ==
    conv2d_final_layer("Rss_conv2d_final_layer", "Rss_pw_matrixmul", "ReLU_6_alpha_timer",
                       "Rss_truncPriv_time")
Rss_conv2d_final_layer_mp ==
    conv2d_final_layer("Rss_conv2d_final_layer_mp", "Rss_pw_matrixmul_mp",
                       "ReLU_6_alpha_timer_mp", "Rss_truncPriv_time_mp")

\* Rss_conv2d_no_act: its array of windows has room for windows of one pixel.
conv2d_no_act(fn, product) ==
    \/ Pointwise2d(fn, product, Windows, sh.W, Biased)
    \/ Running(fn, 3) /\ Return([res |-> sh.res])

Rss_conv2d_no_act    == conv2d_no_act("Rss_conv2d_no_act", "Rss_pw_matrixmul")
Rss_conv2d_no_act_mp == conv2d_no_act("Rss_conv2d_no_act_mp", "Rss_pw_matrixmul_mp")

-----------------------------------------------------------------------------
\* minionn: two convolutions of d.f x d.f pixels, each with activation and
\* pooling, and two matrices, with weights W1..W4 and biases b1..b4.  The
\* ring grows from k to rings[1], rings[2], rings[3].
Conv1 == d.dim - d.f + 1            \* pixels of a row after a convolution,
Pool1 == Conv1 \div 2               \* and after pooling
Conv2 == Pool1 - d.f + 1
Pool2 == Conv2 \div 2
Flat == d.c * Pool2 * Pool2

MatMulDims(rows, terms, columns) ==
    [m |-> rows, n |-> terms, s |-> columns, batch |-> d.batch, flag_a |-> 0, flag_b |-> 1]

\* A layer from step i on: weights y, windows x, rows x columns results.
Dense(fn, i, k, x, y, biases, rows, terms, columns) ==
    \/ /\ Running(fn, i)
       /\ Call("Rss_MatMultArray_batch",
               Num(k, d.batch * rows * columns, 0) @@ [d |-> MatMulDims(rows, terms, columns)],
               [a |-> y, b |-> x], None, [res |-> "x"])
    \/ /\ Running(fn, i + 1)
       /\ Let([x |-> add_biases(sh.x, biases, rows, columns)])

Positive(fn, i, k, len) ==
    /\ Running(fn, i)
    /\ Call("eda_ReLU", Num(k, len, 0), [a |-> sh.x], None, [res |-> "x"])

Pooled(fn, i, k, dim) ==
    /\ Running(fn, i)
    /\ Call("eda_MaxPool",
            Num(k, 0, 0) @@ [d |-> [c |-> d.c, h |-> dim, w |-> dim, batch |-> d.batch]],
            [a |-> sh.x], None, [res |-> "x"])

Converted(fn, i, convert, k, k2, len) ==
    /\ Running(fn, i)
    /\ Call(convert, Num(k, len, k2), [a |-> sh.x], None, [res |-> "x"])

minionn ==
    LET fn == "minionn"
        k1 == d.rings[1]
        k2 == d.rings[2]
        k3 == d.rings[3]
        columns1 == im2col(sh.a, 1, d.dim, d.dim, d.f, 1, d.batch)
        columns2 == im2col(sh.x, d.c, Pool1, Pool1, d.f, 1, d.batch) IN
    \/ Dense(fn, 1, ring_size, columns1, sh.W1, sh.b1, d.c, d.f * d.f, Conv1 * Conv1)
    \/ Positive(fn, 3, ring_size, d.batch * d.c * Conv1 * Conv1)
    \/ Pooled(fn, 4, ring_size, Conv1)
    \/ Converted(fn, 5, "new_Rss_Convert", ring_size, k1, d.batch * d.c * Pool1 * Pool1)
    \/ Dense(fn, 6, k1, columns2, sh.W2, sh.b2, d.c, d.c * d.f * d.f, Conv2 * Conv2)
    \/ Positive(fn, 8, k1, d.batch * d.c * Conv2 * Conv2)
    \/ Pooled(fn, 9, k1, Conv2)
    \/ Converted(fn, 10, "new_Rss_Convert", k1, k2, d.batch * Flat)
    \/ Dense(fn, 11, k2, sh.x, sh.W3, sh.b3, d.hidden, Flat, 1)
    \/ Positive(fn, 13, k2, d.batch * d.hidden)
    \/ Converted(fn, 14, "Rss_Convert", k2, k3, d.batch * d.hidden)
    \/ Dense(fn, 15, k3, sh.x, sh.W4, sh.b4, d.classes, d.hidden, 1)
    \/ /\ Running(fn, 17)
       /\ Call("arg_max", Num(k3, d.classes, d.batch), [a |-> sh.x], None,
               [res |-> "value", res_index |-> "found"])
    \/ /\ Running(fn, 18)
       /\ Learn([res |-> Rss_Open(sh.found, k3)])
    \/ /\ Running(fn, 19)
       /\ Return([x |-> sh.x, value |-> sh.value, found |-> sh.found])

NetworkStep ==
    \/ Rss_depthwise_conv2d \/ Rss_pointwise_conv2d \/ Rss_dw_pw_conv2d \/ Rss_conv2d_first
    \/ Rss_conv2d \/ Rss_conv2d_final_layer \/ Rss_conv2d_no_act
    \/ Rss_depthwise_conv2d_mp \/ Rss_pointwise_conv2d_mp \/ Rss_dw_pw_conv2d_mp
    \/ Rss_conv2d_first_mp \/ Rss_conv2d_mp \/ Rss_conv2d_final_layer_mp \/ Rss_conv2d_no_act_mp
    \/ minionn
=============================================================================
