------------------------------- MODULE Linear -------------------------------
(***************************************************************************)
(* What the layers of a network do with matrices and images: products of   *)
(* shared matrices (protocols_basic/matMult), the windows of a convolution *)
(* laid out as a matrix, biases and zero points (protocols_ml/neural_ops). *)
(* Matrices and images are arrays; positions are counted from 0 here.      *)
(***************************************************************************)
EXTENDS Composite

\* The numbers of the call, by name, besides ring_size, size and m.
d == Top.num.d
WithDims(len, dims) == Num(ring_size, len, 0) @@ [d |-> dims]

Nowhere == -1

\* The array whose position e has what x has at(e), or other at Nowhere.
Gather(x, len, at(_), other) ==
    [p \in Party |-> [j \in Keys |-> [i \in 1..len |->
        IF at(i - 1) = Nowhere THEN other ELSE x[p][j][at(i - 1) + 1]]]]

\* Position e of an image of the batch, without the images before it.
Image(e, len) == e \div len
Within(e, len) == e % len

-----------------------------------------------------------------------------
\* The products of entry u of x and entry w of y that party p computes.
LocalAt(x, y, p, u, w) ==
    SumOver(Keys, [j \in Keys |->
        x[p][j][u + 1] * SumOver(Cross(n)[j + 1], [l \in Keys |-> y[p][l][w + 1]])])

\* A product of len entries: entry e sums, for all q below terms, what the
\* first factor has at A(e, q) times what the second has at B(e, q).
Entries(len, terms, A(_, _), B(_, _), At(_, _, _, _)) ==
    Masked(LAMBDA p, i : SumOver(0 .. terms - 1, [q \in 0 .. terms - 1 |->
               LocalAt(sh.a, sh.b, p, A(i - 1, q), B(i - 1, q))]),
           len, ring_size, At)

\* Three parties overwrite the destination, five add to what it holds.
Overwrites(c) == [res |-> c]
AddsTo(c) == [res |-> sh.dest ++ c]

Product(fn, len, terms, A(_, _), B(_, _), At(_, _, _, _), into(_)) ==
    /\ Running(fn, 1)
    /\ ReturnDraw(into(Entries(len, terms, A, B, At)), MultDraws(len))

\* Faulty variant: only the first matrix of a batch is multiplied.
Matrix_first(e) == 0

\* Entry e of a batch of m x s matrices: row, column and number.
Row(e) == (e \div d.s) % d.m
Column(e) == e % d.s
Matrix(e) == Image(e, d.m * d.s)

\* Rss_MatMultArray_batch: a is m x n, b is n x s; a matrix whose flag is 0 is
\* the same for the whole batch.
MatMult(fn, At(_, _, _, _), into(_)) ==
    Product(fn, d.batch * d.m * d.s, d.n,
            LAMBDA e, q : d.flag_a * Matrix(e) * d.m * d.n + Row(e) * d.n + q,
            LAMBDA e, q : d.flag_b * Matrix(e) * d.n * d.s + q * d.s + Column(e),
            At, into)

Rss_MatMult               == MatMult("Rss_MatMult", Once, Overwrites)
Rss_MatMultArray          == MatMult("Rss_MatMultArray", Once, Overwrites)
Rss_MatMultArray_batch    == MatMult("Rss_MatMultArray_batch", Once, Overwrites)
Rss_MatMultArray_batch_mp == MatMult("Rss_MatMultArray_batch_mp", Tracked, AddsTo)

\* Rss_pw_matrixmul: every window of dim x dim, of f * f * c entries, with
\* every output channel.  Images are taken to be dim * dim * c apart, which
\* windows of more than one pixel are not.
Window(e) == (e \div d.out) % (d.dim * d.dim)
Channel(e) == e % d.out
PointwiseProduct(fn, At(_, _, _, _), into(_)) ==
    LET crow == d.f * d.f * d.c IN
    Product(fn, d.batch * d.out * d.dim * d.dim, crow,
            LAMBDA e, q : q + Window(e) * crow
                          + d.c * d.dim * d.dim * Image(e, d.out * d.dim * d.dim),
            LAMBDA e, q : Channel(e) + q * d.out,
            At, into)

Rss_pw_matrixmul    == PointwiseProduct("Rss_pw_matrixmul", Once, Overwrites)
Rss_pw_matrixmul_mp == PointwiseProduct("Rss_pw_matrixmul_mp", Tracked, AddsTo)

\* Rss_dw_matrixmul: channel by channel, a is padded by one pixel.  Images
\* are taken to be as far apart as those of the result.  Three parties sum
\* over the channels, one entry for every weight of the filter: what is
\* written fits the result when it has as many channels as those, c = f * f.
Along == (d.dim - d.stride) \div d.stride + 1
Pixel(u, v, ch) == u * (d.dim + 2) * d.c + v * d.c + ch

Depth == d.c * Along * Along
RowFrom(e) == d.stride - 1 + ((e \div (d.c * Along)) % Along) * d.stride
ColumnFrom(e) == d.stride - 1 + ((e \div d.c) % Along) * d.stride

\* Entry e of the result, weight g of the filter, channel ch.
PixelOf(e, g, ch) ==
    Pixel(RowFrom(e) + (g \div d.f), ColumnFrom(e) + (g % d.f), ch) + Depth * Image(e, Depth)

Rss_dw_matrixmul ==
    LET weight(e) == e % (d.f * d.f) IN
    Product("Rss_dw_matrixmul", d.batch * Depth, d.c,
            LAMBDA e, q : PixelOf(e, weight(e), q),
            LAMBDA e, q : weight(e) * d.c + q,
            Once, Overwrites)

Rss_dw_matrixmul_mp ==
    Product("Rss_dw_matrixmul_mp", d.batch * Depth, d.f * d.f,
            LAMBDA e, q : PixelOf(e, q, e % d.c),
            LAMBDA e, q : q * d.c + (e % d.c),
            Tracked, AddsTo)

-----------------------------------------------------------------------------
\* Faulty variant: windows are transposed.
WindowRow_column(q, f) == q % f
WindowRow(q, f) == (q \div f) % f

\* im2col: the windows of f x f pixels of a c x h x w image, one in a column.
im2col(x, c, h, w, f, stride, batch) ==
    LET rows == (h - f) \div stride + 1
        cols == (w - f) \div stride + 1
        out == c * f * f * rows * cols
        ch(e) == Within(e, out) \div (rows * cols)
        row(e) == WindowRow(ch(e), f) + ((e \div cols) % rows) * stride
        col(e) == (ch(e) % f) + (e % cols) * stride IN
    Gather(x, batch * out,
           LAMBDA e : Image(e, out) * c * h * w
                      + col(e) + w * (row(e) + h * (ch(e) \div (f * f))),
           0)

\* extract_patch with "same" padding: the windows of a dim x dim x c image,
\* one in a row.  A stride above 1 pads on the far side only; pad columns are
\* counted in entries, not in pixels of c entries.
Extent(dim, stride) == (dim + stride - 1) \div stride
PadAlong(dim, f, stride) ==
    LET over == IF dim % stride = 0 THEN stride ELSE dim % stride IN
    IF f > over THEN f - over ELSE 0

\* Faulty variant: all padding is put on the far side.
PadFirst_none(dim, f, stride) == 0
PadFirst(dim, f, stride) == IF stride > 1 THEN 0 ELSE PadAlong(dim, f, stride) \div 2

extract_patch(x, c, dim, f, stride, batch) ==
    LET ext == Extent(dim, stride)
        pad == PadFirst(dim, f, stride)
        out == f * f * c * ext * ext
        window(e) == Within(e, out) \div (f * f * c)
        row(e) == (window(e) \div ext) * stride + ((e \div (f * c)) % f) - pad
        col(e) == (window(e) % ext) * stride * c + (e % (f * c)) - pad IN
    Gather(x, batch * out,
           LAMBDA e : IF row(e) \in 0 .. dim - 1 /\ col(e) \in 0 .. dim * c - 1
                      THEN Image(e, out) * c * dim * dim + col(e) + dim * c * row(e)
                      ELSE Nowhere,
           0)

\* pad_original: a dim x dim x c image with a border of one pixel of zeros.
pad_original(x, c, dim, batch) ==
    LET out == c * (dim + 2) * (dim + 2)
        row(e) == Within(e, out) \div ((dim + 2) * c) - 1
        col(e) == (e % ((dim + 2) * c)) - c IN
    Gather(x, batch * out,
           LAMBDA e : IF row(e) \in 0 .. dim - 1 /\ col(e) \in 0 .. dim * c - 1
                      THEN Image(e, out) * c * dim * dim + col(e) + dim * c * row(e)
                      ELSE Nowhere,
           0)

\* add_biases: one for every row of m x n; pw_add_biases: one for every
\* channel; sub_zp, add_zp: number layer of all.
Spreading(x, b, at(_)) == Gather(b, Len(x[1][0]), at, 0)
add_biases(x, b, rows, cols) == x ++ Spreading(x, b, LAMBDA e : (e \div cols) % rows)
pw_add_biases(x, b, channels) == x ++ Spreading(x, b, LAMBDA e : e % channels)
sub_zp(x, z_p, layer) == x -- Spreading(x, z_p, LAMBDA e : layer)
add_zp(x, z_p, layer) == x ++ Spreading(x, z_p, LAMBDA e : layer)

\* The sums that Rss_avg_pool_trunc divides: of all pixels of a channel.
channel_sums(x, c, dim, batch) ==
    [p \in Party |-> [j \in Keys |-> [i \in 1 .. c * batch |->
        LET pixel(g) == g * c + ((i - 1) % c) + ((i - 1) \div c) * c * dim * dim IN
        Wrap(SumOver(0 .. dim * dim - 1,
                     [g \in 0 .. dim * dim - 1 |-> x[p][j][pixel(g) + 1]]))]]]

LinearStep ==
    \/ Rss_MatMult \/ Rss_MatMultArray \/ Rss_MatMultArray_batch \/ Rss_MatMultArray_batch_mp
    \/ Rss_pw_matrixmul \/ Rss_pw_matrixmul_mp \/ Rss_dw_matrixmul \/ Rss_dw_matrixmul_mp
=============================================================================
