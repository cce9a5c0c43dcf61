------------------------------- MODULE MCRss3 -------------------------------
(***************************************************************************)
(* Rss3 on short programs over Z_4, with three-bit random words in four-   *)
(* bit machine words: a carry out of the ring, and a bit of uninitialized  *)
(* memory, get into the bits that only masking removes.                    *)
(***************************************************************************)
EXTENDS Rss3

Do(op, dst, x, y) == [op |-> op, dst |-> dst, x |-> x, y |-> y]

\* x*y opened and then used again; a public product between two products.
MCPrograms == {
    << Do("mult", "c", "x", "y"), Do("open", "o", "c", "c"), Do("mult", "d", "c", "x") >>,
    << Do("mult", "c", "x", "y"), Do("multpub", "m", "c", "y"), Do("mult", "d", "c", "c") >> }

MCInputShares ==
    {[x |-> x, y |-> <<5, 6, 2>>] : x \in {<<0, 0, 0>>, <<3, 6, 15>>, <<9, 12, 6>>, <<1, 0, 0>>, <<15, 15, 15>>}} \union
    {[x |-> <<1, 7, 12>>, y |-> <<3, 0, 7>>]}

MCStreams == { << <<5, 2, 7>>, <<6, 1, 3>>, <<3, 7, 0>> >>,
               << <<0, 7, 1>>, <<4, 4, 6>>, <<7, 5, 2>> >> }
=============================================================================
