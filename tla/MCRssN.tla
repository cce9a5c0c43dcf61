------------------------------- MODULE MCRssN -------------------------------
(***************************************************************************)
(* RssN over Z_4 with four-bit Lints.  Inputs and streams are words mixed  *)
(* from a seed, the set T and a position; words that fill a Lint go with   *)
(* batches of two, shorter ones with batches of one.                       *)
(***************************************************************************)
EXTENDS RssN

Do(op, dst, x, y) == [op |-> op, dst |-> dst, x |-> x, y |-> y]

Case(m, R, size, seed, program) ==
    [n |-> m, R |-> R, size |-> size, seed |-> seed, program |-> program]

MultOpen == << Do("mult", "c", "x", "y"), Do("open", "o", "c", "c") >>
PubMult == << Do("multpub", "m", "x", "y"), Do("mult", "c", "x", "x") >>

MCCases ==
    {Case(5, R, 5 - R, 1, MultOpen) : R \in {3, 4}} \union
    {Case(5, 3, 1, 2, PubMult), Case(5, 4, 2, 2, << PubMult[1] >>)} \union
    {Case(7, 4, 1, 3, << i >>) : i \in {MultOpen[1], PubMult[1]}}

\* A batch whose words leave a Lint's worth of memory unwritten.
FlatCases == {Case(5, 2, 2, 1, << PubMult[1] >>)}

\* Seven parties opening an input.
Open7Cases == {Case(7, 4, 1, 3, << Do("open", "o", "x", "x") >>)}

Code(T) == SumOver(T, [p \in T |-> 2^p])
Mix(a, b, c) == ((a * 7 + b * 5 + c * 3 + (b \div 4) * (c + a)) * (a + b + 2 * c + 1)) \div 3

MCInput(seed, r, T, i) == Mix(seed, Code(T), 2 * i + (IF r = "x" THEN 0 ELSE 1)) % 2^W
MCPrg(seed, T, k) == Mix(seed + 9, Code(T), k + 4)
=============================================================================
