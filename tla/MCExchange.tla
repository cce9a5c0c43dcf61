----------------------------- MODULE MCExchange -----------------------------
(***************************************************************************)
(* Exchange run on the programs the calls of Calls make, for three, five   *)
(* and seven parties, with the constants of the code: vectors of 8-byte    *)
(* elements, cut into rounds by MAX_BUFFER_SIZE.                           *)
(***************************************************************************)
EXTENDS Exchange, Calls

Call(kind, size) == [kind |-> kind, size |-> size, unit |-> 8]

\* Three rounds of Rss_Mult or Rss_Open, then a MultPub, then an Open.
MC3 == Script(3, <<Call("mult", 20000), Call("multicast", 9557), Call("mult", 1)>>)

\* A product in two rounds, an opening and an edaBit dealing.
MC5 == Script(5, <<Call("mult", 5735), Call("open", 1), Call("eda", 1)>>)
MC5pub == Script(5, <<Call("multicast", 1)>>)

\* Each kind of call between seven parties.
MC7mult == Script(7, <<Call("mult", 1)>>)
MC7open == Script(7, <<Call("open", 1)>>)
MC7eda == Script(7, <<Call("eda", 1)>>)

MCScripts == {MC3, MC5, MC5pub, MC7mult, MC7open, MC7eda}

\* Linux's default receive buffer.
MCSocketBuffer == 131072

-----------------------------------------------------------------------------
\* The tables of the code pair every write with a read of the same slot and
\* round, and a chunk fits the kernel's buffer: the premise of the theorems.
ScriptsMatched == Matched(script)

\* The rounds of every call carry each element of its vector exactly once.
RoundsCover ==
    \A unit \in {1, 2, 4, 8} : LET count == (BufferSize \div script.n) \div unit IN
        \A size \in {1, 2, count - 1, count, count + 1, 2*count - 1, 2*count,
                     2*count + 1, 5*count} :
            Covers(script.n, [size |-> size, unit |-> unit])
=============================================================================
