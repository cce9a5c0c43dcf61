----------------------------- MODULE PrgStream -----------------------------
(***************************************************************************)
(* The generator of one party (prg_aes, prg_getrandom).  The 16-byte       *)
(* container of a key holds the newest block of the key's chain, each      *)
(* block being prg_aes of the one before; P_container says how many of its *)
(* bytes are used.  A request is served from what is left of the           *)
(* container, then from blocks generated straight into dest, the last of   *)
(* which is generated into the container and used in part.                 *)
(*                                                                         *)
(* A block is named by its place in its chain and a byte by its block and  *)
(* offset.  Requests are never empty: with len = 0 and an unused container *)
(* the unsigned sum in Rounds wraps around.                                *)
(***************************************************************************)
EXTENDS Integers

CONSTANTS
    Keys,       \* the party's shared keys and its private one
    Lengths,    \* size * length of the requests considered
    UintSize,   \* a uint is computed modulo this
    Limit       \* bound on the blocks generated per key

ASSUME LengthsAssumption == Lengths \subseteq Nat \ {0}
ASSUME UintAssumption ==
    /\ UintSize \in Nat
    /\ \A len \in Lengths : len + 16 < UintSize
ASSUME LimitAssumption == Limit \in Nat

VARIABLES
    container,      \* container[k]: the block in random_container[k]
    P_container,    \* P_container[k]: how many of its bytes are used
    dest            \* the bytes the last request got

vars == <<container, P_container, dest>>

prg_aes(block) == block + 1

Outside == -1       \* the offset of a byte that is not in its block

Byte(k, block, off) ==
    [key |-> k, block |-> block, off |-> IF off \in 0..15 THEN off ELSE Outside]

TypeOK ==
    /\ container \in [Keys -> Nat]
    /\ P_container \in [Keys -> 0..16]
    /\ \A i \in DOMAIN dest :
          dest[i] \in [key : Keys, block : Nat, off : 0..15]

\* prg_setup leaves the first block of every chain, unused.
Init ==
    /\ container = [k \in Keys |-> 0]
    /\ P_container = [k \in Keys |-> 0]
    /\ dest = <<>>

-----------------------------------------------------------------------------
\* Faulty variant: not rounded up.
Rounds_floor(len, used) == ((len - 16 + used) % UintSize) \div 16

\* How many new blocks a request needs.
Rounds(len, used) == ((len - 16 + used + 15) % UintSize) \div 16

\* Faulty variant: the rest of the container is used but not marked so.
FromContainer_unmarked(k, len) ==
    LET c == container[k]
        used == P_container[k] IN
    /\ Rounds(len, used) = 0
    /\ dest' = [i \in 1..len |-> Byte(k, c, used + i - 1)]
    /\ UNCHANGED <<container, P_container>>

\* rounds == 0
FromContainer(k, len) ==
    LET c == container[k]
        used == P_container[k] IN
    /\ Rounds(len, used) = 0
    /\ dest' = [i \in 1..len |-> Byte(k, c, used + i - 1)]
    /\ P_container' = [P_container EXCEPT ![k] = used + len]
    /\ UNCHANGED container

\* rounds == 1: the container is replaced by the next block, in place.
OneBlock(k, len) ==
    LET c == container[k]
        used == P_container[k]
        rest == 16 - used IN
    /\ Rounds(len, used) = 1
    /\ container' = [container EXCEPT ![k] = prg_aes(c)]
    /\ dest' = [i \in 1..len |->
          IF i <= rest THEN Byte(k, c, used + i - 1)
                       ELSE Byte(k, prg_aes(c), i - 1 - rest)]
    /\ P_container' = [P_container EXCEPT ![k] = len - rest]

\* rounds >= 2: rounds - 1 blocks go to dest, each from the one before it; the
\* last one is generated from dest into the container.
ManyBlocks(k, len) ==
    LET c == container[k]
        used == P_container[k]
        rest == 16 - used
        rounds == Rounds(len, used)
        Generated(j) == prg_aes(c) + j          \* the block at dest + rest + 16 j
        final == prg_aes(Generated(rounds - 2))
        tail == rest + 16 * (rounds - 1) IN     \* where the final block starts
    /\ rounds >= 2
    /\ container' = [container EXCEPT ![k] = final]
    /\ dest' = [i \in 1..len |->
          IF i <= rest THEN Byte(k, c, used + i - 1)
          ELSE IF i <= tail
          THEN Byte(k, Generated((i - 1 - rest) \div 16), (i - 1 - rest) % 16)
          ELSE Byte(k, final, i - 1 - tail)]
    /\ P_container' = [P_container EXCEPT ![k] = len - tail]

prg_getrandom(k, len) ==
    /\ container[k] < Limit
    /\ FromContainer(k, len) \/ OneBlock(k, len) \/ ManyBlocks(k, len)

Next == \E k \in Keys, len \in Lengths : prg_getrandom(k, len)

Spec == Init /\ [][Next]_vars

-----------------------------------------------------------------------------
(***************************************************************************)
(* Correctness.                                                            *)
(***************************************************************************)

Position(byte) ==
    IF byte.off = Outside THEN Outside ELSE 16 * byte.block + byte.off

Abstract == INSTANCE ByteStream WITH
    taken <- [k \in Keys |-> 16 * container[k] + P_container[k]],
    last <- [i \in DOMAIN dest |-> <<dest[i].key, Position(dest[i])>>]

\* Requests of any lengths hand out the stream byte by byte: none is skipped,
\* used twice, read past the container or taken from another key.
RefinesByteStream == Abstract!Spec
=============================================================================
