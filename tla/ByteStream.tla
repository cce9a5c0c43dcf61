----------------------------- MODULE ByteStream -----------------------------
(***************************************************************************)
(* What prg_getrandom promises: each key is an endless stream of bytes,    *)
(* and a request takes the next bytes of its key, however the requests of  *)
(* a party cut the stream.  Two parties that hold the same key and have    *)
(* asked for the same number of bytes are therefore at the same place.     *)
(***************************************************************************)
EXTENDS Integers

CONSTANTS Keys, Lengths

VARIABLES
    taken,      \* taken[k]: bytes of the stream of k handed out so far
    last        \* what the last request got: pairs <<key, place in stream>>

Take(k, len) ==
    /\ last' = [i \in 1..len |-> <<k, taken[k] + i - 1>>]
    /\ taken' = [taken EXCEPT ![k] = @ + len]

Init == taken = [k \in Keys |-> 0] /\ last = <<>>
Next == \E k \in Keys, len \in Lengths : Take(k, len)
Spec == Init /\ [][Next]_<<taken, last>>
=============================================================================
