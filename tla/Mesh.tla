-------------------------------- MODULE Mesh --------------------------------
(***************************************************************************)
(* What connection establishment promises, without sockets or keys: a set  *)
(* of authenticated links between parties 1..N that only grows, one link   *)
(* per step, and ends as the full mesh.  The link i -- j (i < j) is the    *)
(* turn of both ends when i has a link to every party between i and j, and *)
(* every party between i and j has a link to j.                            *)
(***************************************************************************)
EXTENDS Integers

CONSTANT N              \* number of parties

VARIABLE links          \* pairs <<i, j>>, i < j, that are established

Pairs == {e \in (1..N) \X (1..N) : e[1] < e[2]}

Turn(i, j) == \A k \in i+1 .. j-1 : <<i, k>> \in links /\ <<k, j>> \in links

Establish(i, j) ==
    /\ <<i, j>> \in Pairs \ links
    /\ Turn(i, j)
    /\ links' = links \union {<<i, j>>}

Init == links = {}
Next == \E i, j \in 1..N : Establish(i, j)
Spec == Init /\ [][Next]_links

FullMesh == links = Pairs
=============================================================================
