------------------------------ MODULE Sharing ------------------------------
(***************************************************************************)
(* Who holds which share (NodeNetwork's T_map tables).  With n parties and *)
(* threshold t, a secret is the sum of one share for every set T of t      *)
(* parties; all parties outside T hold the share, each at an index of its  *)
(* own.                                                                    *)
(***************************************************************************)
EXTENDS Integers, Sequences

\* pid + d, counting from 1 modulo the number of parties.
Off(p, d, n) == ((p + d - 1) % n) + 1

\* The T of each share index, as offsets from the pid that holds it.
T_map(n) ==
    CASE n = 3 -> << {1}, {2} >>
      [] n = 5 -> << {1,2}, {1,3}, {1,4}, {2,3}, {2,4}, {3,4} >>
      [] n = 7 -> << {1,2,3}, {1,2,4}, {1,2,5}, {1,2,6}, {1,3,4}, {1,3,5},
                     {1,3,6}, {1,4,5}, {1,4,6}, {1,5,6}, {2,3,4}, {2,3,5},
                     {2,3,6}, {2,4,5}, {2,4,6}, {2,5,6}, {3,4,5}, {3,4,6},
                     {3,5,6}, {4,5,6} >>

numShares(n) == Len(T_map(n))

\* The parties that do not know share i of party p.
TSet(p, i, n) == {Off(p, d, n) : d \in T_map(n)[i + 1]}

\* Cross(m)[j+1]: the shares of b that a[j] is multiplied with, so that every
\* pair of shares is multiplied by exactly one of the parties that hold both.
Cross(m) ==
    CASE m = 3 -> << 0..1, {0} >>
      [] m = 5 -> << 0..5, 0..5, {1,3}, {0,2}, {0,1}, {0,4} >>
      [] m = 7 ->
         << 0..19, 0..19, 0..19, 0..19, (0..3) \union (10..13) \union {15},
            0..19, {2,5,7,9,11,13}, {0,4,5,6,10,11,12}, {0,4,5,10,11,16},
            {1,4,7,8,10,13}, (0..5) \union {9}, {0,1,4,6,7,8}, {0,1,2,4,5,7},
            {0,4,5,6}, {2,4,5}, {1,4}, (0..3) \union {15}, 0..2, {1,8}, {0,5,6} >>

\* Faulty variant: the counts of keys 3 and 4 swapped.
prg_ctrs_swapped(m) ==
    CASE m = 3 -> <<1, 1>>
      [] m = 5 -> <<2, 3, 3, 3, 2, 2>>
      [] m = 7 -> [j \in 1..20 |-> IF j \in {1, 11, 17, 20} THEN 3 ELSE 4]

\* How many words Rss_Mult draws from each key for one secret.
prg_ctrs(m) ==
    CASE m = 3 -> <<1, 1>>
      [] m = 5 -> <<2, 3, 3, 2, 3, 2>>
      [] m = 7 -> [j \in 1..20 |-> IF j \in {1, 11, 17, 20} THEN 3 ELSE 4]
=============================================================================
