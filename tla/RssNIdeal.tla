----------------------------- MODULE RssNIdeal -----------------------------
(***************************************************************************)
(* Five and seven parties compute what the trusted machine of Ideal would, *)
(* for every ring, width, batch, program, sharing of the inputs, stream    *)
(* and schedule, as long as the code supports the program (Supported):     *)
(* seven parties do not call Rss_Open, and the words that Rss_MultPub      *)
(* draws reach the last bit it uses of the memory it reads.  Without       *)
(* either the code is wrong, as two runs of RssN show.                     *)
(*                                                                         *)
(* The argument.  RssNProofs says what every batch is as a function of the *)
(* senders' shares and streams, whatever the schedule, and that the        *)
(* holders of a share agree on it; so a secret, once there are more than t *)
(* holders of its register, is a sum over the sets T of one copy of each   *)
(* share.  What is left is algebra on the code's tables.                   *)
(*   Products.  For any two shares exactly one of the parties that hold    *)
(* both multiplies them (OneMultiplies: Cross, as seen from every party),  *)
(* so the local products add up to the product of the secrets; and every   *)
(* word of a stream is subtracted as often as it is put into the share     *)
(* (WordsSum).                                                             *)
(*   Publications.  Of the t + 1 holders of a stream the last, and no      *)
(* other, has it below First (LastHolder), so the words cancel.            *)
(*   Openings.  Of the shares a party lacks, each is sent by just one of   *)
(* its two neighbours (Neighbours).                                        *)
(* The product appears in Ideal when party t + 1 ends Rss_Mult: the        *)
(* parties that ended it then hold every share, and every party has sent   *)
(* (AllThere), so its operands cannot change any more.                     *)
(***************************************************************************)
EXTENDS RssNProofs

-----------------------------------------------------------------------------
(***************************************************************************)
(* Which party multiplies which pair of shares.                            *)
(***************************************************************************)
\* Seen5[e+1][j+1]: the index, for the party e further on, of share j of one of
\* five parties; the number of shares where that party lacks it.
Seen5 == <<
    <<0, 1, 2, 3, 4, 5>>,
    <<6, 6, 6, 0, 1, 3>>,
    <<6, 2, 4, 6, 6, 0>>,
    <<5, 6, 1, 6, 2, 6>>,
    <<3, 4, 6, 5, 6, 6>> >>

\* Seen7[e+1][j+1]: the index, for the party e further on, of share j of one of
\* seven parties; the number of shares where that party lacks it.
Seen7 == <<
    <<0, 1, 2, 3, 4, 5, 6, 7, 8, 9, 10, 11, 12, 13, 14, 15, 16, 17, 18, 19>>,
    <<20, 20, 20, 20, 20, 20, 20, 20, 20, 20, 0, 1, 2, 4, 5, 7, 10, 11, 13, 16>>,
    <<20, 20, 20, 20, 3, 6, 8, 12, 14, 17, 20, 20, 20, 20, 20, 20, 0, 1, 4, 10>>,
    <<20, 9, 15, 18, 20, 20, 20, 2, 5, 11, 20, 20, 20, 3, 6, 12, 20, 20, 20, 0>>,
    <<19, 20, 7, 13, 20, 8, 14, 20, 20, 1, 20, 9, 15, 20, 20, 2, 20, 20, 3, 20>>,
    <<16, 17, 20, 4, 18, 20, 5, 20, 6, 20, 19, 20, 7, 20, 8, 20, 20, 9, 20, 20>>,
    <<10, 11, 12, 20, 13, 14, 20, 15, 20, 20, 16, 17, 20, 18, 20, 20, 19, 20, 20, 20>> >>

\* Who5[j+1][l+1]: how far on the party is that multiplies the shares j and l
\* of one of five parties.
Who5 == <<
    <<0, 0, 0, 0, 0, 0>>,
    <<0, 0, 0, 0, 0, 0>>,
    <<3, 0, 3, 0, 3, 2>>,
    <<0, 4, 0, 1, 1, 1>>,
    <<0, 0, 3, 1, 1, 1>>,
    <<0, 2, 2, 1, 0, 2>> >>

\* Who7[j+1][l+1]: how far on the party is that multiplies the shares j and l
\* of one of seven parties.
Who7 == <<
    <<0, 0, 0, 0, 0, 0, 0, 0, 0, 0, 0, 0, 0, 0, 0, 0, 0, 0, 0, 0>>,
    <<0, 0, 0, 0, 0, 0, 0, 0, 0, 0, 0, 0, 0, 0, 0, 0, 0, 0, 0, 0>>,
    <<0, 0, 0, 0, 0, 0, 0, 0, 0, 0, 0, 0, 0, 0, 0, 0, 0, 0, 0, 0>>,
    <<0, 0, 0, 0, 0, 0, 0, 0, 0, 0, 0, 0, 0, 0, 0, 0, 0, 0, 0, 0>>,
    <<0, 0, 0, 0, 2, 2, 2, 2, 2, 2, 0, 0, 0, 0, 5, 0, 2, 2, 2, 2>>,
    <<0, 0, 0, 0, 0, 0, 0, 0, 0, 0, 0, 0, 0, 0, 0, 0, 0, 0, 0, 0>>,
    <<5, 5, 0, 5, 5, 0, 5, 0, 5, 0, 5, 0, 5, 0, 5, 4, 2, 5, 2, 2>>,
    <<0, 3, 3, 3, 0, 0, 0, 3, 3, 3, 0, 0, 0, 3, 3, 3, 2, 2, 2, 3>>,
    <<0, 3, 3, 3, 0, 0, 5, 3, 3, 3, 0, 0, 5, 3, 3, 3, 0, 5, 2, 3>>,
    <<4, 0, 4, 4, 0, 4, 4, 0, 0, 4, 0, 4, 4, 0, 3, 4, 2, 2, 4, 3>>,
    <<0, 0, 0, 0, 0, 0, 5, 6, 5, 0, 1, 1, 1, 1, 1, 1, 1, 1, 1, 1>>,
    <<0, 0, 4, 4, 0, 4, 0, 0, 0, 4, 1, 1, 1, 1, 1, 1, 1, 1, 1, 1>>,
    <<0, 0, 0, 5, 0, 0, 5, 0, 5, 4, 1, 1, 1, 1, 1, 1, 1, 1, 1, 1>>,
    <<0, 3, 3, 3, 0, 0, 0, 3, 3, 3, 1, 1, 1, 3, 3, 3, 1, 1, 1, 3>>,
    <<5, 3, 0, 5, 0, 0, 5, 3, 3, 3, 1, 1, 1, 1, 1, 1, 1, 1, 1, 1>>,
    <<4, 0, 4, 4, 0, 4, 4, 3, 3, 4, 1, 4, 4, 1, 1, 4, 1, 1, 4, 3>>,
    <<0, 0, 0, 0, 2, 2, 2, 2, 2, 2, 1, 1, 1, 1, 1, 0, 2, 2, 2, 2>>,
    <<0, 0, 0, 5, 2, 2, 2, 2, 2, 2, 1, 1, 5, 1, 5, 1, 2, 2, 2, 2>>,
    <<4, 0, 4, 4, 2, 4, 4, 2, 0, 4, 1, 4, 4, 1, 1, 4, 2, 2, 4, 2>>,
    <<0, 3, 3, 3, 2, 0, 0, 3, 3, 3, 1, 1, 1, 3, 3, 3, 2, 2, 2, 3>> >>

\* The tables row by row.
LEMMA Held5 ==
  /\ T_map(5)[1] = {1, 2} /\ T_map(5)[2] = {1, 3} /\ T_map(5)[3] = {1, 4}
  /\ T_map(5)[4] = {2, 3} /\ T_map(5)[5] = {2, 4} /\ T_map(5)[6] = {3, 4}
BY DEF T_map

\* Cross, with five parties.
LEMMA Crossed5 ==
  /\ Cross(5)[1] = {0, 1, 2, 3, 4, 5} /\ Cross(5)[2] = {0, 1, 2, 3, 4, 5}
  /\ Cross(5)[3] = {1, 3} /\ Cross(5)[4] = {0, 2} /\ Cross(5)[5] = {0, 1}
  /\ Cross(5)[6] = {0, 4}
BY DEF Cross

\* The tables row by row.
LEMMA Held7 ==
  /\ T_map(7)[1] = {1, 2, 3} /\ T_map(7)[2] = {1, 2, 4} /\ T_map(7)[3] = {1, 2, 5}
  /\ T_map(7)[4] = {1, 2, 6} /\ T_map(7)[5] = {1, 3, 4} /\ T_map(7)[6] = {1, 3, 5}
  /\ T_map(7)[7] = {1, 3, 6} /\ T_map(7)[8] = {1, 4, 5} /\ T_map(7)[9] = {1, 4, 6}
  /\ T_map(7)[10] = {1, 5, 6} /\ T_map(7)[11] = {2, 3, 4} /\ T_map(7)[12] = {2, 3, 5}
  /\ T_map(7)[13] = {2, 3, 6} /\ T_map(7)[14] = {2, 4, 5} /\ T_map(7)[15] = {2, 4, 6}
  /\ T_map(7)[16] = {2, 5, 6} /\ T_map(7)[17] = {3, 4, 5} /\ T_map(7)[18] = {3, 4, 6}
  /\ T_map(7)[19] = {3, 5, 6} /\ T_map(7)[20] = {4, 5, 6}
BY DEF T_map

\* And with seven.
LEMMA Crossed7 ==
  /\ Cross(7)[1] = {0, 1, 2, 3, 4, 5, 6, 7, 8, 9, 10, 11, 12, 13, 14, 15,
       16, 17, 18, 19}
  /\ Cross(7)[2] = {0, 1, 2, 3, 4, 5, 6, 7, 8, 9, 10, 11, 12, 13, 14, 15,
       16, 17, 18, 19}
  /\ Cross(7)[3] = {0, 1, 2, 3, 4, 5, 6, 7, 8, 9, 10, 11, 12, 13, 14, 15,
       16, 17, 18, 19}
  /\ Cross(7)[4] = {0, 1, 2, 3, 4, 5, 6, 7, 8, 9, 10, 11, 12, 13, 14, 15,
       16, 17, 18, 19}
  /\ Cross(7)[5] = {0, 1, 2, 3, 10, 11, 12, 13, 15}
  /\ Cross(7)[6] = {0, 1, 2, 3, 4, 5, 6, 7, 8, 9, 10, 11, 12, 13, 14, 15,
       16, 17, 18, 19}
  /\ Cross(7)[7] = {2, 5, 7, 9, 11, 13} /\ Cross(7)[8] = {0, 4, 5, 6, 10, 11, 12}
  /\ Cross(7)[9] = {0, 4, 5, 10, 11, 16} /\ Cross(7)[10] = {1, 4, 7, 8, 10, 13}
  /\ Cross(7)[11] = {0, 1, 2, 3, 4, 5, 9} /\ Cross(7)[12] = {0, 1, 4, 6, 7, 8}
  /\ Cross(7)[13] = {0, 1, 2, 4, 5, 7} /\ Cross(7)[14] = {0, 4, 5, 6}
  /\ Cross(7)[15] = {2, 4, 5} /\ Cross(7)[16] = {1, 4}
  /\ Cross(7)[17] = {0, 1, 2, 3, 15} /\ Cross(7)[18] = {0, 1, 2}
  /\ Cross(7)[19] = {1, 8} /\ Cross(7)[20] = {0, 5, 6}
BY DEF Cross

\* A share of one party seen from another: the same parties lack it.
LEMMA Views5 ==
    \A e \in 0..4, j \in 0..5 :
       /\ e \in T_map(5)[j + 1] <=> Seen5[e + 1][j + 1] = 6
       /\ e \notin T_map(5)[j + 1] =>
             /\ Seen5[e + 1][j + 1] \in 0..5
             /\ \A d \in 0..4 : d \in T_map(5)[j + 1] <=>
                   (IF d < e THEN d + (5 - e) ELSE d - e) \in T_map(5)[Seen5[e + 1][j + 1] + 1]
<1> DEFINE P(e) == \A j \in 0..5 :
       /\ e \in T_map(5)[j + 1] <=> Seen5[e + 1][j + 1] = 6
       /\ e \notin T_map(5)[j + 1] =>
             /\ Seen5[e + 1][j + 1] \in 0..5
             /\ \A d \in 0..4 : d \in T_map(5)[j + 1] <=>
                   (IF d < e THEN d + (5 - e) ELSE d - e) \in T_map(5)[Seen5[e + 1][j + 1] + 1]
<1>0. P(0)
  BY Held5 DEF Seen5
<1>1. P(1)
  BY Held5 DEF Seen5
<1>2. P(2)
  BY Held5 DEF Seen5
<1>3. P(3)
  BY Held5 DEF Seen5
<1>4. P(4)
  BY Held5 DEF Seen5
<1>5. \A e \in 0..4 : P(e)
  <2> HIDE DEF P
  <2>1. \A e \in 0..4 : e = 0 \/ e = 1 \/ e = 2 \/ e = 3 \/ e = 4
    OBVIOUS
  <2> QED BY <2>1, <1>0, <1>1, <1>2, <1>3, <1>4
<1> QED BY <1>5

\* No two shares of a party are lacked by the same parties.
LEMMA Distinct5 ==
    \A j, l \in 0..5 : T_map(5)[j + 1] = T_map(5)[l + 1] => j = l
BY Held5

\* Of the parties that hold two shares, one multiplies them.
LEMMA Pairs5 ==
    \A j, l \in 0..5 :
       /\ Who5[j + 1][l + 1] \in 0..4
       /\ \A e \in 0..4 :
            Who5[j + 1][l + 1] = e <=>
               /\ e \notin T_map(5)[j + 1] /\ e \notin T_map(5)[l + 1]
               /\ Seen5[e + 1][l + 1] \in Cross(5)[Seen5[e + 1][j + 1] + 1]
<1> DEFINE P(e) == \A j, l \in 0..5 :
       Who5[j + 1][l + 1] = e <=>
          /\ e \notin T_map(5)[j + 1] /\ e \notin T_map(5)[l + 1]
          /\ Seen5[e + 1][l + 1] \in Cross(5)[Seen5[e + 1][j + 1] + 1]
<1>0. P(0)
  BY Held5, Crossed5 DEF Seen5, Who5
<1>1. P(1)
  BY Held5, Crossed5 DEF Seen5, Who5
<1>2. P(2)
  BY Held5, Crossed5 DEF Seen5, Who5
<1>3. P(3)
  BY Held5, Crossed5 DEF Seen5, Who5
<1>4. P(4)
  BY Held5, Crossed5 DEF Seen5, Who5
<1>5. \A e \in 0..4 : P(e)
  <2> HIDE DEF P
  <2>1. \A e \in 0..4 : e = 0 \/ e = 1 \/ e = 2 \/ e = 3 \/ e = 4
    OBVIOUS
  <2> QED BY <2>1, <1>0, <1>1, <1>2, <1>3, <1>4
<1>6. \A j, l \in 0..5 : Who5[j + 1][l + 1] \in 0..4
  BY DEF Who5
<1> QED BY <1>5, <1>6

\* A share of one party seen from another: the same parties lack it.
LEMMA Views7 ==
    \A e \in 0..6, j \in 0..19 :
       /\ e \in T_map(7)[j + 1] <=> Seen7[e + 1][j + 1] = 20
       /\ e \notin T_map(7)[j + 1] =>
             /\ Seen7[e + 1][j + 1] \in 0..19
             /\ \A d \in 0..6 : d \in T_map(7)[j + 1] <=>
                   (IF d < e THEN d + (7 - e) ELSE d - e) \in T_map(7)[Seen7[e + 1][j + 1] + 1]
<1> DEFINE P(e) == \A j \in 0..19 :
       /\ e \in T_map(7)[j + 1] <=> Seen7[e + 1][j + 1] = 20
       /\ e \notin T_map(7)[j + 1] =>
             /\ Seen7[e + 1][j + 1] \in 0..19
             /\ \A d \in 0..6 : d \in T_map(7)[j + 1] <=>
                   (IF d < e THEN d + (7 - e) ELSE d - e) \in T_map(7)[Seen7[e + 1][j + 1] + 1]
<1>0. P(0)
  BY Held7 DEF Seen7
<1>1. P(1)
  BY Held7 DEF Seen7
<1>2. P(2)
  BY Held7 DEF Seen7
<1>3. P(3)
  BY Held7 DEF Seen7
<1>4. P(4)
  BY Held7 DEF Seen7
<1>5. P(5)
  BY Held7 DEF Seen7
<1>6. P(6)
  BY Held7 DEF Seen7
<1>7. \A e \in 0..6 : P(e)
  <2> HIDE DEF P
  <2>1. \A e \in 0..6 : e = 0 \/ e = 1 \/ e = 2 \/ e = 3 \/ e = 4 \/ e = 5 \/ e = 6
    OBVIOUS
  <2> QED BY <2>1, <1>0, <1>1, <1>2, <1>3, <1>4, <1>5, <1>6
<1> QED BY <1>7

\* No two shares of a party are lacked by the same parties.
LEMMA Distinct7 ==
    \A j, l \in 0..19 : T_map(7)[j + 1] = T_map(7)[l + 1] => j = l
BY Held7

\* Of the parties that hold two shares, one multiplies them.
LEMMA Pairs7 ==
    \A j, l \in 0..19 :
       /\ Who7[j + 1][l + 1] \in 0..6
       /\ \A e \in 0..6 :
            Who7[j + 1][l + 1] = e <=>
               /\ e \notin T_map(7)[j + 1] /\ e \notin T_map(7)[l + 1]
               /\ Seen7[e + 1][l + 1] \in Cross(7)[Seen7[e + 1][j + 1] + 1]
<1> DEFINE P(e) == \A j, l \in 0..19 :
       Who7[j + 1][l + 1] = e <=>
          /\ e \notin T_map(7)[j + 1] /\ e \notin T_map(7)[l + 1]
          /\ Seen7[e + 1][l + 1] \in Cross(7)[Seen7[e + 1][j + 1] + 1]
<1>0. P(0)
  BY Held7, Crossed7 DEF Seen7, Who7
<1>1. P(1)
  BY Held7, Crossed7 DEF Seen7, Who7
<1>2. P(2)
  BY Held7, Crossed7 DEF Seen7, Who7
<1>3. P(3)
  BY Held7, Crossed7 DEF Seen7, Who7
<1>4. P(4)
  BY Held7, Crossed7 DEF Seen7, Who7
<1>5. P(5)
  BY Held7, Crossed7 DEF Seen7, Who7
<1>6. P(6)
  BY Held7, Crossed7 DEF Seen7, Who7
<1>7. \A e \in 0..6 : P(e)
  <2> HIDE DEF P
  <2>1. \A e \in 0..6 : e = 0 \/ e = 1 \/ e = 2 \/ e = 3 \/ e = 4 \/ e = 5 \/ e = 6
    OBVIOUS
  <2> QED BY <2>1, <1>0, <1>1, <1>2, <1>3, <1>4, <1>5, <1>6
<1>8. \A j, l \in 0..19 : Who7[j + 1][l + 1] \in 0..6
  BY DEF Who7
<1> QED BY <1>7, <1>8

\* The tables for the number of parties there are.
SeenAt(e, j) == IF n = 5 THEN Seen5[e + 1][j + 1] ELSE Seen7[e + 1][j + 1]
WhoAt(j, l) == IF n = 5 THEN Who5[j + 1][l + 1] ELSE Who7[j + 1][l + 1]


\* The tables of either number of parties: what the party e further on calls a
\* share, that no share is there twice, and who multiplies.
LEMMA Tables ==
    ASSUME Sizes
    PROVE  /\ \A e \in 0 .. n - 1, j \in Keys :
                 e \notin T_map(n)[j + 1] =>
                    /\ SeenAt(e, j) \in Keys
                    /\ \A d \in 0 .. n - 1 : d \in T_map(n)[j + 1] <=>
                          (IF d < e THEN d + (n - e) ELSE d - e) \in T_map(n)[SeenAt(e, j) + 1]
           /\ \A j, l \in Keys : T_map(n)[j + 1] = T_map(n)[l + 1] => j = l
           /\ \A j, l \in Keys :
                 /\ WhoAt(j, l) \in 0 .. n - 1
                 /\ \A e \in 0 .. n - 1 :
                       WhoAt(j, l) = e <=>
                          /\ e \notin T_map(n)[j + 1] /\ e \notin T_map(n)[l + 1]
                          /\ SeenAt(e, l) \in Cross(n)[SeenAt(e, j) + 1]
<1>1. CASE n = 5
  <2>1. Keys = 0..5 /\ 0 .. n - 1 = 0..4
    BY <1>1, Numbers
  <2>2. /\ \A e, j : SeenAt(e, j) = Seen5[e + 1][j + 1]
        /\ \A j, l : WhoAt(j, l) = Who5[j + 1][l + 1]
    BY <1>1 DEF SeenAt, WhoAt
  <2>3. \A j, l \in Keys : T_map(n)[j + 1] = T_map(n)[l + 1] => j = l
    BY <1>1, <2>1, Distinct5
  <2>4. ASSUME NEW e \in 0 .. n - 1, NEW j \in Keys, e \notin T_map(n)[j + 1]
        PROVE  /\ SeenAt(e, j) \in Keys
               /\ \A d \in 0 .. n - 1 : d \in T_map(n)[j + 1] <=>
                     (IF d < e THEN d + (n - e) ELSE d - e) \in T_map(n)[SeenAt(e, j) + 1]
    BY <1>1, <2>1, <2>2, <2>4, Views5
  <2>5. ASSUME NEW j \in Keys, NEW l \in Keys
        PROVE  /\ WhoAt(j, l) \in 0 .. n - 1
               /\ \A e \in 0 .. n - 1 :
                     WhoAt(j, l) = e <=>
                        /\ e \notin T_map(n)[j + 1] /\ e \notin T_map(n)[l + 1]
                        /\ SeenAt(e, l) \in Cross(n)[SeenAt(e, j) + 1]
    <3>1. WhoAt(j, l) \in 0 .. n - 1
      BY <1>1, <2>1, <2>2, Pairs5
    <3>2. ASSUME NEW e \in 0 .. n - 1
          PROVE  WhoAt(j, l) = e <=>
                    /\ e \notin T_map(n)[j + 1] /\ e \notin T_map(n)[l + 1]
                    /\ SeenAt(e, l) \in Cross(n)[SeenAt(e, j) + 1]
      BY <1>1, <2>1, <2>2, Pairs5
    <3> QED BY <3>1, <3>2
  <2> QED BY <2>3, <2>4, <2>5
<1>2. CASE n = 7
  <2>1. Keys = 0..19 /\ 0 .. n - 1 = 0..6
    BY <1>2, Numbers
  <2>2. /\ \A e, j : SeenAt(e, j) = Seen7[e + 1][j + 1]
        /\ \A j, l : WhoAt(j, l) = Who7[j + 1][l + 1]
    BY <1>2 DEF SeenAt, WhoAt
  <2>3. \A j, l \in Keys : T_map(n)[j + 1] = T_map(n)[l + 1] => j = l
    BY <1>2, <2>1, Distinct7
  <2>4. ASSUME NEW e \in 0 .. n - 1, NEW j \in Keys, e \notin T_map(n)[j + 1]
        PROVE  /\ SeenAt(e, j) \in Keys
               /\ \A d \in 0 .. n - 1 : d \in T_map(n)[j + 1] <=>
                     (IF d < e THEN d + (n - e) ELSE d - e) \in T_map(n)[SeenAt(e, j) + 1]
    BY <1>2, <2>1, <2>2, <2>4, Views7
  <2>5. ASSUME NEW j \in Keys, NEW l \in Keys
        PROVE  /\ WhoAt(j, l) \in 0 .. n - 1
               /\ \A e \in 0 .. n - 1 :
                     WhoAt(j, l) = e <=>
                        /\ e \notin T_map(n)[j + 1] /\ e \notin T_map(n)[l + 1]
                        /\ SeenAt(e, l) \in Cross(n)[SeenAt(e, j) + 1]
    <3>1. WhoAt(j, l) \in 0 .. n - 1
      BY <1>2, <2>1, <2>2, Pairs7
    <3>2. ASSUME NEW e \in 0 .. n - 1
          PROVE  WhoAt(j, l) = e <=>
                    /\ e \notin T_map(n)[j + 1] /\ e \notin T_map(n)[l + 1]
                    /\ SeenAt(e, l) \in Cross(n)[SeenAt(e, j) + 1]
      BY <1>2, <2>1, <2>2, Pairs7
    <3> QED BY <3>1, <3>2
  <2> QED BY <2>3, <2>4, <2>5
<1> QED BY <1>1, <1>2 DEF Sizes

\* A party's shares are of different T, and of none that it is in.
LEMMA OwnShares ==
    ASSUME Sizes, NEW p \in Party
    PROVE  /\ \A e \in 0 .. n - 1, j \in Keys :
                 Off(p, e, n) \in Missing(p, j) <=> e \in T_map(n)[j + 1]
           /\ \A j, l \in Keys : Missing(p, j) = Missing(p, l) => j = l
           /\ \A j \in Keys : /\ p \notin Missing(p, j) /\ Missing(p, j) \in Ts
                              /\ Missing(p, j) \subseteq Party
                              /\ IndexOf(p, Missing(p, j)) = j
<1>1. \A j \in Keys : Missing(p, j) = {Off(p, d, n) : d \in T_map(n)[j + 1]}
  BY MissingIs
<1>2. n \in Nat /\ n > 1 /\ 0 \in 0 .. n - 1
  BY DEF Sizes
<1>3. \A j \in Keys : T_map(n)[j + 1] \subseteq 1 .. n - 1
  BY <1>2, Rows
<1>4. /\ \A d \in 0 .. n - 1 : Off(p, d, n) \in Party
      /\ \A d, e \in 0 .. n - 1 : Off(p, d, n) = Off(p, e, n) => d = e
      /\ Off(p, 0, n) = p
  <2>1. \A d \in 0 .. n - 1 : d \in Nat
    BY <1>2
  <2> QED BY <2>1, Offsets
<1>5. \A e \in 0 .. n - 1, j \in Keys : Off(p, e, n) \in Missing(p, j) <=> e \in T_map(n)[j + 1]
  <2> TAKE e \in 0 .. n - 1, j \in Keys
  <2>1. \A d \in T_map(n)[j + 1] : d \in 0 .. n - 1
    BY <1>2, <1>3
  <2> QED BY <1>1, <1>4, <2>1
<1>6. ASSUME NEW j \in Keys, NEW l \in Keys, Missing(p, j) = Missing(p, l) PROVE j = l
  <2>1. T_map(n)[j + 1] \subseteq 0 .. n - 1 /\ T_map(n)[l + 1] \subseteq 0 .. n - 1
    BY <1>2, <1>3
  <2>2. \A e \in 0 .. n - 1 : e \in T_map(n)[j + 1] <=> e \in T_map(n)[l + 1]
    BY <1>5, <1>6
  <2>3. T_map(n)[j + 1] = T_map(n)[l + 1]
    BY <2>1, <2>2
  <2> QED BY <2>3, Tables
<1>7. ASSUME NEW j \in Keys
      PROVE  /\ p \notin Missing(p, j) /\ Missing(p, j) \in Ts /\ Missing(p, j) \subseteq Party
             /\ IndexOf(p, Missing(p, j)) = j
  <2>1. 0 \notin T_map(n)[j + 1]
    BY <1>3
  <2>2. p \notin Missing(p, j)
    BY <1>2, <1>4, <1>5, <2>1
  <2>3. Missing(p, j) \in Ts
    BY DEF Ts
  <2>4. IndexOf(p, Missing(p, j)) \in Keys
        /\ Missing(p, IndexOf(p, Missing(p, j))) = Missing(p, j)
    BY <2>2, <2>3, Complete
  <2>5. Missing(p, j) \subseteq Party
    <3>1. T_map(n)[j + 1] \subseteq 0 .. n - 1
      BY <1>2, <1>3
    <3> QED BY <1>1, <1>4, <3>1
  <2> QED BY <1>6, <2>2, <2>3, <2>4, <2>5
<1> QED BY <1>5, <1>6, <1>7

\* The share of one party, found by the table at another.
LEMMA SameShare ==
    ASSUME Sizes, NEW p \in Party, NEW j \in Keys, NEW e \in 0 .. n - 1,
           Off(p, e, n) \notin Missing(p, j)
    PROVE  IndexOf(Off(p, e, n), Missing(p, j)) = SeenAt(e, j)
<1> DEFINE q == Off(p, e, n)
           l == SeenAt(e, j)
<1>1. n \in Nat /\ n > 1 /\ e \in Nat
  BY DEF Sizes
<1>2. q \in Party
  BY <1>1, Offsets
<1>3. e \notin T_map(n)[j + 1]
  BY OwnShares
<1>4. /\ l \in Keys
      /\ \A d \in 0 .. n - 1 : d \in T_map(n)[j + 1] <=>
            (IF d < e THEN d + (n - e) ELSE d - e) \in T_map(n)[l + 1]
  BY <1>3, Tables
<1>5. ASSUME NEW d \in 0 .. n - 1
      PROVE  /\ (IF d < e THEN d + (n - e) ELSE d - e) \in 0 .. n - 1
             /\ Off(p, d, n) = Off(q, IF d < e THEN d + (n - e) ELSE d - e, n)
  <2> DEFINE f == IF d < e THEN d + (n - e) ELSE d - e
  <2>1. f \in 0 .. n - 1 /\ d = IF e + f < n THEN e + f ELSE e + f - n
    BY <1>1
  <2>2. Off(q, f, n) = Off(p, IF e + f < n THEN e + f ELSE e + f - n, n)
    <3> HIDE DEF f
    <3> QED BY <2>1, OffsetSum
  <2> QED BY <2>1, <2>2
<1> HIDE DEF q, l
<1>6. ASSUME NEW d \in 0 .. n - 1 PROVE Off(p, d, n) \in Missing(p, j) <=> Off(p, d, n) \in Missing(q, l)
  <2>1. Off(p, d, n) \in Missing(p, j) <=> d \in T_map(n)[j + 1]
    BY OwnShares
  <2>2. PICK f \in 0 .. n - 1 : Off(p, d, n) = Off(q, f, n)
                             /\ f = IF d < e THEN d + (n - e) ELSE d - e
    BY <1>5
  <2>3. Off(q, f, n) \in Missing(q, l) <=> f \in T_map(n)[l + 1]
    BY <1>2, <1>4, OwnShares
  <2> QED BY <1>4, <2>1, <2>2, <2>3
<1>7. \A s \in Party : s \in Missing(p, j) <=> s \in Missing(q, l)
  <2> TAKE s \in Party
  <2>1. PICK d \in 0 .. n - 1 : s = Off(p, d, n)
    BY Offsets
  <2> QED BY <1>6, <2>1
<1>8. Missing(p, j) = Missing(q, l)
  <2>1. Missing(p, j) \subseteq Party /\ Missing(q, l) \subseteq Party
    BY <1>2, <1>4, OwnShares
  <2> QED BY <1>7, <2>1
<1>9. IndexOf(q, Missing(q, l)) = l
  BY <1>2, <1>4, OwnShares
<1> QED BY <1>8, <1>9 DEF q, l

\* Every pair of shares is multiplied by one of the parties that hold both.
Multiplies(p, T, U) ==
    p \notin T /\ p \notin U /\ IndexOf(p, U) \in Cross(n)[IndexOf(p, T) + 1]

\* Of the holders of two shares, one multiplies them.
LEMMA OneMultiplies ==
    ASSUME Sizes, NEW T \in Ts, NEW U \in Ts, NEW p \in Party, p \notin T, p \notin U
    PROVE  \E q \in Party : \A s \in Party : Multiplies(s, T, U) <=> s = q
<1> DEFINE j == IndexOf(p, T)
           l == IndexOf(p, U)
           w == WhoAt(j, l)
<1>1. j \in Keys /\ Missing(p, j) = T /\ l \in Keys /\ Missing(p, l) = U
  BY Complete
<1> HIDE DEF j, l
<1>2. /\ w \in 0 .. n - 1
      /\ \A e \in 0 .. n - 1 :
            w = e <=> /\ e \notin T_map(n)[j + 1] /\ e \notin T_map(n)[l + 1]
                      /\ SeenAt(e, l) \in Cross(n)[SeenAt(e, j) + 1]
  BY <1>1, Tables
<1> HIDE DEF w
<1>3. ASSUME NEW e \in 0 .. n - 1 PROVE Multiplies(Off(p, e, n), T, U) <=> w = e
  <2>1. /\ Off(p, e, n) \in T <=> e \in T_map(n)[j + 1]
        /\ Off(p, e, n) \in U <=> e \in T_map(n)[l + 1]
    BY <1>1, OwnShares
  <2>2. /\ Off(p, e, n) \notin T => IndexOf(Off(p, e, n), T) = SeenAt(e, j)
        /\ Off(p, e, n) \notin U => IndexOf(Off(p, e, n), U) = SeenAt(e, l)
    BY <1>1, SameShare
  <2> QED BY <1>2, <2>1, <2>2 DEF Multiplies
<1>4. \A s \in Party : \E e \in 0 .. n - 1 : s = Off(p, e, n)
  BY Offsets
<1>5. Off(p, w, n) \in Party
  <2>1. w \in Nat
    BY <1>2 DEF Sizes
  <2> QED BY <2>1, Offsets
<1>6. \A s \in Party : Multiplies(s, T, U) <=> s = Off(p, w, n)
  <2> TAKE s \in Party
  <2>1. PICK e \in 0 .. n - 1 : s = Off(p, e, n)
    BY <1>4
  <2>2. Off(p, e, n) = Off(p, w, n) <=> e = w
    BY <1>2, Offsets
  <2> QED BY <1>3, <2>1, <2>2
<1> QED BY <1>5, <1>6

-----------------------------------------------------------------------------
(***************************************************************************)
(* The parties a share is kept from.                                       *)
(***************************************************************************)
\* Sets of two and of three.
LEMMA TwoOrThree ==
    ASSUME NEW a, NEW b, NEW c, a # b, a # c, b # c
    PROVE  /\ IsFiniteSet({a, b}) /\ Cardinality({a, b}) = 2
           /\ IsFiniteSet({a, b, c}) /\ Cardinality({a, b, c}) = 3
<1>1. IsFiniteSet({a}) /\ Cardinality({a}) = 1
  BY FS_Singleton
<1>2. {a, b} = {a} \union {b} /\ b \notin {a}
  OBVIOUS
<1>3. IsFiniteSet({a, b}) /\ Cardinality({a, b}) = 2
  BY <1>1, <1>2, FS_AddElement
<1>4. {a, b, c} = {a, b} \union {c} /\ c \notin {a, b}
  OBVIOUS
<1>5. IsFiniteSet({a, b, c}) /\ Cardinality({a, b, c}) = 3
  BY <1>3, <1>4, FS_AddElement
<1> QED BY <1>3, <1>5

\* t parties lack a share; any others are enough to hold all of them.
LEMMA Lacking ==
    ASSUME run \in Cases
    PROVE  /\ IsFiniteSet(Ts) /\ IsFiniteSet(Party) /\ Cardinality(Party) = n
           /\ \A T \in Ts : T \subseteq Party /\ IsFiniteSet(T) /\ Cardinality(T) = t
           /\ \A H \in SUBSET Party, T \in Ts :
                 Cardinality(H) > t => \E p \in H : p \notin T
           /\ \A T, U \in Ts : \E p \in Party : p \notin T /\ p \notin U
<1>1. Sizes /\ n \in Nat /\ t \in Nat /\ IsFiniteSet(Party) /\ IsFiniteSet(Keys)
  BY Program, KeysFinite
<1>2. Cardinality(Party) = n
  <2>1. Cardinality(1..n) = IF 1 > n THEN 0 ELSE n - 1 + 1
    BY <1>1, FS_Interval
  <2> QED BY <1>1, <2>1 DEF Party
<1>3. ASSUME NEW p \in Party, NEW j \in Keys
      PROVE  Cardinality(Missing(p, j)) = t
  <2>1. Missing(p, j) = {Off(p, d, n) : d \in T_map(n)[j + 1]}
    BY <1>1, MissingIs
  <2>2. \A d, e \in 0 .. n - 1 : Off(p, d, n) = Off(p, e, n) => d = e
    BY <1>1, Offsets
  <2>3. CASE n = 5
    <3>1. PICK d1 \in 1..4, d2 \in 1..4 : T_map(n)[j + 1] = {d1, d2} /\ d1 < d2
      <4>1. j + 1 \in 1..6
        BY <1>1, <2>3, Numbers
      <4>2. \A l \in 1..6 : \E d1, d2 \in 1..4 : T_map(5)[l] = {d1, d2} /\ d1 < d2
        BY DEF T_map
      <4> QED BY <2>3, <4>1, <4>2
    <3>2. Off(p, d1, n) # Off(p, d2, n)
      <4>1. d1 \in 0 .. n - 1 /\ d2 \in 0 .. n - 1 /\ d1 # d2
        BY <2>3, <3>1
      <4> QED BY <2>2, <4>1
    <3>3. Missing(p, j) = {Off(p, d1, n), Off(p, d2, n)}
      BY <2>1, <3>1
    <3>4. {Off(p, d1, n)} \union {Off(p, d2, n)} = {Off(p, d1, n), Off(p, d2, n)}
      OBVIOUS
    <3>5. Cardinality({Off(p, d1, n)} \union {Off(p, d2, n)}) = 1 + 1
      <4>1. IsFiniteSet({Off(p, d1, n)}) /\ Cardinality({Off(p, d1, n)}) = 1
        BY FS_Singleton
      <4> QED BY <3>2, <4>1, FS_AddElement
    <3> QED BY <1>1, <2>3, <3>3, <3>4, <3>5, Numbers
  <2>4. CASE n = 7
    <3>1. PICK d1 \in 1..6, d2 \in 1..6, d3 \in 1..6 :
            T_map(n)[j + 1] = {d1, d2, d3} /\ d1 < d2 /\ d2 < d3
      <4>1. Keys = 0..19
        BY <1>1, <2>4, Numbers
      <4>2. \A l \in 1..20 : \E d1, d2, d3 \in 1..6 :
              T_map(7)[l] = {d1, d2, d3} /\ d1 < d2 /\ d2 < d3
        BY DEF T_map
      <4>3. j + 1 \in 1..20
        BY <4>1
      <4> QED BY <2>4, <4>2, <4>3
    <3>2. /\ Off(p, d1, n) # Off(p, d2, n) /\ Off(p, d1, n) # Off(p, d3, n)
          /\ Off(p, d2, n) # Off(p, d3, n)
      <4>1. /\ d1 \in 0 .. n - 1 /\ d2 \in 0 .. n - 1 /\ d3 \in 0 .. n - 1
            /\ d1 # d2 /\ d1 # d3 /\ d2 # d3
        BY <2>4, <3>1
      <4> QED BY <2>2, <4>1
    <3>3. Missing(p, j) = {Off(p, d1, n), Off(p, d2, n), Off(p, d3, n)}
      BY <2>1, <3>1
    <3>4. Cardinality({Off(p, d1, n), Off(p, d2, n), Off(p, d3, n)}) = 3
      BY <3>2, TwoOrThree
    <3> QED BY <1>1, <2>4, <3>3, <3>4, Numbers
  <2> QED BY <1>1, <2>3, <2>4 DEF Sizes
<1>4. ASSUME NEW T \in Ts PROVE T \subseteq Party /\ IsFiniteSet(T) /\ Cardinality(T) = t
  <2>1. PICK p \in Party, j \in Keys : T = Missing(p, j)
    BY DEF Ts
  <2>2. T \subseteq Party
    BY <1>1, <2>1, OwnShares
  <2> QED BY <1>1, <1>3, <2>1, <2>2, FS_Subset
<1>5. IsFiniteSet(Ts)
  <2>1. Ts \in SUBSET (SUBSET Party)
    BY <1>4
  <2>2. IsFiniteSet(SUBSET Party)
    BY <1>1, FS_SUBSET
  <2> QED BY <2>1, <2>2, FS_Subset
<1>6. ASSUME NEW H \in SUBSET Party, NEW T \in Ts, Cardinality(H) > t
      PROVE  \E p \in H : p \notin T
  <2>1. ASSUME H \subseteq T PROVE FALSE
    <3>1. Cardinality(H) <= Cardinality(T) /\ Cardinality(H) \in Nat
      <4>1. IsFiniteSet(T) /\ H \in SUBSET T
        BY <1>4, <2>1
      <4> QED BY <4>1, FS_Subset, FS_CardinalityType
    <3> QED BY <1>1, <1>4, <1>6, <3>1
  <2> QED BY <2>1
<1>7. ASSUME NEW T \in Ts, NEW U \in Ts PROVE \E p \in Party : p \notin T /\ p \notin U
  <2> DEFINE H == Party \ U
  <2>1. Cardinality(H) = Cardinality(Party) - Cardinality(Party \cap U)
    BY <1>1, FS_Difference
  <2>2. Party \cap U = U
    BY <1>4
  <2>3. Cardinality(H) = n - t
    BY <1>2, <1>4, <2>1, <2>2
  <2>4. n - t > t
    BY <1>1, Numbers DEF Sizes
  <2>5. H \in SUBSET Party /\ Cardinality(H) > t
    BY <2>3, <2>4
  <2> QED BY <1>6, <2>5
<1> QED BY <1>1, <1>2, <1>4, <1>5, <1>6, <1>7

-----------------------------------------------------------------------------
(***************************************************************************)
(* The algebra of Rss_Mult.                                                *)
(***************************************************************************)
\* The T a party is not in are those of its shares.
LEMMA OwnTs ==
    ASSUME run \in Cases, NEW p \in Party, NEW S \in SUBSET Keys, NEW f, NEW g,
           \A T \in Ts : g[T] \in Int,
           \A j \in S : f[j] \in Int /\ f[j] = g[Missing(p, j)],
           \A T \in Ts : (p \notin T /\ IndexOf(p, T) \in S) \/ g[T] = 0
    PROVE  SumOver(S, f) = SumOver(Ts, g)
<1> DEFINE own == {Missing(p, j) : j \in S}
           F == [j \in S |-> Missing(p, j)]
<1>1. Sizes /\ IsFiniteSet(Ts) /\ IsFiniteSet(S)
  BY Program, Lacking, KeysFinite
<1>2. own \in SUBSET Ts /\ IsFiniteSet(own)
  <2>1. own \in SUBSET Ts
    BY <1>1, OwnShares
  <2> HIDE DEF own
  <2> QED BY <1>1, <2>1, FS_Subset
<1>3. \A T \in Ts \ own : g[T] = 0
  BY <1>1, Complete
<1>4. SumOver(Ts, g) = SumOver(own, g)
  <2> HIDE DEF own
  <2> QED BY <1>1, <1>2, <1>3, SumZero
<1>5. /\ \A j \in S : F[j] \in own /\ f[j] = g[F[j]]
      /\ \A j, l \in S : F[j] = F[l] => j = l
      /\ \A T \in own : \E j \in S : F[j] = T
  BY <1>1, OwnShares
<1>6. SumOver(S, f) = SumOver(own, g)
  <2> HIDE DEF own, F
  <2> QED BY <1>1, <1>2, <1>5, SumMap
<1> QED BY <1>4, <1>6

\* The products of the code are of shares that there are.
LEMMA CrossKeys ==
    ASSUME run \in Cases, NEW j \in Keys
    PROVE  Cross(n)[j + 1] \in SUBSET Keys
<1>1. CASE n = 5
  <2>1. \A l \in 0..5 : Cross(5)[l + 1] \subseteq 0..5
    BY SMTT(30) DEF Cross
  <2> QED BY <1>1, <2>1, Program, Numbers
<1>2. CASE n = 7
  <2>1. \A l \in 0..19 : Cross(7)[l + 1] \subseteq 0..19
    BY SMTT(30) DEF Cross
  <2>2. Keys = 0..19
    BY <1>2, Program, Numbers
  <2> QED BY <1>2, <2>1, <2>2
<1> QED BY <1>1, <1>2, Program DEF Sizes

\* What party p multiplies of the products of the shares A and B.
Part(p, A, B) ==
    [T \in Ts |-> SumOver(Ts, [U \in Ts |-> IF Multiplies(p, T, U) THEN A[T] * B[U] ELSE 0])]

\* Its terms are numbers.
LEMMA PartType ==
    ASSUME run \in Cases, NEW p, NEW A, NEW B, \A T \in Ts : A[T] \in Int /\ B[T] \in Int
    PROVE  \A T \in Ts : Part(p, A, B)[T] \in Int
<1> SUFFICES ASSUME NEW T \in Ts PROVE Part(p, A, B)[T] \in Int
  OBVIOUS
<1> DEFINE f == [U \in Ts |-> IF Multiplies(p, T, U) THEN A[T] * B[U] ELSE 0]
<1>1. \A U \in Ts : f[U] \in Int
  OBVIOUS
<1>2. SumOver(Ts, f) \in Int
  <2> HIDE DEF f
  <2> QED BY <1>1, Lacking, SumRule
<1> QED BY <1>2 DEF Part

\* A party's local product, from its copies a and b of the shares A and B.
LEMMA LocalIs ==
    ASSUME run \in Cases, NEW p \in Party, NEW a \in Share, NEW b \in Share, NEW i \in Batch,
           NEW A, NEW B, \A T \in Ts : A[T] \in Int /\ B[T] \in Int,
           \A j \in Keys : /\ Mask(a[j][i]) = Mask(A[Missing(p, j)])
                           /\ Mask(b[j][i]) = Mask(B[Missing(p, j)])
    PROVE  Mask(Local(a, b, i)) = Mask(SumOver(Ts, Part(p, A, B)))
<1> DEFINE P == Part(p, A, B)
           C(j) == Cross(n)[j + 1]
           w == [l \in Keys |-> b[l][i]]
           f == [j \in Keys |-> a[j][i] * SumOver(C(j), w)]
           f2 == [j \in Keys |-> P[Missing(p, j)]]
<1>1. Sizes /\ IsFiniteSet(Ts) /\ IsFiniteSet(Keys)
  BY Program, Lacking, KeysFinite
<1>2. \A j \in Keys : a[j][i] \in Int /\ b[j][i] \in Int /\ Missing(p, j) \in Ts
                      /\ p \notin Missing(p, j) /\ IndexOf(p, Missing(p, j)) = j
  BY <1>1, Masks, OwnShares DEF Share
<1>3. \A j \in Keys : C(j) \in SUBSET Keys /\ IsFiniteSet(C(j))
  BY CrossKeys, KeysFinite
<1>4. ASSUME NEW j \in Keys
      PROVE  f[j] \in Int /\ f2[j] \in Int /\ Mask(f[j]) = Mask(f2[j])
  <2> DEFINE T == Missing(p, j)
             g == [U \in Ts |-> IF Multiplies(p, T, U) THEN B[U] ELSE 0]
             h == [U \in Ts |-> IF Multiplies(p, T, U) THEN A[T] * B[U] ELSE 0]
             w2 == [l \in Keys |-> B[Missing(p, l)]]
  <2>1. T \in Ts /\ p \notin T /\ IndexOf(p, T) = j /\ A[T] \in Int
    BY <1>2
  <2>2. SumOver(Ts, h) = A[T] * SumOver(Ts, g)
    <3>1. \A U \in Ts : g[U] \in Int /\ h[U] = A[T] * g[U]
      BY <2>1
    <3> HIDE DEF g, h, T
    <3> QED BY <1>1, <2>1, <3>1, SumTimes
  <2>3. SumOver(C(j), w2) = SumOver(Ts, g)
    <3>1. \A l \in C(j) : w2[l] \in Int /\ w2[l] = g[Missing(p, l)]
      <4> TAKE l \in C(j)
      <4>1. l \in Keys
        BY <1>3
      <4>2. Missing(p, l) \in Ts /\ p \notin Missing(p, l) /\ IndexOf(p, Missing(p, l)) = l
        BY <1>2, <4>1
      <4>3. Multiplies(p, T, Missing(p, l))
        BY <2>1, <4>2 DEF Multiplies
      <4> QED BY <4>1, <4>2, <4>3
    <3>2. \A U \in Ts : (p \notin U /\ IndexOf(p, U) \in C(j)) \/ g[U] = 0
      BY <2>1 DEF Multiplies
    <3>3. \A U \in Ts : g[U] \in Int
      OBVIOUS
    <3> HIDE DEF g, w2, C, T
    <3> QED BY <1>3, <3>1, <3>2, <3>3, OwnTs
  <2>4. SumOver(C(j), w) \in Int /\ SumOver(C(j), w2) \in Int
        /\ Mask(SumOver(C(j), w)) = Mask(SumOver(C(j), w2))
    <3>1. \A l \in C(j) : w[l] \in Int /\ w2[l] \in Int /\ Mask(w[l]) = Mask(w2[l])
      BY <1>2, <1>3
    <3> HIDE DEF w, w2, C
    <3> QED BY <1>3, <3>1, SumRule, SumMask
  <2> DEFINE x == a[j][i]
             y == SumOver(C(j), w)
             z == A[T]
             u == SumOver(C(j), w2)
  <2>5. x \in Int /\ y \in Int /\ z \in Int /\ u \in Int /\ Mask(x) = Mask(z) /\ Mask(y) = Mask(u)
    BY <1>2, <2>1, <2>4
  <2>6. f[j] = x * y /\ f2[j] = z * u
    <3>1. f2[j] = SumOver(Ts, h)
      BY <2>1 DEF Part
    <3> QED BY <2>2, <2>3, <3>1
  <2> HIDE DEF x, y, z, u
  <2>7. x * y \in Int /\ z * u \in Int
    BY ONLY <2>5
  <2>8. Mask(x * y) = Mask(z * u)
    BY ONLY <2>5, MaskOps
  <2> QED BY <2>6, <2>7, <2>8
<1>5. Mask(SumOver(Keys, f)) = Mask(SumOver(Keys, f2))
  <2> HIDE DEF f, f2
  <2> QED BY <1>1, <1>4, SumMask
<1>6. SumOver(Keys, f2) = SumOver(Ts, P)
  <2>1. \A j \in Keys : f2[j] \in Int /\ f2[j] = P[Missing(p, j)]
    BY <1>4
  <2>2. ASSUME NEW T \in Ts PROVE (p \notin T /\ IndexOf(p, T) \in Keys) \/ P[T] = 0
    <3>1. CASE p \notin T
      BY <1>1, <3>1, Complete
    <3>2. CASE p \in T
      <4> DEFINE h == [U \in Ts |-> IF Multiplies(p, T, U) THEN A[T] * B[U] ELSE 0]
      <4>1. \A U \in Ts : h[U] = 0
        BY <3>2 DEF Multiplies
      <4>2. SumOver(Ts, h) = 0 * Cardinality(Ts) /\ Cardinality(Ts) \in Nat
        <5> HIDE DEF h
        <5> QED BY <1>1, <4>1, SumConst, FS_CardinalityType
      <4>3. P[T] = SumOver(Ts, h)
        BY DEF Part
      <4> QED BY <4>2, <4>3
    <3> QED BY <3>1, <3>2
  <2>3. \A T \in Ts : P[T] \in Int
    BY PartType
  <2>4. Keys \in SUBSET Keys
    OBVIOUS
  <2> HIDE DEF f2, P
  <2> QED BY <2>1, <2>2, <2>3, <2>4, OwnTs
<1>7. Local(a, b, i) = SumOver(Keys, f)
  BY DEF Local
<1> QED BY <1>5, <1>6, <1>7

\* One number at one element of a set.
LEMMA SumOnce ==
    ASSUME NEW S, IsFiniteSet(S), NEW q \in S, NEW c \in Int, NEW f,
           \A x \in S : f[x] = IF x = q THEN c ELSE 0
    PROVE  SumOver(S, f) = c
<1>1. /\ {q} \in SUBSET S /\ IsFiniteSet({q})
      /\ \A x \in S : f[x] \in Int
      /\ \A x \in S \ {q} : f[x] = 0
      /\ f[q] = c
  <2>1. IsFiniteSet({q})
    BY FS_Singleton
  <2> QED BY <2>1
<1>2. SumOver(S, f) = SumOver({q}, f)
  BY <1>1, SumZero
<1>3. SumOver({q}, f) = f[q]
  BY <1>1, SumRule
<1> QED BY <1>1, <1>2, <1>3

\* Share T, of value c, is multiplied with every share of the other secret.
LEMMA RowsSum ==
    ASSUME run \in Cases, NEW T \in Ts, NEW c \in Int, NEW B, \A U \in Ts : B[U] \in Int
    PROVE  SumOver(Party, [p \in Party |->
                SumOver(Ts, [U \in Ts |-> IF Multiplies(p, T, U) THEN c * B[U] ELSE 0])])
             = c * SumOver(Ts, B)
<1> DEFINE G == [p \in Party |-> [U \in Ts |-> IF Multiplies(p, T, U) THEN c * B[U] ELSE 0]]
           row == [p \in Party |-> SumOver(Ts, G[p])]
           col == [U \in Ts |-> SumOver(Party, [p \in Party |-> G[p][U]])]
           lhs == [p \in Party |->
                SumOver(Ts, [U \in Ts |-> IF Multiplies(p, T, U) THEN c * B[U] ELSE 0])]
<1>1. Sizes /\ IsFiniteSet(Ts) /\ IsFiniteSet(Party)
  BY Program, Lacking
<1>2. \A p \in Party : \A U \in Ts : G[p][U] \in Int
  OBVIOUS
<1>3. SumOver(Party, row) = SumOver(Ts, col)
  <2> HIDE DEF G
  <2> QED BY ONLY <1>1, <1>2, SumSwap
<1>4. ASSUME NEW U \in Ts PROVE col[U] = c * B[U]
  <2> DEFINE d == c * B[U]
             f == [p \in Party |-> G[p][U]]
  <2>1. PICK q \in Party : \A s \in Party : Multiplies(s, T, U) <=> s = q
    <3>1. \E p \in Party : p \notin T /\ p \notin U
      BY Lacking
    <3> QED BY <1>1, <3>1, OneMultiplies
  <2>2. d \in Int /\ \A p \in Party : f[p] = IF p = q THEN d ELSE 0
    BY <2>1
  <2>3. SumOver(Party, f) = d
    <3> HIDE DEF d, f
    <3> QED BY <1>1, <2>2, SumOnce
  <2> QED BY <2>3
<1>5. SumOver(Ts, col) = c * SumOver(Ts, B)
  <2>1. \A U \in Ts : B[U] \in Int /\ col[U] = c * B[U]
    BY <1>4
  <2> HIDE DEF col
  <2> QED BY <1>1, <2>1, SumTimes
<1>6. lhs = row
  OBVIOUS
<1> QED BY <1>3, <1>5, <1>6

\* All the parties' local products together are the product of the secrets.
LEMMA PartsSum ==
    ASSUME run \in Cases, NEW A, NEW B, \A T \in Ts : A[T] \in Int /\ B[T] \in Int
    PROVE  SumOver(Party, [p \in Party |-> SumOver(Ts, Part(p, A, B))])
             = SumOver(Ts, A) * SumOver(Ts, B)
<1> DEFINE F == [p \in Party |-> Part(p, A, B)]
           lhs == [p \in Party |-> SumOver(Ts, F[p])]
           rhs == [T \in Ts |-> SumOver(Party, [p \in Party |-> F[p][T]])]
           sum == SumOver(Ts, B)
<1>1. Sizes /\ IsFiniteSet(Ts) /\ IsFiniteSet(Party)
  BY Program, Lacking
<1>2. \A p \in Party : \A T \in Ts : F[p][T] \in Int
  BY PartType
<1>3. SumOver(Party, lhs) = SumOver(Ts, rhs)
  <2> HIDE DEF F
  <2> QED BY <1>1, <1>2, SumSwap
<1>4. sum \in Int
  BY <1>1, SumRule
<1>5. ASSUME NEW T \in Ts PROVE rhs[T] = sum * A[T]
  <2> DEFINE here == [p \in Party |-> F[p][T]]
             row == [p \in Party |->
                SumOver(Ts, [U \in Ts |-> IF Multiplies(p, T, U) THEN A[T] * B[U] ELSE 0])]
  <2>1. \A p \in Party : here[p] \in Int /\ here[p] = row[p]
    BY <1>2 DEF Part
  <2>2. SumOver(Party, here) = SumOver(Party, row)
    <3> HIDE DEF here, row
    <3> QED BY <1>1, <2>1, SumSame
  <2>3. SumOver(Party, row) = A[T] * sum
    <3>1. A[T] \in Int /\ \A U \in Ts : B[U] \in Int
      OBVIOUS
    <3> QED BY <3>1, RowsSum
  <2>6. rhs[T] = SumOver(Party, here)
    OBVIOUS
  <2>7. A[T] * sum = sum * A[T]
    BY <1>4
  <2> QED BY <2>2, <2>3, <2>6, <2>7
<1>6. SumOver(Ts, rhs) = sum * SumOver(Ts, A)
  <2>1. \A T \in Ts : A[T] \in Int /\ rhs[T] = sum * A[T]
    BY <1>5
  <2> HIDE DEF rhs, sum
  <2> QED BY <1>1, <1>4, <2>1, SumTimes
<1>7. SumOver(Ts, A) \in Int
  BY <1>1, SumRule
<1>8. sum * SumOver(Ts, A) = SumOver(Ts, A) * sum
  BY <1>4, <1>7
<1> QED BY <1>3, <1>6, <1>8

\* The keys whose words p subtracts from its local product.
Subtracted(p) == {j \in Keys : Missing(p, j) # Chi(p)}

\* Every word that a share takes in is subtracted as often.
LEMMA WordsSum ==
    ASSUME run \in Cases, NEW Q, \A T \in Ts : Q[T] \in Int
    PROVE  SumOver(Party, [p \in Party |->
                SumOver(Subtracted(p), [j \in Keys |-> Q[Missing(p, j)]])])
             = SumOver(Ts, [T \in Ts |-> Uses(T) * Q[T]])
<1> DEFINE F == [p \in Party |-> [T \in Ts |-> IF p \notin T /\ Chi(p) # T THEN Q[T] ELSE 0]]
           f(p) == [j \in Keys |-> Q[Missing(p, j)]]
           lhs == [p \in Party |-> SumOver(Subtracted(p), f(p))]
           row == [p \in Party |-> SumOver(Ts, F[p])]
           col == [T \in Ts |-> SumOver(Party, [p \in Party |-> F[p][T]])]
           all == [T \in Ts |-> Uses(T) * Q[T]]
<1>1. Sizes /\ IsFiniteSet(Ts) /\ IsFiniteSet(Party)
  BY Program, Lacking
<1>2. \A p \in Party : \A T \in Ts : F[p][T] \in Int
  OBVIOUS
<1>3. ASSUME NEW p \in Party PROVE lhs[p] \in Int /\ lhs[p] = row[p]
  <2> DEFINE S == Subtracted(p)
             g == F[p]
             e == f(p)
  <2>1. S \in SUBSET Keys /\ \A j \in Keys : j \in S <=> Missing(p, j) # Chi(p)
    BY DEF Subtracted
  <2>2. \A j \in S : e[j] \in Int /\ e[j] = g[Missing(p, j)]
    BY <1>1, <2>1, OwnShares
  <2>3. \A T \in Ts : (p \notin T /\ IndexOf(p, T) \in S) \/ g[T] = 0
    <3> TAKE T \in Ts
    <3>1. p \notin T => IndexOf(p, T) \in Keys /\ Missing(p, IndexOf(p, T)) = T
      BY <1>1, Complete
    <3> QED BY <2>1, <3>1
  <2>4. \A T \in Ts : g[T] \in Int
    OBVIOUS
  <2> HIDE DEF S, g, e
  <2>5. SumOver(S, e) = SumOver(Ts, g) /\ SumOver(Ts, g) \in Int
    BY <1>1, <2>1, <2>2, <2>3, <2>4, OwnTs, SumRule
  <2> QED BY <2>5 DEF S, g, e
<1>4. SumOver(Party, lhs) = SumOver(Party, row)
  <2> HIDE DEF lhs, row
  <2> QED BY <1>1, <1>3, SumSame
<1>5. SumOver(Party, row) = SumOver(Ts, col)
  <2> HIDE DEF F
  <2> QED BY <1>1, <1>2, SumSwap
<1>6. ASSUME NEW T \in Ts PROVE col[T] \in Int /\ col[T] = all[T]
  <2> DEFINE S == {q \in Party \ T : Chi(q) # T}
             g == [p \in Party |-> F[p][T]]
  <2>1. S \in SUBSET Party /\ IsFiniteSet(S)
    BY <1>1, FS_Subset
  <2>2. /\ \A p \in Party : g[p] \in Int
        /\ \A p \in Party \ S : g[p] = 0
        /\ \A p \in S : g[p] = Q[T]
    OBVIOUS
  <2>3. SumOver(Party, g) = SumOver(S, g) /\ SumOver(S, g) = Q[T] * Cardinality(S)
    <3>1. Q[T] \in Int
      OBVIOUS
    <3> HIDE DEF S, g
    <3> QED BY <1>1, <2>1, <2>2, <3>1, SumZero, SumConst
  <2>4. Cardinality(S) \in Nat /\ Uses(T) = Cardinality(S)
    BY <2>1, FS_CardinalityType DEF Uses
  <2>5. Q[T] * Uses(T) = Uses(T) * Q[T] /\ Q[T] * Uses(T) \in Int
    BY <2>4
  <2>6. col[T] = SumOver(Party, g)
    OBVIOUS
  <2> QED BY <2>3, <2>4, <2>5, <2>6
<1>7. SumOver(Ts, col) = SumOver(Ts, all)
  <2> HIDE DEF col, all
  <2> QED BY <1>1, <1>6, SumSame
<1> QED BY <1>4, <1>5, <1>7

\* Value i of product k: a[p] and b[p] are party p's copies of the shares A and
\* B of the operands, Q the words of the streams, msg[p] what p sends, and use[T]
\* what the share of T takes in.
Exchanged(k, i, A, B, Q, a, b, msg, use) ==
    /\ k \in Steps /\ Op(k) = "mult" /\ i \in Batch
    /\ \A T \in Ts : A[T] \in Int /\ B[T] \in Int /\ Q[T] \in Int
    /\ \A p \in Party : a[p] \in Share /\ b[p] \in Share
    /\ \A p \in Party, j \in Keys :
          /\ Mask(a[p][j][i]) = Mask(A[Missing(p, j)])
          /\ Mask(b[p][j][i]) = Mask(B[Missing(p, j)])
          /\ Z(p, j, k, i) = Q[Missing(p, j)]
    /\ \A p \in Party : msg[p] = Masked(a[p], b[p], p, k)[i]
    /\ \A T \in Ts : use[T] = Uses(T) * Q[T]

\* What all the parties send in a product.
LEMMA MessagesSum ==
    ASSUME run \in Cases, NEW k, NEW i, NEW A, NEW B, NEW Q, NEW a, NEW b, NEW msg, NEW use,
           Exchanged(k, i, A, B, Q, a, b, msg, use)
    PROVE  /\ \A p \in Party : msg[p] \in Int
           /\ Mask(SumOver(Party, msg))
                = Mask(SumOver(Ts, A) * SumOver(Ts, B) - SumOver(Ts, use))
<1> USE DEF Exchanged
<1> DEFINE part == [p \in Party |-> SumOver(Ts, Part(p, A, B))]
           words(p) == [j \in Keys |-> Q[Missing(p, j)]]
           sub == [p \in Party |-> SumOver(Subtracted(p), words(p))]
           diff == [p \in Party |-> part[p] - sub[p]]
           ab == SumOver(Ts, A) * SumOver(Ts, B)
           uses == SumOver(Ts, use)
<1>1. Sizes /\ IsFiniteSet(Ts) /\ IsFiniteSet(Party)
  BY Program, Lacking
<1>2. ASSUME NEW p \in Party PROVE part[p] \in Int /\ sub[p] \in Int
  <2>1. \A T \in Ts : Part(p, A, B)[T] \in Int
    BY PartType
  <2>2. SumOver(Ts, Part(p, A, B)) \in Int
    BY <1>1, <2>1, SumRule
  <2> DEFINE S == Subtracted(p)
             w == words(p)
  <2>3. IsFiniteSet(S)
    BY KeysFinite DEF Subtracted
  <2>4. \A j \in S : w[j] \in Int
    BY <1>1, OwnShares DEF Subtracted
  <2>5. SumOver(S, w) \in Int
    <3> HIDE DEF S, w
    <3> QED BY <2>3, <2>4, SumRule
  <2> QED BY <2>2, <2>5
<1>3. ASSUME NEW p \in Party
      PROVE  msg[p] \in Int /\ diff[p] \in Int /\ Mask(msg[p]) = Mask(diff[p])
  <2> DEFINE x == Local(a[p], b[p], i)
             y == part[p]
             z == sub[p]
  <2>1. x \in Int /\ y \in Int /\ z \in Int
    BY <1>2, LocalType
  <2>2. Mask(x) = Mask(y)
    <3>1. /\ a[p] \in Share /\ b[p] \in Share
          /\ \A j \in Keys : /\ Mask(a[p][j][i]) = Mask(A[Missing(p, j)])
                             /\ Mask(b[p][j][i]) = Mask(B[Missing(p, j)])
      OBVIOUS
    <3>2. Mask(x) = Mask(SumOver(Ts, Part(p, A, B)))
      BY <3>1, LocalIs
    <3> QED BY <3>2
  <2>3. msg[p] = Mask(x - z)
    <3>1. [j \in Keys |-> Z(p, j, k, i)] = words(p)
      OBVIOUS
    <3>2. Masked(a[p], b[p], p, k)[i]
            = Mask(x - SumOver(Subtracted(p), [j \in Keys |-> Z(p, j, k, i)]))
      BY DEF Masked, Subtracted
    <3> QED BY <3>1, <3>2
  <2>4. diff[p] = y - z
    OBVIOUS
  <2> HIDE DEF x, y, z, diff
  <2>5. Mask(x - z) = Mask(y - z)
    BY <2>1, <2>2, MaskOps
  <2>6. Mask(x - z) \in Int /\ Mask(Mask(x - z)) = Mask(x - z)
    <3>1. x - z \in Int
      BY <2>1
    <3> QED BY <3>1, Ring
  <2> QED BY <2>1, <2>3, <2>4, <2>5, <2>6
<1>4. Mask(SumOver(Party, msg)) = Mask(SumOver(Party, diff))
  <2> HIDE DEF diff
  <2> QED BY <1>1, <1>3, SumMask
<1>5. SumOver(Party, part) = SumOver(Party, diff) + SumOver(Party, sub)
  <2>1. \A p \in Party : diff[p] \in Int /\ sub[p] \in Int /\ part[p] = diff[p] + sub[p]
    BY <1>2
  <2> HIDE DEF diff, part, sub
  <2> QED BY <1>1, <2>1, SumAdd
<1>6. SumOver(Party, diff) \in Int /\ SumOver(Party, sub) \in Int
  <2>1. \A p \in Party : diff[p] \in Int /\ sub[p] \in Int
    BY <1>2
  <2> HIDE DEF diff, sub
  <2> QED BY <1>1, <2>1, SumRule
<1>7. SumOver(Party, part) = ab
  BY PartsSum
<1>8. SumOver(Party, sub) = uses
  <2> DEFINE u == [T \in Ts |-> Uses(T) * Q[T]]
  <2>1. \A T \in Ts : Q[T] \in Int
    OBVIOUS
  <2>2. SumOver(Party, sub) = SumOver(Ts, u)
    BY <2>1, WordsSum
  <2>3. \A T \in Ts : u[T] \in Int /\ u[T] = use[T]
    BY <2>1, UsesType
  <2>4. SumOver(Ts, u) = SumOver(Ts, use)
    <3> HIDE DEF u
    <3> QED BY <1>1, <2>3, SumSame
  <2> QED BY <2>2, <2>4
<1> DEFINE d == SumOver(Party, diff)
<1>9. d = ab - uses
  <2> HIDE DEF diff, part, sub, ab, uses
  <2> QED BY <1>5, <1>6, <1>7, <1>8
<1>10. \A p \in Party : msg[p] \in Int
  BY <1>3
<1> HIDE DEF diff, ab, uses
<1>11. Mask(SumOver(Party, msg)) = Mask(ab - uses)
  BY <1>4, <1>9
<1> QED BY <1>10, <1>11 DEF ab, uses

-----------------------------------------------------------------------------
(***************************************************************************)
(* Secrets.                                                                *)
(***************************************************************************)
\* The copy of share T of secret i that Secret reads.
Copy(r, T, i) ==
    LET p == CHOOSE p \in Holders(r) : p \notin T IN shares[p][r][IndexOf(p, T)][i]

\* A batch of secrets is the sum of its shares, which every holder has.
LEMMA SecretIs ==
    ASSUME IInv, NEW r \in Registers, Cardinality(Holders(r)) > t
    PROVE  /\ Secret(r) = [i \in Batch |-> Mask(SumOver(Ts, [T \in Ts |-> Copy(r, T, i)]))]
           /\ Secret(r) \in Value
           /\ \A i \in Batch, T \in Ts : Copy(r, T, i) \in Word /\ Copy(r, T, i) \in Int
           /\ \A i \in Batch, p \in Holders(r), T \in Ts :
                 p \notin T => Mask(shares[p][r][IndexOf(p, T)][i]) = Mask(Copy(r, T, i))
           /\ \A p \in Holders(r) : shares[p][r] \in Share
<1>1. Sizes /\ run \in Cases /\ t \in Nat /\ TypeOK /\ ReplicasAgree
  BY Program, SharesAgree DEF IInv, TypeOK
<1>2. \A p \in Holders(r) : shares[p][r] \in Share /\ p \in Party
  <2>1. \A p \in Party : shares[p][r] \in {Unknown} \union Share
    BY <1>1 DEF TypeOK, Share
  <2> QED BY <2>1 DEF Holders
<1>3. ASSUME NEW T \in Ts, NEW i \in Batch
      PROVE  /\ Copy(r, T, i) \in Word
             /\ \A p \in Holders(r) :
                   p \notin T => Mask(shares[p][r][IndexOf(p, T)][i]) = Mask(Copy(r, T, i))
  <2> DEFINE q == CHOOSE p \in Holders(r) : p \notin T
  <2>1. \E p \in Holders(r) : p \notin T
    <3>1. Holders(r) \in SUBSET Party
      BY DEF Holders
    <3> QED BY <1>1, <3>1, Lacking
  <2>2. q \in Holders(r) /\ q \notin T
    BY <2>1
  <2>3. Copy(r, T, i) = shares[q][r][IndexOf(q, T)][i]
    BY DEF Copy
  <2> HIDE DEF q
  <2>4. IndexOf(q, T) \in Keys
    BY <1>1, <1>2, <2>2, Complete
  <2>5. Copy(r, T, i) \in Word
    BY <1>2, <2>2, <2>3, <2>4 DEF Share
  <2>6. ASSUME NEW p \in Holders(r), p \notin T
        PROVE  Mask(shares[p][r][IndexOf(p, T)][i]) = Mask(shares[q][r][IndexOf(q, T)][i])
    BY <1>1, <2>2, <2>6 DEF ReplicasAgree, Holders
  <2> QED BY <2>3, <2>5, <2>6
<1>4. Secret(r) = [i \in Batch |-> Mask(SumOver(Ts, [T \in Ts |-> Copy(r, T, i)]))]
  <2>1. ~(Cardinality(Holders(r)) <= t)
    <3>1. Cardinality(Holders(r)) \in Nat
      <4>1. Holders(r) \in SUBSET Party
        BY DEF Holders
      <4> QED BY <1>1, <4>1, KeysFinite, FS_CardinalityType
    <3> QED BY <1>1, <3>1
  <2> QED BY <2>1 DEF Secret, Copy
<1>5. \A T \in Ts, i \in Batch : Copy(r, T, i) \in Int
  BY <1>1, <1>3, Masks
<1>6. ASSUME NEW i \in Batch
      PROVE  Mask(SumOver(Ts, [T \in Ts |-> Copy(r, T, i)])) \in 0 .. 2^K - 1
  <2> DEFINE f == [T \in Ts |-> Copy(r, T, i)]
  <2>1. IsFiniteSet(Ts) /\ \A T \in Ts : f[T] \in Int
    BY <1>1, <1>5, Lacking
  <2> HIDE DEF f
  <2>2. SumOver(Ts, f) \in Int
    BY <2>1, SumRule
  <2>3. Mask(SumOver(Ts, f)) \in 0 .. 2^K - 1
    BY <2>2, Ring
  <2> QED BY <2>3 DEF f
<1> QED BY <1>2, <1>3, <1>4, <1>5, <1>6 DEF Value

\* The word of the stream of T that masks value i in product k, which every
\* holder of the key counts to.
Stream(T, k, i) == LET p == CHOOSE p \in Party : p \notin T IN Z(p, IndexOf(p, T), k, i)

\* Every holder draws the same word at the same place.
LEMMA StreamIs ==
    ASSUME run \in Cases, NEW k \in Steps, Op(k) = "mult", NEW i \in Batch
    PROVE  /\ \A p \in Party, j \in Keys : Z(p, j, k, i) = Stream(Missing(p, j), k, i)
           /\ \A T \in Ts : Stream(T, k, i) \in Nat
<1>1. Sizes
  BY Program
<1>2. ASSUME NEW T \in Ts, NEW p \in Party, NEW j \in Keys, Missing(p, j) = T
      PROVE  Z(p, j, k, i) = Stream(T, k, i)
  <2> DEFINE q == CHOOSE q \in Party : q \notin T
             l == IndexOf(q, T)
  <2>1. \E s \in Party : s \notin T
    BY Lacking
  <2>2. q \in Party /\ q \notin T /\ Stream(T, k, i) = Z(q, l, k, i)
    BY <2>1 DEF Stream
  <2> HIDE DEF q
  <2>3. l \in Keys /\ Missing(q, l) = T
    BY <1>1, <2>2, Complete
  <2> HIDE DEF l
  <2>4. Ctr(j) = Ctr(l)
    BY <1>1, <1>2, <2>2, <2>3, CopiesAlike
  <2> QED BY <1>2, <2>2, <2>3, <2>4 DEF Z, Words
<1>3. ASSUME NEW T \in Ts PROVE Stream(T, k, i) \in Nat
  <2>1. PICK p \in Party, j \in Keys : Missing(p, j) = T
    BY DEF Ts
  <2>2. Z(p, j, k, i) \in Nat
    BY ZType
  <2> QED BY <1>2, <2>1, <2>2
<1>4. \A p \in Party, j \in Keys : Missing(p, j) \in Ts
  BY <1>1, OwnShares
<1> QED BY <1>2, <1>3, <1>4

\* Every party has its own T.
LEMMA ChiDistinct ==
    ASSUME Sizes
    PROVE  /\ 0 \in Keys /\ \A p \in Party : Chi(p) \in Ts
           /\ \A p, q \in Party : Chi(p) = Chi(q) => p = q
           /\ \A p \in Party, T \in Ts : p \notin T =>
                 \A q \in Party : Owner(p, IndexOf(p, T)) = q <=> T = Chi(q)
<1>1. 0 \in Keys
  BY Numbers DEF Sizes
<1>2. \A p \in Party : Chi(p) \in Ts
  BY <1>1, OwnShares DEF Chi
<1>3. ASSUME NEW p \in Party, NEW q \in Party, Chi(p) = Chi(q) PROVE p = q
  <2>1. Owner(p, 0) = q <=> Missing(p, 0) = Chi(q)
    BY <1>1, OwnerRule
  <2> QED BY <1>3, <2>1 DEF Chi, Owner
<1>4. ASSUME NEW p \in Party, NEW T \in Ts, p \notin T, NEW q \in Party
      PROVE  Owner(p, IndexOf(p, T)) = q <=> T = Chi(q)
  <2>1. IndexOf(p, T) \in Keys /\ Missing(p, IndexOf(p, T)) = T
    BY <1>4, Complete
  <2> QED BY <2>1, OwnerRule
<1> QED BY <1>1, <1>2, <1>3, <1>4

\* The batches of all the parties, each put where its sender's T is.
LEMMA OwnersSum ==
    ASSUME run \in Cases, NEW f, \A p \in Party : f[p] \in Int,
           NEW g, \A T \in Ts : g[T] \in Int,
           \A p \in Party : g[Chi(p)] = f[p],
           \A T \in Ts : g[T] = 0 \/ \E p \in Party : T = Chi(p)
    PROVE  SumOver(Party, f) = SumOver(Ts, g)
<1> DEFINE own == {Chi(p) : p \in Party}
           F == [p \in Party |-> Chi(p)]
<1>1. Sizes /\ IsFiniteSet(Ts) /\ IsFiniteSet(Party)
  BY Program, Lacking
<1>2. own \in SUBSET Ts /\ IsFiniteSet(own)
  <2>1. own \in SUBSET Ts
    BY <1>1, ChiDistinct
  <2> HIDE DEF own
  <2> QED BY <1>1, <2>1, FS_Subset
<1>3. SumOver(Ts, g) = SumOver(own, g)
  <2>1. \A T \in Ts \ own : g[T] = 0
    OBVIOUS
  <2> HIDE DEF own
  <2> QED BY <1>1, <1>2, <2>1, SumZero
<1>4. /\ \A p \in Party : F[p] \in own /\ f[p] = g[F[p]]
      /\ \A p, q \in Party : F[p] = F[q] => p = q
      /\ \A T \in own : \E p \in Party : F[p] = T
  BY <1>1, ChiDistinct
<1>5. SumOver(Party, f) = SumOver(own, g)
  <2> HIDE DEF own, F
  <2> QED BY <1>1, <1>2, <1>4, SumMap
<1> QED BY <1>3, <1>5

\* Once the parties that have a product are enough to hold all of its shares,
\* every party has come to it.
LEMMA AllThere ==
    ASSUME IInv, NEW k \in Steps, Op(k) = "mult", Cardinality(Holders(run.program[k].dst)) > t
    PROVE  \A q \in Party : k <= pc[q]
<1>1. Sizes /\ run \in Cases /\ TypeOK
  BY Program DEF IInv, TypeOK
<1> TAKE q \in Party
<1>2. Chi(q) \in Ts
  BY <1>1, ChiDistinct
<1>3. PICK p \in Holders(run.program[k].dst) : p \notin Chi(q)
  <2>1. Holders(run.program[k].dst) \in SUBSET Party
    BY DEF Holders
  <2> QED BY <1>1, <1>2, <2>1, Lacking
<1>4. p \in Party /\ shares[p][run.program[k].dst] # Unknown
  BY <1>3 DEF Holders
<1>5. k < pc[p]
  <2>1. run.program[k].dst \in Registers /\ run.program[k].dst \notin Inputs
    BY <1>1, Program DEF IInv, Known
  <2>2. PICK l \in 1 .. pc[p] - 1 : Op(l) = "mult" /\ run.program[l].dst = run.program[k].dst
    BY <1>4, <2>1 DEF IInv, Known, Has
  <2>3. pc[p] \in 1 .. Len(run.program) + 1 /\ Len(run.program) \in Nat
    BY <1>1, <1>4, Entries
  <2>4. l \in Steps
    BY <2>3 DEF Steps
  <2>5. l = k
    BY <1>1, <2>2, <2>4, Program
  <2> QED BY <2>2, <2>3, <2>5
<1>6. pc[p] \in Int /\ pc[q] \in Int /\ k \in Int
  BY <1>1, <1>4, Entries DEF Steps
<1>7. CASE p = q
  BY <1>5, <1>6, <1>7
<1>8. CASE p # q
  <2>1. Owner(p, IndexOf(p, Chi(q))) = q
    BY <1>1, <1>2, <1>3, <1>4, ChiDistinct
  <2>2. IndexOf(p, Chi(q)) \in Keys
    BY <1>1, <1>2, <1>3, <1>4, Complete
  <2>3. PICK m \in 1..t : q = Off(p, Peers("mult").from[m], n)
    <3> DEFINE j == IndexOf(p, Chi(q))
    <3>1. j \in Keys /\ Owner(p, j) = q /\ q # 0
      BY <2>1, <2>2 DEF Party
    <3> HIDE DEF j
    <3>2. \/ Owner(p, j) = 0
          \/ Owner(p, j) = p
          \/ \E m \in 1..t : Owner(p, j) = Off(p, Peers("mult").from[m], n)
      BY <1>1, <1>4, <3>1, OwnerFrom
    <3> QED BY <1>8, <3>1, <3>2
  <2>4. HasRead(p, q, k)
    BY <1>5, <2>3 DEF HasRead
  <2>5. HasSent(q, p, k)
    BY <1>4, <1>8, <2>4 DEF IInv, Causal
  <2> QED BY <1>6, <2>5 DEF HasSent
<1> QED BY <1>7, <1>8

\* One addend may be replaced by another with the same residue.
LEMMA MaskLeft ==
    ASSUME NEW a \in Int, NEW b \in Int, NEW c \in Int, Mask(a) = Mask(c)
    PROVE  Mask(a + b) = Mask(c + b) /\ Mask(b + a) = Mask(b + c)
<1>1. Mask(b + a) = Mask(b + c)
  BY ONLY Mask(a) = Mask(c), a \in Int, b \in Int, c \in Int, SameTerm, ZenonT(30)
<1>2. a + b = b + a /\ c + b = b + c
  OBVIOUS
<1> QED BY <1>1, <1>2

\* The register of a product holds the product of the secrets in its operands,
\* which every party has.
LEMMA ProductSecret ==
    ASSUME IInv, NEW k \in Steps, Op(k) = "mult", Cardinality(Holders(run.program[k].dst)) > t
    PROVE  LET s == run.program[k] IN
           /\ Holders(s.x) = Party /\ Holders(s.y) = Party
           /\ Secret(s.dst) = Times(Secret(s.x), Secret(s.y))
<1> DEFINE s == run.program[k]
           d == s.dst
           x == s.x
           y == s.y
<1>1. /\ Sizes /\ run \in Cases /\ TypeOK /\ Known /\ n \in Nat /\ t \in Nat /\ t < n
      /\ IsFiniteSet(Ts) /\ IsFiniteSet(Party) /\ Cardinality(Party) = n
  BY Program, Lacking DEF IInv, TypeOK
<1>2. \A q \in Party : k <= pc[q]
  BY AllThere
<1>3. \A q \in Party : /\ x \in Registers /\ y \in Registers
                       /\ shares[q][x] \in Share /\ shares[q][y] \in Share
  BY <1>1, <1>2, Operands
<1>4. /\ x \in Registers /\ y \in Registers /\ d \in Registers
      /\ Holders(x) = Party /\ Holders(y) = Party
  <2>1. Unknown \notin Share
    BY <1>1, UnknownIs
  <2>2. 1 \in Party
    BY <1>1 DEF Party
  <2>3. d \in Registers
    BY <1>1, Program DEF Known
  <2> QED BY <1>3, <2>1, <2>2, <2>3 DEF Holders
<1>5. ASSUME NEW r \in {x, y}
      PROVE  /\ Secret(r) = [i \in Batch |-> Mask(SumOver(Ts, [T \in Ts |-> Copy(r, T, i)]))]
             /\ \A i \in Batch, T \in Ts : Copy(r, T, i) \in Int
             /\ \A i \in Batch, p \in Party, j \in Keys :
                   Mask(shares[p][r][j][i]) = Mask(Copy(r, Missing(p, j), i))
  <2>1. r \in Registers /\ Holders(r) = Party /\ Cardinality(Holders(r)) > t
    BY <1>1, <1>4
  <2>2. /\ Secret(r) = [i \in Batch |-> Mask(SumOver(Ts, [T \in Ts |-> Copy(r, T, i)]))]
        /\ \A i \in Batch, T \in Ts : Copy(r, T, i) \in Int
        /\ \A i \in Batch, p \in Holders(r), T \in Ts :
              p \notin T => Mask(shares[p][r][IndexOf(p, T)][i]) = Mask(Copy(r, T, i))
    BY <2>1, SecretIs
  <2>3. \A p \in Party, j \in Keys :
           p \notin Missing(p, j) /\ Missing(p, j) \in Ts /\ IndexOf(p, Missing(p, j)) = j
    BY <1>1, OwnShares
  <2> QED BY <2>1, <2>2, <2>3
<1>6. /\ Secret(d) = [i \in Batch |-> Mask(SumOver(Ts, [T \in Ts |-> Copy(d, T, i)]))]
      /\ \A i \in Batch, T \in Ts : Copy(d, T, i) \in Int
  BY <1>4, SecretIs
<1>7. ASSUME NEW i \in Batch
      PROVE  Mask(SumOver(Ts, [T \in Ts |-> Copy(d, T, i)]))
               = Mask(Mask(SumOver(Ts, [T \in Ts |-> Copy(x, T, i)]))
                      * Mask(SumOver(Ts, [T \in Ts |-> Copy(y, T, i)])))
  <2> DEFINE A == [T \in Ts |-> Copy(x, T, i)]
             B == [T \in Ts |-> Copy(y, T, i)]
             C == [T \in Ts |-> Copy(d, T, i)]
             Q == [T \in Ts |-> Stream(T, k, i)]
             U == [T \in Ts |-> Uses(T) * Q[T]]
             msg == [p \in Party |-> Message(p, k)[i]]
             M == [T \in Ts |-> IF \E p \in Party : T = Chi(p)
                                THEN msg[CHOOSE p \in Party : T = Chi(p)] ELSE 0]
             S == [T \in Ts |-> U[T] + M[T]]
             a == [p \in Party |-> shares[p][x]]
             b == [p \in Party |-> shares[p][y]]
  <2>1. \A T \in Ts : A[T] \in Int /\ B[T] \in Int /\ C[T] \in Int /\ Q[T] \in Int
    BY <1>1, <1>5, <1>6, StreamIs
  <2>4. /\ \A p \in Party : msg[p] \in Int
        /\ Mask(SumOver(Party, msg)) = Mask(SumOver(Ts, A) * SumOver(Ts, B) - SumOver(Ts, U))
    <3>1. \A p \in Party : a[p] \in Share /\ b[p] \in Share
      BY <1>3
    <3>2. \A p \in Party, j \in Keys :
             /\ Mask(a[p][j][i]) = Mask(A[Missing(p, j)])
             /\ Mask(b[p][j][i]) = Mask(B[Missing(p, j)])
             /\ Z(p, j, k, i) = Q[Missing(p, j)]
      BY <1>1, <1>5, OwnShares, StreamIs
    <3>3. k \in Steps /\ Op(k) = "mult" /\ i \in Batch
      OBVIOUS
    <3>4. \A p \in Party : msg[p] = Masked(a[p], b[p], p, k)[i]
      BY DEF Message
    <3>5. \A T \in Ts : U[T] = Uses(T) * Q[T]
      OBVIOUS
    <3> HIDE DEF A, B, Q, a, b, msg, U
    <3>6. Exchanged(k, i, A, B, Q, a, b, msg, U)
      BY <2>1, <3>1, <3>2, <3>3, <3>4, <3>5 DEF Exchanged
    <3> QED BY <1>1, <3>6, MessagesSum
  <2>5. /\ \A T \in Ts : M[T] \in Int
        /\ \A p \in Party : M[Chi(p)] = msg[p]
        /\ \A T \in Ts : M[T] = 0 \/ \E p \in Party : T = Chi(p)
    <3> HIDE DEF msg
    <3>1. ASSUME NEW p \in Party PROVE M[Chi(p)] = msg[p]
      <4>1. \A q \in Party : Chi(p) = Chi(q) => q = p
        BY <1>1, ChiDistinct
      <4>2. (CHOOSE q \in Party : Chi(p) = Chi(q)) = p
        BY <4>1
      <4>3. Chi(p) \in Ts
        BY <1>1, ChiDistinct
      <4> QED BY <4>2, <4>3
    <3>2. \A T \in Ts : M[T] = 0 \/ \E p \in Party : T = Chi(p)
      OBVIOUS
    <3>3. \A T \in Ts : M[T] \in Int
      <4> HIDE DEF M
      <4> QED BY <2>4, <3>1, <3>2
    <3> QED BY <3>1, <3>2, <3>3
  <2>6. SumOver(Party, msg) = SumOver(Ts, M)
    <3> HIDE DEF msg, M
    <3> QED BY <1>1, <2>4, <2>5, OwnersSum
  <2>7. \A T \in Ts : U[T] \in Int
    BY <1>1, <2>1, UsesType
  <2>8. ASSUME NEW T \in Ts PROVE Mask(C[T]) = Mask(S[T])
    <3> DEFINE p == CHOOSE p \in Holders(d) : p \notin T
               j == IndexOf(p, T)
               w == Uses(T) * Z(p, j, k, i)
               m == IF Owner(p, j) = 0 THEN 0 ELSE Message(Owner(p, j), k)[i]
    <3>1. p \in Holders(d) /\ p \notin T /\ p \in Party
      <4>1. Holders(d) \in SUBSET Party
        BY DEF Holders
      <4>2. \E q \in Holders(d) : q \notin T
        BY <1>1, <4>1, Lacking
      <4> QED BY <4>1, <4>2
    <3>2. C[T] = shares[p][d][j][i]
      BY DEF Copy
    <3> HIDE DEF p
    <3>3. j \in Keys /\ Missing(p, j) = T
      BY <1>1, <3>1, Complete
    <3>4. shares[p][d] = Product(p, k)
      <4>1. k \in 1 .. pc[p] - 1
        <5>1. Has(p, d) /\ d \notin Inputs
          BY <1>1, <1>4, <3>1, Program DEF Holders, Known
        <5>2. PICK l \in 1 .. pc[p] - 1 : Op(l) = "mult" /\ run.program[l].dst = d
          BY <5>1 DEF Has
        <5>3. pc[p] \in 1 .. Len(run.program) + 1 /\ Len(run.program) \in Nat
          BY <1>1, <3>1, Entries
        <5>4. l \in Steps
          BY <5>3 DEF Steps
        <5>5. l = k
          BY <1>1, <5>2, <5>4, Program
        <5> QED BY <5>5
      <4> QED BY <3>1, <4>1 DEF IInv, Products
    <3>5. C[T] = Wrap(Wrap(w) + m)
      BY <3>2, <3>3, <3>4 DEF Product
    <3>6. w = U[T]
      <4>1. Z(p, j, k, i) = Q[T]
        BY <1>1, <3>1, <3>3, StreamIs
      <4> QED BY <4>1
    <3>7. m = M[T]
      <4>1. \A q \in Party : Owner(p, j) = q <=> T = Chi(q)
        BY <1>1, <3>1, ChiDistinct
      <4>2. Owner(p, j) \in Party \union {0}
        <5> HIDE DEF j
        <5>1. /\ Ahead(j) \in 0 .. n
              /\ Owner(p, j) = IF Ahead(j) = n THEN 0 ELSE Off(p, Ahead(j), n)
          BY <1>1, <3>1, <3>3, OwnerIs
        <5>2. Ahead(j) \in Nat
          BY <1>1, <5>1
        <5>3. Off(p, Ahead(j), n) \in Party
          BY <1>1, <3>1, <5>2, Offsets
        <5> QED BY <5>1, <5>3
      <4>3. 0 \notin Party
        BY DEF Party
      <4> DEFINE o == Owner(p, j)
      <4>4. CASE o = 0
        BY <4>1, <4>3, <4>4
      <4>5. CASE o \in Party
        <5>1. T = Chi(o) /\ M[Chi(o)] = msg[o]
          BY <2>5, <4>1, <4>5
        <5>2. m = msg[o]
          BY <4>3, <4>5
        <5> QED BY <5>1, <5>2
      <4> QED BY <4>2, <4>4, <4>5
    <3>8. w \in Int /\ m \in Int
      <4> HIDE DEF w, m, U, M
      <4> QED BY <2>5, <2>7, <3>6, <3>7
    <3>9. S[T] = w + m
      BY <3>6, <3>7
    <3> HIDE DEF w, m, C, S
    <3>10. Wrap(w) \in Int /\ Mask(Wrap(w)) = Mask(w)
      BY <1>1, <3>8, MaskWrap
    <3> DEFINE z == Wrap(w)
    <3>11. z \in Int /\ Mask(z) = Mask(w) /\ C[T] = Wrap(z + m)
      BY <3>5, <3>10
    <3> HIDE DEF z
    <3>12. Mask(z + m) = Mask(w + m)
      BY ONLY <3>8, <3>11, MaskLeft
    <3>13. Mask(Wrap(z + m)) = Mask(z + m)
      <4>1. z + m \in Int
        BY <3>8, <3>11
      <4> QED BY <1>1, <4>1, MaskWrap
    <3> QED BY <3>9, <3>11, <3>12, <3>13
  <2> DEFINE sumA == SumOver(Ts, A)
             sumB == SumOver(Ts, B)
             sumC == SumOver(Ts, C)
             sumU == SumOver(Ts, U)
             sumM == SumOver(Ts, M)
  <2>9. sumA \in Int /\ sumB \in Int /\ sumU \in Int /\ sumM \in Int
    <3> HIDE DEF A, B, U, M
    <3> QED BY <1>1, <2>1, <2>5, <2>7, SumRule
  <2>10. Mask(sumC) = Mask(sumU + sumM)
    <3>1. \A T \in Ts : U[T] \in Int /\ M[T] \in Int /\ S[T] = U[T] + M[T]
      BY <2>5, <2>7
    <3> HIDE DEF C, S, U, M
    <3>2. \A T \in Ts : C[T] \in Int /\ S[T] \in Int /\ Mask(C[T]) = Mask(S[T])
      BY <2>1, <2>8, <3>1
    <3>3. SumOver(Ts, S) = SumOver(Ts, U) + SumOver(Ts, M)
      BY <1>1, <3>1, SumAdd
    <3>4. Mask(SumOver(Ts, C)) = Mask(SumOver(Ts, S))
      BY <1>1, <3>2, SumMask
    <3> QED BY <3>3, <3>4
  <2>11. Mask(sumM) = Mask(sumA * sumB - sumU)
    <3> HIDE DEF A, B, U, M, msg
    <3> QED BY <2>4, <2>6
  <2> HIDE DEF sumA, sumB, sumC, sumU, sumM
  <2> DEFINE ab == sumA * sumB
             ma == Mask(sumA)
             mb == Mask(sumB)
  <2>12. ab \in Int /\ ma \in Int /\ mb \in Int /\ Mask(ma) = Mask(sumA) /\ Mask(mb) = Mask(sumB)
    BY <2>9, Ring
  <2>13. Mask(ma * mb) = Mask(ab)
    <3> HIDE DEF ma, mb
    <3> QED BY <2>9, <2>12, MaskOps
  <2> HIDE DEF ab
  <2>14. Mask(sumM) = Mask(ab - sumU)
    BY <2>11 DEF ab
  <2>15. Mask(sumU + sumM) = Mask(sumU + (ab - sumU))
    <3> DEFINE e == ab - sumU
    <3>1. e \in Int /\ Mask(sumM) = Mask(e)
      BY <2>9, <2>12, <2>14
    <3> HIDE DEF e
    <3>2. Mask(sumU + sumM) = Mask(sumU + e)
      BY ONLY <2>9, <3>1, MaskLeft
    <3> QED BY <3>2 DEF e
  <2>16. sumU + (ab - sumU) = ab
    BY <2>9, <2>12
  <2>17. Mask(sumC) = Mask(ma * mb)
    BY <2>10, <2>13, <2>15, <2>16
  <2> QED BY <2>17 DEF sumA, sumB, sumC
<1>8. Secret(x) \in Value /\ DOMAIN Secret(x) = Batch
  <2>1. Secret(x) \in Value
    BY <1>1, <1>4, SecretIs
  <2> QED BY <2>1 DEF Value
<1>9. ASSUME NEW i \in Batch PROVE Secret(d)[i] = Mask(Secret(x)[i] * Secret(y)[i])
  BY <1>5, <1>6, <1>7
<1>10. Secret(d) = Times(Secret(x), Secret(y))
  <2>1. Secret(d) = [i \in Batch |-> Secret(d)[i]]
    BY <1>6
  <2>2. Times(Secret(x), Secret(y)) = [i \in Batch |-> Mask(Secret(x)[i] * Secret(y)[i])]
    BY <1>8 DEF Times
  <2> QED BY <1>9, <2>1, <2>2
<1> QED BY <1>4, <1>10


-----------------------------------------------------------------------------
(***************************************************************************)
(* The algebra of Rss_MultPub: the words that the parties add cancel out.  *)
(***************************************************************************)
\* The elements of the first intervals.
LEMMA UpTo ==
    ASSUME NEW S
    PROVE  /\ 1..0 \subseteq S
           /\ 1..1 \subseteq S <=> 1 \in S
           /\ 1..2 \subseteq S <=> 1 \in S /\ 2 \in S
           /\ 1..3 \subseteq S <=> 1 \in S /\ 2 \in S /\ 3 \in S
           /\ 1..4 \subseteq S <=> 1 \in S /\ 2 \in S /\ 3 \in S /\ 4 \in S
           /\ 1..5 \subseteq S <=> 1 \in S /\ 2 \in S /\ 3 \in S /\ 4 \in S /\ 5 \in S
           /\ 1..6 \subseteq S <=> /\ 1 \in S /\ 2 \in S /\ 3 \in S
                                   /\ 4 \in S /\ 5 \in S /\ 6 \in S
<1>1. /\ 1..0 = {} /\ 1..1 = {1} /\ 1..2 = {1, 2} /\ 1..3 = {1, 2, 3}
      /\ 1..4 = {1, 2, 3, 4} /\ 1..5 = {1, 2, 3, 4, 5} /\ 1..6 = {1, 2, 3, 4, 5, 6}
  OBVIOUS
<1> QED BY ONLY <1>1, Zenon

\* The keys below First are those that no later party has.
LEMMA FirstRows ==
    ASSUME Sizes, NEW p \in Party, NEW j \in Keys
    PROVE  j < First(n)[p] <=> 1 .. n - p \subseteq T_map(n)[j + 1]
<1>1. CASE n = 5
  <2>0. p \in 1..5 /\ j \in 0..5 /\ First(n) = <<0, 0, 1, 3, 6>>
    BY <1>1, Numbers DEF First
  <2> DEFINE S == T_map(5)[j + 1]
  <2>1. j < 6 <=> 1..0 \subseteq S
    BY <2>0
  <2>2. j < 3 <=> 1 \in S
    BY <2>0, Held5
  <2>3. j < 1 <=> 1 \in S /\ 2 \in S
    BY <2>0, Held5
  <2>4. ~(j < 0) /\ ~(1 \in S /\ 2 \in S /\ 3 \in S)
    BY <2>0, Held5
  <2> HIDE DEF S
  <2>5. /\ j < 6 <=> 1..0 \subseteq S
        /\ j < 3 <=> 1..1 \subseteq S
        /\ j < 1 <=> 1..2 \subseteq S
        /\ j < 0 <=> 1..3 \subseteq S
        /\ j < 0 <=> 1..4 \subseteq S
    BY ONLY <2>1, <2>2, <2>3, <2>4, UpTo, Zenon
  <2>6. \/ (p = 1 /\ n - p = 4) \/ (p = 2 /\ n - p = 3) \/ (p = 3 /\ n - p = 2)
        \/ (p = 4 /\ n - p = 1) \/ (p = 5 /\ n - p = 0)
    BY <1>1, <2>0
  <2> QED BY <1>1, <2>0, <2>5, <2>6 DEF S
<1>2. CASE n = 7
  <2>0. p \in 1..7 /\ j \in 0..19 /\ First(n) = <<0, 0, 0, 1, 4, 10, 20>>
    BY <1>2, Numbers DEF First
  <2> DEFINE S == T_map(7)[j + 1]
  <2>1. j < 20 <=> 1..0 \subseteq S
    BY <2>0
  <2>2. j < 10 <=> 1 \in S
    BY <2>0, Held7
  <2>3. j < 4 <=> 1 \in S /\ 2 \in S
    BY <2>0, Held7
  <2>4. j < 1 <=> 1 \in S /\ 2 \in S /\ 3 \in S
    BY <2>0, Held7
  <2>5. ~(j < 0) /\ ~(1 \in S /\ 2 \in S /\ 3 \in S /\ 4 \in S)
    BY <2>0, Held7
  <2> HIDE DEF S
  <2>6. /\ j < 20 <=> 1..0 \subseteq S
        /\ j < 10 <=> 1..1 \subseteq S
        /\ j < 4 <=> 1..2 \subseteq S
        /\ j < 1 <=> 1..3 \subseteq S
        /\ j < 0 <=> 1..4 \subseteq S
        /\ j < 0 <=> 1..5 \subseteq S
        /\ j < 0 <=> 1..6 \subseteq S
    BY ONLY <2>1, <2>2, <2>3, <2>4, <2>5, UpTo, Zenon
  <2>7. \/ (p = 1 /\ n - p = 6) \/ (p = 2 /\ n - p = 5) \/ (p = 3 /\ n - p = 4)
        \/ (p = 4 /\ n - p = 3) \/ (p = 5 /\ n - p = 2) \/ (p = 6 /\ n - p = 1)
        \/ (p = 7 /\ n - p = 0)
    BY <1>2, <2>0
  <2> QED BY <1>2, <2>0, <2>6, <2>7 DEF S
<1> QED BY <1>1, <1>2 DEF Sizes

\* Of the holders of a key, the last subtracts its words.
LEMMA LastHolder ==
    ASSUME Sizes, NEW p \in Party, NEW j \in Keys
    PROVE  j < First(n)[p] <=> \A q \in Party : q > p => q \in Missing(p, j)
<1>1. n \in Nat /\ n \in {5, 7} /\ p \in Nat /\ p >= 1 /\ p <= n /\ Party = 1..n
  BY DEF Sizes, Party
<1>2. ASSUME NEW d \in 1 .. n - p
      PROVE  /\ Off(p, d, n) = p + d /\ p + d \in Party /\ p + d > p
             /\ p + d \in Missing(p, j) <=> d \in T_map(n)[j + 1]
  <2>1. Off(p, d, n) = p + d
    <3>1. p + d - 1 \in 0 .. n - 1 /\ n \in {5, 7}
      BY <1>1
    <3>2. (p + d - 1) % n = p + d - 1
      BY <3>1
    <3> QED BY <1>1, <3>2 DEF Off
  <2>2. d \in 0 .. n - 1
    BY <1>1
  <2>3. Off(p, d, n) \in Missing(p, j) <=> d \in T_map(n)[j + 1]
    BY <2>2, OwnShares
  <2> QED BY <1>1, <2>1, <2>3
<1>3. \A q \in Party : q > p => q - p \in 1 .. n - p /\ p + (q - p) = q
  BY <1>1
<1>4. (\A q \in Party : q > p => q \in Missing(p, j)) <=> 1 .. n - p \subseteq T_map(n)[j + 1]
  <2>1. ASSUME \A q \in Party : q > p => q \in Missing(p, j), NEW d \in 1 .. n - p
        PROVE  d \in T_map(n)[j + 1]
    BY <1>2, <2>1
  <2>2. ASSUME 1 .. n - p \subseteq T_map(n)[j + 1], NEW q \in Party, q > p
        PROVE  q \in Missing(p, j)
    BY <1>2, <1>3, <2>2
  <2> QED BY <2>1, <2>2
<1> QED BY <1>4, FirstRows

\* A set of parties has a last one.
LEMMA Largest ==
    ASSUME NEW S, S # {}, NEW m \in Nat, S \subseteq 1..m
    PROVE  \E h \in S : \A q \in S : q <= h
<1> DEFINE G == {l \in Nat : \A s \in SUBSET (1..l) : s # {} => \E h \in s : \A q \in s : q <= h}
<1>1. 0 \in G
  <2>1. 1..0 = {}
    OBVIOUS
  <2> QED BY <2>1
<1>2. ASSUME NEW l \in Nat, l \in G PROVE l + 1 \in G
  <2> SUFFICES ASSUME NEW s \in SUBSET (1 .. l + 1), s # {}
               PROVE  \E h \in s : \A q \in s : q <= h
    OBVIOUS
  <2>1. CASE l + 1 \in s
    BY <2>1
  <2>2. CASE l + 1 \notin s
    <3>1. s \in SUBSET (1..l)
      BY <2>2
    <3> QED BY <1>2, <3>1
  <2> QED BY <2>1, <2>2
<1> HIDE DEF G
<1>3. m \in G
  BY <1>1, <1>2, Induct
<1> QED BY <1>3 DEF G


\* What the words of a key fill is a ring value.
LEMMA FilledType ==
    ASSUME run \in Cases, NEW p \in Party, NEW j \in Keys, NEW k \in Steps,
           Op(k) = "multpub", NEW i \in Batch
    PROVE  Filled(p, j, k, i) \in Int
<1> DEFINE s == run.size
           R == run.R
           w == Words(j, k)
           f == [l \in Batch |-> (Prg(run.seed, Missing(p, j), w + l) % 2^R) * 2^(R * (l - 1))]
           u == 4 * s * Len(run.program)
           buffer == SumOver(Batch, f)
           g == 2^(W * (i - 1))
<1>1. /\ Sizes /\ s \in Nat \ {0} /\ R \in Nat /\ W \in Nat /\ Batch = 1..s
      /\ w \in Nat /\ w + s <= u /\ u \in Int
  <2>1. /\ Sizes /\ s \in Nat \ {0} /\ R \in Nat /\ W \in Nat /\ Batch = 1..s
        /\ Len(run.program) \in Nat
    BY Program DEF Batch
  <2>2. u \in Int
    BY <2>1
  <2> QED BY <2>1, <2>2, WordsStep
<1>2. /\ p \in 1 .. run.n /\ j \in 0 .. numShares(run.n) - 1
      /\ Missing(p, j) = TSet(p, j, run.n)
  <2>1. Missing(p, j) = TSet(p, j, run.n)
    BY <1>1, MissingIs DEF n, TSet
  <2> QED BY <2>1 DEF Party, Keys, n
<1>3. ASSUME NEW l \in Batch PROVE f[l] \in Int
  <2> DEFINE y == Prg(run.seed, Missing(p, j), w + l)
             m == 2^R
             h == 2^(R * (l - 1))
  <2>1. w + l \in 1..u
    <3> HIDE DEF w, u, s
    <3> QED BY <1>1
  <2>2. y \in Nat
    <3> DEFINE x == w + l
    <3>1. x \in 1 .. 4 * run.size * Len(run.program)
      BY <2>1
    <3> HIDE DEF x
    <3> QED BY <1>2, <3>1, InputAssumption DEF x
  <2>3. m \in Nat \ {0} /\ h \in Nat \ {0}
    <3>1. R * (l - 1) \in Nat
      BY <1>1
    <3> QED BY <1>1, <3>1, PowerPositive
  <2>4. f[l] = (y % m) * h
    OBVIOUS
  <2> HIDE DEF y, m, h, f
  <2>5. (y % m) \in 0 .. m - 1
    BY <2>2, <2>3, Divide
  <2>6. (y % m) \in Int
    BY <2>3, <2>5
  <2> DEFINE z == y % m
  <2>7. z \in Int /\ f[l] = z * h
    BY <2>4, <2>6
  <2> HIDE DEF z
  <2> QED BY <2>3, <2>7
<1>4. buffer \in Int
  <2> HIDE DEF f
  <2> QED BY <1>3, KeysFinite, SumRule
<1>5. g \in Nat \ {0}
  <2>1. W * (i - 1) \in Nat
    BY <1>1
  <2> QED BY <2>1, PowerPositive
<1>6. Filled(p, j, k, i) = Mask(buffer \div g)
  BY DEF Filled
<1> HIDE DEF buffer, g
<1>7. buffer \div g \in Int
  BY <1>4, <1>5, Divide
<1> QED BY <1>6, <1>7, Ring

\* The ring value that the words of the stream of T fill, whichever holder
\* takes them.
Filling(T, k, i) ==
    LET p == CHOOSE p \in Party : p \notin T IN Filled(p, IndexOf(p, T), k, i)

\* Every holder fills its memory with the same words.
LEMMA FillingIs ==
    ASSUME run \in Cases, NEW k \in Steps, Op(k) = "multpub", NEW i \in Batch
    PROVE  /\ \A p \in Party, j \in Keys : Filled(p, j, k, i) = Filling(Missing(p, j), k, i)
           /\ \A T \in Ts : Filling(T, k, i) \in Int
<1>1. Sizes
  BY Program
<1>2. ASSUME NEW T \in Ts, NEW p \in Party, NEW j \in Keys, Missing(p, j) = T
      PROVE  Filled(p, j, k, i) = Filling(T, k, i)
  <2> DEFINE q == CHOOSE q \in Party : q \notin T
             l == IndexOf(q, T)
  <2>1. \E s \in Party : s \notin T
    BY Lacking
  <2>2. q \in Party /\ q \notin T /\ Filling(T, k, i) = Filled(q, l, k, i)
    BY <2>1 DEF Filling
  <2> HIDE DEF q
  <2>3. l \in Keys /\ Missing(q, l) = T
    BY <1>1, <2>2, Complete
  <2> HIDE DEF l
  <2>4. Ctr(j) = Ctr(l)
    BY <1>1, <1>2, <2>2, <2>3, CopiesAlike
  <2>5. Words(j, k) = Words(l, k)
    BY <2>4 DEF Words
  <2> QED BY <1>2, <2>2, <2>3, <2>5 DEF Filled
<1>3. ASSUME NEW T \in Ts PROVE Filling(T, k, i) \in Int
  <2>1. PICK p \in Party, j \in Keys : Missing(p, j) = T
    BY DEF Ts
  <2>2. Filled(p, j, k, i) \in Int
    BY FilledType
  <2> QED BY <1>2, <2>1, <2>2
<1>4. \A p \in Party, j \in Keys : Missing(p, j) \in Ts
  BY <1>1, OwnShares
<1> QED BY <1>2, <1>3, <1>4

\* How often party p adds a word of the stream of T, negative where it subtracts.
Signed(p, T) == IF p \in T THEN 0 ELSE Ops(p, IndexOf(p, T))

\* The last holder subtracts what the t others add.
LEMMA SignsCancel ==
    ASSUME run \in Cases, NEW T \in Ts
    PROVE  /\ \A p \in Party : Signed(p, T) \in Int
           /\ SumOver(Party, [p \in Party |-> Signed(p, T)]) = 0
<1> DEFINE H == Party \ T
           f == [p \in Party |-> Signed(p, T)]
<1>1. /\ Sizes /\ n \in Nat /\ t \in Nat /\ IsFiniteSet(Party) /\ Cardinality(Party) = n
      /\ T \subseteq Party /\ Cardinality(T) = t /\ IsFiniteSet(H) /\ H \in SUBSET Party
      /\ Party = 1..n
  BY Program, Lacking, KeysFinite DEF Party
<1>2. Cardinality(H) = t + 1
  <2>1. Cardinality(H) = Cardinality(Party) - Cardinality(Party \cap T) /\ Party \cap T = T
    BY <1>1, FS_Difference
  <2>2. n = 2 * t + 1
    BY <1>1, Numbers DEF Sizes
  <2>3. Cardinality(H) = n - t
    BY <1>1, <2>1
  <2> HIDE DEF H
  <2> QED BY ONLY <1>1, <2>2, <2>3
<1>3. PICK h \in H : \A q \in H : q <= h
  <2>1. H # {}
    BY Lacking
  <2> HIDE DEF H
  <2>2. H \subseteq 1..n
    BY <1>1
  <2> QED BY <1>1, <2>1, <2>2, Largest
<1>4. ASSUME NEW p \in H PROVE f[p] = IF p = h THEN -t ELSE 1
  <2>1. p \in Party /\ p \notin T /\ IndexOf(p, T) \in Keys /\ Missing(p, IndexOf(p, T)) = T
    BY <1>1, Complete
  <2>2. IndexOf(p, T) < First(n)[p] <=> \A q \in Party : q > p => q \in T
    BY <1>1, <2>1, LastHolder
  <2>3. p \in Int /\ h \in Int /\ \A q \in Party : q \in Int
    BY <1>1, <2>1
  <2>4. (\A q \in Party : q > p => q \in T) <=> p = h
    BY <1>3, <2>1, <2>3
  <2> QED BY <2>1, <2>2, <2>4 DEF Signed, Ops
<1>5. \A p \in Party \ H : f[p] = 0
  BY DEF Signed
<1>6. \A p \in Party : f[p] \in Int
  BY <1>1, <1>4, <1>5
<1> DEFINE one == [p \in H |-> 1]
           off == [p \in H |-> IF p = h THEN -t - 1 ELSE 0]
<1>7. SumOver(Party, f) = SumOver(H, f)
  <2> HIDE DEF f, H
  <2> QED BY <1>1, <1>5, <1>6, SumZero
<1>8. SumOver(H, f) = SumOver(H, one) + SumOver(H, off)
  <2>1. \A p \in H : one[p] \in Int /\ off[p] \in Int /\ f[p] = one[p] + off[p]
    BY <1>1, <1>4
  <2> HIDE DEF f, H, one, off
  <2> QED BY <1>1, <2>1, SumAdd
<1>9. SumOver(H, one) = 1 * Cardinality(H)
  <2>1. 1 \in Int /\ \A p \in H : one[p] = 1
    OBVIOUS
  <2>2. IsFiniteSet(H)
    BY <1>1
  <2> HIDE DEF H, one
  <2> QED BY ONLY <2>1, <2>2, SumConst
<1>10. SumOver(H, off) = -t - 1
  <2>1. -t - 1 \in Int /\ \A p \in H : off[p] = IF p = h THEN -t - 1 ELSE 0
    BY <1>1
  <2> HIDE DEF H, off
  <2> QED BY <1>1, <1>3, <2>1, SumOnce
<1>11. SumOver(Party, f) = 0
  <2> HIDE DEF H, f, one, off
  <2> QED BY ONLY <1>1, <1>2, <1>7, <1>8, <1>9, <1>10
<1> QED BY <1>6, <1>11


\* What the parties add of the streams adds up to nothing.
LEMMA WordsCancel ==
    ASSUME run \in Cases, NEW F, \A T \in Ts : F[T] \in Int, NEW add,
           \A p \in Party : add[p] = SumOver(Ts, [T \in Ts |-> Signed(p, T) * F[T]])
    PROVE  SumOver(Party, add) = 0
<1> DEFINE G == [p \in Party |-> [T \in Ts |-> Signed(p, T) * F[T]]]
           lhs == [p \in Party |-> SumOver(Ts, G[p])]
           rhs == [T \in Ts |-> SumOver(Party, [p \in Party |-> G[p][T]])]
<1>1. IsFiniteSet(Ts) /\ IsFiniteSet(Party) /\ Cardinality(Ts) \in Nat
  BY Lacking, FS_CardinalityType
<1>2. \A p \in Party : \A T \in Ts : G[p][T] \in Int
  <2> TAKE p \in Party
  <2> TAKE T \in Ts
  <2>1. Signed(p, T) \in Int
    BY SignsCancel
  <2> QED BY <2>1
<1>3. SumOver(Party, lhs) = SumOver(Ts, rhs)
  <2>1. IsFiniteSet(Ts) /\ IsFiniteSet(Party)
    BY <1>1
  <2> HIDE DEF G
  <2> QED BY <1>2, <2>1, SumSwap
<1>4. ASSUME NEW T \in Ts PROVE rhs[T] = 0
  <2> DEFINE here == [p \in Party |-> G[p][T]]
             sign == [p \in Party |-> Signed(p, T)]
             c == F[T]
  <2>1. c \in Int /\ \A p \in Party : sign[p] \in Int
    BY SignsCancel
  <2>2. \A p \in Party : here[p] = c * sign[p]
    <3> TAKE p \in Party
    <3> DEFINE s == Signed(p, T)
    <3>1. here[p] = s * c /\ sign[p] = s /\ s \in Int /\ c \in Int
      BY <2>1
    <3> HIDE DEF s, c, here, sign
    <3>2. s * c = c * s
      BY ONLY <3>1
    <3> QED BY <3>1, <3>2
  <2>3. SumOver(Party, sign) = 0
    BY SignsCancel
  <2>4. rhs[T] = SumOver(Party, here)
    OBVIOUS
  <2> HIDE DEF here, sign, c
  <2>5. SumOver(Party, here) = c * SumOver(Party, sign)
    BY <1>1, <2>1, <2>2, SumTimes
  <2> QED BY <2>1, <2>3, <2>4, <2>5
<1>5. SumOver(Ts, rhs) = 0 * Cardinality(Ts)
  <2>1. \A T \in Ts : rhs[T] = 0
    BY <1>4
  <2> HIDE DEF rhs
  <2> QED BY <1>1, <2>1, SumConst
<1>6. SumOver(Party, lhs) = SumOver(Party, add)
  <2>1. ASSUME NEW p \in Party PROVE lhs[p] \in Int /\ lhs[p] = add[p]
    <3> DEFINE row == [T \in Ts |-> Signed(p, T) * F[T]]
    <3>1. G[p] = row
      OBVIOUS
    <3>2. \A T \in Ts : row[T] \in Int
      BY <1>2
    <3> HIDE DEF G
    <3>3. lhs[p] = SumOver(Ts, row)
      BY <3>1
    <3>4. add[p] = SumOver(Ts, row)
      OBVIOUS
    <3> HIDE DEF row, lhs
    <3>5. SumOver(Ts, row) \in Int
      BY <1>1, <3>2, SumRule
    <3> QED BY <3>3, <3>4, <3>5
  <2> HIDE DEF lhs
  <2> QED BY <1>1, <2>1, SumSame
<1> HIDE DEF lhs, rhs
<1> QED BY <1>1, <1>3, <1>5, <1>6

\* What party p adds of the streams it holds.
LEMMA OwnWords ==
    ASSUME run \in Cases, NEW p \in Party, NEW k \in Steps, Op(k) = "multpub", NEW i \in Batch,
           NEW F, \A T \in Ts : F[T] = Filling(T, k, i)
    PROVE  /\ SumOver(Keys, [j \in Keys |-> Ops(p, j) * Filled(p, j, k, i)])
                = SumOver(Ts, [T \in Ts |-> Signed(p, T) * F[T]])
           /\ SumOver(Ts, [T \in Ts |-> Signed(p, T) * F[T]]) \in Int
<1> DEFINE f == [j \in Keys |-> Ops(p, j) * Filled(p, j, k, i)]
           g == [T \in Ts |-> Signed(p, T) * F[T]]
<1>1. Sizes /\ IsFiniteSet(Ts)
  BY Program, Lacking
<1>2. \A T \in Ts : F[T] \in Int /\ Signed(p, T) \in Int
  BY FillingIs, SignsCancel
<1>3. \A T \in Ts : g[T] \in Int
  BY <1>2
<1>4. ASSUME NEW j \in Keys PROVE f[j] = g[Missing(p, j)] /\ Missing(p, j) \in Ts
  <2>1. /\ p \notin Missing(p, j) /\ Missing(p, j) \in Ts
        /\ IndexOf(p, Missing(p, j)) = j
    BY <1>1, OwnShares
  <2>2. Filled(p, j, k, i) = F[Missing(p, j)]
    BY <2>1, FillingIs
  <2> QED BY <2>1, <2>2 DEF Signed
<1>5. ASSUME NEW T \in Ts PROVE (p \notin T /\ IndexOf(p, T) \in Keys) \/ g[T] = 0
  <2>1. CASE p \notin T
    BY <1>1, <2>1, Complete
  <2>2. CASE p \in T
    BY <1>2, <2>2 DEF Signed
  <2> QED BY <2>1, <2>2
<1>6. Keys \in SUBSET Keys
  OBVIOUS
<1>7. \A j \in Keys : f[j] \in Int /\ f[j] = g[Missing(p, j)]
  <2> HIDE DEF f, g
  <2> QED BY <1>3, <1>4
<1> HIDE DEF f, g
<1>8. SumOver(Keys, f) = SumOver(Ts, g)
  BY <1>3, <1>5, <1>6, <1>7, OwnTs
<1>9. SumOver(Ts, g) \in Int
  BY <1>1, <1>3, SumRule
<1> QED BY <1>8, <1>9 DEF f, g

\* One value of a publication: A and B are the shares of the operands, a[p] and
\* b[p] the copies that party p has, pub[p] what it sends.
Published(k, i, A, B, a, b, pub) ==
    /\ k \in Steps /\ Op(k) = "multpub" /\ i \in Batch
    /\ \A T \in Ts : A[T] \in Int /\ B[T] \in Int
    /\ \A p \in Party : a[p] \in Share /\ b[p] \in Share
    /\ \A p \in Party, j \in Keys :
          /\ Mask(a[p][j][i]) = Mask(A[Missing(p, j)])
          /\ Mask(b[p][j][i]) = Mask(B[Missing(p, j)])
    /\ \A p \in Party : pub[p] = Mask(Local(a[p], b[p], i)
          + SumOver(Keys, [j \in Keys |-> Ops(p, j) * Filled(p, j, k, i)]))

\* What all the parties publish adds up to the product.
LEMMA PublicSum ==
    ASSUME run \in Cases, NEW k, NEW i, NEW A, NEW B, NEW a, NEW b, NEW pub,
           Published(k, i, A, B, a, b, pub)
    PROVE  /\ \A p \in Party : pub[p] \in Int
           /\ Mask(SumOver(Party, pub)) = Mask(SumOver(Ts, A) * SumOver(Ts, B))
<1> USE DEF Published
<1> DEFINE F == [T \in Ts |-> Filling(T, k, i)]
           part == [p \in Party |-> SumOver(Ts, Part(p, A, B))]
           add == [p \in Party |-> SumOver(Ts, [T \in Ts |-> Signed(p, T) * F[T]])]
           both == [p \in Party |-> part[p] + add[p]]
<1>1. Sizes /\ IsFiniteSet(Ts) /\ IsFiniteSet(Party)
  BY Program, Lacking
<1>2. \A T \in Ts : F[T] = Filling(T, k, i) /\ F[T] \in Int
  BY FillingIs
<1>3. ASSUME NEW p \in Party
      PROVE  /\ part[p] \in Int /\ add[p] \in Int
             /\ add[p] = SumOver(Keys, [j \in Keys |-> Ops(p, j) * Filled(p, j, k, i)])
  <2>1. \A T \in Ts : Part(p, A, B)[T] \in Int
    BY PartType
  <2>2. SumOver(Ts, Part(p, A, B)) \in Int
    BY <1>1, <2>1, SumRule
  <2>3. k \in Steps /\ Op(k) = "multpub" /\ i \in Batch
    OBVIOUS
  <2> HIDE DEF F
  <2>4. /\ SumOver(Keys, [j \in Keys |-> Ops(p, j) * Filled(p, j, k, i)])
             = SumOver(Ts, [T \in Ts |-> Signed(p, T) * F[T]])
        /\ SumOver(Ts, [T \in Ts |-> Signed(p, T) * F[T]]) \in Int
    BY <1>2, <2>3, OwnWords
  <2> QED BY <2>2, <2>4
<1>4. ASSUME NEW p \in Party
      PROVE  pub[p] \in Int /\ both[p] \in Int /\ Mask(pub[p]) = Mask(both[p])
  <2> DEFINE x == Local(a[p], b[p], i)
             y == part[p]
             z == add[p]
  <2>1. x \in Int /\ y \in Int /\ z \in Int
    BY <1>3, LocalType
  <2>2. Mask(x) = Mask(y)
    <3>1. /\ a[p] \in Share /\ b[p] \in Share
          /\ \A j \in Keys : /\ Mask(a[p][j][i]) = Mask(A[Missing(p, j)])
                             /\ Mask(b[p][j][i]) = Mask(B[Missing(p, j)])
      OBVIOUS
    <3>2. Mask(x) = Mask(SumOver(Ts, Part(p, A, B)))
      BY <3>1, LocalIs
    <3> QED BY <3>2
  <2>3. pub[p] = Mask(x + z)
    BY <1>3
  <2>4. both[p] = y + z
    OBVIOUS
  <2> HIDE DEF x, y, z, both
  <2>5. Mask(x + z) = Mask(y + z)
    BY <2>1, <2>2, MaskOps
  <2>6. Mask(x + z) \in Int /\ Mask(Mask(x + z)) = Mask(x + z)
    <3>1. x + z \in Int
      BY <2>1
    <3> QED BY <3>1, Ring
  <2> QED BY <2>1, <2>3, <2>4, <2>5, <2>6
<1>5. Mask(SumOver(Party, pub)) = Mask(SumOver(Party, both))
  <2> HIDE DEF both
  <2> QED BY <1>1, <1>4, SumMask
<1>6. SumOver(Party, both) = SumOver(Party, part) + SumOver(Party, add)
  <2>1. \A p \in Party : part[p] \in Int /\ add[p] \in Int /\ both[p] = part[p] + add[p]
    BY <1>3
  <2> HIDE DEF both, part, add
  <2> QED BY <1>1, <2>1, SumAdd
<1>7. SumOver(Party, part) = SumOver(Ts, A) * SumOver(Ts, B)
  BY PartsSum
<1>8. SumOver(Party, add) = 0
  <2> HIDE DEF F
  <2> QED BY <1>2, WordsCancel
<1>9. SumOver(Party, part) \in Int
  <2>1. \A p \in Party : part[p] \in Int
    BY <1>3
  <2> HIDE DEF part
  <2> QED BY <1>1, <2>1, SumRule
<1>10. SumOver(Party, both) = SumOver(Party, part)
  <2> HIDE DEF both, part, add
  <2> QED BY <1>6, <1>8, <1>9
<1> HIDE DEF both, part
<1> QED BY <1>4, <1>5, <1>7, <1>10


-----------------------------------------------------------------------------
(***************************************************************************)
(* The algebra of Rss_Open with five parties.                              *)
(***************************************************************************)
\* Party q adds its share of T up when it adds up the shares at the indices S.
Adds(q, S, T) == q \notin T /\ IndexOf(q, T) \in S

\* As a matter of which shares these are.
LEMMA AddsIs ==
    ASSUME Sizes, NEW q \in Party, NEW S \in SUBSET Keys, NEW T \in Ts
    PROVE  Adds(q, S, T) <=> \E j \in S : T = Missing(q, j)
<1>1. ASSUME Adds(q, S, T) PROVE \E j \in S : T = Missing(q, j)
  BY <1>1, Complete DEF Adds
<1>2. ASSUME NEW j \in S, T = Missing(q, j) PROVE Adds(q, S, T)
  BY <1>2, OwnShares DEF Adds
<1> QED BY <1>1, <1>2

\* A share that a party lacks is added up by one of its two neighbours and not
\* by the other; the shares it has, by neither.
LEMMA Neighbours ==
    ASSUME run \in Cases, n = 5, NEW p \in Party, NEW T \in Ts
    PROVE  LET before == Adds(Off(p, 4, 5), {0, 1}, T)
               after == Adds(Off(p, 1, 5), {4, 5}, T) IN
           /\ p \notin T => ~before /\ ~after
           /\ p \in T => (before <=> ~after)
<1> DEFINE b == Off(p, 4, 5)
           a == Off(p, 1, 5)
           o(d) == Off(p, d, 5)
<1>1. Sizes /\ Keys = 0..5 /\ t = 2
  BY Program, Numbers
<1>2. b \in Party /\ a \in Party
  <2>1. \A d \in Nat : Off(p, d, n) \in Party
    BY <1>1, Offsets
  <2> QED BY <2>1
<1>3. /\ Off(b, 1, 5) = p /\ Off(b, 2, 5) = o(1) /\ Off(b, 3, 5) = o(2)
      /\ Off(a, 2, 5) = o(3) /\ Off(a, 3, 5) = o(4) /\ Off(a, 4, 5) = p
  <2>1. Off(p, 0, 5) = p
    BY <1>1, Offsets
  <2>2. /\ Off(Off(p, 4, n), 1, n) = Off(p, IF 4 + 1 < n THEN 4 + 1 ELSE 4 + 1 - n, n)
        /\ Off(Off(p, 4, n), 2, n) = Off(p, IF 4 + 2 < n THEN 4 + 2 ELSE 4 + 2 - n, n)
        /\ Off(Off(p, 4, n), 3, n) = Off(p, IF 4 + 3 < n THEN 4 + 3 ELSE 4 + 3 - n, n)
        /\ Off(Off(p, 1, n), 2, n) = Off(p, IF 1 + 2 < n THEN 1 + 2 ELSE 1 + 2 - n, n)
        /\ Off(Off(p, 1, n), 3, n) = Off(p, IF 1 + 3 < n THEN 1 + 3 ELSE 1 + 3 - n, n)
        /\ Off(Off(p, 1, n), 4, n) = Off(p, IF 1 + 4 < n THEN 1 + 4 ELSE 1 + 4 - n, n)
    <3>1. 1 \in 0 .. n-1 /\ 2 \in 0 .. n-1 /\ 3 \in 0 .. n-1 /\ 4 \in 0 .. n-1
      OBVIOUS
    <3> QED BY <1>1, <3>1, OffsetSum
  <2>3. /\ (IF 4 + 1 < 5 THEN 4 + 1 ELSE 4 + 1 - 5) = 0
        /\ (IF 4 + 2 < 5 THEN 4 + 2 ELSE 4 + 2 - 5) = 1
        /\ (IF 4 + 3 < 5 THEN 4 + 3 ELSE 4 + 3 - 5) = 2
        /\ (IF 1 + 2 < 5 THEN 1 + 2 ELSE 1 + 2 - 5) = 3
        /\ (IF 1 + 3 < 5 THEN 1 + 3 ELSE 1 + 3 - 5) = 4
        /\ (IF 1 + 4 < 5 THEN 1 + 4 ELSE 1 + 4 - 5) = 0
    OBVIOUS
  <2> QED BY <2>1, <2>2, <2>3
<1>4. /\ Missing(b, 0) = {p, o(1)} /\ Missing(b, 1) = {p, o(2)}
      /\ Missing(a, 4) = {p, o(3)} /\ Missing(a, 5) = {p, o(4)}
  <2>1. \A q \in Party, j \in Keys : Missing(q, j) = {Off(q, d, 5) : d \in T_map(5)[j + 1]}
    BY <1>1, MissingIs
  <2>2. /\ Missing(b, 0) = {Off(b, d, 5) : d \in {1, 2}}
        /\ Missing(b, 1) = {Off(b, d, 5) : d \in {1, 3}}
        /\ Missing(a, 4) = {Off(a, d, 5) : d \in {2, 4}}
        /\ Missing(a, 5) = {Off(a, d, 5) : d \in {3, 4}}
    <3> HIDE DEF a, b
    <3>1. 0 \in Keys /\ 1 \in Keys /\ 4 \in Keys /\ 5 \in Keys
      BY <1>1
    <3>2. /\ T_map(5)[0 + 1] = {1, 2} /\ T_map(5)[1 + 1] = {1, 3}
          /\ T_map(5)[4 + 1] = {2, 4} /\ T_map(5)[5 + 1] = {3, 4}
      BY Held5
    <3> QED BY <1>2, <2>1, <3>1, <3>2
  <2> HIDE DEF a, b, o
  <2> QED BY <1>3, <2>2
<1>5. /\ Adds(b, {0, 1}, T) <=> T = Missing(b, 0) \/ T = Missing(b, 1)
      /\ Adds(a, {4, 5}, T) <=> T = Missing(a, 4) \/ T = Missing(a, 5)
  <2>1. {0, 1} \in SUBSET Keys /\ {4, 5} \in SUBSET Keys
    BY <1>1
  <2> HIDE DEF a, b
  <2>2. /\ Adds(b, {0, 1}, T) <=> \E j \in {0, 1} : T = Missing(b, j)
        /\ Adds(a, {4, 5}, T) <=> \E j \in {4, 5} : T = Missing(a, j)
    BY <1>1, <1>2, <2>1, AddsIs
  <2> QED BY <2>2
<1>6. ASSUME p \in T PROVE \E e \in 1..4 : T = {p, o(e)}
  <2>1. PICK s \in Party, j \in Keys : T = Missing(s, j)
    BY DEF Ts
  <2>2. \E c, d \in 1..4 : T_map(5)[j + 1] = {c, d}
    <3>1. j \in {0, 1, 2, 3, 4, 5}
      BY <1>1
    <3> QED BY <3>1, Held5
  <2>3. PICK c, d \in 1..4 : T_map(5)[j + 1] = {c, d}
    BY <2>2
  <2>4. T = {Off(s, c, 5), Off(s, d, 5)}
    <3>1. T = {Off(s, x, 5) : x \in T_map(5)[j + 1]}
      BY <1>1, <2>1, MissingIs
    <3> QED BY <2>3, <3>1
  <2>5. T \subseteq Party /\ Cardinality(T) = 2
    BY <1>1, Lacking
  <2>6. PICK q \in Party : T = {p, q}
    BY <1>6, <2>4, <2>5
  <2>7. q # p
    <3>1. SUFFICES ASSUME q = p PROVE FALSE
      OBVIOUS
    <3>2. T = {p}
      BY <2>6, <3>1
    <3>3. Cardinality({p}) = 1
      BY FS_Singleton
    <3> QED BY <2>5, <3>2, <3>3
  <2>8. PICK e \in 0 .. n - 1 : q = Off(p, e, n)
    BY <1>1, Offsets
  <2>9. e # 0
    BY <1>1, <2>7, <2>8, Offsets
  <2> QED BY <2>6, <2>8, <2>9
<1>7. \A d, e \in 0..4 : o(d) = o(e) => d = e
  <2>1. \A d, e \in 0 .. n - 1 : Off(p, d, n) = Off(p, e, n) => d = e
    BY <1>1, Offsets
  <2>2. 0 .. n - 1 = 0..4
    OBVIOUS
  <2> QED BY <2>1, <2>2
<1>8. p = o(0)
  BY <1>1, Offsets
<1> HIDE DEF a, b, o
<1>9. ASSUME NEW d \in 1..4, NEW e \in 1..4, {p, o(d)} = {p, o(e)} PROVE d = e
  <2>1. o(d) # p /\ o(e) # p
    BY <1>7, <1>8
  <2>2. o(d) = o(e)
    BY <1>9, <2>1
  <2> QED BY <1>7, <2>2
<1>10. (Adds(b, {0, 1}, T) \/ Adds(a, {4, 5}, T)) => p \in T
  BY <1>4, <1>5
<1>11. ASSUME NEW e \in 1..4, T = {p, o(e)}
       PROVE  /\ Adds(b, {0, 1}, T) <=> e \in {1, 2}
              /\ Adds(a, {4, 5}, T) <=> e \in {3, 4}
  <2>1. \A d \in 1..4 : T = {p, o(d)} <=> e = d
    BY <1>9, <1>11
  <2> QED BY <1>4, <1>5, <2>1
<1> QED BY <1>6, <1>10, <1>11 DEF a, b


\* What party q adds up, in the ring.
LEMMA AddedUp ==
    ASSUME run \in Cases, NEW q \in Party, NEW S \in SUBSET Keys, NEW i \in Batch,
           NEW A, \A T \in Ts : A[T] \in Int, NEW a \in Share,
           \A j \in Keys : Mask(a[j][i]) = Mask(A[Missing(q, j)]),
           NEW g, \A T \in Ts : g[T] = IF Adds(q, S, T) THEN A[T] ELSE 0
    PROVE  /\ SumOver(S, [j \in Keys |-> a[j][i]]) \in Int
           /\ SumOver(Ts, g) \in Int
           /\ Mask(SumOver(S, [j \in Keys |-> a[j][i]])) = Mask(SumOver(Ts, g))
<1> DEFINE f == [j \in Keys |-> a[j][i]]
           h == [j \in Keys |-> A[Missing(q, j)]]
<1>1. Sizes /\ IsFiniteSet(Ts) /\ IsFiniteSet(S)
  BY Program, Lacking, KeysFinite
<1>2. \A j \in Keys : /\ Missing(q, j) \in Ts /\ q \notin Missing(q, j)
                      /\ IndexOf(q, Missing(q, j)) = j
  BY <1>1, OwnShares
<1>3. \A j \in S : f[j] \in Int /\ h[j] \in Int /\ Mask(f[j]) = Mask(h[j])
  BY <1>2, Masks DEF Share
<1>4. \A j \in S : h[j] = g[Missing(q, j)]
  <2> TAKE j \in S
  <2>1. j \in Keys
    OBVIOUS
  <2>2. Adds(q, S, Missing(q, j)) /\ Missing(q, j) \in Ts
    BY <1>2, <2>1 DEF Adds
  <2> QED BY <2>1, <2>2
<1>5. \A T \in Ts : g[T] \in Int /\ ((q \notin T /\ IndexOf(q, T) \in S) \/ g[T] = 0)
  BY DEF Adds
<1> HIDE DEF f, h
<1>6. SumOver(S, h) = SumOver(Ts, g)
  BY <1>3, <1>4, <1>5, OwnTs
<1>7. SumOver(S, f) \in Int
  BY <1>1, <1>3, SumRule
<1>8. SumOver(Ts, g) \in Int
  BY <1>1, <1>5, SumRule
<1>9. Mask(SumOver(S, f)) = Mask(SumOver(S, h))
  BY <1>1, <1>3, SumMask
<1> QED BY <1>6, <1>7, <1>8, <1>9 DEF f

\* One value that party p opens: A is the shares of the register, a[q] the
\* copies that q has, msg what p reads from the parties before and after it.
Revealed(p, i, A, a, msg) ==
    /\ p \in Party /\ i \in Batch /\ \A T \in Ts : A[T] \in Int
    /\ \A q \in {p, Off(p, 4, 5), Off(p, 1, 5)} :
          /\ q \in Party /\ a[q] \in Share
          /\ \A j \in Keys : Mask(a[q][j][i]) = Mask(A[Missing(q, j)])
    /\ msg[1] = Mask(SumOver({0, 1}, [j \in Keys |-> a[Off(p, 4, 5)][j][i]]))
    /\ msg[2] = Mask(SumOver({4, 5}, [j \in Keys |-> a[Off(p, 1, 5)][j][i]]))

\* What a party adds up when it opens a register is the secret.
LEMMA OpeningSum ==
    ASSUME run \in Cases, n = 5, NEW p, NEW i, NEW A, NEW a, NEW msg,
           Revealed(p, i, A, a, msg)
    PROVE  Mask(SumOver(Keys, [j \in Keys |-> a[p][j][i]]) + SumOver(1..t, msg))
             = Mask(SumOver(Ts, A))
<1> USE DEF Revealed
<1> DEFINE b == Off(p, 4, 5)
           c == Off(p, 1, 5)
           sum(q, S) == SumOver(S, [j \in Keys |-> a[q][j][i]])
           own == [T \in Ts |-> IF Adds(p, Keys, T) THEN A[T] ELSE 0]
           one == [T \in Ts |-> IF Adds(b, {0, 1}, T) THEN A[T] ELSE 0]
           two == [T \in Ts |-> IF Adds(c, {4, 5}, T) THEN A[T] ELSE 0]
           rest == [T \in Ts |-> one[T] + two[T]]
<1>1. Sizes /\ IsFiniteSet(Ts) /\ t = 2 /\ Keys = 0..5
  BY Program, Lacking, Numbers
<1>2. p \in Party /\ b \in Party /\ c \in Party /\ a[p] \in Share /\ a[b] \in Share /\ a[c] \in Share
  OBVIOUS
<1>3. ASSUME NEW q \in {p, b, c}, NEW S \in SUBSET Keys, NEW g,
             \A T \in Ts : g[T] = IF Adds(q, S, T) THEN A[T] ELSE 0
      PROVE  /\ sum(q, S) \in Int /\ SumOver(Ts, g) \in Int
             /\ Mask(sum(q, S)) = Mask(SumOver(Ts, g))
  <2>1. /\ q \in Party /\ a[q] \in Share /\ i \in Batch /\ \A T \in Ts : A[T] \in Int
        /\ \A j \in Keys : Mask(a[q][j][i]) = Mask(A[Missing(q, j)])
    OBVIOUS
  <2> QED BY ONLY run \in Cases, <1>3, <2>1, AddedUp
<1> DEFINE x == sum(p, Keys)
           y == sum(b, {0, 1})
           z == sum(c, {4, 5})
           X == SumOver(Ts, own)
           Y == SumOver(Ts, one)
           V == SumOver(Ts, two)
<1>4. x \in Int /\ X \in Int /\ Mask(x) = Mask(X)
  <2>1. \A T \in Ts : own[T] = IF Adds(p, Keys, T) THEN A[T] ELSE 0
    OBVIOUS
  <2> HIDE DEF own, sum
  <2> QED BY <1>3, <2>1
<1>5. y \in Int /\ Y \in Int /\ Mask(y) = Mask(Y)
  <2>1. \A T \in Ts : one[T] = IF Adds(b, {0, 1}, T) THEN A[T] ELSE 0
    OBVIOUS
  <2>2. {0, 1} \in SUBSET Keys
    BY <1>1
  <2> HIDE DEF one, sum, b
  <2> QED BY <1>3, <2>1, <2>2
<1>6. z \in Int /\ V \in Int /\ Mask(z) = Mask(V)
  <2>1. \A T \in Ts : two[T] = IF Adds(c, {4, 5}, T) THEN A[T] ELSE 0
    OBVIOUS
  <2>2. {4, 5} \in SUBSET Keys
    BY <1>1
  <2> HIDE DEF two, sum, c
  <2> QED BY <1>3, <2>1, <2>2
<1>7. ASSUME NEW T \in Ts
      PROVE  /\ own[T] \in Int /\ one[T] \in Int /\ two[T] \in Int
             /\ A[T] = own[T] + rest[T] /\ rest[T] = one[T] + two[T]
  <2>1. Adds(p, Keys, T) <=> p \notin T
    BY <1>1, <1>2, Complete DEF Adds
  <2>2. /\ p \notin T => ~Adds(b, {0, 1}, T) /\ ~Adds(c, {4, 5}, T)
        /\ p \in T => (Adds(b, {0, 1}, T) <=> ~Adds(c, {4, 5}, T))
    BY <1>2, Neighbours
  <2>3. A[T] \in Int
    OBVIOUS
  <2> HIDE DEF b, c
  <2> QED BY <2>1, <2>2, <2>3
<1>8. SumOver(Ts, A) = X + (Y + V)
  <2>1. \A T \in Ts : /\ own[T] \in Int /\ one[T] \in Int /\ two[T] \in Int
                      /\ rest[T] \in Int /\ A[T] = own[T] + rest[T] /\ rest[T] = one[T] + two[T]
    BY <1>7
  <2> HIDE DEF own, one, two, rest
  <2>2. SumOver(Ts, rest) = Y + V
    BY <1>1, <2>1, SumAdd
  <2>3. SumOver(Ts, A) = X + SumOver(Ts, rest)
    BY <1>1, <2>1, SumAdd
  <2> QED BY <2>2, <2>3
<1>9. msg[1] = Mask(y) /\ msg[2] = Mask(z)
  OBVIOUS
<1> HIDE DEF x, y, z, X, Y, V, sum, own, one, two, rest, b, c
<1>10. msg[1] \in Int /\ msg[2] \in Int /\ Mask(msg[1]) = Mask(Y) /\ Mask(msg[2]) = Mask(V)
  BY ONLY <1>5, <1>6, <1>9, Ring
<1>11. SumOver(1..t, msg) = msg[2] + msg[1]
  <2> DEFINE S == 1..t
             e == {1}
  <2>1. /\ IsFiniteSet(S) /\ \A m \in S : msg[m] \in Int
        /\ e \in SUBSET S /\ 2 \in S \ e /\ e \union {2} = S
    <3>1. IsFiniteSet(S)
      BY KeysFinite
    <3>2. S = {1, 2}
      BY <1>1
    <3> HIDE DEF S
    <3> QED BY <1>10, <3>1, <3>2
  <2> HIDE DEF S, e
  <2>2. SumOver(e \union {2}, msg) = msg[2] + SumOver(e, msg)
    BY ONLY <2>1, SumMore
  <2>3. SumOver({1}, msg) = msg[1]
    <3>1. IsFiniteSet({1}) /\ \A m \in {1} : msg[m] \in Int
      BY <1>10, FS_Singleton
    <3> QED BY <3>1, SumRule
  <2> QED BY <2>1, <2>2, <2>3 DEF e, S
<1> DEFINE m1 == msg[1]
           m2 == msg[2]
<1>12. m1 \in Int /\ m2 \in Int /\ Mask(m1) = Mask(Y) /\ Mask(m2) = Mask(V)
  BY <1>10
<1>13. x = SumOver(Keys, [j \in Keys |-> a[p][j][i]])
  BY DEF x, sum
<1>14. SumOver(1..t, msg) = m2 + m1
  BY <1>11
<1> HIDE DEF m1, m2
<1>15. Mask(m2 + m1) = Mask(V + Y) /\ m2 + m1 \in Int /\ V + Y \in Int
  <2>1. Mask(m2 + m1) = Mask(V + Y)
    BY ONLY <1>5, <1>6, <1>12, MaskOps
  <2>2. m2 + m1 \in Int /\ V + Y \in Int
    BY ONLY <1>5, <1>6, <1>12
  <2> QED BY <2>1, <2>2
<1>16. Mask(x + (m2 + m1)) = Mask(X + (V + Y))
  <2> DEFINE s == m2 + m1
             r == V + Y
  <2>1. s \in Int /\ r \in Int /\ Mask(s) = Mask(r)
    BY <1>15
  <2> HIDE DEF s, r
  <2>2. Mask(x + s) = Mask(X + s)
    BY ONLY <1>4, <2>1, MaskLeft
  <2>3. Mask(X + s) = Mask(X + r)
    BY ONLY <1>4, <2>1, MaskLeft
  <2>4. Mask(x + s) = Mask(X + r)
    BY <2>2, <2>3
  <2> QED BY <2>4 DEF s, r
<1>17. V + Y = Y + V
  BY ONLY <1>5, <1>6
<1> QED BY ONLY <1>8, <1>13, <1>14, <1>16, <1>17


-----------------------------------------------------------------------------
(***************************************************************************)
(* Results.                                                                *)
(***************************************************************************)
\* The programs that the code computes: Rss_Open is called with five parties,
\* and the words of a Rss_MultPub reach the last bit that it uses.
Supported ==
    /\ n = 7 => \A k \in Steps : Op(k) # "open"
    /\ \A k \in Steps : Exact(k)

\* The program does not change.
LEMMA SupportedStays ==
    ASSUME Supported, run' = run
    PROVE  Supported'
  BY Frame DEF Supported, n

\* Party p and those it gets a batch from for instruction k have come to it.
Supplied(p, k) ==
    /\ k <= pc[p]
    /\ IF Op(k) = "open" THEN \A m \in 1..t : k <= pc[Off(p, Peers("open").from[m], n)]
       ELSE \A q \in Party : k <= pc[q]

\* A party that has left an instruction had all it needed.
LEMMA Ready ==
    ASSUME IInv, NEW p \in Party, NEW k \in Steps, Op(k) # "mult", k < pc[p]
    PROVE  Supplied(p, k)
<1>1. Sizes /\ run \in Cases /\ TypeOK
  BY Program DEF IInv, TypeOK
<1>2. \A q \in Party : pc[q] \in Int /\ k \in Int
  BY <1>1, Entries DEF Steps
<1>3. Op(k) \in {"open", "multpub"}
  BY <1>1, Program
<1>4. ASSUME NEW q \in Party, p # q, HasRead(p, q, k) PROVE k <= pc[q]
  <2>1. HasSent(q, p, k)
    BY <1>4 DEF IInv, Causal
  <2> QED BY <1>2, <2>1 DEF HasSent
<1>5. CASE Op(k) = "open"
  <2> SUFFICES ASSUME NEW m \in 1..t PROVE k <= pc[Off(p, Peers("open").from[m], n)]
    BY <1>2, <1>5 DEF Supplied
  <2>1. Off(p, Peers("open").from[m], n) \in Party \ {p}
    <3>1. \A op \in Pairwise : Off(p, Peers(op).from[m], n) \in Party \ {p}
      BY <1>1, PeersMeet
    <3> QED BY <3>1 DEF Pairwise
  <2>2. HasRead(p, Off(p, Peers("open").from[m], n), k)
    BY <1>5 DEF HasRead
  <2> QED BY <1>4, <2>1, <2>2
<1>6. CASE Op(k) = "multpub"
  <2> SUFFICES ASSUME NEW q \in Party PROVE k <= pc[q]
    BY <1>2, <1>6 DEF Supplied
  <2>1. CASE q = p
    BY <1>2, <2>1
  <2>2. CASE q # p
    <3>1. HasRead(p, q, k)
      BY <1>6 DEF HasRead
    <3> QED BY <1>4, <2>2, <3>1
  <2> QED BY <2>1, <2>2
<1> QED BY <1>3, <1>5, <1>6

\* The copies that enough parties have of an operand.
LEMMA OperandSecret ==
    ASSUME IInv, NEW k \in Steps, NEW Q \in SUBSET Party, Cardinality(Q) > t,
           \A q \in Q : k <= pc[q], NEW r \in {run.program[k].x, run.program[k].y}
    PROVE  /\ r \in Registers /\ Cardinality(Holders(r)) > t /\ Q \subseteq Holders(r)
           /\ \A q \in Q : shares[q][r] \in Share
           /\ Secret(r) = [i \in Batch |-> Mask(SumOver(Ts, [T \in Ts |-> Copy(r, T, i)]))]
           /\ \A i \in Batch, T \in Ts : Copy(r, T, i) \in Int
           /\ \A i \in Batch, q \in Q, j \in Keys :
                 Mask(shares[q][r][j][i]) = Mask(Copy(r, Missing(q, j), i))
<1>1. Sizes /\ run \in Cases /\ TypeOK /\ Known /\ t \in Nat
  BY Program DEF IInv, TypeOK
<1>2. \A q \in Q : r \in Registers /\ shares[q][r] \in Share
  BY <1>1, Operands
<1>3. Q # {}
  BY <1>1, FS_EmptySet
<1>4. r \in Registers
  BY <1>2, <1>3
<1>5. Q \subseteq Holders(r)
  BY <1>1, <1>2, UnknownIs DEF Holders
<1>6. Cardinality(Holders(r)) > t
  <2>1. Holders(r) \in SUBSET Party
    BY DEF Holders
  <2>2. IsFiniteSet(Holders(r))
    BY <1>1, <2>1, KeysFinite
  <2>3. /\ Cardinality(Q) <= Cardinality(Holders(r)) /\ Cardinality(Q) \in Nat
        /\ Cardinality(Holders(r)) \in Nat
    BY <1>5, <2>2, FS_Subset, FS_CardinalityType
  <2> QED BY <1>1, <2>3
<1>7. /\ Secret(r) = [i \in Batch |-> Mask(SumOver(Ts, [T \in Ts |-> Copy(r, T, i)]))]
      /\ \A i \in Batch, T \in Ts : Copy(r, T, i) \in Int
      /\ \A i \in Batch, p \in Holders(r), T \in Ts :
            p \notin T => Mask(shares[p][r][IndexOf(p, T)][i]) = Mask(Copy(r, T, i))
  BY <1>4, <1>6, SecretIs
<1>8. ASSUME NEW i \in Batch, NEW q \in Q, NEW j \in Keys
      PROVE  Mask(shares[q][r][j][i]) = Mask(Copy(r, Missing(q, j), i))
  <2>1. /\ q \notin Missing(q, j) /\ Missing(q, j) \in Ts
        /\ IndexOf(q, Missing(q, j)) = j
    BY <1>1, OwnShares
  <2> QED BY <1>5, <1>7, <2>1
<1> QED BY <1>2, <1>4, <1>5, <1>6, <1>7, <1>8


\* A party opens to those that read from it.
LEMMA OpenPeers ==
    ASSUME Sizes, NEW p \in Party, NEW q \in Party, NEW m \in 1..t
    PROVE  p = Off(q, Peers("open").to[m], n) <=> q = Off(p, Peers("open").from[m], n)
<1>1. \A op \in Pairwise, s \in Party :
         s = Off(q, Peers(op).to[m], n) <=> q = Off(s, Peers(op).from[m], n)
  BY PeersMeet
<1> QED BY <1>1 DEF Pairwise

\* What five parties open is the secret.
LEMMA OpenShown ==
    ASSUME IInv, n = 5, NEW p \in Party, NEW k \in Steps, Op(k) = "open", Supplied(p, k)
    PROVE  LET s == run.program[k] IN
           /\ s.x \in Registers /\ s.y \in Registers
           /\ Cardinality(Holders(s.x)) > t /\ Cardinality(Holders(s.y)) > t
           /\ Shown(p, k) = Secret(s.x)
<1> DEFINE x == run.program[k].x
           y == run.program[k].y
           b == Off(p, 4, 5)
           c == Off(p, 1, 5)
           Q == {p, b, c}
<1>1. Sizes /\ run \in Cases /\ TypeOK /\ Known /\ t = 2
  BY Program, Numbers DEF IInv, TypeOK
<1>2. /\ Peers("open").from[1] = 4 /\ Peers("open").from[2] = 1
      /\ Peers("open").to[1] = 1 /\ Peers("open").to[2] = 4
      /\ Peers("open").share[1] = {0, 1} /\ Peers("open").share[2] = {4, 5}
  BY DEF Peers
<1>3. /\ b \in Party /\ c \in Party /\ p # b /\ p # c /\ b # c
      /\ p = Off(b, Peers("open").to[1], n) /\ p = Off(c, Peers("open").to[2], n)
  <2>1. \A d \in Nat : Off(p, d, n) \in Party
    BY <1>1, Offsets
  <2>2. Off(p, 0, n) = p
    BY <1>1, Offsets
  <2>3. \A d, e \in 0 .. n - 1 : Off(p, d, n) = Off(p, e, n) => d = e
    BY <1>1, Offsets
  <2>4. \A m \in 1..t, q \in Party :
           p = Off(q, Peers("open").to[m], n) <=> q = Off(p, Peers("open").from[m], n)
    BY <1>1, OpenPeers
  <2>5. b \in Party /\ c \in Party /\ p # b /\ p # c /\ b # c
    BY <2>1, <2>2, <2>3
  <2>6. 1 \in 1..t /\ 2 \in 1..t
    BY <1>1
  <2> QED BY <1>2, <2>4, <2>5, <2>6
<1>4. \A q \in Q : k <= pc[q]
  <2>1. 1 \in 1..t /\ 2 \in 1..t
    BY <1>1
  <2>2. k <= pc[p] /\ k <= pc[Off(p, Peers("open").from[1], n)]
        /\ k <= pc[Off(p, Peers("open").from[2], n)]
    BY <2>1 DEF Supplied
  <2> QED BY <1>2, <2>2
<1>5. Q \in SUBSET Party /\ Cardinality(Q) > t
  <2> HIDE DEF b, c
  <2>1. Cardinality(Q) = 3
    BY <1>3, TwoOrThree
  <2> QED BY <1>1, <1>3, <2>1
<1> HIDE DEF b, c, Q
<1>6. /\ x \in Registers /\ y \in Registers
      /\ Cardinality(Holders(x)) > t /\ Cardinality(Holders(y)) > t
  BY <1>4, <1>5, OperandSecret
<1>7. /\ \A q \in Q : shares[q][x] \in Share
      /\ Secret(x) = [i \in Batch |-> Mask(SumOver(Ts, [T \in Ts |-> Copy(x, T, i)]))]
      /\ \A i \in Batch, T \in Ts : Copy(x, T, i) \in Int
      /\ \A i \in Batch, q \in Q, j \in Keys :
            Mask(shares[q][x][j][i]) = Mask(Copy(x, Missing(q, j), i))
  BY <1>4, <1>5, OperandSecret
<1>8. /\ Sent(b, p, k) = Opening(b, 1, k) /\ Sent(c, p, k) = Opening(c, 2, k)
  <2>1. 1 \in 1..t /\ 2 \in 1..t
    BY <1>1
  <2>2. Turn(b, p) = 1 /\ Turn(c, p) = 2
    BY <1>1, <1>3, <2>1, TurnIs
  <2> QED BY <2>2 DEF Sent
<1>9. ASSUME NEW i \in Batch
      PROVE  Shown(p, k)[i] = Mask(SumOver(Ts, [T \in Ts |-> Copy(x, T, i)]))
  <2> DEFINE A == [T \in Ts |-> Copy(x, T, i)]
             a == [q \in Party |-> shares[q][x]]
             msg == [m \in 1..t |-> Sent(Off(p, Peers("open").from[m], n), p, k)[i]]
  <2>1. msg[1] = Sent(b, p, k)[i] /\ msg[2] = Sent(c, p, k)[i]
    BY <1>1, <1>2 DEF b, c
  <2>2. /\ msg[1] = Mask(SumOver({0, 1}, [j \in Keys |-> a[b][j][i]]))
        /\ msg[2] = Mask(SumOver({4, 5}, [j \in Keys |-> a[c][j][i]]))
    <3>1. a[b] = shares[b][x] /\ a[c] = shares[c][x]
      BY <1>3
    <3>2. /\ Opening(b, 1, k)[i] = Mask(SumOver({0, 1}, [j \in Keys |-> shares[b][x][j][i]]))
          /\ Opening(c, 2, k)[i] = Mask(SumOver({4, 5}, [j \in Keys |-> shares[c][x][j][i]]))
      BY <1>2 DEF Opening
    <3> QED BY <1>8, <2>1, <3>1, <3>2
  <2>3. \A T \in Ts : A[T] \in Int
    BY <1>7
  <2>4. ASSUME NEW q \in Q
        PROVE  /\ q \in Party /\ a[q] \in Share
               /\ \A j \in Keys : Mask(a[q][j][i]) = Mask(A[Missing(q, j)])
    <3>1. q \in Party /\ \A j \in Keys : Missing(q, j) \in Ts
      BY <1>1, <1>5, OwnShares
    <3> QED BY <1>7, <3>1
  <2>5. Shown(p, k)[i] = Mask(SumOver(Keys, [j \in Keys |-> a[p][j][i]]) + SumOver(1..t, msg))
    BY DEF Shown
  <2> HIDE DEF a, A, msg
  <2>6. Revealed(p, i, A, a, msg)
    BY <2>2, <2>3, <2>4 DEF Revealed, Q, b, c
  <2>7. Mask(SumOver(Keys, [j \in Keys |-> a[p][j][i]]) + SumOver(1..t, msg))
          = Mask(SumOver(Ts, A))
    BY <1>1, <2>6, OpeningSum
  <2> QED BY <2>5, <2>7 DEF A
<1>10. Shown(p, k) = Secret(x)
  <2>1. Shown(p, k) = [i \in Batch |-> Shown(p, k)[i]]
    BY DEF Shown
  <2> QED BY <1>7, <1>9, <2>1
<1> QED BY <1>6, <1>10

\* What is published is the product of the secrets.
LEMMA PublicShown ==
    ASSUME IInv, NEW p \in Party, NEW k \in Steps, Op(k) = "multpub", Supplied(p, k)
    PROVE  LET s == run.program[k] IN
           /\ s.x \in Registers /\ s.y \in Registers
           /\ Cardinality(Holders(s.x)) > t /\ Cardinality(Holders(s.y)) > t
           /\ Shown(p, k) = Times(Secret(s.x), Secret(s.y))
<1> DEFINE x == run.program[k].x
           y == run.program[k].y
           others == Party \ {p}
<1>1. /\ Sizes /\ run \in Cases /\ TypeOK /\ Known /\ n \in Nat /\ t \in Nat /\ t < n
      /\ IsFiniteSet(Party) /\ Cardinality(Party) = n /\ Party \in SUBSET Party
      /\ IsFiniteSet(Ts)
  BY Program, Lacking DEF IInv, TypeOK
<1>2. \A q \in Party : k <= pc[q]
  BY DEF Supplied
<1>3. ASSUME NEW r \in {x, y}
      PROVE  /\ r \in Registers /\ Cardinality(Holders(r)) > t
             /\ \A q \in Party : shares[q][r] \in Share
             /\ Secret(r) = [i \in Batch |-> Mask(SumOver(Ts, [T \in Ts |-> Copy(r, T, i)]))]
             /\ \A i \in Batch, T \in Ts : Copy(r, T, i) \in Int
             /\ \A i \in Batch, q \in Party, j \in Keys :
                   Mask(shares[q][r][j][i]) = Mask(Copy(r, Missing(q, j), i))
  BY <1>1, <1>2, OperandSecret
<1>4. ASSUME NEW i \in Batch
      PROVE  Shown(p, k)[i] = Mask(Mask(SumOver(Ts, [T \in Ts |-> Copy(x, T, i)]))
                                   * Mask(SumOver(Ts, [T \in Ts |-> Copy(y, T, i)])))
  <2> DEFINE A == [T \in Ts |-> Copy(x, T, i)]
             B == [T \in Ts |-> Copy(y, T, i)]
             a == [q \in Party |-> shares[q][x]]
             b == [q \in Party |-> shares[q][y]]
             pub == [q \in Party |-> Publishing(q, k)[i]]
             rest == [q \in others |-> Publishing(q, k)[i]]
             sumA == SumOver(Ts, A)
             sumB == SumOver(Ts, B)
  <2>1. \A T \in Ts : A[T] \in Int /\ B[T] \in Int
    BY <1>3
  <2>2. \A q \in Party : a[q] \in Share /\ b[q] \in Share
    BY <1>3
  <2>3. \A q \in Party, j \in Keys :
           /\ Mask(a[q][j][i]) = Mask(A[Missing(q, j)])
           /\ Mask(b[q][j][i]) = Mask(B[Missing(q, j)])
    BY <1>1, <1>3, OwnShares
  <2>4. \A q \in Party : pub[q] = Mask(Local(a[q], b[q], i)
           + SumOver(Keys, [j \in Keys |-> Ops(q, j) * Filled(q, j, k, i)]))
    BY DEF Publishing
  <2>5. /\ \A q \in Party : pub[q] \in Int
        /\ Mask(SumOver(Party, pub)) = Mask(sumA * sumB)
    <3>1. k \in Steps /\ Op(k) = "multpub" /\ i \in Batch
      OBVIOUS
    <3> HIDE DEF A, B, a, b, pub
    <3>2. Published(k, i, A, B, a, b, pub)
      BY <2>1, <2>2, <2>3, <2>4, <3>1 DEF Published
    <3> QED BY <1>1, <3>2, PublicSum
  <2>6. Shown(p, k)[i] = Mask(pub[p] + SumOver(others, rest))
    BY DEF Shown
  <2>7. SumOver(others, rest) = SumOver(others, pub)
    <3>1. \A q \in others : rest[q] \in Int /\ rest[q] = pub[q]
      BY <2>5
    <3>2. IsFiniteSet(others)
      BY <1>1, KeysFinite
    <3> HIDE DEF others, rest, pub
    <3> QED BY <3>1, <3>2, SumSame
  <2>8. SumOver(Party, pub) = pub[p] + SumOver(others, pub)
    <3> HIDE DEF pub
    <3> QED BY <1>1, <2>5, SumTable
  <2>9. sumA \in Int /\ sumB \in Int
    <3> HIDE DEF A, B
    <3> QED BY <1>1, <2>1, SumRule
  <2> HIDE DEF sumA, sumB, pub, rest
  <2> DEFINE ma == Mask(sumA)
             mb == Mask(sumB)
  <2>10. ma \in Int /\ mb \in Int /\ Mask(ma) = Mask(sumA) /\ Mask(mb) = Mask(sumB)
    BY <2>9, Ring
  <2>11. Mask(ma * mb) = Mask(sumA * sumB)
    <3> HIDE DEF ma, mb
    <3> QED BY ONLY <2>9, <2>10, MaskOps
  <2>12. Shown(p, k)[i] = Mask(ma * mb)
    BY <2>5, <2>6, <2>7, <2>8, <2>11
  <2> QED BY <2>12 DEF sumA, sumB
<1>5. Shown(p, k) = Times(Secret(x), Secret(y))
  <2>1. /\ Secret(x) = [i \in Batch |-> Mask(SumOver(Ts, [T \in Ts |-> Copy(x, T, i)]))]
        /\ Secret(y) = [i \in Batch |-> Mask(SumOver(Ts, [T \in Ts |-> Copy(y, T, i)]))]
    BY <1>3
  <2>2. Shown(p, k) = [i \in Batch |-> Shown(p, k)[i]]
    BY DEF Shown
  <2>3. Times(Secret(x), Secret(y)) = [i \in Batch |-> Mask(Secret(x)[i] * Secret(y)[i])]
    BY <2>1 DEF Times
  <2>4. \A i \in Batch : Shown(p, k)[i] = Mask(Secret(x)[i] * Secret(y)[i])
    BY <1>4, <2>1
  <2> QED BY <2>2, <2>3, <2>4
<1> QED BY <1>3, <1>5


\* What an instruction shows to a party, of the secrets in its operands.
Result(k) ==
    LET s == run.program[k] IN
    IF s.op = "open" THEN Secret(s.x) ELSE Times(Secret(s.x), Secret(s.y))

\* What a party computes of the batches it has read is the result.
LEMMA ShownIs ==
    ASSUME IInv, Supported, NEW p \in Party, NEW k \in Steps, Op(k) # "mult", Supplied(p, k)
    PROVE  LET s == run.program[k] IN
           /\ s.x \in Registers /\ s.y \in Registers
           /\ Cardinality(Holders(s.x)) > t /\ Cardinality(Holders(s.y)) > t
           /\ Shown(p, k) = Result(k)
<1>1. Sizes /\ Op(k) \in {"open", "multpub"}
  BY Program DEF IInv, TypeOK
<1>2. CASE Op(k) = "open"
  <2>1. n = 5
    BY <1>1, <1>2 DEF Supported, Sizes
  <2> QED BY <1>2, <2>1, OpenShown DEF Result, Op
<1>3. CASE Op(k) = "multpub"
  BY <1>3, PublicShown DEF Result, Op
<1> QED BY <1>1, <1>2, <1>3

-----------------------------------------------------------------------------
(***************************************************************************)
(* The parties together are the machine of Ideal.                          *)
(***************************************************************************)
\* When a register has a secret.
SecretRule ==
    \A r \in Registers :
        /\ IsFiniteSet(Holders(r)) /\ Cardinality(Holders(r)) \in Nat
        /\ Cardinality(Holders(r)) <= t => Secret(r) = Unknown
        /\ Cardinality(Holders(r)) > t => Secret(r) # Unknown

\* ProductSecret, of all products.
ProductRule ==
    \A k \in Steps :
        LET s == run.program[k] IN
        (Op(k) = "mult" /\ Cardinality(Holders(s.dst)) > t) =>
            /\ Holders(s.x) = Party /\ Holders(s.y) = Party
            /\ Secret(s.dst) = Times(Secret(s.x), Secret(s.y))

\* Both hold in every state, and in every next state.
LEMMA Rules == IInv => SecretRule /\ ProductRule
<1> SUFFICES ASSUME IInv PROVE SecretRule /\ ProductRule
  OBVIOUS
<1>1. run \in Cases /\ t \in Nat
  BY Program DEF IInv, TypeOK
<1>2. ProductRule
  BY ProductSecret DEF ProductRule
<1>3. ASSUME NEW r \in Registers
      PROVE  /\ IsFiniteSet(Holders(r)) /\ Cardinality(Holders(r)) \in Nat
             /\ Cardinality(Holders(r)) <= t => Secret(r) = Unknown
             /\ Cardinality(Holders(r)) > t => Secret(r) # Unknown
  <2>1. Holders(r) \in SUBSET Party
    BY DEF Holders
  <2>2. IsFiniteSet(Holders(r)) /\ Cardinality(Holders(r)) \in Nat
    BY <1>1, <2>1, KeysFinite, FS_CardinalityType
  <2>3. Unknown \notin Value
    BY <1>1, InputAssumption, Masks DEF Value, Batch
  <2>4. Cardinality(Holders(r)) > t => Secret(r) # Unknown
    BY <2>3, SecretIs
  <2> QED BY <2>2, <2>4 DEF Secret
<1> QED BY <1>2, <1>3 DEF SecretRule

\* The same, of the state after a step.
LEMMA NextRules == IInv' => SecretRule' /\ ProductRule'
BY Rules, PTL

\* A step that keeps the shares of a register keeps its secret.
LEMMA SecretSame ==
    ASSUME run \in Cases, run' = run, NEW r, \A p \in Party : shares'[p][r] = shares[p][r]
    PROVE  Holders(r)' = Holders(r) /\ Secret(r)' = Secret(r)
<1>1. Party' = Party /\ t' = t /\ Batch' = Batch /\ Ts' = Ts
  BY Frame
<1>2. Holders(r)' = Holders(r)
  BY <1>1 DEF Holders
<1> DEFINE word(T, i) == Copy(r, T, i)
           word2(T, i) == Copy(r, T, i)'
<1>3. ASSUME Cardinality(Holders(r)) > t, NEW T \in Ts, NEW i
      PROVE  word2(T, i) = word(T, i)
  <2> DEFINE p == CHOOSE p \in Holders(r) : p \notin T
  <2>1. Holders(r) \in SUBSET Party
    BY DEF Holders
  <2>2. \E q \in Holders(r) : q \notin T
    BY <1>3, <2>1, Lacking
  <2>3. p \in Party
    BY <2>1, <2>2
  <2>4. word(T, i) = shares[p][r][IndexOf(p, T)][i]
    BY DEF Copy
  <2>5. word2(T, i) = shares'[p][r][IndexOf(p, T)][i]
    BY <1>2 DEF Copy, IndexOf, n
  <2> HIDE DEF p, word, word2
  <2>6. shares'[p][r] = shares[p][r]
    BY <2>3
  <2> QED BY <2>4, <2>5, <2>6
<1>4. Secret(r)' = IF Cardinality(Holders(r)) <= t THEN Unknown
        ELSE [i \in Batch |-> Mask(SumOver(Ts, [T \in Ts |-> word2(T, i)]))]
  <2>1. Secret(r)' = IF Cardinality(Holders(r)') <= t' THEN Unknown
          ELSE [i \in Batch' |-> Mask(SumOver(Ts', [T \in Ts' |-> word2(T, i)]))]
    BY DEF Secret, Copy, Mask, SumOver
  <2> HIDE DEF word2
  <2> QED BY <1>1, <1>2, <2>1
<1>5. Secret(r) = IF Cardinality(Holders(r)) <= t THEN Unknown
        ELSE [i \in Batch |-> Mask(SumOver(Ts, [T \in Ts |-> word(T, i)]))]
  BY DEF Secret, Copy
<1>6. Holders(r) \in SUBSET Party /\ IsFiniteSet(Party) /\ t \in Nat
  BY Lacking, Program DEF Holders
<1>7. Cardinality(Holders(r)) \in Nat
  BY <1>6, FS_Subset, FS_CardinalityType
<1>8. ASSUME Cardinality(Holders(r)) > t, NEW i
      PROVE  [T \in Ts |-> word2(T, i)] = [T \in Ts |-> word(T, i)]
  <2>1. \A T \in Ts : word2(T, i) = word(T, i)
    BY <1>3, <1>8
  <2> HIDE DEF word, word2
  <2> QED BY <2>1
<1> HIDE DEF word, word2
<1>9. CASE Cardinality(Holders(r)) <= t
  BY <1>2, <1>4, <1>5, <1>9
<1>10. CASE Cardinality(Holders(r)) > t
  <2> DEFINE f == [i \in Batch |-> Mask(SumOver(Ts, [T \in Ts |-> word(T, i)]))]
             g == [i \in Batch |-> Mask(SumOver(Ts, [T \in Ts |-> word2(T, i)]))]
  <2>1. \A i \in Batch : g[i] = f[i]
    BY <1>8, <1>10
  <2>2. g = f
    <3>1. DOMAIN g = Batch /\ DOMAIN f = Batch /\ g = [i \in Batch |-> g[i]]
          /\ f = [i \in Batch |-> f[i]]
      OBVIOUS
    <3> HIDE DEF f, g
    <3> QED BY <2>1, <3>1
  <2>3. Secret(r) = f /\ Secret(r)' = g
    BY <1>4, <1>5, <1>6, <1>7, <1>10
  <2> QED BY <1>2, <2>2, <2>3
<1> QED BY <1>6, <1>7, <1>9, <1>10


\* What Abstract takes for its val.
Vals == [r \in Registers |-> Secret(r)]

\* The abstract machine stands still.
Idle == run' = run /\ Vals' = Vals /\ opened' = opened

\* It is unchanged when all the secrets are.
LEMMA ValsSame ==
    ASSUME Registers' = Registers, \A r \in Registers : Secret(r)' = Secret(r)
    PROVE  Vals' = Vals
BY DEF Vals

\* A step that changes no shares changes no secrets.
LEMMA SharesSame ==
    ASSUME run \in Cases, run' = run, shares' = shares
    PROVE  /\ Registers' = Registers /\ Vals' = Vals
           /\ \A r : Secret(r)' = Secret(r)
<1>1. Registers' = Registers
  BY DEF Registers
<1>2. \A r : Secret(r)' = Secret(r)
  BY SecretSame
<1> QED BY <1>1, <1>2, ValsSame

\* The end of an instruction.
LEMMA Ended ==
    ASSUME IInv, NEW p \in Party, LastStep(p)
    PROVE  /\ run \in Cases /\ run' = run /\ Registers' = Registers
           /\ pc[p] \in Steps /\ pc[p] \in Nat /\ pc'[p] = pc[p] + 1
           /\ \A q \in Party : q # p => pc'[q] = pc[q]
           /\ \A q \in Party : pc[q] \in Nat
           /\ run.program[pc[p]].dst \in Registers
           /\ \A k \in Steps : run.program[k].dst = run.program[pc[p]].dst => k = pc[p]
<1>1. run \in Cases /\ TypeOK /\ Known
  BY DEF IInv, TypeOK
<1>2. pc[p] \in Steps /\ pc[p] \in Nat
  BY <1>1, Here DEF LastStep
<1>3. run' = run /\ pc' = [pc EXCEPT ![p] = @ + 1]
  BY DEF LastStep
<1>4. pc \in [Party -> 1 .. Len(run.program) + 1] /\ \A q \in Party : pc[q] \in Nat
  BY <1>1, Entries DEF TypeOK
<1>5. Registers' = Registers
  <2>1. shares \in [Party -> [Registers -> {Unknown} \union Share]]
    BY <1>1, StateTypes
  <2>2. 1 \in Party
    BY <1>1, Program DEF Party
  <2>3. \/ shares' = shares
        \/ shares' = [shares EXCEPT ![p][run.program[pc[p]].dst] = Product(p, pc[p])]
    BY DEF LastStep
  <2>4. DOMAIN shares'[1] = DOMAIN shares[1]
    BY <2>1, <2>2, <2>3
  <2> QED BY <2>4 DEF Registers
<1>6. run.program[pc[p]].dst \in Registers
  BY <1>1, <1>2, Program DEF Known
<1>7. \A k \in Steps : run.program[k].dst = run.program[pc[p]].dst => k = pc[p]
  BY <1>1, <1>2, Program
<1> QED BY <1>1, <1>2, <1>3, <1>4, <1>5, <1>6, <1>7

\* The end of a product gives its party the register, and nothing else.
LEMMA MultEnded ==
    ASSUME IInv, NEW p \in Party, LastStep(p), Op(pc[p]) = "mult",
           NEW d, d = run.program[pc[p]].dst
    PROVE  /\ opened' = opened
           /\ \A q \in Party, r \in Registers : (q # p \/ r # d) => shares'[q][r] = shares[q][r]
           /\ Holders(d)' = Holders(d) \union {p}
           /\ \A r \in Registers : r # d => Secret(r)' = Secret(r)
<1>1. /\ run \in Cases /\ run' = run /\ d \in Registers /\ TypeOK
      /\ Party' = Party
  BY Ended, Frame DEF IInv
<1>2. /\ opened' = opened /\ Product(p, pc[p]) \in Share
      /\ shares' = [shares EXCEPT ![p][d] = Product(p, pc[p])]
  BY DEF LastStep
<1>3. shares \in [Party -> [Registers -> {Unknown} \union Share]]
  BY <1>1, StateTypes
<1>4. /\ \A q \in Party, r \in Registers : (q # p \/ r # d) => shares'[q][r] = shares[q][r]
      /\ shares'[p][d] \in Share
  BY <1>1, <1>2, <1>3
<1>5. Holders(d)' = Holders(d) \union {p}
  BY <1>1, <1>4, UnknownIs DEF Holders
<1>6. \A r \in Registers : r # d => Secret(r)' = Secret(r)
  BY <1>1, <1>4, SecretSame
<1> QED BY <1>2, <1>4, <1>5, <1>6

\* Until every share of a product is there, nobody has the secret; then it is
\* the product, and stays.
LEMMA MultRefines ==
    ASSUME IInv, IInv', NEW p \in Party, LastStep(p), Op(pc[p]) = "mult"
    PROVE  /\ Idle \/ Abstract!Multiply(pc[p])
           /\ \A r \in Registers : Cardinality(Holders(r)) > t => Secret(r)' = Secret(r)
<1>0. PICK i, d, x, y : /\ i = pc[p] /\ d = run.program[i].dst
                        /\ x = run.program[i].x /\ y = run.program[i].y
  OBVIOUS
<1>1. /\ run \in Cases /\ run' = run /\ Registers' = Registers /\ d \in Registers
      /\ i \in Steps /\ Op(i) = "mult"
  BY <1>0, Ended
<1>2. /\ opened' = opened /\ Holders(d)' = Holders(d) \union {p}
      /\ \A r \in Registers : r # d => Secret(r)' = Secret(r)
  BY <1>0, MultEnded
<1>3. Steps' = Steps /\ t' = t /\ Party' = Party /\ Op(i)' = Op(i) /\ t \in Nat
  BY <1>1, Frame, Program
<1>4. /\ IsFiniteSet(Holders(d)) /\ Cardinality(Holders(d)) \in Nat
      /\ Cardinality(Holders(d)) <= t => Secret(d) = Unknown
      /\ \A r \in Registers : Cardinality(Holders(r)) > t => Secret(r) # Unknown
  BY <1>1, Rules DEF SecretRule
<1>5. /\ IsFiniteSet(Holders(d)') /\ Cardinality(Holders(d)') \in Nat
      /\ Cardinality(Holders(d)') <= t => Secret(d)' = Unknown
      /\ \A r \in Registers : Cardinality(Holders(r)') > t => Secret(r)' # Unknown
  BY <1>1, <1>3, NextRules DEF SecretRule
<1>6. Cardinality(Holders(d)) <= Cardinality(Holders(d)')
  BY <1>2, <1>5, FS_Subset
<1>7. x \in Registers /\ y \in Registers /\ x # d /\ y # d
  <2>1. i <= pc[p] /\ TypeOK /\ Known
    BY <1>0, Ended DEF IInv
  <2>2. x \in Registers /\ y \in Registers /\ shares[p][x] \in Share /\ shares[p][y] \in Share
    BY <1>0, <1>1, <2>1, Operands
  <2>3. ~Has(p, d)
    <3>1. d \notin Inputs
      BY <1>0, <1>1, Program
    <3>2. ASSUME NEW k \in 1 .. pc[p] - 1, run.program[k].dst = d PROVE FALSE
      <4>1. k \in Steps /\ k # i
        BY <1>0, <1>1 DEF Steps
      <4> QED BY <1>0, <3>2, <4>1, Ended
    <3> QED BY <3>1, <3>2 DEF Has
  <2>4. shares[p][d] = Unknown
    BY <1>1, <2>1, <2>3 DEF Known
  <2>5. Unknown \notin Share
    BY <1>1, UnknownIs
  <2> QED BY <2>2, <2>4, <2>5
<1>8. Secret(x)' = Secret(x) /\ Secret(y)' = Secret(y)
  BY <1>2, <1>7
<1>9. CASE Cardinality(Holders(d)') <= t
  <2>1. Cardinality(Holders(d)) <= t
    BY <1>3, <1>4, <1>5, <1>6, <1>9
  <2>2. \A r \in Registers : Secret(r)' = Secret(r)
    BY <1>2, <1>4, <1>5, <1>9, <2>1
  <2> QED BY <1>1, <1>2, <2>2, ValsSame DEF Idle
<1>10. CASE Cardinality(Holders(d)') > t
  <2>1. /\ Secret(d)' = Times(Secret(x), Secret(y))
        /\ Secret(x) # Unknown /\ Secret(y) # Unknown
    <3>1. ProductRule'
      BY NextRules
    <3>2. /\ Secret(d)' = Times(Secret(x)', Secret(y)')
          /\ Holders(x)' = Party /\ Holders(y)' = Party
      BY <1>0, <1>1, <1>3, <1>10, <3>1 DEF ProductRule, Times, Mask
    <3>3. Cardinality(Party) > t
      BY <1>1, Program, Lacking
    <3> QED BY <1>5, <1>7, <1>8, <3>2, <3>3
  <2>2. CASE Cardinality(Holders(d)) > t
    <3>1. Secret(d) = Times(Secret(x), Secret(y))
      BY <1>0, <1>1, <2>2, Rules DEF ProductRule
    <3>2. \A r \in Registers : Secret(r)' = Secret(r)
      BY <1>2, <2>1, <3>1
    <3> QED BY <1>1, <1>2, <3>2, ValsSame DEF Idle
  <2>3. CASE Cardinality(Holders(d)) <= t
    <3>1. Secret(d) = Unknown
      BY <1>4, <2>3
    <3>2. Vals' = [Vals EXCEPT ![d] = Times(Secret(x), Secret(y))]
      <4>1. Vals' = [r \in Registers |-> Secret(r)']
        BY <1>1 DEF Vals
      <4>2. \A r \in Registers :
              Secret(r)' = IF r = d THEN Times(Secret(x), Secret(y)) ELSE Secret(r)
        BY <1>2, <2>1
      <4>3. Vals = [r \in Registers |-> Secret(r)]
        BY DEF Vals
      <4> QED BY <1>1, <4>1, <4>2, <4>3
    <3>3. Vals[d] = Unknown /\ Vals[x] = Secret(x) /\ Vals[y] = Secret(y)
      BY <1>1, <1>7, <3>1 DEF Vals
    <3>4. run.program[i].op = "mult"
      BY <1>1 DEF Op
    <3>5. Abstract!Multiply(pc[p])
      BY <1>0, <1>1, <1>2, <2>1, <3>2, <3>3, <3>4 DEF Abstract!Multiply, Vals
    <3>6. \A r \in Registers : Cardinality(Holders(r)) > t => r # d
      BY <1>3, <1>4, <2>3
    <3> QED BY <1>2, <3>5, <3>6
  <2> QED BY <1>3, <1>4, <2>2, <2>3
<1> QED BY <1>3, <1>5, <1>9, <1>10


\* The end of an opening or a publication, when all its batches have been read.
LEMMA LastSupplied ==
    ASSUME IInv, NEW p \in Party, LastStep(p), Op(pc[p]) # "mult"
    PROVE  Supplied(p, pc[p])
<1>0. PICK k : k = pc[p]
  OBVIOUS
<1>1. /\ run \in Cases /\ TypeOK /\ Sizes /\ k \in Steps /\ Op(k) \in {"open", "multpub"}
      /\ \A q \in Party : pc[q] \in Int
      /\ t \in Nat
  BY <1>0, Ended, Program DEF IInv
<1>2. ASSUME NEW q \in Party, q # p, HasSent(q, p, k) PROVE k <= pc[q]
  BY <1>0, <1>1, <1>2 DEF HasSent, Steps
<1>3. ASSUME NEW q \in Party, Fetches(p, q) PROVE q # p /\ HasSent(q, p, k)
  BY <1>0, <1>3 DEF Fetches, InFlight
<1>4. CASE Op(k) = "open"
  <2>1. sent[p] = t /\ Fetches(p, Source(p))
    BY <1>0, <1>4 DEF LastStep, Public
  <2> SUFFICES ASSUME NEW m \in 1..t PROVE k <= pc[Off(p, Peers("open").from[m], n)]
    BY <1>0, <1>1, <1>4 DEF Supplied
  <2> DEFINE q == Off(p, Peers("open").from[m], n)
  <2>2. q \in Party /\ q # p
    <3>1. \A op \in Pairwise : Off(p, Peers(op).from[m], n) \in Party \ {p}
      BY <1>1, PeersMeet
    <3> QED BY <3>1 DEF Pairwise
  <2>3. CASE m = t
    <3>1. Source(p) = q
      <4>1. run.program[pc[p]].op = "open"
        BY <1>0, <1>4 DEF Op
      <4> QED BY <2>1, <2>3, <4>1 DEF Source, Instr
    <3> QED BY <1>2, <1>3, <2>1, <2>2, <3>1
  <2>4. CASE m < t
    <3>1. HasRead(p, q, k)
      BY <1>0, <1>4, <2>1, <2>4 DEF HasRead
    <3>2. HasSent(q, p, k)
      BY <1>1, <2>2, <3>1 DEF IInv, Causal
    <3> QED BY <1>2, <2>2, <3>2
  <2> QED BY <1>1, <2>3, <2>4
<1>5. CASE Op(k) = "multpub"
  <2>1. \A q \in Party \ {p} : Fetches(p, q)
    BY <1>0, <1>5 DEF LastStep, Public
  <2>2. \A q \in Party : k <= pc[q]
    BY <1>0, <1>1, <1>2, <1>3, <2>1
  <2> QED BY <1>0, <1>5, <2>2 DEF Supplied
<1> QED BY <1>1, <1>4, <1>5

\* A party has been shown only what instructions that it has left showed it.
Fresh ==
    \A p \in Party, r \in Registers :
        opened[p][r] # Unknown => \E k \in 1 .. pc[p] - 1 : run.program[k].dst = r

\* What a party is shown at the end of an opening or a publication.
LEMMA RevealRefines ==
    ASSUME IInv, Supported, Fresh, NEW p \in Party, LastStep(p), Op(pc[p]) # "mult"
    PROVE  /\ Abstract!Reveal(p, pc[p])
           /\ Registers' = Registers /\ \A r : Secret(r)' = Secret(r)
           /\ opened' = [opened EXCEPT ![p][run.program[pc[p]].dst] = Result(pc[p])]
<1>0. PICK i, s : i = pc[p] /\ s = run.program[i]
  OBVIOUS
<1>1. /\ run \in Cases /\ run' = run /\ i \in Steps /\ s.dst \in Registers
      /\ Op(i) \in {"open", "multpub"}
  BY <1>0, Ended, Program
<1>2. /\ s.x \in Registers /\ s.y \in Registers
      /\ Cardinality(Holders(s.x)) > t /\ Cardinality(Holders(s.y)) > t
      /\ Shown(p, i) = Result(i)
  <2>1. Supplied(p, i)
    BY <1>0, LastSupplied
  <2> QED BY <1>0, <1>1, <2>1, ShownIs
<1>3. Secret(s.x) # Unknown /\ Secret(s.y) # Unknown
  BY <1>2, Rules DEF SecretRule
<1>4. shares' = shares /\ opened' = [opened EXCEPT ![p][s.dst] = Shown(p, i)]
  <2>1. Exact(i)
    BY <1>1 DEF Supported
  <2> QED BY <1>0, <1>1, <2>1 DEF LastStep
<1>5. Registers' = Registers /\ Vals' = Vals /\ \A r : Secret(r)' = Secret(r)
  BY <1>1, <1>4, SharesSame
<1>6. opened[p][s.dst] = Unknown
  <2>1. ASSUME opened[p][s.dst] # Unknown PROVE FALSE
    <3>1. PICK j \in 1 .. pc[p] - 1 : run.program[j].dst = s.dst
      BY <1>1, <2>1 DEF Fresh
    <3>2. j \in Steps /\ j # i
      BY <1>0, <1>1 DEF Steps
    <3> QED BY <1>0, <3>1, <3>2, Ended
  <2> QED BY <2>1
<1>7. Abstract!Reveal(p, i)
  <2>1. s.op \in {"open", "multpub"}
    BY <1>0, <1>1 DEF Op
  <2>2. /\ [r \in Registers |-> Secret(r)][s.x] = Secret(s.x)
        /\ [r \in Registers |-> Secret(r)][s.y] = Secret(s.y)
    BY <1>2
  <2>3. opened' = [opened EXCEPT ![p][s.dst] =
           IF s.op = "open" THEN Secret(s.x) ELSE Times(Secret(s.x), Secret(s.y))]
    BY <1>0, <1>2, <1>4 DEF Result
  <2>4. [r \in Registers |-> Secret(r)]' = [r \in Registers |-> Secret(r)]
    BY <1>5 DEF Vals
  <2> QED BY <1>0, <1>1, <1>3, <1>6, <2>1, <2>2, <2>3, <2>4 DEF Abstract!Reveal
<1> QED BY <1>0, <1>2, <1>4, <1>5, <1>7

\* The parties of a case are among those Abstract shows results to.
LEMMA Together ==
    ASSUME IInv
    PROVE  Party \subseteq Everyone
<1>1. Sizes
  BY Program DEF IInv, TypeOK
<1> QED BY <1>1, Numbers DEF Everyone, Sizes

\* At first the inputs, and only they, are secrets.
LEMMA InitRefines == Init => Abstract!Init /\ Fresh
<1> SUFFICES ASSUME Init PROVE Abstract!Init /\ Fresh
  OBVIOUS
<1>1. IInv
  BY Starting
<1>2. /\ run \in Cases /\ Sizes /\ n \in Nat /\ t \in Nat /\ t < n /\ Cardinality(Party) = n
      /\ 1 \in Party
  <2>1. run \in Cases
    BY <1>1 DEF IInv, TypeOK
  <2>2. n \in Nat /\ t \in Nat /\ 1 <= t /\ t < n /\ Sizes /\ Cardinality(Party) = n
    BY <2>1, Program, Lacking
  <2> QED BY <2>1, <2>2 DEF Party
<1>3. ASSUME NEW r \in Registers
      PROVE  Secret(r) = Unknown <=> \E i \in DOMAIN run.program : run.program[i].dst = r
  <2>1. r \in Written(run.program) <=> \E i \in DOMAIN run.program : run.program[i].dst = r
    BY DEF Written
  <2>2. ASSUME NEW p \in Party PROVE shares[p][r] = Unknown <=> r \in Written(run.program)
    <3>1. Has(p, r) <=> r \in Inputs
      BY DEF Init, Has
    <3>2. r \in Inputs <=> r \notin Written(run.program)
      <4>1. r \in Inputs \union Written(run.program)
        BY <1>1 DEF IInv, Known
      <4>2. Inputs \cap Written(run.program) = {}
        BY <1>2, ProgramAssumption
      <4> QED BY <4>1, <4>2
    <3> QED BY <1>1, <3>1, <3>2 DEF IInv, Known
  <2>3. CASE r \in Written(run.program)
    <3>1. Holders(r) = {}
      BY <2>2, <2>3 DEF Holders
    <3>2. Secret(r) = Unknown
      BY <1>2, <3>1, FS_EmptySet DEF Secret
    <3> QED BY <2>1, <2>3, <3>2
  <2>4. CASE r \notin Written(run.program)
    <3>1. Holders(r) = Party
      BY <2>2, <2>4 DEF Holders
    <3>2. Secret(r) # Unknown
      BY <1>1, <1>2, <3>1, Rules DEF SecretRule
    <3> QED BY <2>1, <2>4, <3>2
  <2> QED BY <2>3, <2>4
<1>4. \A p \in Everyone, r \in Registers : opened[p][r] = Unknown
  BY DEF Init
<1>5. Party \subseteq Everyone
  BY <1>1, Together
<1> QED BY <1>2, <1>3, <1>4, <1>5 DEF Abstract!Init, Fresh

\* A batch sent or read, and every other step that ends nothing.
LEMMA MidRefines ==
    ASSUME IInv, NEW p \in Party, StartStep(p) \/ RelayStep(p)
    PROVE  /\ Idle /\ run' = run /\ pc' = pc /\ Registers' = Registers
           /\ \A r : Secret(r)' = Secret(r)
<1>1. run \in Cases /\ run' = run /\ pc' = pc /\ shares' = shares /\ opened' = opened
  BY DEF IInv, TypeOK, StartStep, RelayStep
<1> QED BY <1>1, SharesSame DEF Idle

\* A party that ends an instruction has left it.
LEMMA FreshStep ==
    ASSUME IInv, Fresh, NEW p \in Party, Step(p)
    PROVE  Fresh'
<1>1. CASE StartStep(p) \/ RelayStep(p)
  <2>1. Idle /\ run' = run /\ pc' = pc /\ Registers' = Registers
    BY <1>1, MidRefines
  <2>2. Party' = Party
    BY <2>1, Frame
  <2> QED BY <2>1, <2>2 DEF Fresh, Idle
<1>2. CASE LastStep(p)
  <2>1. /\ run' = run /\ Registers' = Registers /\ pc'[p] = pc[p] + 1
        /\ \A q \in Party : q # p => pc'[q] = pc[q]
        /\ \A q \in Party : pc[q] \in Nat
        /\ pc[p] \in 1 .. pc[p]
    BY <1>2, Ended DEF Steps
  <2>2. Party' = Party
    BY <2>1, Frame
  <2>3. ASSUME NEW q \in Party, NEW r \in Registers, opened'[q][r] # Unknown
        PROVE  \E k \in 1 .. pc'[q] - 1 : run.program[k].dst = r
    <3>1. opened'[q][r] = opened[q][r] \/ (q = p /\ r = run.program[pc[p]].dst)
      <4>1. opened \in [Everyone -> [Registers -> {Unknown} \union Value]]
        BY StateTypes DEF IInv
      <4>2. Party \subseteq Everyone
        BY Together
      <4>3. \/ opened' = opened
            \/ \E w : opened' = [opened EXCEPT ![p][run.program[pc[p]].dst] = w]
        BY <1>2 DEF LastStep
      <4> QED BY <4>1, <4>2, <4>3
    <3>2. CASE q = p /\ r = run.program[pc[p]].dst
      BY <2>1, <3>2
    <3>3. CASE opened'[q][r] = opened[q][r]
      <4>1. PICK k \in 1 .. pc[q] - 1 : run.program[k].dst = r
        BY <2>3, <3>3 DEF Fresh
      <4>2. k \in 1 .. pc'[q] - 1
        BY <2>1
      <4> QED BY <4>1, <4>2
    <3> QED BY <3>1, <3>2, <3>3
  <2> QED BY <2>1, <2>2, <2>3 DEF Fresh
<1> QED BY <1>1, <1>2, StepKinds


\* Every step is a step of the abstract machine or none.
LEMMA NextRefines ==
    ASSUME IInv, IInv', Supported, Fresh, [Next]_vars
    PROVE  \/ \E i \in DOMAIN run.program :
                 Abstract!Multiply(i) \/ \E p \in Everyone : Abstract!Reveal(p, i)
           \/ Idle
<1>1. CASE UNCHANGED vars
  BY <1>1, SharesSame DEF vars, Idle, IInv, TypeOK
<1>2. CASE Next
  <2>1. PICK p \in Party : Step(p)
    BY <1>2 DEF Next
  <2>2. CASE StartStep(p) \/ RelayStep(p)
    BY <2>2, MidRefines
  <2>3. CASE LastStep(p)
    <3>1. pc[p] \in DOMAIN run.program /\ p \in Everyone
      BY <2>3, Ended, Together, Program
    <3>2. CASE Op(pc[p]) = "mult"
      BY <2>3, <3>1, <3>2, MultRefines
    <3>3. CASE Op(pc[p]) # "mult"
      BY <2>3, <3>1, <3>3, RevealRefines
    <3> QED BY <3>2, <3>3
  <2> QED BY <2>1, <2>2, <2>3, StepKinds
<1> QED BY <1>1, <1>2

\* A step keeps what the steps of the machine rest on.
LEMMA NextKeeps == Supported /\ Fresh /\ IInv /\ [Next]_vars => Supported' /\ Fresh'
<1> SUFFICES ASSUME Supported, Fresh, IInv, [Next]_vars PROVE Supported' /\ Fresh'
  OBVIOUS
<1>1. CASE UNCHANGED vars
  <2>1. run' = run /\ pc' = pc /\ opened' = opened /\ shares' = shares
    BY <1>1 DEF vars
  <2>2. Party' = Party /\ Registers' = Registers
    BY <2>1, Frame DEF Registers
  <2> QED BY <2>1, <2>2, SupportedStays DEF Fresh
<1>2. CASE Next
  <2>1. PICK p \in Party : Step(p)
    BY <1>2 DEF Next
  <2>2. run' = run
    BY <2>1, StepKinds DEF StartStep, RelayStep, LastStep
  <2> QED BY <2>1, <2>2, SupportedStays, FreshStep
<1> QED BY <1>1, <1>2

\* Rss_Mult, Rss_MultPub and Rss_Open, run by five or seven parties at their own
\* pace over the words of shared streams, compute what one trusted machine would:
\* a product of the secrets appears at once, and a party is shown a secret or a
\* product of secrets.
THEOREM ComputesTheIdeal == Spec /\ Supported => RefinesIdeal
<1>1. IInv /\ IInv' /\ Supported /\ Fresh /\ [Next]_vars => [Abstract!Next]_(Abstract!ivars)
  BY NextRefines DEF Abstract!Next, Abstract!ivars, Vals, Idle
<1> QED BY <1>1, NextKeeps, InitRefines, Invariant, PTL DEF Spec, RefinesIdeal, Abstract!Spec

\* A step that keeps the secrets in its operands keeps the result of an instruction.
LEMMA ResultSame ==
    ASSUME run' = run, NEW k, Secret(run.program[k].x)' = Secret(run.program[k].x),
           Secret(run.program[k].y)' = Secret(run.program[k].y)
    PROVE  Result(k)' = Result(k)
BY DEF Result, Times, Mask

\* What p has been shown in instruction k is right.
Right(p, k) == Op(k) # "mult" => opened[p][run.program[k].dst] = Result(k)

\* This, of all parties and instructions, is the property.
LEMMA RightIs ==
    ASSUME IInv, \A p \in Party : \A k \in 1 .. pc[p] - 1 : Right(p, k)
    PROVE  ResultsRight
BY DEF Right, Result, ResultsRight, Op

\* Neither a result nor the secrets it was computed from change any more.
LEMMA RightStep ==
    ASSUME IInv, IInv', Supported, Fresh, NEW p \in Party, Step(p),
           \A q \in Party : \A k \in 1 .. pc[q] - 1 : Right(q, k)
    PROVE  \A q \in Party : \A k \in 1 .. pc'[q] - 1 : Right(q, k)'
<1>0. run \in Cases /\ opened \in [Everyone -> [Registers -> {Unknown} \union Value]]
      /\ Party \subseteq Everyone
  BY Together, StateTypes DEF IInv, TypeOK
<1>1. ASSUME run' = run, NEW q \in Party, NEW k \in 1 .. pc[q] - 1, k \in Steps,
             opened'[q][run.program[k].dst] = opened[q][run.program[k].dst],
             \A r \in Registers : Cardinality(Holders(r)) > t => Secret(r)' = Secret(r)
      PROVE  Right(q, k)'
  <2>1. Op(k)' = Op(k)
    BY <1>1, Frame
  <2>2. CASE Op(k) = "mult"
    BY <2>1, <2>2 DEF Right
  <2>3. CASE Op(k) # "mult"
    <3>1. k < pc[q]
      BY <1>0, Entries DEF IInv
    <3>2. Supplied(q, k)
      BY <1>1, <2>3, <3>1, Ready
    <3>3. /\ run.program[k].x \in Registers /\ Cardinality(Holders(run.program[k].x)) > t
          /\ run.program[k].y \in Registers /\ Cardinality(Holders(run.program[k].y)) > t
      BY <1>1, <2>3, <3>2, ShownIs
    <3>4. Result(k)' = Result(k)
      BY <1>1, <3>3, ResultSame
    <3>5. opened[q][run.program[k].dst] = Result(k)
      BY <2>3 DEF Right
    <3> QED BY <1>1, <3>4, <3>5 DEF Right
  <2> QED BY <2>2, <2>3
<1>2. \A q \in Party : pc[q] \in 1 .. Len(run.program) + 1 /\ Len(run.program) \in Nat
  BY Entries DEF IInv
<1>3. CASE StartStep(p) \/ RelayStep(p)
  <2>1. Idle /\ run' = run /\ pc' = pc /\ \A r : Secret(r)' = Secret(r)
    BY <1>3, MidRefines
  <2>2. \A q \in Party : \A k \in 1 .. pc[q] - 1 : k \in Steps
    BY <1>2 DEF Steps
  <2> QED BY <1>1, <2>1, <2>2 DEF Idle
<1>4. CASE LastStep(p)
  <2>1. /\ run' = run /\ pc[p] \in Steps /\ pc'[p] = pc[p] + 1 /\ pc[p] \in Nat
        /\ \A q \in Party : q # p => pc'[q] = pc[q]
        /\ \A k \in Steps : run.program[k].dst = run.program[pc[p]].dst => k = pc[p]
        /\ run.program[pc[p]].dst \in Registers
    BY <1>4, Ended
  <2> SUFFICES ASSUME NEW q \in Party, NEW k \in 1 .. pc'[q] - 1 PROVE Right(q, k)'
    OBVIOUS
  <2>2. k \in 1 .. pc[q] - 1 \/ (q = p /\ k = pc[p])
    BY <1>2, <2>1
  <2>3. k \in 1 .. pc[q] - 1 => k \in Steps /\ (q # p \/ k # pc[p])
    BY <1>2 DEF Steps
  <2>4. CASE Op(pc[p]) = "mult"
    <3>1. /\ opened' = opened
          /\ \A r \in Registers : Cardinality(Holders(r)) > t => Secret(r)' = Secret(r)
      BY <1>4, <2>1, <2>4, MultEnded, MultRefines
    <3>2. CASE k \in 1 .. pc[q] - 1
      BY <1>1, <2>1, <2>3, <3>1, <3>2
    <3>3. CASE q = p /\ k = pc[p]
      <4>1. Op(k)' = "mult"
        BY <2>1, <2>4, <3>3, Frame
      <4> QED BY <4>1 DEF Right
    <3> QED BY <2>2, <3>2, <3>3
  <2>5. CASE Op(pc[p]) # "mult"
    <3>1. /\ \A r : Secret(r)' = Secret(r)
          /\ opened' = [opened EXCEPT ![p][run.program[pc[p]].dst] = Result(pc[p])]
      BY <1>4, <2>5, RevealRefines
    <3>2. CASE k \in 1 .. pc[q] - 1
      <4>1. opened'[q][run.program[k].dst] = opened[q][run.program[k].dst]
        BY <1>0, <2>1, <2>3, <3>1, <3>2
      <4> QED BY <1>1, <2>1, <2>3, <3>1, <3>2, <4>1
    <3>3. CASE q = p /\ k = pc[p]
      <4>1. opened'[q][run.program[k].dst] = Result(k)
        BY <1>0, <2>1, <3>1, <3>3
      <4>2. Result(k)' = Result(k)
        BY <2>1, <3>1, ResultSame
      <4> QED BY <2>1, <4>1, <4>2 DEF Right
    <3> QED BY <2>2, <3>2, <3>3
  <2> QED BY <2>4, <2>5
<1> QED BY <1>3, <1>4, StepKinds

\* All that has been shown is right.
AllRight == \A p \in Party : \A k \in 1 .. pc[p] - 1 : Right(p, k)

\* Every step keeps it so.
LEMMA AllRightStep ==
    IInv /\ IInv' /\ Supported /\ Fresh /\ AllRight /\ [Next]_vars => AllRight'
<1> SUFFICES ASSUME IInv, IInv', Supported, Fresh, AllRight, [Next]_vars PROVE AllRight'
  OBVIOUS
<1>1. CASE UNCHANGED vars
  <2>1. run' = run /\ shares' = shares /\ pc' = pc /\ opened' = opened /\ run \in Cases
    BY <1>1 DEF vars, IInv, TypeOK
  <2>2. \A r : Secret(r)' = Secret(r)
    BY <2>1, SharesSame
  <2>3. \A k : Result(k)' = Result(k)
    BY <2>1, <2>2, ResultSame
  <2>4. Party' = Party /\ \A k : Op(k)' = Op(k)
    BY <2>1, Frame
  <2> QED BY <2>1, <2>3, <2>4 DEF AllRight, Right
<1>2. CASE Next
  <2>1. PICK p \in Party : Step(p)
    BY <1>2 DEF Next
  <2>2. run' = run
    BY <2>1, StepKinds DEF StartStep, RelayStep, LastStep
  <2>3. Party' = Party
    BY <2>2, Frame
  <2> QED BY <2>1, <2>3, RightStep DEF AllRight
<1> QED BY <1>1, <1>2

\* Whatever Rss_Open or Rss_MultPub has returned to a party is the secret in the
\* register, or the product of the secrets, and remains so while others compute.
THEOREM ResultsRightAlways == Spec /\ Supported => []ResultsRight
<1>1. Init => AllRight
  BY Starting DEF Init, AllRight
<1>2. IInv /\ AllRight => ResultsRight
  BY RightIs DEF AllRight
<1> QED BY <1>1, <1>2, AllRightStep, NextKeeps, InitRefines, Invariant, PTL DEF Spec
=============================================================================
