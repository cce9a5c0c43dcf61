----------------------------- MODULE SeedSetup -----------------------------
(***************************************************************************)
(* How the parties come to share their pseudorandom streams (prg_setup,    *)
(* prg_setup_mp, prg_setup_mp_7).  With n parties and threshold t, a share *)
(* is known to all but a set T of t parties, and those who know it draw    *)
(* the same random stream for it.  Every party makes the seeds of a few T, *)
(* sends them to the other holders, and stores the seeds it reads at the   *)
(* index a table says, without a tag on the wire.                          *)
(*                                                                         *)
(* A seed is named by its maker and its block of RandomData; the two       *)
(* halves of a block (stream state and AES key) travel and are stored      *)
(* together.                                                               *)
(***************************************************************************)
EXTENDS Sharing

CONSTANT Sizes          \* the numbers of parties considered: 3, 5 or 7

ASSUME SizesAssumption == Sizes \subseteq {3, 5, 7}

\* Where a party stores the blocks of its own RandomData; the last block
\* seeds the private stream kept after the shared ones.
Own(n) ==
    CASE n = 3 -> <<0, 2>>
      [] n = 5 -> <<2, 3, 6>>
      [] n = 7 -> <<0, 1, 2, 3, 5, 20>>

\* Faulty variant: the two exchanges of the second block swapped.
Steps_swapped(n) ==
    CASE n = 3 -> << [to |-> 2, block |-> 1, from |-> 1, index |-> 1] >>
      [] n = 5 -> << [to |-> 2, block |-> 1, from |-> -2, index |-> 4],
                     [to |-> -2, block |-> 1, from |-> 2, index |-> 1],
                     [to |-> 1, block |-> 2, from |-> -1, index |-> 5],
                     [to |-> -1, block |-> 2, from |-> 1, index |-> 0] >>
      [] n = 7 -> << >>

\* Faulty variant: in the ring, a party reads from where it sends.
Steps_mirror(n) ==
    CASE n = 3 -> << [to |-> 2, block |-> 1, from |-> 2, index |-> 1] >>
      [] n = 5 -> << [to |-> 2, block |-> 1, from |-> -2, index |-> 4],
                     [to |-> -2, block |-> 1, from |-> 2, index |-> 1],
                     [to |-> 1, block |-> 2, from |-> 1, index |-> 0],
                     [to |-> -1, block |-> 2, from |-> -1, index |-> 5] >>
      [] n = 7 -> << >>

\* Seven parties: five blocks, three destinations and three sources each.
Round7(block, to, from, index) ==
    [j \in 1..3 |-> [to |-> to[j], block |-> block, from |-> from[j],
                     index |-> index[j]]]

\* What a party sends and stores, in order: block to pid+to, then a seed from
\* pid+from into index.
Steps(n) ==
    CASE n = 3 -> << [to |-> 2, block |-> 1, from |-> 1, index |-> 1] >>
      [] n = 5 -> << [to |-> 2, block |-> 1, from |-> -2, index |-> 4],
                     [to |-> -2, block |-> 1, from |-> 2, index |-> 1],
                     [to |-> 1, block |-> 2, from |-> -1, index |-> 0],
                     [to |-> -1, block |-> 2, from |-> 1, index |-> 5] >>
      [] n = 7 -> Round7(1, <<4, 5, 6>>, <<3, 2, 1>>, <<19, 17, 10>>) \o
                  Round7(2, <<3, 5, 6>>, <<4, 2, 1>>, <<9, 17, 11>>) \o
                  Round7(3, <<3, 4, 6>>, <<4, 3, 1>>, <<15, 7, 12>>) \o
                  Round7(4, <<3, 4, 5>>, <<4, 3, 2>>, <<18, 13, 4>>) \o
                  Round7(5, <<2, 4, 6>>, <<5, 3, 1>>, <<6, 8, 14>>)

VARIABLES
    n,          \* number of parties
    done,       \* done[p]: sends and reads p has made, two per step
    chan,       \* chan[p][q]: the seeds on their way from p to q
    container   \* container[p][i]: the seed of random_container[i], prg_key[i]

vars == <<n, done, chan, container>>

Party == 1..n
Zero == [by |-> 0, block |-> 0]     \* what memset leaves
Seed == [by : 1..7, block : 1..6]

\* random_container and tempKey before anything is read from a peer.
Fresh(p, m) ==
    [i \in 0..numShares(m) |->
        IF \E b \in DOMAIN Own(m) : Own(m)[b] = i
        THEN [by |-> p, block |-> CHOOSE b \in DOMAIN Own(m) : Own(m)[b] = i]
        ELSE Zero]

TypeOK ==
    /\ n \in Sizes
    /\ done \in [Party -> 0 .. 2 * Len(Steps(n))]
    /\ chan \in [Party -> [Party -> Seq(Seed)]]
    /\ container \in [Party -> [0..numShares(n) -> Seed \union {Zero}]]

Init ==
    /\ n \in Sizes
    /\ done = [p \in 1..n |-> 0]
    /\ chan = [p \in 1..n |-> [q \in 1..n |-> <<>>]]
    /\ container = [p \in 1..n |-> Fresh(p, n)]

Step(p) == Steps(n)[done[p] \div 2 + 1]

\* sendDataToPeer(map[..], 32, RandomData + ..)
Send(p) ==
    /\ done[p] < 2 * Len(Steps(n)) /\ done[p] % 2 = 0
    /\ LET q == Off(p, Step(p).to, n) IN
       chan' = [chan EXCEPT ![p][q] = Append(@, [by |-> p, block |-> Step(p).block])]
    /\ done' = [done EXCEPT ![p] = @ + 1]
    /\ UNCHANGED <<n, container>>

\* Faulty variant: one read more than the loops make.
Store_again(p) ==
    /\ done[p] % 2 = 1
    /\ LET q == Off(p, Step(p).from, n) IN
       /\ chan[q][p] # <<>>
       /\ chan' = [chan EXCEPT ![q][p] = Tail(@)]
       /\ container' = [container EXCEPT ![p][Step(p).index] = Head(chan[q][p])]
    /\ done' = [done EXCEPT ![p] = @ + 2]
    /\ UNCHANGED n

\* getDataFromPeer(map[..], 32, RandomData_recv) and the two memcpy after it.
Store(p) ==
    /\ done[p] % 2 = 1
    /\ LET q == Off(p, Step(p).from, n) IN
       /\ chan[q][p] # <<>>
       /\ chan' = [chan EXCEPT ![q][p] = Tail(@)]
       /\ container' = [container EXCEPT ![p][Step(p).index] = Head(chan[q][p])]
    /\ done' = [done EXCEPT ![p] = @ + 1]
    /\ UNCHANGED n

Next == \E p \in Party : Send(p) \/ Store(p)

Spec == Init /\ [][Next]_vars

FairSpec == Spec /\ WF_vars(Next)

-----------------------------------------------------------------------------
\* The T a seed was made for: that of the index its maker stores it at.
MadeFor(s) == TSet(s.by, Own(n)[s.block], n)

\* A seed is stored as the seed of the share it was made for: the index at
\* the reader and the index at the maker name the same set T.
SeedPlaced ==
    \A p \in Party, i \in 0..numShares(n) - 1 :
        container[p][i] # Zero => MadeFor(container[p][i]) = TSet(p, i, n)

\* When all are done, two parties' streams for two shares are the same stream
\* exactly when the shares are, and no stream is left with the zero seed.
SetupDone == \A p \in Party : done[p] = 2 * Len(Steps(n))

SharedStreams ==
    SetupDone =>
        \A p, q \in Party, i, j \in 0..numShares(n) - 1 :
            /\ container[p][i] # Zero
            /\ container[p][i] = container[q][j] <=> TSet(p, i, n) = TSet(q, j, n)

\* The exchange of seeds ends at every party.
SetupEnds == <>SetupDone
=============================================================================
