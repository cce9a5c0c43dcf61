-------------------------------- MODULE Rss3 --------------------------------
(***************************************************************************)
(* Three parties computing on replicated shares (Mult.cpp, Open.cpp).  A   *)
(* secret is the sum of shares 1, 2 and 3 modulo 2^K; party p holds the    *)
(* shares p+1 and p+2 (its a[0] and a[1]) and draws from the streams p+1   *)
(* and p+2 (its keys 0 and 1), so that the share a[1] of p and the share   *)
(* a[0] of p+1 are copies, and so are their streams.                       *)
(*                                                                         *)
(* The parties run the same program, each at its own pace.  Machine words  *)
(* (Lint) have W >= K bits and are cut to K bits only where the code masks *)
(* with SHIFT: in what is sent, in place, and in what is opened.  A random *)
(* word has R bits, K <= R <= W; memcpy puts it under the W - R high bits  *)
(* its destination already has, which at first are uninitialized memory.   *)
(***************************************************************************)
EXTENDS Integers, Sequences, FiniteSets

CONSTANTS
    K,              \* ring_size
    R,              \* bits of a random word, ring_size in whole bytes
    W,              \* bits of a Lint
    Programs,       \* sequences of [op, dst, x, y]
    InputShares,    \* [register -> [1..3 -> word]] for the inputs
    Streams,        \* [1..3 -> Seq(word)]: what the shared PRGs produce
    Unknown         \* a register without a value

ASSUME WidthAssumption ==
    K \in Nat \ {0} /\ R \in Nat /\ W \in Nat /\ K <= R /\ R <= W

Party == 1..3
Word == 0 .. 2^W - 1

Written(prg) == {prg[i].dst : i \in DOMAIN prg}

\* What a program may use at instruction i: the inputs and earlier products.
Available(prg, in, i) ==
    DOMAIN in \union {prg[j].dst : j \in {k \in 1 .. i-1 : prg[k].op = "mult"}}

\* A register is the name of one value: it is written once, before it is used.
ASSUME ProgramAssumption ==
    \A prg \in Programs :
        /\ Len(prg) \in Nat /\ DOMAIN prg = 1 .. Len(prg)
        /\ \A i \in 1 .. Len(prg) : prg[i].op \in {"mult", "open", "multpub"}
        /\ \A i, j \in 1 .. Len(prg) : prg[i].dst = prg[j].dst => i = j
        /\ \A in \in InputShares :
              /\ \A i \in 1 .. Len(prg) : {prg[i].x, prg[i].y} \subseteq Available(prg, in, i)
              /\ DOMAIN in \intersect Written(prg) = {}

ASSUME InputAssumption ==
    /\ \A in \in InputShares : \A r \in DOMAIN in : in[r] \in [Party -> Word]
    /\ Unknown \notin Word /\ Unknown \notin Word \X Word

\* A stream does not end: an instruction takes at most one word of each.
ASSUME StreamAssumption ==
    \A st \in Streams :
        /\ st \in [Party -> Seq(0 .. 2^R - 1)]
        /\ \A prg \in Programs, s \in Party : Len(prg) <= Len(st[s])

\* pid + d modulo 3: map_3pc is <<Up(p, 2), Up(p, 1)>>.
Up(p, d) == ((p + d - 1) % 3) + 1

Wrap(x) == x % 2^W              \* Lint arithmetic
Mask(x) == x % 2^K              \* & SHIFT[ring_size]

\* What memcpy of a random word leaves: the high bits are those of the old
\* word; those of uninitialized memory are any.
Over(old, word) == (old \div 2^R) * 2^R + word
Garbage == {h * 2^R : h \in 0 .. 2^(W-R) - 1}

VARIABLES
    program,    \* what all parties run
    pc,         \* pc[p]: p's instruction
    busy,       \* busy[p]: p has sent what instruction pc[p] sends
    shares,     \* shares[p][r]: <<a[0], a[1]>> of register r, or Unknown
    opened,     \* opened[p][r]: the public results p has
    v,          \* v[p]: the locals of the instruction in progress
    drawn,      \* drawn[p]: how many words p took from its keys 0 and 1
    stream,     \* the words of the three streams
    chan        \* chan[p][q]: words on their way from p to q

vars == <<program, pc, busy, shares, opened, v, drawn, stream, chan>>

Registers == DOMAIN shares[1]
Running(p) == pc[p] <= Len(program)
Instr(p) == program[pc[p]]

\* The next word prg_getrandom takes from key 0 or 1.
Draw(p, key) == stream[Up(p, key + 1)][drawn[p][key + 1] + 1]

\* Faulty variant: one cross product forgotten.
Local_forgotten(a, b) == a[1] * b[1] + a[1] * b[2]

\* The products whose factors one party holds.
Local(a, b) == a[1] * b[1] + a[1] * b[2] + a[2] * b[1]

TypeOK ==
    /\ program \in Programs
    /\ pc \in [Party -> 1 .. Len(program) + 1]
    /\ busy \in [Party -> BOOLEAN]
    /\ shares \in [Party -> [Registers -> {Unknown} \union (Word \X Word)]]
    /\ opened \in [Party -> [Registers -> {Unknown} \union (0 .. 2^K - 1)]]
    /\ v \in [Party -> Word \X Word]
    /\ drawn \in [Party -> Nat \X Nat]
    /\ stream \in Streams
    /\ chan \in [Party -> [Party -> Seq(0 .. 2^K - 1)]]

Init ==
    /\ program \in Programs
    /\ pc = [p \in Party |-> 1]
    /\ busy = [p \in Party |-> FALSE]
    /\ \E in \in InputShares :
          shares = [p \in Party |-> [r \in DOMAIN in \union Written(program) |->
              IF r \in DOMAIN in THEN <<in[r][Up(p, 1)], in[r][Up(p, 2)]>> ELSE Unknown]]
    /\ opened = [p \in Party |-> [r \in Registers |-> Unknown]]
    /\ v = [p \in Party |-> <<0, 0>>]
    /\ drawn = [p \in Party |-> <<0, 0>>]
    /\ stream \in Streams
    /\ chan = [p \in Party |-> [q \in Party |-> <<>>]]

-----------------------------------------------------------------------------
\* Faulty variant: the word goes to the neighbour it is read from.
MultSend_back(p) ==
    LET s == Instr(p) IN
    /\ Running(p) /\ ~busy[p] /\ s.op = "mult"
    /\ \E old \in Garbage :
          LET c0 == Over(old, Draw(p, 1))
              w == Mask(Local(shares[p][s.x], shares[p][s.y]) - c0) IN
          /\ v' = [v EXCEPT ![p] = <<c0, w>>]
          /\ chan' = [chan EXCEPT ![p][Up(p, 1)] = Append(@, w)]
    /\ drawn' = [drawn EXCEPT ![p][2] = @ + 1]
    /\ busy' = [busy EXCEPT ![p] = TRUE]
    /\ UNCHANGED <<program, pc, shares, opened, stream>>

\* Rss_Mult until its SendAndGetDataFromPeer has sent: c[0] is a word of key
\* 1, and v is cut to K bits where it is sent from.
MultSend(p) ==
    LET s == Instr(p) IN
    /\ Running(p) /\ ~busy[p] /\ s.op = "mult"
    /\ \E old \in Garbage :
          LET c0 == Over(old, Draw(p, 1))
              w == Mask(Local(shares[p][s.x], shares[p][s.y]) - c0) IN
          /\ v' = [v EXCEPT ![p] = <<c0, w>>]
          /\ chan' = [chan EXCEPT ![p][Up(p, 2)] = Append(@, w)]
    /\ drawn' = [drawn EXCEPT ![p][2] = @ + 1]
    /\ busy' = [busy EXCEPT ![p] = TRUE]
    /\ UNCHANGED <<program, pc, shares, opened, stream>>

\* Faulty variant: the word drawn before the exchange is used again after it.
MultRecv_reuse(p) ==
    LET s == Instr(p)
        q == Up(p, 1) IN
    /\ Running(p) /\ busy[p] /\ s.op = "mult" /\ chan[q][p] # <<>>
    /\ shares' = [shares EXCEPT ![p][s.dst] =
          << Wrap(v[p][1] + v[p][2]), Wrap(Head(chan[q][p]) + v[p][1]) >>]
    /\ drawn' = [drawn EXCEPT ![p][1] = @ + 1]
    /\ chan' = [chan EXCEPT ![q][p] = Tail(@)]
    /\ pc' = [pc EXCEPT ![p] = @ + 1]
    /\ busy' = [busy EXCEPT ![p] = FALSE]
    /\ UNCHANGED <<program, opened, v, stream>>

\* Faulty variant: P_container is not advanced for the word of key 0.
MultRecv_stale(p) ==
    LET s == Instr(p)
        q == Up(p, 1) IN
    /\ Running(p) /\ busy[p] /\ s.op = "mult" /\ chan[q][p] # <<>>
    /\ shares' = [shares EXCEPT ![p][s.dst] =
          << Wrap(Over(v[p][1], Draw(p, 0)) + v[p][2]),
             Wrap(Head(chan[q][p]) + v[p][1]) >>]
    /\ chan' = [chan EXCEPT ![q][p] = Tail(@)]
    /\ pc' = [pc EXCEPT ![p] = @ + 1]
    /\ busy' = [busy EXCEPT ![p] = FALSE]
    /\ UNCHANGED <<program, opened, v, drawn, stream>>

\* The rest of Rss_Mult: c[1] is the word received plus c[0], and c[0] becomes
\* a word of key 0 plus v.
MultRecv(p) ==
    LET s == Instr(p)
        q == Up(p, 1) IN
    /\ Running(p) /\ busy[p] /\ s.op = "mult" /\ chan[q][p] # <<>>
    /\ shares' = [shares EXCEPT ![p][s.dst] =
          << Wrap(Over(v[p][1], Draw(p, 0)) + v[p][2]),
             Wrap(Head(chan[q][p]) + v[p][1]) >>]
    /\ drawn' = [drawn EXCEPT ![p][1] = @ + 1]
    /\ chan' = [chan EXCEPT ![q][p] = Tail(@)]
    /\ pc' = [pc EXCEPT ![p] = @ + 1]
    /\ busy' = [busy EXCEPT ![p] = FALSE]
    /\ UNCHANGED <<program, opened, v, stream>>

\* Rss_Open sends a[1], which sendDataToPeer cuts to K bits in place.
OpenSend(p) ==
    LET s == Instr(p) IN
    /\ Running(p) /\ ~busy[p] /\ s.op = "open"
    /\ shares' = [shares EXCEPT ![p][s.x][2] = Mask(@)]
    /\ chan' = [chan EXCEPT ![p][Up(p, 2)] = Append(@, Mask(shares[p][s.x][2]))]
    /\ busy' = [busy EXCEPT ![p] = TRUE]
    /\ UNCHANGED <<program, pc, opened, v, drawn, stream>>

\* Faulty variant: the sum is not masked.
OpenRecv_unmasked(p) ==
    LET s == Instr(p)
        q == Up(p, 1) IN
    /\ Running(p) /\ busy[p] /\ s.op = "open" /\ chan[q][p] # <<>>
    /\ opened' = [opened EXCEPT ![p][s.dst] =
          Wrap(shares[p][s.x][1] + shares[p][s.x][2] + Head(chan[q][p]))]
    /\ chan' = [chan EXCEPT ![q][p] = Tail(@)]
    /\ pc' = [pc EXCEPT ![p] = @ + 1]
    /\ busy' = [busy EXCEPT ![p] = FALSE]
    /\ UNCHANGED <<program, shares, v, drawn, stream>>

OpenRecv(p) ==
    LET s == Instr(p)
        q == Up(p, 1) IN
    /\ Running(p) /\ busy[p] /\ s.op = "open" /\ chan[q][p] # <<>>
    /\ opened' = [opened EXCEPT ![p][s.dst] =
          Mask(shares[p][s.x][1] + shares[p][s.x][2] + Head(chan[q][p]))]
    /\ chan' = [chan EXCEPT ![q][p] = Tail(@)]
    /\ pc' = [pc EXCEPT ![p] = @ + 1]
    /\ busy' = [busy EXCEPT ![p] = FALSE]
    /\ UNCHANGED <<program, shares, v, drawn, stream>>

\* The signs of the two words in Rss_MultPub (opa, opb), by pid.
Sign(p) == << <<1, 1>>, <<-1, 1>>, <<-1, -1>> >>[p]

\* Rss_MultPub until the sends of multicastToPeers: the parties' words cancel.
PubSend(p) ==
    LET s == Instr(p) IN
    /\ Running(p) /\ ~busy[p] /\ s.op = "multpub"
    /\ \E old_a, old_c \in Garbage :
          LET c == Wrap(Local(shares[p][s.x], shares[p][s.y])
                        + Sign(p)[1] * Over(old_a, Draw(p, 0))
                        + Sign(p)[2] * Over(old_c, Draw(p, 1))) IN
          /\ v' = [v EXCEPT ![p] = <<c, 0>>]
          /\ chan' = [chan EXCEPT ![p] = [q \in Party |->
                         IF q = p THEN @[q] ELSE Append(@[q], Mask(c))]]
    /\ drawn' = [drawn EXCEPT ![p] = <<@[1] + 1, @[2] + 1>>]
    /\ busy' = [busy EXCEPT ![p] = TRUE]
    /\ UNCHANGED <<program, pc, shares, opened, stream>>

\* Its receives and the sum; the two blocking reads change nothing between.
PubRecv(p) ==
    LET s == Instr(p)
        a == Up(p, 2)
        b == Up(p, 1) IN
    /\ Running(p) /\ busy[p] /\ s.op = "multpub"
    /\ chan[a][p] # <<>> /\ chan[b][p] # <<>>
    /\ opened' = [opened EXCEPT ![p][s.dst] =
          Mask(v[p][1] + Head(chan[a][p]) + Head(chan[b][p]))]
    /\ chan' = [chan EXCEPT ![a][p] = Tail(@), ![b][p] = Tail(@)]
    /\ pc' = [pc EXCEPT ![p] = @ + 1]
    /\ busy' = [busy EXCEPT ![p] = FALSE]
    /\ UNCHANGED <<program, shares, v, drawn, stream>>

Step(p) ==
    \/ MultSend(p) \/ MultRecv(p)
    \/ OpenSend(p) \/ OpenRecv(p)
    \/ PubSend(p) \/ PubRecv(p)

Next == \E p \in Party : Step(p)

Spec == Init /\ [][Next]_vars

FairSpec == Spec /\ \A p \in Party : WF_vars(Step(p))

-----------------------------------------------------------------------------
(***************************************************************************)
(* Correctness.                                                            *)
(***************************************************************************)

\* The two copies of a share are the same ring element whenever both parties
\* have them, whatever is left in the bits above the ring.
ReplicasAgree ==
    \A p \in Party, r \in Registers :
        (shares[p][r] # Unknown /\ shares[Up(p, 1)][r] # Unknown) =>
            Mask(shares[p][r][2]) = Mask(shares[Up(p, 1)][r][1])

\* The streams of two parties stay in step: at the same instruction both have
\* drawn as many words of the stream they share, so no word is used twice.
StreamsInStep ==
    \A p \in Party : LET q == Up(p, 1) IN
        (pc[p] = pc[q] /\ ~busy[p] /\ ~busy[q]) => drawn[p][2] = drawn[q][1]

\* The secret in a register, once any two parties have their shares of it.
Holders(r) == {p \in Party : shares[p][r] # Unknown}

Secret(r) ==
    IF Cardinality(Holders(r)) < 2 THEN Unknown
    ELSE LET p == CHOOSE p \in Party : p \in Holders(r) /\ Up(p, 1) \in Holders(r) IN
         Mask(shares[p][r][1] + shares[p][r][2] + shares[Up(p, 1)][r][2])

Times(x, y) == Mask(x * y)

Abstract == INSTANCE Ideal WITH
    Product <- Times, Parties <- Party,
    val <- [r \in Registers |-> Secret(r)], out <- opened

\* Sharing, drawing and exchanging words compute what Ideal computes.
RefinesIdeal == Abstract!Spec

\* Every party ends the program.
Completes == <>(\A p \in Party : pc[p] > Len(program))
=============================================================================
