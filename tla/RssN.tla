-------------------------------- MODULE RssN --------------------------------
(***************************************************************************)
(* Five and seven parties computing on replicated shares (Rss_Mult,        *)
(* Rss_MultPub and Rss_Open of Mult_5pc, Mult_7pc, Open_5pc, Open_7pc).  A *)
(* register is a batch of secrets; a[j][i] is a party's share j of secret  *)
(* i, copies of which are held, at other indices, by all parties outside   *)
(* TSet(p, j, n); so are the streams its key j draws from.                 *)
(*                                                                         *)
(* Words are as in Rss3: Lint has W bits, the ring K, a random word R.     *)
(***************************************************************************)
EXTENDS Sharing, FiniteSets, Functions

CONSTANTS
    K, W,           \* ring_size, bits of a Lint
    Cases,          \* the inputs: records [n, R, size, seed, program]
    Input(_, _, _, _),  \* Input(seed, r, T, i): share T of secret i in r
    Prg(_, _, _),   \* Prg(seed, T, k): a number, the k-th of the stream of T
    Unknown         \* a register without a value

Written(prg) == {prg[i].dst : i \in DOMAIN prg}
Inputs == {"x", "y"}

\* What a program may use at instruction i: the inputs and earlier products.
Available(prg, i) ==
    Inputs \union {prg[j].dst : j \in {k \in 1 .. i-1 : prg[k].op = "mult"}}

ASSUME CasesAssumption ==
    /\ K \in Nat \ {0} /\ W \in Nat
    /\ \A c \in Cases :
          /\ c.n \in {5, 7} /\ c.R \in Nat /\ K <= c.R /\ c.R <= W
          /\ c.size \in Nat \ {0}

\* A register is the name of one batch: it is written once, before it is used.
ASSUME ProgramAssumption ==
    \A c \in Cases : LET prg == c.program IN
        /\ Len(prg) \in Nat /\ DOMAIN prg = 1 .. Len(prg)
        /\ \A i \in 1 .. Len(prg) :
              /\ prg[i].op \in {"mult", "open", "multpub"}
              /\ {prg[i].x, prg[i].y} \subseteq Available(prg, i)
        /\ \A i, j \in 1 .. Len(prg) : prg[i].dst = prg[j].dst => i = j
        /\ Inputs \intersect Written(prg) = {}

Word == 0 .. 2^W - 1

\* A key is asked for at most four words for a value.
ASSUME InputAssumption ==
    \A c \in Cases :
        /\ \A p \in 1 .. c.n, j \in 0 .. numShares(c.n) - 1, r \in Inputs, i \in 1 .. c.size :
              Input(c.seed, r, TSet(p, j, c.n), i) \in Word
        /\ \A p \in 1 .. c.n, j \in 0 .. numShares(c.n) - 1 :
              \A k \in 1 .. 4 * c.size * Len(c.program) :
                 Prg(c.seed, TSet(p, j, c.n), k) \in Nat
        /\ Unknown \notin [0 .. numShares(c.n) - 1 -> [1 .. c.size -> Word]]
        /\ Unknown \notin [1 .. c.size -> Word]

Wrap(x) == x % 2^W              \* Lint arithmetic
Mask(x) == x % 2^K              \* & SHIFT[ring_size]

VARIABLES
    run,        \* the case: parties, word size, batch size and program
    pc,         \* pc[p]: p's instruction
    sent,       \* sent[p]: the messages p has sent in it, to one peer each
    shares,     \* shares[p][r]: [j |-> [i |-> word]], or Unknown
    opened,     \* opened[p][r]: the public results p has
    v,          \* v[p]: the locals of the instruction in progress
    drawn,      \* drawn[p][j]: how many words p took from key j
    chan        \* chan[p][q]: batches on their way from p to q

vars == <<run, pc, sent, shares, opened, v, drawn, chan>>

n == run.n
t == (n - 1) \div 2
Party == 1..n
Everyone == 1..7
Keys == 0 .. numShares(n) - 1
Batch == 1 .. run.size
Registers == DOMAIN shares[1]
Running(p) == pc[p] <= Len(run.program)
Instr(p) == run.program[pc[p]]

SumOver(S, f) == SumFunctionOnSet(f, S)

\* TSet(p, j, m), tabulated.
TSets == [m \in {5, 7} |-> [p \in 1..m |-> [j \in 0 .. numShares(m) - 1 |-> TSet(p, j, m)]]]
Missing(p, j) == TSets[n][p][j]

\* Chi(p), the t parties after p, is the T of p's share 0.
Chi(p) == Missing(p, 0)

-----------------------------------------------------------------------------
Local(a, b, i) ==
    SumOver(Keys, [j \in Keys |->
        a[j][i] * SumOver(Cross(n)[j + 1], [k \in Keys |-> b[k][i]])])

\* In Rss_MultPub, party p subtracts the words of its keys below First, t
\* times each, and adds the others once.
First(m) == IF m = 5 THEN <<0, 0, 1, 3, 6>> ELSE <<0, 0, 0, 1, 4, 10, 20>>

\* Faulty variant: every word is subtracted once, though t parties add it.
Ops_once(p, j) == IF j < First(n)[p] THEN -1 ELSE 1

Ops(p, j) == IF j < First(n)[p] THEN -t ELSE 1

\* map_5pc, map_7pc: where Rss_Mult sends v, in which order it reads, and the
\* shares the batches it reads are added to.
\* open_map_5pc, open_map_7pc: the same of Rss_Open, and which shares it adds up
\* for each of the peers it sends to.
Peers(op) ==
    IF op = "mult"
    THEN IF n = 5 THEN [to |-> <<3, 4>>, from |-> <<2, 1>>, share |-> << {5}, {3} >>]
         ELSE [to |-> <<4, 5, 6>>, from |-> <<3, 2, 1>>, share |-> << {19}, {16}, {10} >>]
    ELSE IF n = 5 THEN [to |-> <<1, 4>>, from |-> <<4, 1>>, share |-> << {0,1}, {4,5} >>]
         ELSE [to |-> <<1, 2, 3>>, from |-> <<6, 5, 4>>,
               share |-> << 0..4, 10..14, {1, 5, 16, 17, 18} >>]

TypeOK ==
    /\ run \in Cases
    /\ pc \in [Party -> 1 .. Len(run.program) + 1]
    /\ sent \in [Party -> 0..6]
    /\ shares \in [Party -> [Registers -> {Unknown} \union [Keys -> [Batch -> Word]]]]
    /\ opened \in [Everyone -> [Registers -> {Unknown} \union [Batch -> 0 .. 2^K - 1]]]
    /\ v \in [Party ->
          [c : {<<>>} \union [Batch -> Word] \union [Keys -> [Batch -> Word]],
           out : Seq([Batch -> Word]), got : Seq([Batch -> 0 .. 2^K - 1])]]
    /\ drawn \in [Party -> [Keys -> Nat]]
    /\ chan \in [Party -> [Party -> Seq([Batch -> 0 .. 2^K - 1])]]

NoLocals == [c |-> <<>>, out |-> <<>>, got |-> <<>>]

Init ==
    /\ run \in Cases
    /\ pc = [p \in Party |-> 1]
    /\ sent = [p \in Party |-> 0]
    /\ shares = [p \in Party |-> [r \in Inputs \union Written(run.program) |->
          IF r \in Written(run.program) THEN Unknown
          ELSE [j \in Keys |-> [i \in Batch |-> Input(run.seed, r, Missing(p, j), i)]]]]
    /\ opened = [p \in Everyone |-> [r \in Registers |-> Unknown]]
    /\ v = [p \in Party |-> NoLocals]
    /\ drawn = [p \in Party |-> [j \in Keys |-> 0]]
    /\ chan = [p \in Party |-> [q \in Party |-> <<>>]]

Starts(p, op) == Running(p) /\ sent[p] = 0 /\ Instr(p).op = op

\* The k-th of the R-bit words that prg_getrandom(j, ..) is asked for next.
Draw(p, j, k) == Prg(run.seed, Missing(p, j), drawn[p][j] + k) % 2^run.R

\* The batch v[p].out[1] leaves for the first peer, cut to K bits.
FirstSend(p, op, out) ==
    chan' = [chan EXCEPT ![p][Off(p, Peers(op).to[1], n)] =
                Append(@, [i \in Batch |-> Mask(out[1][i])])]

-----------------------------------------------------------------------------
\* Rss_Mult until its first send.  For every p_prime outside T whose Chi is
\* not T, the same word of the stream of T is added to the share of T, and
\* p_prime subtracts it from its own local product.
MultStart(p) ==
    LET s == Instr(p)
        z(j, i) == Draw(p, j, (i - 1) * prg_ctrs(n)[j + 1] + 1)
        times(T) == Cardinality({q \in Party \ T : Chi(q) # T})
        w == [i \in Batch |-> Mask(Local(shares[p][s.x], shares[p][s.y], i)
                  - SumOver({j \in Keys : Missing(p, j) # Chi(p)}, [j \in Keys |-> z(j, i)]))]
        out == [m \in 1..t |-> w]
    IN
    /\ Starts(p, "mult")
    /\ v' = [v EXCEPT ![p] =
          [c |-> [j \in Keys |-> [i \in Batch |-> Wrap(times(Missing(p, j)) * z(j, i))]],
           out |-> out, got |-> <<>>]]
    /\ FirstSend(p, "mult", out)
    /\ drawn' = [drawn EXCEPT ![p] = [j \in Keys |-> @[j] + run.size * prg_ctrs(n)[j + 1]]]
    /\ sent' = [sent EXCEPT ![p] = 1]
    /\ UNCHANGED <<run, pc, shares, opened>>

\* Rss_Open until its first send: each peer gets the sum of the shares it lacks.
OpenStart(p) ==
    LET a == shares[p][Instr(p).x]
        out == [m \in 1..t |-> [i \in Batch |->
                   Wrap(SumOver(Peers("open").share[m], [j \in Keys |-> a[j][i]]))]]
    IN
    /\ Starts(p, "open")
    /\ v' = [v EXCEPT ![p] = [c |-> <<>>, out |-> out, got |-> <<>>]]
    /\ FirstSend(p, "open", out)
    /\ sent' = [sent EXCEPT ![p] = 1]
    /\ UNCHANGED <<run, pc, shares, opened, drawn>>

\* Faulty variant: every read of the loop is from the first peer.
Source_first(p) == Off(p, Peers(Instr(p).op).from[1], n)

\* The peer p reads from next.
Source(p) == Off(p, Peers(Instr(p).op).from[sent[p]], n)

Reads(p, ops) ==
    /\ Running(p) /\ Instr(p).op \in ops /\ sent[p] > 0
    /\ chan[Source(p)][p] # <<>>

\* One turn of the loop of SendAndGetDataFromPeer_Mult or _Open: the batch
\* from this peer is read and the next peer's is sent.
Relay(p) ==
    LET q == Source(p)
        next == Off(p, Peers(Instr(p).op).to[sent[p] + 1], n) IN
    /\ Reads(p, {"mult", "open"}) /\ sent[p] < t
    /\ v' = [v EXCEPT ![p].got = Append(@, Head(chan[q][p]))]
    /\ chan' = [chan EXCEPT
          ![q][p] = Tail(@),
          ![p][next] = Append(@, [i \in Batch |-> Mask(v[p].out[sent[p] + 1][i])])]
    /\ sent' = [sent EXCEPT ![p] = @ + 1]
    /\ UNCHANGED <<run, pc, shares, opened, drawn>>

\* The last read of an exchange, and what it leaves for the next instruction.
LastRead(p, op) ==
    /\ Reads(p, {op}) /\ sent[p] = t
    /\ chan' = [chan EXCEPT ![Source(p)][p] = Tail(@)]
    /\ pc' = [pc EXCEPT ![p] = @ + 1]
    /\ sent' = [sent EXCEPT ![p] = 0]
    /\ v' = [v EXCEPT ![p] = NoLocals]

Got(p) == Append(v[p].got, Head(chan[Source(p)][p]))

\* Faulty variant: the batches are added in the order of the sends.
MultEnd_reversed(p) ==
    LET into(j) == {m \in 1..t : j \in Peers("mult").share[t + 1 - m]}
        c(j, i) == v[p].c[j][i] + SumOver(into(j), [m \in 1..t |-> Got(p)[m][i]]) IN
    /\ LastRead(p, "mult")
    /\ shares' = [shares EXCEPT ![p][Instr(p).dst] = [j \in Keys |-> [i \in Batch |->
          Wrap(c(j, i) + IF j = 0 THEN v[p].out[1][i] ELSE 0)]]]
    /\ UNCHANGED <<run, opened, drawn>>

\* The rest of Rss_Mult: the batches read, and its own, complete t + 1 shares.
MultEnd(p) ==
    LET into(j) == {m \in 1..t : j \in Peers("mult").share[m]}
        c(j, i) == v[p].c[j][i] + SumOver(into(j), [m \in 1..t |-> Got(p)[m][i]]) IN
    /\ LastRead(p, "mult")
    /\ shares' = [shares EXCEPT ![p][Instr(p).dst] = [j \in Keys |-> [i \in Batch |->
          Wrap(c(j, i) + IF j = 0 THEN v[p].out[1][i] ELSE 0)]]]
    /\ UNCHANGED <<run, opened, drawn>>

\* Faulty variant: the sum is not masked.
OpenEnd_unmasked(p) ==
    LET a == shares[p][Instr(p).x] IN
    /\ LastRead(p, "open")
    /\ opened' = [opened EXCEPT ![p][Instr(p).dst] = [i \in Batch |->
          Wrap(SumOver(Keys, [j \in Keys |-> a[j][i]])
               + SumOver(1..t, [m \in 1..t |-> Got(p)[m][i]]))]]
    /\ UNCHANGED <<run, shares, drawn>>

\* The rest of Rss_Open.
OpenEnd(p) ==
    LET a == shares[p][Instr(p).x] IN
    /\ LastRead(p, "open")
    /\ opened' = [opened EXCEPT ![p][Instr(p).dst] = [i \in Batch |->
          Mask(SumOver(Keys, [j \in Keys |-> a[j][i]])
               + SumOver(1..t, [m \in 1..t |-> Got(p)[m][i]]))]]
    /\ UNCHANGED <<run, shares, drawn>>

\* memcpy(v_a[j], buffer[j], bytes*size): Lint i of v_a[j] is W bits of the
\* words written one after the other, and of what the memory held above them.
v_a(p, j, i, old) ==
    LET buffer == SumOver(Batch, [k \in Batch |-> Draw(p, j, k) * 2^(run.R * (k - 1))])
        memory == buffer + old * 2^(run.R * run.size) IN
    (memory \div 2^(W * (i - 1))) % 2^W

\* Rss_MultPub until the sends of multicastToPeers.  Bound: one content of the
\* uninitialized memory for all the arrays of a call.
PubStart(p) ==
    LET s == Instr(p) IN
    /\ Starts(p, "multpub")
    /\ \E old \in 0 .. 2^((W - run.R) * run.size) - 1 :
          LET c == [i \in Batch |-> Wrap(Local(shares[p][s.x], shares[p][s.y], i)
                       + SumOver(Keys, [j \in Keys |-> Ops(p, j) * v_a(p, j, i, old)]))] IN
          /\ v' = [v EXCEPT ![p] = [c |-> c, out |-> <<>>, got |-> <<>>]]
          /\ chan' = [chan EXCEPT ![p] = [q \in Party |->
                IF q = p THEN @[q] ELSE Append(@[q], [i \in Batch |-> Mask(c[i])])]]
    /\ drawn' = [drawn EXCEPT ![p] = [j \in Keys |-> @[j] + run.size]]
    /\ sent' = [sent EXCEPT ![p] = n - 1]
    /\ UNCHANGED <<run, pc, shares, opened>>

\* Its reads, which change nothing in between, and the sum.
PubEnd(p) ==
    LET others == Party \ {p} IN
    /\ Running(p) /\ Instr(p).op = "multpub" /\ sent[p] > 0
    /\ \A q \in others : chan[q][p] # <<>>
    /\ opened' = [opened EXCEPT ![p][Instr(p).dst] = [i \in Batch |->
          Mask(v[p].c[i] + SumOver(others, [q \in others |-> Head(chan[q][p])[i]]))]]
    /\ chan' = [q \in Party |-> [chan[q] EXCEPT ![p] = IF q = p THEN @ ELSE Tail(@)]]
    /\ pc' = [pc EXCEPT ![p] = @ + 1]
    /\ sent' = [sent EXCEPT ![p] = 0]
    /\ v' = [v EXCEPT ![p] = NoLocals]
    /\ UNCHANGED <<run, shares, drawn>>

Step(p) ==
    \/ MultStart(p) \/ OpenStart(p) \/ PubStart(p)
    \/ Relay(p)
    \/ MultEnd(p) \/ OpenEnd(p) \/ PubEnd(p)

Next == \E p \in Party : Step(p)

Spec == Init /\ [][Next]_vars

FairSpec == Spec /\ \A p \in Everyone : WF_vars(p \in Party /\ Step(p))

-----------------------------------------------------------------------------
(***************************************************************************)
(* Correctness.                                                            *)
(***************************************************************************)

Ts == {Missing(p, j) : p \in Party, j \in Keys}

\* The index at which p holds share T, tabulated.
Indexes == [m \in {5, 7} |-> [p \in 1..m |->
    [T \in {TSets[m][p][j] : j \in DOMAIN TSets[m][p]} |->
        CHOOSE j \in DOMAIN TSets[m][p] : TSets[m][p][j] = T]]]
IndexOf(p, T) == Indexes[n][p][T]

\* All parties outside T that have a register hold the same share of T: the
\* sums they built from their own tables are the same ring element.
ReplicasAgree ==
    \A r \in Registers, T \in Ts :
        LET holders == {p \in Party \ T : shares[p][r] # Unknown} IN
        \A p, q \in holders, i \in Batch :
            Mask(shares[p][r][IndexOf(p, T)][i]) = Mask(shares[q][r][IndexOf(q, T)][i])

\* Parties at the same point have drawn as many words of every stream they
\* share, so a word is never used for two purposes.
StreamsInStep ==
    \A p, q \in Party :
        (pc[p] = pc[q] /\ (sent[p] = 0 <=> sent[q] = 0)) =>
            \A T \in Ts : (p \notin T /\ q \notin T) =>
                drawn[p][IndexOf(p, T)] = drawn[q][IndexOf(q, T)]

\* The secrets in a register, once enough parties have it to hold every share.
Holders(r) == {p \in Party : shares[p][r] # Unknown}

Secret(r) ==
    IF Cardinality(Holders(r)) <= t THEN Unknown
    ELSE [i \in Batch |-> Mask(SumOver(Ts, [T \in Ts |->
             LET p == CHOOSE p \in Holders(r) : p \notin T IN
             shares[p][r][IndexOf(p, T)][i]]))]

Times(x, y) == [i \in DOMAIN x |-> Mask(x[i] * y[i])]

Abstract == INSTANCE Ideal WITH
    Product <- Times, Parties <- Everyone, program <- run.program,
    val <- [r \in Registers |-> Secret(r)], out <- opened

\* Sharing, drawing and exchanging words compute what Ideal computes.
RefinesIdeal == Abstract!Spec

\* What a party is shown is what the secrets shared at that time give.
ResultsRight ==
    \A p \in Party : \A k \in 1 .. pc[p] - 1 :
        LET s == run.program[k] IN
        /\ s.op = "open" => opened[p][s.dst] = Secret(s.x)
        /\ s.op = "multpub" => opened[p][s.dst] = Times(Secret(s.x), Secret(s.y))

\* Every party ends the program.
Completes == <>(\A p \in Party : pc[p] > Len(run.program))
=============================================================================
