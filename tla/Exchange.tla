------------------------------ MODULE Exchange ------------------------------
(***************************************************************************)
(* The message layer under every protocol (NodeNetwork::SendAndGetData...  *)
(* and multicastToPeers).  Each party runs the same program with its own   *)
(* pid: a fixed list of blocking sends and receives, one operation per     *)
(* chunk of a vector.  Frames carry no tag, so a receiver takes whatever   *)
(* the FIFO socket delivers next to be the chunk its own loop counters     *)
(* ask for.                                                                *)
(*                                                                         *)
(* Init picks one script: how many parties, the frames the calls cut their *)
(* vectors into, and every party's list of operations.  An operation names *)
(* the frame by its place in script.frames, which stands for the call, the *)
(* slot (the code's i) and the round (the code's k) it belongs to.         *)
(***************************************************************************)
EXTENDS Integers, Sequences

CONSTANTS Scripts,       \* the programs considered
          SocketBuffer   \* bytes the kernel holds between two parties

ASSUME BufferAssumption == SocketBuffer \in Nat

VARIABLES
    script,     \* [n, frames, prog], chosen once
    pos,        \* pos[p]: p's next operation in script.prog[p]
    chan        \* chan[p][q]: the frames on their way from p to q

vars == <<script, pos, chan>>

Party == 1..script.n
Prog(p) == script.prog[p]
Op(p) == Prog(p)[pos[p]]
Finished(p) == pos[p] > Len(Prog(p))

TypeOK ==
    /\ script \in Scripts
    /\ pos \in [Party -> Nat \ {0}]
    /\ \A p \in Party : pos[p] <= Len(Prog(p)) + 1
    /\ chan \in [Party -> [Party -> Seq(1..Len(script.frames))]]

Init ==
    /\ script \in Scripts
    /\ pos = [p \in 1..script.n |-> 1]
    /\ chan = [p \in 1..script.n |-> [q \in 1..script.n |-> <<>>]]

\* send() goes through when the kernel can hold the whole frame; each frame
\* already there is charged the size of a full one.
Room(p, q, f) == (Len(chan[p][q]) + 1) * script.frames[f].bytes <= SocketBuffer

\* sendDataToPeer: spins in send()/select() until the chunk is written.
CanSend(p) ==
    ~Finished(p) /\ Op(p).do = "send" /\ Room(p, Op(p).peer, Op(p).frame)

\* Faulty variant: the loop's round is one ahead of the chunk it sends.
Send_ahead(p) ==
    /\ CanSend(p)
    /\ chan' = [chan EXCEPT ![p][Op(p).peer] = Append(@, Op(p).frame + 1)]
    /\ pos' = [pos EXCEPT ![p] = @ + 1]
    /\ UNCHANGED script

Send(p) ==
    /\ CanSend(p)
    /\ chan' = [chan EXCEPT ![p][Op(p).peer] = Append(@, Op(p).frame)]
    /\ pos' = [pos EXCEPT ![p] = @ + 1]
    /\ UNCHANGED script

\* getDataFromPeer: spins in recv()/select() until the chunk is there.
CanRecv(p) ==
    ~Finished(p) /\ Op(p).do = "recv" /\ chan[Op(p).peer][p] # <<>>

\* Faulty variant: the receiver takes the newest frame instead of the oldest.
Recv_newest(p) ==
    LET c == chan[Op(p).peer][p] IN
    /\ CanRecv(p)
    /\ chan' = [chan EXCEPT ![Op(p).peer][p] = SubSeq(c, 1, Len(c) - 1)]
    /\ pos' = [pos EXCEPT ![p] = @ + 1]
    /\ UNCHANGED script

\* Faulty variant: the frame is left in the socket.
Recv_peek(p) ==
    /\ CanRecv(p)
    /\ pos' = [pos EXCEPT ![p] = @ + 1]
    /\ UNCHANGED <<script, chan>>

Recv(p) ==
    /\ CanRecv(p)
    /\ chan' = [chan EXCEPT ![Op(p).peer][p] = Tail(@)]
    /\ pos' = [pos EXCEPT ![p] = @ + 1]
    /\ UNCHANGED script

Next == \E p \in Party : Send(p) \/ Recv(p)

Spec == Init /\ [][Next]_vars

-----------------------------------------------------------------------------
(***************************************************************************)
(* Correctness.                                                            *)
(***************************************************************************)

\* The frame at the head of a socket is the one its reader is about to ask
\* for: call, slot, offset and length agree although nothing on the wire says.
FrameMatch ==
    \A p \in Party :
        (~Finished(p) /\ Op(p).do = "recv" /\ chan[Op(p).peer][p] # <<>>)
            => Head(chan[Op(p).peer][p]) = Op(p).frame

\* The parties never all wait for each other: not in send() for room in a
\* socket, not in recv() for a frame nobody will send.
NoDeadlock ==
    (\A p \in Party : Finished(p)) \/ (\E p \in Party : CanSend(p) \/ CanRecv(p))

\* A finished program leaves nothing in any socket for the next one to read.
Drained ==
    (\A p \in Party : Finished(p)) => \A p, q \in Party : chan[p][q] = <<>>

-----------------------------------------------------------------------------
(***************************************************************************)
(* What a script must be for the above to hold: no party leaves a frame's  *)
(* receives before its sends or goes back to an earlier frame, every send  *)
(* has its receive and conversely, and a frame fits an empty socket.       *)
(***************************************************************************)
Rank(op) == 2 * op.frame + (IF op.do = "recv" THEN 1 ELSE 0)

OpOf(s) == [do : {"send", "recv"}, peer : 1..s.n, frame : 1..Len(s.frames)]

WellTyped(s) ==
    /\ s.n \in Nat
    /\ Len(s.frames) \in Nat
    /\ \A f \in 1..Len(s.frames) : s.frames[f].bytes \in Nat
    /\ s.prog \in [1..s.n -> Seq(OpOf(s))]

InOrder(s) ==
    \A p \in 1..s.n : \A i, j \in 1..Len(s.prog[p]) :
        i < j => /\ Rank(s.prog[p][i]) <= Rank(s.prog[p][j])
                 /\ s.prog[p][i] # s.prog[p][j]

Does(s, p, do, q, f) ==
    \E i \in 1..Len(s.prog[p]) :
        s.prog[p][i] = [do |-> do, peer |-> q, frame |-> f]

Paired(s) ==
    \A p, q \in 1..s.n : \A f \in 1..Len(s.frames) :
        Does(s, p, "send", q, f) <=> Does(s, q, "recv", p, f)

FrameFits(s) == \A f \in 1..Len(s.frames) : s.frames[f].bytes <= SocketBuffer

Matched(s) == WellTyped(s) /\ InOrder(s) /\ Paired(s) /\ FrameFits(s)
=============================================================================
