--------------------------- MODULE ExchangeProofs ---------------------------
(***************************************************************************)
(* Matched scripts never deadlock, never mix up frames and leave no frame  *)
(* behind, for every number of parties, every list of calls and every      *)
(* socket buffer a frame fits in.                                          *)
(*                                                                         *)
(* The argument.  A socket holds, in increasing order, exactly the frames  *)
(* its writer has sent and its reader has not taken.  A party that waits   *)
(* in send() for frame f finds an earlier frame in the socket, whose       *)
(* reader therefore is at a smaller rank; one that waits in recv() for f   *)
(* has a writer that has not come to send f, again at a smaller rank.  So  *)
(* the unfinished party of the smallest rank does not wait.                *)
(***************************************************************************)
EXTENDS Exchange, WellFoundedInduction, TLAPS

\* p has sent frame f to q; p has taken frame f from q.
Sent(p, q, f) ==
    \E i \in 1..pos[p] - 1 : Prog(p)[i] = [do |-> "send", peer |-> q, frame |-> f]
Got(p, q, f) ==
    \E i \in 1..pos[p] - 1 : Prog(p)[i] = [do |-> "recv", peer |-> q, frame |-> f]

In(f, c) == \E k \in 1..Len(c) : c[k] = f

Contents ==
    \A p, q \in Party : \A f \in 1..Len(script.frames) :
        In(f, chan[p][q]) <=> Sent(p, q, f) /\ ~Got(q, p, f)

Causal ==
    \A p, q \in Party : \A f \in 1..Len(script.frames) :
        Got(q, p, f) => Sent(p, q, f)

Sorted ==
    \A p, q \in Party : \A i, j \in 1..Len(chan[p][q]) :
        i < j => chan[p][q][i] < chan[p][q][j]

IInv == TypeOK /\ Matched(script) /\ Contents /\ Causal /\ Sorted

-----------------------------------------------------------------------------
\* An operation of a program, and what the order of two of them says.
LEMMA ProgOrder ==
    ASSUME NEW s, Matched(s), NEW p \in 1..s.n,
           NEW i \in 1..Len(s.prog[p]), NEW j \in 1..Len(s.prog[p])
    PROVE  /\ s.prog[p][i] \in OpOf(s)
           /\ Rank(s.prog[p][i]) \in Nat
           /\ i <= j => Rank(s.prog[p][i]) <= Rank(s.prog[p][j])
           /\ s.prog[p][i] = s.prog[p][j] => i = j
<1>1. s.prog[p] \in Seq(OpOf(s)) /\ Len(s.frames) \in Nat
  BY DEF Matched, WellTyped
<1>2. s.prog[p][i] \in OpOf(s) /\ s.prog[p][j] \in OpOf(s)
  BY <1>1
<1>3. \A o \in OpOf(s) : Rank(o) \in Nat
  BY <1>1 DEF OpOf, Rank
<1>4. \A k, m \in 1..Len(s.prog[p]) :
        k < m => /\ Rank(s.prog[p][k]) <= Rank(s.prog[p][m])
                 /\ s.prog[p][k] # s.prog[p][m]
  BY DEF Matched, InOrder
<1>5. Len(s.prog[p]) \in Nat
  BY <1>1
<1>6. i <= j => Rank(s.prog[p][i]) <= Rank(s.prog[p][j])
  <2>1. CASE i < j
    BY <1>4, <2>1
  <2>2. CASE i = j
    BY <1>2, <1>3, <2>2
  <2> QED BY <1>5, <2>1, <2>2
<1>7. s.prog[p][i] = s.prog[p][j] => i = j
  BY <1>4, <1>5
<1> QED BY <1>2, <1>3, <1>6, <1>7

\* The rank of an operation by its kind.
LEMMA RankOf ==
    ASSUME NEW q, NEW f
    PROVE  /\ Rank([do |-> "send", peer |-> q, frame |-> f]) = 2 * f + 0
           /\ Rank([do |-> "recv", peer |-> q, frame |-> f]) = 2 * f + 1
BY DEF Rank

\* What the two ends of an operation know of each other.
LEMMA OtherEnd ==
    ASSUME NEW s, Matched(s), NEW p \in 1..s.n, NEW i \in 1..Len(s.prog[p])
    PROVE  /\ s.prog[p][i].peer \in 1..s.n
           /\ s.prog[p][i].frame \in 1..Len(s.frames)
           /\ s.prog[p][i].frame \in Nat
           /\ s.prog[p][i].do = "send" =>
                /\ s.prog[p][i] = [do |-> "send", peer |-> s.prog[p][i].peer,
                                   frame |-> s.prog[p][i].frame]
                /\ Does(s, s.prog[p][i].peer, "recv", p, s.prog[p][i].frame)
           /\ s.prog[p][i].do = "recv" =>
                /\ s.prog[p][i] = [do |-> "recv", peer |-> s.prog[p][i].peer,
                                   frame |-> s.prog[p][i].frame]
                /\ Does(s, s.prog[p][i].peer, "send", p, s.prog[p][i].frame)
           /\ s.prog[p][i].do \in {"send", "recv"}
<1> DEFINE o == s.prog[p][i]
<1>1. o \in OpOf(s) /\ Len(s.frames) \in Nat
  BY ProgOrder DEF Matched, WellTyped
<1>2. /\ o.peer \in 1..s.n /\ o.frame \in 1..Len(s.frames) /\ o.frame \in Nat
      /\ o.do \in {"send", "recv"}
      /\ o = [do |-> o.do, peer |-> o.peer, frame |-> o.frame]
  BY <1>1 DEF OpOf
<1>3. Does(s, p, o.do, o.peer, o.frame)
  BY <1>2 DEF Does
<1>4. \A q \in 1..s.n : \A f \in 1..Len(s.frames) :
         /\ Does(s, p, "send", q, f) => Does(s, q, "recv", p, f)
         /\ Does(s, p, "recv", q, f) => Does(s, q, "send", p, f)
  BY DEF Matched, Paired
<1> QED BY <1>2, <1>3, <1>4

-----------------------------------------------------------------------------
\* Types of the state, entry by entry.
LEMMA Ranges ==
    ASSUME IInv
    PROVE  /\ Matched(script) /\ Len(script.frames) \in Nat
           /\ \A p \in Party :
                /\ pos[p] \in Nat \ {0} /\ pos[p] <= Len(Prog(p)) + 1
                /\ Len(Prog(p)) \in Nat
                /\ ~Finished(p) => pos[p] \in 1..Len(Prog(p))
                /\ \A i \in 1..pos[p] - 1 : i \in 1..Len(Prog(p))
           /\ \A p, q \in Party :
                /\ chan[p][q] \in Seq(1..Len(script.frames))
                /\ Len(chan[p][q]) \in Nat
                /\ \A k \in 1..Len(chan[p][q]) :
                     chan[p][q][k] \in 1..Len(script.frames) /\ chan[p][q][k] \in Nat
<1>1. Matched(script) /\ Len(script.frames) \in Nat
  BY DEF IInv, Matched, WellTyped
<1>2. ASSUME NEW p \in Party
      PROVE  /\ pos[p] \in Nat \ {0} /\ pos[p] <= Len(Prog(p)) + 1
             /\ Len(Prog(p)) \in Nat
             /\ ~Finished(p) => pos[p] \in 1..Len(Prog(p))
             /\ \A i \in 1..pos[p] - 1 : i \in 1..Len(Prog(p))
  <2>1. Prog(p) \in Seq(OpOf(script))
    BY <1>1, <1>2 DEF Matched, WellTyped, Prog, Party
  <2>2. Len(Prog(p)) \in Nat
    BY <2>1
  <2>3. pos[p] \in Nat \ {0} /\ pos[p] <= Len(Prog(p)) + 1
    BY <1>2 DEF IInv, TypeOK
  <2> QED BY <2>2, <2>3 DEF Finished
<1>3. ASSUME NEW p \in Party, NEW q \in Party
      PROVE  /\ chan[p][q] \in Seq(1..Len(script.frames))
             /\ Len(chan[p][q]) \in Nat
             /\ \A k \in 1..Len(chan[p][q]) :
                  chan[p][q][k] \in 1..Len(script.frames) /\ chan[p][q][k] \in Nat
  <2>1. chan[p][q] \in Seq(1..Len(script.frames))
    BY <1>3 DEF IInv, TypeOK
  <2> QED BY <1>1, <2>1
<1> QED BY <1>1, <1>2, <1>3

\* The frame at the head of a nonempty socket: sent, not taken, the smallest.
LEMMA HeadOf ==
    ASSUME IInv, NEW p \in Party, NEW q \in Party, chan[p][q] # <<>>
    PROVE  /\ Head(chan[p][q]) \in 1..Len(script.frames)
           /\ Head(chan[p][q]) \in Nat
           /\ Sent(p, q, Head(chan[p][q]))
           /\ ~Got(q, p, Head(chan[p][q]))
           /\ \A f \in 1..Len(script.frames) :
                In(f, chan[p][q]) => Head(chan[p][q]) <= f
<1> DEFINE c == chan[p][q]
<1>1. /\ c \in Seq(1..Len(script.frames))
      /\ \A k \in 1..Len(c) : c[k] \in 1..Len(script.frames) /\ c[k] \in Nat
  BY Ranges
<1>2. Len(c) \in Nat /\ 1 \in 1..Len(c) /\ Head(c) = c[1]
  BY <1>1
<1>3. In(Head(c), c)
  BY <1>2 DEF In
<1>4. Head(c) \in 1..Len(script.frames) /\ Head(c) \in Nat
  BY <1>1, <1>2
<1>5. ASSUME NEW f \in 1..Len(script.frames), In(f, c) PROVE Head(c) <= f
  <2>1. PICK k \in 1..Len(c) : c[k] = f
    BY <1>5 DEF In
  <2>2. CASE k = 1
    BY <1>2, <1>4, <2>1, <2>2
  <2>3. CASE k # 1
    <3>1. 1 < k
      BY <1>2, <2>3
    <3>2. c[1] < c[k]
      BY <1>2, <3>1 DEF IInv, Sorted
    <3> QED BY <1>1, <1>2, <2>1, <3>2
  <2> QED BY <2>2, <2>3
<1> QED BY <1>3, <1>4, <1>5 DEF IInv, Contents

\* The reader of a frame that is in a socket has not come past its receive,
\* and the writer of one that was not sent has not come past its send.
LEMMA NotYet ==
    ASSUME IInv, NEW p \in Party, NEW q \in Party, NEW f \in 1..Len(script.frames)
    PROVE  /\ ~Got(q, p, f) /\ Does(script, q, "recv", p, f) =>
                ~Finished(q) /\ Rank(Op(q)) \in Nat /\ Rank(Op(q)) <= 2 * f + 1
           /\ ~Sent(q, p, f) /\ Does(script, q, "send", p, f) =>
                ~Finished(q) /\ Rank(Op(q)) \in Nat /\ Rank(Op(q)) <= 2 * f + 0
<1>1. ASSUME NEW j \in 1..Len(Prog(q)), j >= pos[q]
      PROVE  /\ ~Finished(q) /\ Rank(Op(q)) \in Nat
             /\ Rank(Op(q)) <= Rank(Prog(q)[j])
  <2>1. pos[q] \in 1..Len(Prog(q)) /\ ~Finished(q)
    BY <1>1, Ranges DEF Finished
  <2> QED BY <1>1, <2>1, ProgOrder, Ranges DEF Op, Prog, Party
<1>2. ASSUME ~Got(q, p, f), Does(script, q, "recv", p, f)
      PROVE  ~Finished(q) /\ Rank(Op(q)) \in Nat /\ Rank(Op(q)) <= 2 * f + 1
  <2>1. PICK j \in 1..Len(Prog(q)) :
           Prog(q)[j] = [do |-> "recv", peer |-> p, frame |-> f]
    BY <1>2 DEF Does, Prog
  <2>2. j >= pos[q]
    BY <1>2, <2>1, Ranges DEF Got
  <2> QED BY <1>1, <2>1, <2>2, RankOf
<1>3. ASSUME ~Sent(q, p, f), Does(script, q, "send", p, f)
      PROVE  ~Finished(q) /\ Rank(Op(q)) \in Nat /\ Rank(Op(q)) <= 2 * f + 0
  <2>1. PICK j \in 1..Len(Prog(q)) :
           Prog(q)[j] = [do |-> "send", peer |-> p, frame |-> f]
    BY <1>3 DEF Does, Prog
  <2>2. j >= pos[q]
    BY <1>3, <2>1, Ranges DEF Sent
  <2> QED BY <1>1, <2>1, <2>2, RankOf
<1> QED BY <1>2, <1>3

\* An operation a party stands at was not done yet; the ones it has done have
\* no larger rank.
LEMMA AtOp ==
    ASSUME IInv, NEW p \in Party, ~Finished(p)
    PROVE  /\ Op(p).peer \in Party /\ Op(p).frame \in 1..Len(script.frames)
           /\ Op(p).frame \in Nat
           /\ Op(p).do = "send" =>
                /\ ~Sent(p, Op(p).peer, Op(p).frame)
                /\ Does(script, Op(p).peer, "recv", p, Op(p).frame)
                /\ Rank(Op(p)) = 2 * Op(p).frame + 0
                /\ Op(p) = [do |-> "send", peer |-> Op(p).peer, frame |-> Op(p).frame]
           /\ Op(p).do = "recv" =>
                /\ ~Got(p, Op(p).peer, Op(p).frame)
                /\ Does(script, Op(p).peer, "send", p, Op(p).frame)
                /\ Rank(Op(p)) = 2 * Op(p).frame + 1
                /\ Op(p) = [do |-> "recv", peer |-> Op(p).peer, frame |-> Op(p).frame]
           /\ Op(p).do \in {"send", "recv"}
           /\ \A q \in Party : \A f \in 1..Len(script.frames) :
                Sent(p, q, f) => 2 * f + 0 <= Rank(Op(p))
<1>1. pos[p] \in 1..Len(Prog(p)) /\ Matched(script)
  BY Ranges
<1>2. \A i \in 1..pos[p] - 1 :
        /\ i \in 1..Len(Prog(p)) /\ Prog(p)[i] # Op(p)
        /\ Rank(Prog(p)[i]) <= Rank(Op(p))
  <2> TAKE i \in 1..pos[p] - 1
  <2>1. i \in 1..Len(Prog(p)) /\ i <= pos[p] /\ i # pos[p]
    BY <1>1, Ranges
  <2> QED BY <1>1, <2>1, ProgOrder DEF Prog, Op, Party
<1>3. \A q, f : /\ Sent(p, q, f) => Op(p) # [do |-> "send", peer |-> q, frame |-> f]
                /\ Got(p, q, f) => Op(p) # [do |-> "recv", peer |-> q, frame |-> f]
                /\ Sent(p, q, f) => 2 * f + 0 <= Rank(Op(p))
  BY <1>2, RankOf DEF Sent, Got
<1>4. /\ Op(p).peer \in Party
      /\ Op(p).frame \in 1..Len(script.frames) /\ Op(p).frame \in Nat
      /\ Op(p).do = "send" =>
           /\ Op(p) = [do |-> "send", peer |-> Op(p).peer, frame |-> Op(p).frame]
           /\ Does(script, Op(p).peer, "recv", p, Op(p).frame)
      /\ Op(p).do = "recv" =>
           /\ Op(p) = [do |-> "recv", peer |-> Op(p).peer, frame |-> Op(p).frame]
           /\ Does(script, Op(p).peer, "send", p, Op(p).frame)
      /\ Op(p).do \in {"send", "recv"}
  BY <1>1, OtherEnd DEF Op, Prog, Party
<1>5. /\ Op(p).do = "send" => Rank(Op(p)) = 2 * Op(p).frame + 0
      /\ Op(p).do = "recv" => Rank(Op(p)) = 2 * Op(p).frame + 1
  BY <1>4 DEF Rank
<1>6. /\ Op(p).do = "send" => ~Sent(p, Op(p).peer, Op(p).frame)
      /\ Op(p).do = "recv" => ~Got(p, Op(p).peer, Op(p).frame)
  BY <1>3, <1>4
<1> QED BY <1>3, <1>4, <1>5, <1>6

-----------------------------------------------------------------------------
\* The frame at the head of a socket is the one the reader's loops ask for.
LEMMA HeadMatches == IInv => FrameMatch
<1> SUFFICES ASSUME IInv, NEW p \in Party, ~Finished(p), Op(p).do = "recv",
                    chan[Op(p).peer][p] # <<>>
             PROVE  Head(chan[Op(p).peer][p]) = Op(p).frame
  BY DEF FrameMatch
<1>1. PICK q \in Party : q = Op(p).peer
  BY AtOp
<1>2. PICK f \in 1..Len(script.frames) : f = Op(p).frame /\ f \in Nat
  BY AtOp
<1>3. PICK h \in 1..Len(script.frames) : h = Head(chan[q][p]) /\ h \in Nat
  BY HeadOf, <1>1
<1>4. /\ ~Got(p, q, f) /\ Does(script, q, "send", p, f)
      /\ Rank(Op(p)) = 2 * f + 1
  BY AtOp, <1>1, <1>2
<1>5. Sent(q, p, h) /\ ~Got(p, q, h)
  BY HeadOf, <1>1, <1>3
<1>6. Does(script, p, "recv", q, h)
  <2>1. Does(script, q, "send", p, h)
    <3>1. PICK i \in 1..pos[q] - 1 :
             Prog(q)[i] = [do |-> "send", peer |-> p, frame |-> h]
      BY <1>5 DEF Sent
    <3> QED BY <3>1, Ranges DEF Does, Prog
  <2> QED BY <2>1, Ranges DEF Matched, Paired, Party
<1>7. f <= h
  <2>1. Rank(Op(p)) <= 2 * h + 1
    BY NotYet, <1>5, <1>6
  <2> QED BY <1>2, <1>3, <1>4, <2>1
<1>8. h <= f
  <2>1. CASE Sent(q, p, f)
    <3>1. In(f, chan[q][p])
      BY <1>4, <2>1 DEF IInv, Contents
    <3> QED BY <1>1, <1>3, <3>1, HeadOf
  <2>2. CASE ~Sent(q, p, f)
    <3>1. ~Finished(q) /\ Rank(Op(q)) \in Nat /\ Rank(Op(q)) <= 2 * f + 0
      BY NotYet, <1>4, <2>2
    <3>2. 2 * h + 0 <= Rank(Op(q))
      BY AtOp, <1>5, <3>1
    <3> QED BY <1>2, <1>3, <3>1, <3>2
  <2> QED BY <2>1, <2>2
<1> QED BY <1>1, <1>2, <1>3, <1>7, <1>8

\* Some party can always go on, until all are finished.
LEMMA SomebodyMoves == IInv => NoDeadlock
<1> SUFFICES ASSUME IInv, NEW p0 \in Party, ~Finished(p0),
                    \A p \in Party : ~CanSend(p) /\ ~CanRecv(p)
             PROVE  FALSE
  BY DEF NoDeadlock
<1> DEFINE Late == {p \in Party : ~Finished(p)}
<1>1. PICK p \in Late : \A q \in Late : ~(Rank(Op(q)) < Rank(Op(p)))
  <2> DEFINE T == {Rank(Op(q)) : q \in Late}
  <2>1. T \subseteq Nat /\ T # {}
    <3>1. ASSUME NEW q \in Late PROVE Rank(Op(q)) \in Nat
      BY <3>1, ProgOrder, Ranges DEF Op, Prog, Party
    <3>2. p0 \in Late
      OBVIOUS
    <3> QED BY <3>1, <3>2
  <2>2. PICK x \in T : \A y \in T : ~(<<y, x>> \in OpToRel(<, Nat))
    <3> HIDE DEF T
    <3> QED BY <2>1, NatLessThanWellFounded, WFMin
  <2>3. \A y \in T : ~(y < x)
    BY <2>1, <2>2 DEF OpToRel
  <2> QED BY <2>3
<1>2. PICK q \in Party : q = Op(p).peer
  BY AtOp
<1>3. PICK f \in 1..Len(script.frames) : f = Op(p).frame /\ f \in Nat
  BY AtOp
<1>4. CASE Op(p).do = "send"
  <2>1. chan[p][q] # <<>>
    <3>1. ~Room(p, q, f)
      BY <1>2, <1>3, <1>4 DEF CanSend
    <3>2. script.frames[f].bytes \in Nat /\ script.frames[f].bytes <= SocketBuffer
      BY Ranges DEF Matched, WellTyped, FrameFits
    <3>3. chan[p][q] = <<>> => (Len(chan[p][q]) + 1) * script.frames[f].bytes
                                   = script.frames[f].bytes
      BY <3>2
    <3> QED BY <3>1, <3>2, <3>3 DEF Room
  <2>2. PICK h \in 1..Len(script.frames) : h = Head(chan[p][q]) /\ h \in Nat
    BY HeadOf, <2>1
  <2>3. Sent(p, q, h) /\ ~Got(q, p, h)
    BY HeadOf, <2>1, <2>2
  <2>4. 2 * h + 0 <= Rank(Op(p)) /\ Rank(Op(p)) = 2 * f + 0 /\ h # f
    BY AtOp, <1>2, <1>3, <1>4, <2>3
  <2>5. Does(script, q, "recv", p, h)
    <3>1. PICK i \in 1..pos[p] - 1 :
             Prog(p)[i] = [do |-> "send", peer |-> q, frame |-> h]
      BY <2>3 DEF Sent
    <3>2. Does(script, p, "send", q, h)
      BY <3>1, Ranges DEF Does, Prog
    <3> QED BY <3>2, Ranges DEF Matched, Paired, Party
  <2>6. ~Finished(q) /\ Rank(Op(q)) \in Nat /\ Rank(Op(q)) <= 2 * h + 1
    BY NotYet, <2>3, <2>5
  <2> QED BY <1>1, <1>3, <2>2, <2>4, <2>6
<1>5. CASE Op(p).do = "recv"
  <2>1. chan[q][p] = <<>>
    BY <1>2, <1>5 DEF CanRecv
  <2>2. /\ ~Got(p, q, f) /\ Does(script, q, "send", p, f)
        /\ Rank(Op(p)) = 2 * f + 1
    BY AtOp, <1>2, <1>3, <1>5
  <2>3. ~Sent(q, p, f)
    BY <2>1, <2>2 DEF IInv, Contents, In
  <2>4. ~Finished(q) /\ Rank(Op(q)) \in Nat /\ Rank(Op(q)) <= 2 * f + 0
    BY NotYet, <2>2, <2>3
  <2> QED BY <1>1, <1>3, <2>2, <2>4
<1> QED BY <1>4, <1>5, AtOp

\* What is in a socket still has a reader to come.
LEMMA NothingLeft == IInv => Drained
<1> SUFFICES ASSUME IInv, \A p \in Party : Finished(p),
                    NEW p \in Party, NEW q \in Party, chan[p][q] # <<>>
             PROVE  FALSE
  BY DEF Drained
<1>1. PICK h \in 1..Len(script.frames) : Sent(p, q, h) /\ ~Got(q, p, h)
  BY HeadOf
<1>2. Does(script, p, "send", q, h)
  <2>1. PICK i \in 1..pos[p] - 1 :
           Prog(p)[i] = [do |-> "send", peer |-> q, frame |-> h]
    BY <1>1 DEF Sent
  <2> QED BY <2>1, Ranges DEF Does, Prog
<1>3. Does(script, q, "recv", p, h)
  BY <1>2, Ranges DEF Matched, Paired, Party
<1> QED BY NotYet, <1>1, <1>3

-----------------------------------------------------------------------------
\* A send adds the largest frame of the socket, which its reader has not had.
LEMMA SendStep == ASSUME IInv, NEW p \in Party, Send(p) PROVE IInv'
<1>1. ~Finished(p) /\ Op(p).do = "send"
  BY DEF Send, CanSend
<1>2. PICK q \in Party : q = Op(p).peer
  BY AtOp, <1>1
<1>3. PICK f \in 1..Len(script.frames) : f = Op(p).frame /\ f \in Nat
  BY AtOp, <1>1
<1>4. /\ ~Sent(p, q, f) /\ Rank(Op(p)) = 2 * f + 0
      /\ Op(p) = [do |-> "send", peer |-> q, frame |-> f]
  BY AtOp, <1>1, <1>2, <1>3
<1>5. /\ script' = script /\ Party' = Party
      /\ \A a : Prog(a)' = Prog(a)
      /\ pos' = [pos EXCEPT ![p] = @ + 1]
      /\ chan' = [chan EXCEPT ![p][q] = Append(@, f)]
  BY <1>2, <1>3 DEF Send, Prog, Party
<1>6. /\ \A a \in Party : pos'[a] = IF a = p THEN pos[a] + 1 ELSE pos[a]
      /\ \A a, b \in Party :
           chan'[a][b] = IF a = p /\ b = q THEN Append(chan[a][b], f) ELSE chan[a][b]
  BY <1>5 DEF IInv, TypeOK
<1>7. TypeOK'
  <2>1. pos' \in [Party -> Nat \ {0}]
    BY <1>5 DEF IInv, TypeOK
  <2>2. ASSUME NEW a \in Party PROVE pos'[a] <= Len(Prog(a)) + 1
    <3>1. pos[a] \in Nat /\ pos[a] <= Len(Prog(a)) + 1 /\ Len(Prog(a)) \in Nat
      BY Ranges
    <3>2. a = p => pos[a] <= Len(Prog(a))
      BY <1>1, Ranges
    <3> QED BY <1>6, <3>1, <3>2
  <2>3. chan' \in [Party -> [Party -> Seq(1..Len(script.frames))]]
    BY <1>5 DEF IInv, TypeOK
  <2> QED BY <1>5, <2>1, <2>2, <2>3 DEF IInv, TypeOK
<1>8. \A a, b \in Party, g \in 1..Len(script.frames) :
        /\ Sent(a, b, g)' <=> Sent(a, b, g) \/ (a = p /\ b = q /\ g = f)
        /\ Got(a, b, g)' <=> Got(a, b, g)
  <2> SUFFICES ASSUME NEW a \in Party, NEW b \in Party,
                      NEW g \in 1..Len(script.frames)
               PROVE  /\ Sent(a, b, g)' <=> Sent(a, b, g) \/ (a = p /\ b = q /\ g = f)
                      /\ Got(a, b, g)' <=> Got(a, b, g)
    OBVIOUS
  <2>1. CASE a # p
    BY <1>5, <1>6, <2>1 DEF Sent, Got
  <2>2. CASE a = p
    <3>1. 1..pos'[p] - 1 = (1..pos[p] - 1) \union {pos[p]}
      <4>1. pos[p] \in Nat \ {0} /\ pos'[p] = pos[p] + 1
        BY <1>6, Ranges
      <4> QED BY <4>1
    <3>2. Prog(p)[pos[p]] = [do |-> "send", peer |-> q, frame |-> f]
      BY <1>4 DEF Op
    <3>3. Sent(p, b, g)' <=> Sent(p, b, g) \/ Prog(p)[pos[p]] = [do |-> "send", peer |-> b, frame |-> g]
      BY <1>5, <3>1 DEF Sent
    <3>4. Got(p, b, g)' <=> Got(p, b, g) \/ Prog(p)[pos[p]] = [do |-> "recv", peer |-> b, frame |-> g]
      BY <1>5, <3>1 DEF Got
    <3> QED BY <2>2, <3>2, <3>3, <3>4
  <2> QED BY <2>1, <2>2
<1>9. ~Got(q, p, f)
  BY <1>4 DEF IInv, Causal
<1>10. \A g \in 1..Len(script.frames) :
         In(g, Append(chan[p][q], f)) <=> In(g, chan[p][q]) \/ g = f
  <2>1. chan[p][q] \in Seq(1..Len(script.frames))
    BY Ranges
  <2>2. /\ Len(Append(chan[p][q], f)) = Len(chan[p][q]) + 1 /\ Len(chan[p][q]) \in Nat
        /\ \A k \in 1..Len(chan[p][q]) : Append(chan[p][q], f)[k] = chan[p][q][k]
        /\ Append(chan[p][q], f)[Len(chan[p][q]) + 1] = f
    BY <2>1
  <2>3. 1..Len(chan[p][q]) + 1 = (1..Len(chan[p][q])) \union {Len(chan[p][q]) + 1}
    BY <2>2
  <2> QED BY <2>2, <2>3 DEF In
<1>11. Contents'
  <2> SUFFICES ASSUME NEW a \in Party, NEW b \in Party, NEW g \in 1..Len(script.frames)
               PROVE  In(g, chan'[a][b]) <=> Sent(a, b, g)' /\ ~Got(b, a, g)'
    BY <1>5 DEF Contents, In
  <2>1. In(g, chan[a][b]) <=> Sent(a, b, g) /\ ~Got(b, a, g)
    BY DEF IInv, Contents
  <2>2. CASE a = p /\ b = q
    BY <1>6, <1>8, <1>9, <1>10, <2>1, <2>2
  <2>3. CASE ~(a = p /\ b = q)
    BY <1>6, <1>8, <2>1, <2>3
  <2> QED BY <2>2, <2>3
<1>12. Causal'
  BY <1>5, <1>8 DEF IInv, Causal
<1>13. Sorted'
  <2> SUFFICES ASSUME NEW a \in Party, NEW b \in Party,
                      NEW i \in 1..Len(chan'[a][b]), NEW j \in 1..Len(chan'[a][b]),
                      i < j
               PROVE  chan'[a][b][i] < chan'[a][b][j]
    BY <1>5 DEF Sorted
  <2>1. CASE ~(a = p /\ b = q)
    BY <1>6, <2>1 DEF IInv, Sorted
  <2>2. CASE a = p /\ b = q
    <3> DEFINE c == chan[p][q]
    <3>1. /\ c \in Seq(1..Len(script.frames)) /\ Len(c) \in Nat
          /\ chan'[a][b] = Append(c, f)
      BY <1>6, <2>2, Ranges
    <3>2. /\ i \in 1..Len(c) /\ j \in 1..Len(c) + 1
          /\ Append(c, f)[i] = c[i]
          /\ Append(c, f)[j] = IF j = Len(c) + 1 THEN f ELSE c[j]
      BY <3>1
    <3>3. CASE j = Len(c) + 1
      <4>1. PICK g \in 1..Len(script.frames) : g = c[i] /\ g \in Nat
        BY <3>2, Ranges
      <4>2. Sent(p, q, g)
        BY <3>2, <4>1 DEF IInv, Contents, In
      <4>3. 2 * g + 0 <= 2 * f + 0
        BY AtOp, <1>1, <1>4, <4>2
      <4> QED BY <1>3, <1>4, <3>1, <3>2, <3>3, <4>1, <4>2, <4>3
    <3>4. CASE j # Len(c) + 1
      <4>1. j \in 1..Len(chan[p][q]) /\ i \in 1..Len(chan[p][q])
        BY <3>1, <3>2, <3>4
      <4>2. chan[p][q][i] < chan[p][q][j]
        BY <4>1 DEF IInv, Sorted
      <4> QED BY <3>1, <3>2, <3>4, <4>2
    <3> QED BY <3>3, <3>4
  <2> QED BY <2>1, <2>2
<1>14. Matched(script)'
  BY <1>5 DEF IInv
<1> QED BY <1>7, <1>11, <1>12, <1>13, <1>14 DEF IInv

\* A receive takes the frame it is about, the smallest of the socket.
LEMMA RecvStep == ASSUME IInv, NEW p \in Party, Recv(p) PROVE IInv'
<1>1. ~Finished(p) /\ Op(p).do = "recv" /\ chan[Op(p).peer][p] # <<>>
  BY DEF Recv, CanRecv
<1>2. PICK q \in Party : q = Op(p).peer
  BY AtOp, <1>1
<1>3. PICK f \in 1..Len(script.frames) : f = Op(p).frame /\ f \in Nat
  BY AtOp, <1>1
<1>4. /\ ~Got(p, q, f)
      /\ Op(p) = [do |-> "recv", peer |-> q, frame |-> f]
  BY AtOp, <1>1, <1>2, <1>3
<1>5. /\ script' = script /\ Party' = Party
      /\ \A a : Prog(a)' = Prog(a)
      /\ pos' = [pos EXCEPT ![p] = @ + 1]
      /\ chan' = [chan EXCEPT ![q][p] = Tail(@)]
  BY <1>2 DEF Recv, Prog, Party
<1>6. /\ \A a \in Party : pos'[a] = IF a = p THEN pos[a] + 1 ELSE pos[a]
      /\ \A a, b \in Party :
           chan'[a][b] = IF a = q /\ b = p THEN Tail(chan[a][b]) ELSE chan[a][b]
  BY <1>5 DEF IInv, TypeOK
<1>7. chan[q][p] # <<>> /\ Head(chan[q][p]) = f
  BY <1>1, <1>2, <1>3, HeadMatches DEF FrameMatch
<1>8. /\ chan[q][p] \in Seq(1..Len(script.frames)) /\ Len(chan[q][p]) \in Nat \ {0}
      /\ chan[q][p][1] = f
      /\ Len(Tail(chan[q][p])) = Len(chan[q][p]) - 1
      /\ \A k \in 1..Len(chan[q][p]) - 1 : Tail(chan[q][p])[k] = chan[q][p][k + 1]
      /\ Tail(chan[q][p]) \in Seq(1..Len(script.frames))
  <2>1. chan[q][p] \in Seq(1..Len(script.frames))
    BY Ranges
  <2> DEFINE c == chan[q][p]
  <2>2. c \in Seq(1..Len(script.frames)) /\ c # <<>>
    BY <1>7, <2>1
  <2>3. Len(c) \in Nat \ {0} /\ Len(Tail(c)) = Len(c) - 1
    BY <2>2
  <2>4. Head(c) = c[1] /\ \A k \in 1..Len(c) - 1 : Tail(c)[k] = c[k + 1]
    BY <2>2, <2>3
  <2>5. Tail(c) \in Seq(1..Len(script.frames))
    <3> HIDE DEF c
    <3> QED BY <2>2
  <2> QED BY <1>7, <2>2, <2>3, <2>4, <2>5
<1>9. TypeOK'
  <2>1. pos' \in [Party -> Nat \ {0}]
    BY <1>5 DEF IInv, TypeOK
  <2>2. ASSUME NEW a \in Party PROVE pos'[a] <= Len(Prog(a)) + 1
    <3>1. pos[a] \in Nat /\ pos[a] <= Len(Prog(a)) + 1 /\ Len(Prog(a)) \in Nat
      BY Ranges
    <3>2. a = p => pos[a] <= Len(Prog(a))
      BY <1>1, Ranges
    <3> QED BY <1>6, <3>1, <3>2
  <2>3. chan' \in [Party -> [Party -> Seq(1..Len(script.frames))]]
    BY <1>5, <1>8 DEF IInv, TypeOK
  <2> QED BY <1>5, <2>1, <2>2, <2>3 DEF IInv, TypeOK
<1>10. \A a, b \in Party, g \in 1..Len(script.frames) :
         /\ Got(a, b, g)' <=> Got(a, b, g) \/ (a = p /\ b = q /\ g = f)
         /\ Sent(a, b, g)' <=> Sent(a, b, g)
  <2> SUFFICES ASSUME NEW a \in Party, NEW b \in Party,
                      NEW g \in 1..Len(script.frames)
               PROVE  /\ Got(a, b, g)' <=> Got(a, b, g) \/ (a = p /\ b = q /\ g = f)
                      /\ Sent(a, b, g)' <=> Sent(a, b, g)
    OBVIOUS
  <2>1. CASE a # p
    BY <1>5, <1>6, <2>1 DEF Sent, Got
  <2>2. CASE a = p
    <3>1. 1..pos'[p] - 1 = (1..pos[p] - 1) \union {pos[p]}
      <4>1. pos[p] \in Nat \ {0} /\ pos'[p] = pos[p] + 1
        BY <1>6, Ranges
      <4> QED BY <4>1
    <3>2. Prog(p)[pos[p]] = [do |-> "recv", peer |-> q, frame |-> f]
      BY <1>4 DEF Op
    <3>3. Sent(p, b, g)' <=> Sent(p, b, g) \/ Prog(p)[pos[p]] = [do |-> "send", peer |-> b, frame |-> g]
      BY <1>5, <3>1 DEF Sent
    <3>4. Got(p, b, g)' <=> Got(p, b, g) \/ Prog(p)[pos[p]] = [do |-> "recv", peer |-> b, frame |-> g]
      BY <1>5, <3>1 DEF Got
    <3> QED BY <2>2, <3>2, <3>3, <3>4
  <2> QED BY <2>1, <2>2
<1>11. Sent(q, p, f)
  BY <1>7, HeadOf
<1>12. \A g \in 1..Len(script.frames) :
         In(g, Tail(chan[q][p])) <=> In(g, chan[q][p]) /\ g # f
  <2> SUFFICES ASSUME NEW g \in 1..Len(script.frames)
               PROVE  In(g, Tail(chan[q][p])) <=> In(g, chan[q][p]) /\ g # f
    OBVIOUS
  <2>1. ASSUME In(g, Tail(chan[q][p])) PROVE In(g, chan[q][p]) /\ g # f
    <3>1. PICK k \in 1..Len(chan[q][p]) - 1 : chan[q][p][k + 1] = g
      BY <1>8, <2>1 DEF In
    <3>2. 1 \in 1..Len(chan[q][p]) /\ k + 1 \in 1..Len(chan[q][p]) /\ 1 < k + 1
      BY <1>8, <3>1
    <3>3. chan[q][p][1] < chan[q][p][k + 1]
      BY <3>2 DEF IInv, Sorted
    <3> QED BY <1>3, <1>8, <3>1, <3>2, <3>3 DEF In
  <2>2. ASSUME In(g, chan[q][p]), g # f PROVE In(g, Tail(chan[q][p]))
    <3>1. PICK k \in 1..Len(chan[q][p]) : chan[q][p][k] = g
      BY <2>2 DEF In
    <3>2. k - 1 \in 1..Len(chan[q][p]) - 1 /\ (k - 1) + 1 = k
      BY <1>8, <2>2, <3>1
    <3>3. Tail(chan[q][p])[k - 1] = g
      BY <1>8, <3>1, <3>2
    <3> QED BY <1>8, <3>2, <3>3 DEF In
  <2> QED BY <2>1, <2>2
<1>13. Contents'
  <2> SUFFICES ASSUME NEW a \in Party, NEW b \in Party, NEW g \in 1..Len(script.frames)
               PROVE  In(g, chan'[a][b]) <=> Sent(a, b, g)' /\ ~Got(b, a, g)'
    BY <1>5 DEF Contents, In
  <2>1. In(g, chan[a][b]) <=> Sent(a, b, g) /\ ~Got(b, a, g)
    BY DEF IInv, Contents
  <2>2. CASE a = q /\ b = p
    BY <1>6, <1>10, <1>12, <2>1, <2>2
  <2>3. CASE ~(a = q /\ b = p)
    BY <1>6, <1>10, <2>1, <2>3
  <2> QED BY <2>2, <2>3
<1>14. Causal'
  BY <1>5, <1>10, <1>11 DEF IInv, Causal
<1>15. Sorted'
  <2> SUFFICES ASSUME NEW a \in Party, NEW b \in Party,
                      NEW i \in 1..Len(chan'[a][b]), NEW j \in 1..Len(chan'[a][b]),
                      i < j
               PROVE  chan'[a][b][i] < chan'[a][b][j]
    BY <1>5 DEF Sorted
  <2>1. CASE ~(a = q /\ b = p)
    BY <1>6, <2>1 DEF IInv, Sorted
  <2>2. CASE a = q /\ b = p
    <3>0. i \in 1..Len(chan[q][p]) - 1 /\ j \in 1..Len(chan[q][p]) - 1
      <4>1. chan'[a][b] = Tail(chan[q][p])
        BY <1>6, <2>2
      <4> QED BY <4>1, <1>8
    <3>1. i + 1 \in 1..Len(chan[q][p]) /\ j + 1 \in 1..Len(chan[q][p]) /\ i + 1 < j + 1
      BY <3>0, <1>8
    <3>2. chan[q][p][i + 1] < chan[q][p][j + 1]
      BY <3>1 DEF IInv, Sorted
    <3> QED BY <1>6, <1>8, <2>2, <3>0, <3>2
  <2> QED BY <2>1, <2>2
<1>16. Matched(script)'
  BY <1>5 DEF IInv
<1> QED BY <1>9, <1>13, <1>14, <1>15, <1>16 DEF IInv

-----------------------------------------------------------------------------
\* The inductive invariant, for matched scripts.
THEOREM Invariance ==
    ASSUME \A s \in Scripts : Matched(s)
    PROVE  Spec => []IInv
<1>1. Init => IInv
  <2> SUFFICES ASSUME Init PROVE IInv
    OBVIOUS
  <2>1. script \in Scripts /\ Matched(script) /\ Party = 1..script.n
    BY DEF Init, Party
  <2>2. \A p \in Party : pos[p] = 1 /\ \A q \in Party : chan[p][q] = <<>>
    BY DEF Init, Party
  <2>3. \A p \in Party : Len(Prog(p)) \in Nat
    BY <2>1 DEF Matched, WellTyped, Prog
  <2>4. TypeOK
    BY <2>1, <2>2, <2>3 DEF Init, TypeOK
  <2>5. \A p, q \in Party, f \in 1..Len(script.frames) :
          ~Sent(p, q, f) /\ ~Got(p, q, f) /\ ~In(f, chan[p][q])
    BY <2>2 DEF Sent, Got, In
  <2>6. Contents /\ Causal /\ Sorted
    BY <2>2, <2>5 DEF Contents, Causal, Sorted
  <2> QED BY <2>1, <2>4, <2>6 DEF IInv
<1>2. IInv /\ [Next]_vars => IInv'
  <2> SUFFICES ASSUME IInv, [Next]_vars PROVE IInv'
    OBVIOUS
  <2>1. CASE Next
    BY <2>1, SendStep, RecvStep DEF Next
  <2>2. CASE UNCHANGED vars
    <3>1. script' = script /\ pos' = pos /\ chan' = chan
      BY <2>2 DEF vars
    <3>2. TypeOK' /\ Matched(script)'
      BY <3>1 DEF IInv, TypeOK, Party, Prog
    <3>3. Contents'
      BY <3>1 DEF IInv, Contents, In, Sent, Got, Prog, Party
    <3>4. Causal' /\ Sorted'
      BY <3>1 DEF IInv, Causal, Sorted, Sent, Got, Prog, Party
    <3> QED BY <3>2, <3>3, <3>4 DEF IInv
  <2> QED BY <2>1, <2>2
<1> QED BY <1>1, <1>2, PTL DEF Spec

\* Operations of typed programs keep the positions and sockets typed.
THEOREM TypeCorrect ==
    ASSUME \A s \in Scripts : Matched(s)
    PROVE  Spec => []TypeOK
<1>1. IInv => TypeOK
  BY DEF IInv
<1> QED BY <1>1, Invariance, PTL

\* A reader of matched loops always takes the frame it means to take.
THEOREM FrameMatchTheorem ==
    ASSUME \A s \in Scripts : Matched(s)
    PROVE  Spec => []FrameMatch
<1> QED BY HeadMatches, Invariance, PTL

\* Parties that run matched loops never all wait for each other, however many
\* they are and whatever they exchange, if a frame fits an empty socket.
THEOREM NoDeadlockTheorem ==
    ASSUME \A s \in Scripts : Matched(s)
    PROVE  Spec => []NoDeadlock
<1> QED BY SomebodyMoves, Invariance, PTL

\* Nothing a matched program sends is left for the next one to read.
THEOREM DrainedTheorem ==
    ASSUME \A s \in Scripts : Matched(s)
    PROVE  Spec => []Drained
<1> QED BY NothingLeft, Invariance, PTL
=============================================================================
