------------------------------- MODULE Calls -------------------------------
(***************************************************************************)
(* What the parties of one SendAndGetDataFromPeer or multicastToPeers call *)
(* do, in order: the tables that say whom a pid sends to and reads from in *)
(* slot i, the cutting of a vector into rounds, and the loops over slots   *)
(* and rounds.  A call is [kind, size, unit]: a vector of size elements of *)
(* unit bytes (one for the _bit_ calls).                                   *)
(***************************************************************************)
EXTENDS Integers, Sequences, SequencesExt

BufferSize == 229376            \* MAX_BUFFER_SIZE, in bytes

\* What a chunk costs beyond its elements: the length sent ahead of it and at
\* most a block of padding (every chunk is encrypted by itself).
Overhead == 4 + 16

Threshold(n) == (n - 1) \div 2

\* pid + d, counting from 1 modulo the number of parties.
Off(p, d, n) == ((p + d - 1) % n) + 1

\* The tables whose rows are the same offset for every pid.
Ring(n, send, recv) ==
    [send |-> [p \in 1..n |-> [i \in DOMAIN send |-> Off(p, send[i], n)]],
     recv |-> [p \in 1..n |-> [i \in DOMAIN recv |-> Off(p, recv[i], n)]]]

map_3pc == Ring(3, <<2>>, <<1>>)
map_5pc == Ring(5, <<3, 4>>, <<2, 1>>)
open_map_5pc == Ring(5, <<1, 4>>, <<4, 1>>)
map_7pc == Ring(7, <<4, 5, 6>>, <<3, 2, 1>>)

\* Faulty variant: one of the offsets is that of another slot.
open_map_7pc_slip == Ring(7, <<1, 2, 3>>, <<6, 4, 5>>)
open_map_7pc == Ring(7, <<1, 2, 3>>, <<6, 5, 4>>)

\* edaBit sharings are dealt by parties 1..t+1 only; -1 is "nothing here".
\* Faulty variants: party 1's two destinations swapped; party 4 deals too.
eda_map_5pc_swapped ==
    [send |-> << <<4, 5>>, <<1, 5>>, <<2, 1>>, <<-1, -1>>, <<-1, -1>> >>,
     recv |-> << <<2, 3>>, <<3, -1>>, <<-1, -1>>, <<-1, 1>>, <<1, 2>> >>]
eda_map_5pc_extra ==
    [send |-> << <<5, 4>>, <<1, 5>>, <<2, 1>>, <<-1, 2>>, <<-1, -1>> >>,
     recv |-> << <<2, 3>>, <<3, -1>>, <<-1, -1>>, <<-1, 1>>, <<1, 2>> >>]

eda_map_5pc ==
    [send |-> << <<5, 4>>, <<1, 5>>, <<2, 1>>, <<-1, -1>>, <<-1, -1>> >>,
     recv |-> << <<2, 3>>, <<3, -1>>, <<-1, -1>>, <<-1, 1>>, <<1, 2>> >>]

eda_map_7pc ==
    [send |-> << <<7, 6, 5>>, <<1, 7, 6>>, <<2, 1, 7>>, <<3, 2, 1>>,
                 <<-1, -1, -1>>, <<-1, -1, -1>>, <<-1, -1, -1>> >>,
     recv |-> << <<2, 3, 4>>, <<3, 4, -1>>, <<4, -1, -1>>, <<-1, -1, -1>>,
                 <<-1, -1, 1>>, <<-1, 1, 2>>, <<1, 2, 3>> >>]

Table(n, kind) ==
    CASE n = 3 -> map_3pc
      [] n = 5 /\ kind = "mult" -> map_5pc
      [] n = 5 /\ kind = "open" -> open_map_5pc
      [] n = 5 /\ kind = "eda"  -> eda_map_5pc
      [] n = 7 /\ kind = "mult" -> map_7pc
      [] n = 7 /\ kind = "open" -> open_map_7pc
      [] n = 7 /\ kind = "eda"  -> eda_map_7pc

-----------------------------------------------------------------------------
\* Faulty variants: the buffer is not divided among the peers; a last round
\* that is not full is forgotten.
GetRounds_whole(n, c) ==
    LET count == BufferSize \div c.unit IN
    [count |-> count,
     rounds |-> IF c.size % count # 0 THEN c.size \div count
                                      ELSE c.size \div count - 1]
GetRounds_floor(n, c) ==
    LET count == (BufferSize \div n) \div c.unit IN
    [count |-> count, rounds |-> c.size \div count - 1]

\* getRounds: the rounds are 0..rounds, of count elements each.
GetRounds(n, c) ==
    LET count == (BufferSize \div n) \div c.unit IN
    [count |-> count,
     rounds |-> IF c.size % count # 0 THEN c.size \div count
                                      ELSE c.size \div count - 1]

\* The elements of the vector that round k carries.
Chunk(n, c, k) ==
    LET count == GetRounds(n, c).count
        start == k * count IN
    [start |-> start,
     amount |-> IF start + count > c.size THEN c.size - start ELSE count]

Frame(n, c, id, slot, k) ==
    [call |-> id, slot |-> slot, start |-> Chunk(n, c, k).start,
     amount |-> Chunk(n, c, k).amount,
     bytes |-> GetRounds(n, c).count * c.unit + Overhead]

\* The (slot, round) steps of a call, in loop order: rounds run inside slots;
\* multicastToPeers has no slots.
Slots(n, c) == IF c.kind = "multicast" THEN 1 ELSE Threshold(n)

Steps(n, c) ==
    LET r == GetRounds(n, c).rounds + 1 IN
    [j \in 1..Slots(n, c) * r |->
        [slot |-> (j - 1) \div r + 1, round |-> (j - 1) % r]]

\* Whom pid p writes to, then reads from, in slot i of a call.
Others(n, p) == [j \in 1..n-1 |-> IF j < p THEN j ELSE j + 1]
IfAny(peer) == IF peer > 0 THEN <<peer>> ELSE <<>>

Writes(n, c, p, i) ==
    IF c.kind = "multicast" THEN Others(n, p) ELSE IfAny(Table(n, c.kind).send[p][i])

Reads(n, c, p, i) ==
    IF c.kind = "multicast" THEN Others(n, p) ELSE IfAny(Table(n, c.kind).recv[p][i])

-----------------------------------------------------------------------------
\* The frames of a sequence of calls, numbered as they are met, and each
\* party's operations on them.
Plan(n, calls) ==
    FlattenSeq([id \in DOMAIN calls |->
        [j \in DOMAIN Steps(n, calls[id]) |->
            [call |-> id, slot |-> Steps(n, calls[id])[j].slot,
             round |-> Steps(n, calls[id])[j].round]]])

\* What pid p does about frame f, of slot i of call c: it writes, then reads.
Ops(n, c, p, i, f) ==
    LET w == Writes(n, c, p, i)
        r == Reads(n, c, p, i) IN
    [x \in DOMAIN w |-> [do |-> "send", peer |-> w[x], frame |-> f]] \o
    [x \in DOMAIN r |-> [do |-> "recv", peer |-> r[x], frame |-> f]]

Script(n, calls) ==
    LET plan == Plan(n, calls) IN
    [n |-> n,
     frames |-> [f \in DOMAIN plan |->
        Frame(n, calls[plan[f].call], plan[f].call, plan[f].slot, plan[f].round)],
     prog |-> [p \in 1..n |-> FlattenSeq(
        [f \in DOMAIN plan |-> Ops(n, calls[plan[f].call], p, plan[f].slot, f)])]]

-----------------------------------------------------------------------------
\* Whatever the size, the rounds of a call carry every element once.
Covers(n, c) ==
    LET last == GetRounds(n, c).rounds IN
    /\ \A k \in 0..last : Chunk(n, c, k).amount >= 0
    /\ \A k \in 1..last :
          Chunk(n, c, k).start = Chunk(n, c, k-1).start + Chunk(n, c, k-1).amount
    /\ Chunk(n, c, last).start + Chunk(n, c, last).amount = c.size
=============================================================================
