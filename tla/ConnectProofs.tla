--------------------------- MODULE ConnectProofs ---------------------------
(***************************************************************************)
(* For every number of parties and every start order: the sockets are      *)
(* filed under the right IDs, the keys agree, at most one caller waits,    *)
(* and connection establishment implements Mesh.                           *)
(*                                                                         *)
(* The argument.  A party listens only after it has dialled everybody      *)
(* above it, and everybody dials upwards and waits to be accepted each     *)
(* time.  So when i waits at j and some k with i < k < j were not accepted *)
(* by j yet, i would have been accepted by k, so k would be accepting, so  *)
(* k would have been accepted by j: a contradiction.  Hence the caller     *)
(* that waits is always the one the accept loop takes it for.              *)
(***************************************************************************)
EXTENDS Connect, TLAPS

\* The connection of i is among those j (> i) has accepted.
AcceptedBy(j, i) == i >= j - accepted[j]

\* i waits in the queue of j.
Waits(i, j) == pc[i] = "key" /\ target[i] = j /\ ~AcceptedBy(j, i)

\* Where each process is tells what its loop counters are.
Counters ==
    \A p \in Party :
        /\ target[p] > p
        /\ pc[p] = "down" => target[p] = p + 1
        /\ pc[p] \in {"connect", "key"} => target[p] <= N
        /\ pc[p] \in {"listen", "accept", "up"} => target[p] = N + 1
        /\ pc[p] \in {"down", "connect", "key", "listen"} => accepted[p] = 0
        /\ pc[p] \in {"listen", "accept"} => p > 1
        /\ pc[p] = "accept" => accepted[p] < p - 1
        /\ accepted[p] <= p - 1

\* A caller goes past j exactly when j has accepted it and the key arrived.
Handshakes ==
    \A i, j \in Party : i < j =>
        /\ target[i] > j => AcceptedBy(j, i)
        /\ AcceptedBy(j, i) /\ target[i] <= j =>
              /\ pc[i] = "key" /\ target[i] = j
              /\ wire[i] = [by |-> j, for |-> i]
        /\ pc[i] = "key" /\ target[i] = j => Listening(j)

Wires ==
    \A p \in Party : wire[p] # NoKey =>
        /\ pc[p] = "key"
        /\ AcceptedBy(target[p], p)

\* Both tables, entry by entry.
Tables ==
    /\ \A p \in Party : peer2sock[p][p] = Nobody /\ keys[p][p] = NoKey
    /\ \A i, j \in Party : i < j =>
          /\ peer2sock[i][j] =
                IF target[i] > j \/ (target[i] = j /\ pc[i] = "key")
                THEN j ELSE Nobody
          /\ peer2sock[j][i] = IF AcceptedBy(j, i) THEN i ELSE Nobody
          /\ keys[i][j] = IF target[i] > j THEN [by |-> j, for |-> i] ELSE NoKey
          /\ keys[j][i] = IF AcceptedBy(j, i) THEN [by |-> j, for |-> i] ELSE NoKey

Queues ==
    \A j \in Party :
        /\ \A i \in Party : i < j /\ Waits(i, j) => backlog[j] = <<i>>
        /\ backlog[j] # <<>> => \E i \in Party : i < j /\ Waits(i, j)

IInv == TypeOK /\ Counters /\ Handshakes /\ Wires /\ Tables /\ Queues

-----------------------------------------------------------------------------
\* The heart of the argument: the caller that waits at j is the one the
\* accept loop of j expects next.
LEMMA WaiterIsNext ==
    ASSUME TypeOK, Counters, Handshakes,
           NEW i \in Party, NEW j \in Party, i < j, Waits(i, j)
    PROVE  i = NextID(j)
<1> DEFINE m == NextID(j)
<1>0. accepted \in [Party -> 0..N-1] /\ target \in [Party -> 2..N+1]
  BY DEF TypeOK
<1>1. m \in Party /\ i <= m /\ m < j
  <2>1. accepted[j] \in 0..N-1
    BY <1>0
  <2>2. ~(i >= j - accepted[j])
    BY DEF Waits, AcceptedBy
  <2> QED BY <2>1, <2>2, NAssumption DEF NextID, Party
<1>2. ~AcceptedBy(j, m)
  BY <1>0, <1>1 DEF AcceptedBy, NextID, Party
<1>3. CASE i < m
  <2>1. AcceptedBy(m, i)
    BY <1>1, <1>3 DEF Handshakes, Waits
  <2>2. accepted[m] # 0
    BY <1>1, <1>3, <2>1 DEF AcceptedBy, Party
  <2>3. target[m] = N + 1
    <3>1. pc[m] \in {"down", "connect", "key", "listen", "accept", "up"}
      BY <1>1 DEF TypeOK
    <3> QED BY <1>1, <2>2, <3>1 DEF Counters
  <2>4. AcceptedBy(j, m)
    <3>1. target[m] > j
      BY <2>3, NAssumption DEF Party
    <3> QED BY <1>1, <3>1 DEF Handshakes
  <2> QED BY <2>4, <1>2
<1> QED BY <1>1, <1>3 DEF Party

LEMMA TypeStep == ASSUME TypeOK, [Next]_vars, Counters PROVE TypeOK'
<1> USE NAssumption
<1>1. ASSUME NEW p \in Party, Start(p) PROVE TypeOK'
  BY <1>1 DEF TypeOK, Start
<1>2. ASSUME NEW p \in Party, Dial(p) PROVE TypeOK'
  <2>1. target[p] \in Party
    BY <1>2 DEF TypeOK, Dial, Counters, Party
  <2> QED BY <1>2, <2>1 DEF TypeOK, Dial
<1>3. ASSUME NEW p \in Party, Refused(p) PROVE TypeOK'
  <2>1. p + 1 \in 2..N+1
    BY DEF Party
  <2> QED BY <1>3, <2>1 DEF TypeOK, Refused
<1>4. ASSUME NEW p \in Party, ReadKey(p) PROVE TypeOK'
  <2>1. target[p] \in Party
    BY <1>4 DEF TypeOK, ReadKey, Counters, Party
  <2>2. target[p] + 1 \in 2..N+1
    BY <2>1 DEF Party
  <2>3. DecryptKey(p) \in Key \union {NoKey, BadKey}
    BY DEF TypeOK, DecryptKey
  <2> QED BY <1>4, <2>1, <2>2, <2>3 DEF TypeOK, ReadKey
<1>5. ASSUME NEW p \in Party, Listen(p) PROVE TypeOK'
  BY <1>5 DEF TypeOK, Listen
<1>6. ASSUME NEW p \in Party, Accept(p) PROVE TypeOK'
  <2>1. NextID(p) \in Party /\ accepted[p] + 1 \in 0..N-1
    <3>1. accepted[p] \in 0..N-1
      BY DEF TypeOK
    <3>2. accepted[p] < p - 1
      BY <1>6 DEF Accept, Counters
    <3> QED BY <3>1, <3>2 DEF NextID, Party
  <2>2. Head(backlog[p]) \in Party /\ Tail(backlog[p]) \in Seq(Party)
    BY <1>6 DEF TypeOK, Accept
  <2>3. [by |-> p, for |-> NextID(p)] \in Key
    BY <2>1 DEF Key
  <2> QED BY <1>6, <2>1, <2>2, <2>3 DEF TypeOK, Accept
<1>7. CASE UNCHANGED vars
  BY <1>7 DEF vars, TypeOK
<1> QED BY <1>1, <1>2, <1>3, <1>4, <1>5, <1>6, <1>7 DEF Next, Step

-----------------------------------------------------------------------------
(***************************************************************************)
(* One lemma per action: the parts of the invariant it can disturb.        *)
(***************************************************************************)
IParts == Counters /\ Handshakes /\ Wires /\ Tables /\ Queues

LEMMA Ranges ==
    ASSUME TypeOK, NEW p \in Party
    PROVE  /\ target[p] \in Int /\ accepted[p] \in Int /\ N \in Int /\ p \in Int
           /\ 1 <= p /\ p <= N
           /\ pc[p] \in {"down", "connect", "key", "listen", "accept", "up"}
  BY NAssumption DEF TypeOK, Party

LEMMA StartStep == ASSUME IInv, NEW p \in Party, Start(p) PROVE IParts'
<1> USE DEF IInv, Start
<1>1. \A q \in Party : pc'[q] = IF q = p THEN (IF p = N THEN "listen" ELSE "connect")
                                ELSE pc[q]
  BY DEF TypeOK
<1>2. Counters'
  BY <1>1, Ranges, NAssumption DEF Counters, Party
<1>3. \A i, j \in Party : i < j =>
         (target[i] <= j /\ AcceptedBy(j, i) => i # p) /\ (pc[i] = "key" => i # p)
  BY DEF Handshakes
<1>4. \A q \in Party : Listening(q) => Listening(q)'
  BY <1>1 DEF Listening
<1>5. Handshakes'
  BY <1>1, <1>3, <1>4 DEF Handshakes, AcceptedBy
<1>6. Wires'
  BY <1>1 DEF Wires, AcceptedBy
<1>7. Tables'
  BY <1>1 DEF Tables, AcceptedBy
<1>8. \A i, j \in Party : Waits(i, j)' <=> Waits(i, j)
  BY <1>1 DEF Waits, AcceptedBy
<1>9. Queues'
  BY <1>8 DEF Queues
<1> QED BY <1>2, <1>5, <1>6, <1>7, <1>9 DEF IParts

LEMMA ListenStep == ASSUME IInv, NEW p \in Party, Listen(p) PROVE IParts'
<1> USE DEF IInv, Listen
<1>1. \A q \in Party : pc'[q] = IF q = p THEN "accept" ELSE pc[q]
  BY DEF TypeOK
<1>2. Counters'
  BY <1>1, Ranges, NAssumption DEF Counters, Party
<1>3. \A q \in Party : Listening(q) => Listening(q)'
  BY <1>1 DEF Listening
<1>4. Handshakes'
  BY <1>1, <1>3 DEF Handshakes, AcceptedBy
<1>5. Wires'
  BY <1>1 DEF Wires, AcceptedBy
<1>6. Tables'
  BY <1>1 DEF Tables, AcceptedBy
<1>7. \A i, j \in Party : Waits(i, j)' <=> Waits(i, j)
  BY <1>1 DEF Waits, AcceptedBy
<1>8. Queues'
  BY <1>7 DEF Queues
<1> QED BY <1>2, <1>4, <1>5, <1>6, <1>8 DEF IParts

\* A refused process was at its first connect: nobody has heard of it.
LEMMA RefusedAtFirst ==
    ASSUME IInv, NEW p \in Party, Refused(p)
    PROVE  /\ target[p] = p + 1
           /\ \A j \in Party : p < j => ~AcceptedBy(j, p)
           /\ accepted[p] = 0
<1>1. pc[p] = "connect" /\ p < target[p] /\ target[p] <= N /\ accepted[p] = 0
  BY DEF IInv, Counters, Refused
<1>2. ASSUME target[p] # p + 1 PROVE FALSE
  <2> DEFINE t == target[p]
  <2>1. t \in Party /\ p + 1 \in Party /\ p + 1 < t /\ p < p + 1
    BY <1>1, <1>2, Ranges DEF IInv, Party
  <2>2. AcceptedBy(p + 1, p)
    BY <2>1 DEF IInv, Handshakes
  <2>3. accepted[p + 1] # 0
    BY <2>1, <2>2, Ranges DEF AcceptedBy, IInv
  <2>4. target[p + 1] = N + 1
    BY <2>1, <2>3, Ranges DEF IInv, Counters
  <2>5. AcceptedBy(t, p + 1)
    <3>1. target[p + 1] > t
      BY <2>1, <2>4, Ranges DEF IInv
    <3> QED BY <2>1, <3>1 DEF IInv, Handshakes
  <2>6. accepted[t] # 0
    BY <2>1, <2>5, Ranges DEF AcceptedBy, IInv
  <2>7. Listening(t)
    BY <2>1, <2>6, Ranges DEF IInv, Counters, Listening
  <2> QED BY <2>7 DEF Refused
<1>3. ASSUME NEW j \in Party, p < j, AcceptedBy(j, p) PROVE FALSE
  <2>1. target[p] <= j
    BY <1>2, <1>3, Ranges DEF IInv
  <2> QED BY <1>1, <1>3, <2>1 DEF IInv, Handshakes
<1> QED BY <1>1, <1>2, <1>3

LEMMA RefusedStep == ASSUME IInv, NEW p \in Party, Refused(p) PROVE IParts'
<1>0. /\ target[p] = p + 1 /\ accepted[p] = 0
      /\ \A j \in Party : p < j => ~AcceptedBy(j, p)
  BY RefusedAtFirst
<1> USE DEF IInv, Refused
<1>1. /\ \A q \in Party : pc'[q] = IF q = p THEN "down" ELSE pc[q]
      /\ \A q \in Party : target'[q] = target[q]
      /\ \A q, r \in Party : peer2sock'[q][r] = peer2sock[q][r]
      /\ \A q, r \in Party : keys'[q][r] = keys[q][r]
  <2>1. target[p] = p + 1 /\ target' = target
    BY <1>0 DEF TypeOK
  <2>2. \A r \in Party : peer2sock[p][r] = Nobody /\ keys[p][r] = NoKey
    <3>1. \A r \in Party : r > p => /\ ~(target[p] > r)
                                    /\ pc[p] # "key"
      BY <2>1, Ranges DEF Party
    <3>2. \A r \in Party : r < p => ~AcceptedBy(p, r)
      BY <1>0, Ranges DEF AcceptedBy
    <3>3. \A r \in Party : r = p \/ r < p \/ r > p
      BY Ranges
    <3> QED BY <3>1, <3>2, <3>3 DEF Tables
  <2> QED BY <2>1, <2>2 DEF TypeOK
<1>2. Counters'
  BY <1>0, <1>1, Ranges, NAssumption DEF Counters, Party
<1>3. \A q \in Party : Listening(q) => Listening(q)'
  BY <1>1 DEF Listening
<1>4. Handshakes'
  BY <1>1, <1>0, <1>3 DEF Handshakes, AcceptedBy
<1>5. Wires'
  BY <1>1 DEF Wires, AcceptedBy
<1>6. Tables'
  BY <1>1 DEF Tables, AcceptedBy
<1>7. \A i, j \in Party : Waits(i, j)' <=> Waits(i, j)
  BY <1>1 DEF Waits, AcceptedBy
<1>8. Queues'
  BY <1>7 DEF Queues
<1> QED BY <1>2, <1>4, <1>5, <1>6, <1>8 DEF IParts

LEMMA DialStep == ASSUME IInv, NEW p \in Party, Dial(p) PROVE IParts'
<1> USE DEF IInv, Dial
<1> DEFINE t == target[p]
<1>1. /\ t \in Party /\ p < t /\ wire[p] = NoKey
      /\ ~AcceptedBy(t, p)
  <2>1. t \in Party /\ p < t
    BY Ranges DEF Counters, Party
  <2>2. t <= t
    BY Ranges
  <2> QED BY <2>1, <2>2 DEF Handshakes, Wires
<1>2. /\ \A q \in Party : pc'[q] = IF q = p THEN "key" ELSE pc[q]
      /\ \A q, r \in Party : peer2sock'[q][r] =
            IF q = p /\ r = t THEN t ELSE peer2sock[q][r]
      /\ \A q \in Party : backlog'[q] = IF q = t THEN Append(backlog[t], p)
                                        ELSE backlog[q]
  BY <1>1 DEF TypeOK
<1>3. Counters'
  BY <1>2, Ranges, NAssumption DEF Counters, Party
<1>4. \A q \in Party : Listening(q) <=> Listening(q)'
  BY <1>2 DEF Listening
<1>5. Handshakes'
  BY <1>1, <1>2, <1>4 DEF Handshakes, AcceptedBy
<1>6. Wires'
  BY <1>1, <1>2 DEF Wires, AcceptedBy
<1>7. Tables'
  <2>1. ASSUME NEW i \in Party, NEW j \in Party, i < j
        PROVE  /\ peer2sock'[i][j] =
                    IF target[i] > j \/ (target[i] = j /\ pc'[i] = "key")
                    THEN j ELSE Nobody
               /\ peer2sock'[j][i] = peer2sock[j][i]
    <3>1. ~(i = t /\ j = p)
      BY <1>1, <2>1, Ranges
    <3>2. peer2sock'[j][i] = peer2sock[j][i]
      BY <1>1, <1>2, <3>1
    <3>3. CASE i = p /\ j = t
      BY <1>1, <1>2, <3>2, <3>3
    <3>4. CASE ~(i = p /\ j = t)
      <4>1. peer2sock'[i][j] = peer2sock[i][j]
        BY <1>1, <1>2, <3>4
      <4>2. target[i] = j /\ pc'[i] = "key" <=> target[i] = j /\ pc[i] = "key"
        BY <1>2, <3>4
      <4> QED BY <2>1, <3>2, <4>1, <4>2 DEF Tables
    <3> QED BY <3>3, <3>4
  <2>2. \A i \in Party : peer2sock'[i][i] = peer2sock[i][i]
    BY <1>1, <1>2, Ranges
  <2>3. ASSUME NEW i \in Party, NEW j \in Party, i < j
        PROVE  AcceptedBy(j, i)' <=> AcceptedBy(j, i)
    BY DEF AcceptedBy
  <2> QED BY <2>1, <2>2, <2>3 DEF Tables
<1>8. \A i, j \in Party : Waits(i, j)' <=> Waits(i, j) \/ (i = p /\ j = t)
  BY <1>1, <1>2 DEF Waits, AcceptedBy
<1>9. backlog[t] = <<>>
  \* Another waiter would be the next one t expects, and so would p.
  <2>1. SUFFICES ASSUME NEW i \in Party, i < t, Waits(i, t) PROVE FALSE
    BY <1>1 DEF Queues
  <2>2. i = NextID(t)
    BY <1>1, <2>1, WaiterIsNext
  <2>3. p <= NextID(t)
    BY <1>1, Ranges DEF AcceptedBy, NextID
  <2>4. i # p
    BY <2>1 DEF Waits
  <2>5. p < i
    BY <2>2, <2>3, <2>4, Ranges
  <2>6. AcceptedBy(i, p)
    <3>1. target[p] > i
      BY <2>1
    <3> QED BY <2>5, <3>1 DEF Handshakes
  <2>7. accepted[i] # 0
    BY <2>5, <2>6, Ranges DEF AcceptedBy
  <2> QED BY <2>1, <2>7, Ranges DEF Counters, Waits
<1>10. backlog'[t] = <<p>>
  BY <1>2, <1>9, <1>1
<1>11. \A i \in Party : i < t => ~Waits(i, t)
  BY <1>9, <1>1 DEF Queues
<1>12. Queues'
  BY <1>1, <1>2, <1>8, <1>10, <1>11 DEF Queues
<1> QED BY <1>3, <1>5, <1>6, <1>7, <1>12 DEF IParts

LEMMA ReadKeyStep == ASSUME IInv, NEW p \in Party, ReadKey(p) PROVE IParts'
<1> USE DEF IInv, ReadKey
<1> DEFINE t == target[p]
<1>1. t \in Party /\ p < t /\ AcceptedBy(t, p)
  BY Ranges DEF Counters, Wires, Party
<1>2. wire[p] = [by |-> t, for |-> p] /\ DecryptKey(p) = [by |-> t, for |-> p]
  <2>1. target[p] <= t
    BY Ranges
  <2>2. wire[p] = [by |-> t, for |-> p]
    BY <1>1, <2>1 DEF Handshakes
  <2> QED BY <2>2 DEF DecryptKey
<1>3. /\ \A q \in Party : pc'[q] =
            IF q = p THEN (IF t < N THEN "connect" ELSE IF p = 1 THEN "up" ELSE "listen")
                     ELSE pc[q]
      /\ \A q \in Party : target'[q] = IF q = p THEN t + 1 ELSE target[q]
      /\ \A q \in Party : wire'[q] = IF q = p THEN NoKey ELSE wire[q]
      /\ \A q, r \in Party : keys'[q][r] =
            IF q = p /\ r = t THEN [by |-> t, for |-> p] ELSE keys[q][r]
  BY <1>1, <1>2 DEF TypeOK
<1>4. \A q \in Party : pc'[q] = "key" <=> pc[q] = "key" /\ q # p
  BY <1>3
<1>5. Counters'
  BY <1>1, <1>3, Ranges, NAssumption DEF Counters, Party
<1>6. \A q \in Party : Listening(q) => Listening(q)'
  BY <1>3 DEF Listening
<1>7. \A i, j \in Party : AcceptedBy(j, i)' <=> AcceptedBy(j, i)
  BY DEF AcceptedBy
<1>8. Handshakes'
  <2>1. ASSUME NEW j \in Party, p < j
        PROVE  /\ target'[p] > j => AcceptedBy(j, p)
               /\ ~(AcceptedBy(j, p) /\ target'[p] <= j)
    <3>1. CASE j < t
      <4>1. target[p] > j /\ ~(target'[p] <= j)
        BY <3>1, <1>3, Ranges
      <4> QED BY <4>1, <2>1 DEF Handshakes
    <3>2. CASE j = t
      <4>1. ~(target'[p] <= j)
        BY <3>2, <1>3, Ranges
      <4> QED BY <4>1, <3>2, <1>1
    <3>3. CASE j > t
      <4>1. target[p] <= j /\ target[p] # j /\ ~(target'[p] > j)
        BY <3>3, <1>3, Ranges
      <4> QED BY <4>1, <2>1 DEF Handshakes
    <3> QED BY <3>1, <3>2, <3>3, Ranges
  <2>2. ASSUME NEW i \in Party, NEW j \in Party, i < j, i # p
        PROVE  /\ target'[i] = target[i] /\ pc'[i] = pc[i] /\ wire'[i] = wire[i]
    BY <1>3, <2>2
  <2> QED BY <1>4, <1>6, <1>7, <2>1, <2>2 DEF Handshakes
<1>9. Wires'
  BY <1>3, <1>4, <1>7 DEF Wires, AcceptedBy
<1>10. Tables'
  <2>1. \A i \in Party : keys'[i][i] = keys[i][i]
    BY <1>1, <1>3, Ranges
  <2>2. ASSUME NEW i \in Party, NEW j \in Party, i < j
        PROVE  /\ keys'[j][i] = keys[j][i]
               /\ keys'[i][j] = IF target'[i] > j THEN [by |-> j, for |-> i] ELSE NoKey
               /\ target'[i] > j \/ (target'[i] = j /\ pc'[i] = "key")
                     <=> target[i] > j \/ (target[i] = j /\ pc[i] = "key")
    <3>1. keys'[j][i] = keys[j][i]
      <4>1. ~(j = p /\ i = t)
        BY <1>1, <2>2, Ranges
      <4> QED BY <4>1, <1>3
    <3>2. CASE i # p
      BY <3>1, <3>2, <1>3, <2>2 DEF Tables
    <3>3. CASE i = p
      <4>1. target'[i] = t + 1 /\ pc'[i] # "key" /\ pc[i] = "key"
        BY <1>3, <3>3, <1>4
      <4>2. target'[i] > j <=> target[i] > j \/ j = t
        BY <4>1, <3>3, Ranges
      <4>3. keys'[i][j] = IF j = t THEN [by |-> j, for |-> i] ELSE keys[i][j]
        BY <1>3, <3>3
      <4>4. keys[i][j] = IF target[i] > j THEN [by |-> j, for |-> i] ELSE NoKey
        BY <2>2 DEF Tables
      <4> QED BY <3>1, <3>3, <4>1, <4>2, <4>3, <4>4
    <3> QED BY <3>2, <3>3
  <2> QED BY <1>7, <2>1, <2>2 DEF Tables
<1>11. \A i, j \in Party : Waits(i, j)' <=> Waits(i, j)
  <2>1. ASSUME NEW i \in Party, NEW j \in Party, i # p
        PROVE  Waits(i, j)' <=> Waits(i, j)
    BY <1>3, <1>7, <2>1 DEF Waits
  <2>2. ASSUME NEW j \in Party PROVE ~Waits(p, j)' /\ ~Waits(p, j)
    BY <1>1, <1>4 DEF Waits
  <2> QED BY <2>1, <2>2
<1>12. Queues'
  BY <1>11 DEF Queues
<1> QED BY <1>5, <1>8, <1>9, <1>10, <1>12 DEF IParts

LEMMA AcceptStep == ASSUME IInv, NEW p \in Party, Accept(p) PROVE IParts'
<1>1. PICK i \in Party : /\ i = NextID(p)
                         /\ i < p /\ Waits(i, p) /\ backlog[p] = <<i>>
                         /\ \A r \in Party : r < p /\ Waits(r, p) => r = i
  <2>1. PICK r \in Party : r < p /\ Waits(r, p)
    BY DEF IInv, Queues, Accept
  <2>2. backlog[p] = <<r>>
    BY <2>1 DEF IInv, Queues
  <2> QED BY <2>1, <2>2, WaiterIsNext DEF IInv
<1>2. Head(backlog[p]) = i /\ Tail(backlog[p]) = <<>>
  BY <1>1
<1> USE DEF IInv, Accept, LastAccept
<1>3. /\ \A q \in Party : pc'[q] =
            IF q = p /\ accepted[p] + 1 = p - 1 THEN "up" ELSE pc[q]
      /\ \A q \in Party : accepted'[q] = IF q = p THEN accepted[p] + 1 ELSE accepted[q]
      /\ \A q \in Party : backlog'[q] = IF q = p THEN <<>> ELSE backlog[q]
      /\ \A q \in Party : wire'[q] = IF q = i THEN [by |-> p, for |-> i] ELSE wire[q]
      /\ \A q, r \in Party : peer2sock'[q][r] =
            IF q = p /\ r = i THEN i ELSE peer2sock[q][r]
      /\ \A q, r \in Party : keys'[q][r] =
            IF q = p /\ r = i THEN [by |-> p, for |-> i] ELSE keys[q][r]
  BY <1>1, <1>2 DEF TypeOK
<1>4. \A q \in Party : pc'[q] = "key" <=> pc[q] = "key"
  BY <1>3
<1>5. Counters'
  BY <1>1, <1>3, Ranges, NAssumption DEF Counters, Party
<1>6. \A q \in Party : Listening(q)' <=> Listening(q)
  BY <1>3 DEF Listening
<1>7. \A r, j \in Party : AcceptedBy(j, r)' <=> AcceptedBy(j, r) \/ (j = p /\ r = i)
  <2>1. ASSUME NEW r \in Party PROVE AcceptedBy(p, r)' <=> AcceptedBy(p, r) \/ r = i
    <3>1. /\ r \in Int /\ p \in Int /\ accepted[p] \in Int
          /\ accepted'[p] = accepted[p] + 1
      BY <1>3, Ranges
    <3> QED BY <1>1, <3>1 DEF AcceptedBy, NextID
  <2>2. \A r, j \in Party : j # p => (AcceptedBy(j, r)' <=> AcceptedBy(j, r))
    BY <1>3 DEF AcceptedBy
  <2> QED BY <2>1, <2>2
<1>8. pc[i] = "key" /\ target[i] = p /\ ~AcceptedBy(p, i)
  BY <1>1 DEF Waits
<1>9. wire[i] = NoKey
  BY <1>1, <1>8 DEF Wires
<1>10. Handshakes'
  BY <1>1, <1>3, <1>4, <1>6, <1>7, <1>8 DEF Handshakes
<1>11. Wires'
  <2>0. target' = target
    OBVIOUS
  <2>1. ASSUME NEW q \in Party, wire'[q] # NoKey, q # i
        PROVE  pc'[q] = "key" /\ AcceptedBy(target[q], q)'
    <3>1. pc[q] = "key" /\ AcceptedBy(target[q], q)
      BY <1>3, <2>1 DEF Wires
    <3>2. target[q] \in Party
      BY <3>1, Ranges DEF Counters, Party
    <3>3. AcceptedBy(target[q], q) => AcceptedBy(target[q], q)'
      BY <1>7, <2>0, <3>2 DEF AcceptedBy
    <3> QED BY <1>4, <3>1, <3>3
  <2>2. pc'[i] = "key" /\ AcceptedBy(target[i], i)'
    <3>1. AcceptedBy(p, i)'
      BY <1>1, <1>7
    <3> QED BY <1>1, <1>4, <1>8, <2>0, <3>1 DEF AcceptedBy
  <2> QED
    <3>1. ASSUME NEW q \in Party, wire'[q] # NoKey
          PROVE  pc'[q] = "key" /\ AcceptedBy(target[q], q)'
      BY <2>1, <2>2, <3>1
    <3> QED BY <3>1 DEF Wires
<1>12. Tables'
  <2>1. ASSUME NEW r \in Party, NEW j \in Party, r < j
        PROVE  /\ peer2sock'[r][j] = peer2sock[r][j] /\ keys'[r][j] = keys[r][j]
               /\ peer2sock'[j][r] = IF AcceptedBy(j, r)' THEN r ELSE Nobody
               /\ keys'[j][r] = IF AcceptedBy(j, r)' THEN [by |-> j, for |-> r] ELSE NoKey
    <3>1. ~(r = p /\ j = i)
      BY <1>1, <2>1, Ranges
    <3>2. CASE j = p /\ r = i
      BY <1>3, <1>7, <3>1, <3>2
    <3>3. CASE ~(j = p /\ r = i)
      <4>1. /\ peer2sock'[j][r] = peer2sock[j][r] /\ keys'[j][r] = keys[j][r]
            /\ AcceptedBy(j, r)' <=> AcceptedBy(j, r)
        BY <1>3, <1>7, <3>3
      <4>2. /\ peer2sock'[r][j] = peer2sock[r][j] /\ keys'[r][j] = keys[r][j]
        BY <1>3, <3>1
      <4> QED BY <2>1, <4>1, <4>2 DEF Tables
    <3> QED BY <3>2, <3>3
  <2>2. \A r \in Party : peer2sock'[r][r] = peer2sock[r][r] /\ keys'[r][r] = keys[r][r]
    BY <1>1, <1>3, Ranges
  <2> QED BY <1>4, <2>1, <2>2 DEF Tables
<1>13. \A r, j \in Party : Waits(r, j)' <=> Waits(r, j) /\ ~(j = p /\ r = i)
  BY <1>4, <1>7 DEF Waits
<1>14. Queues'
  <2>1. \A r \in Party : r < p => ~Waits(r, p)'
    BY <1>1, <1>13
  <2>2. \A j \in Party : j # p => backlog'[j] = backlog[j]
    BY <1>3
  <2>3. backlog'[p] = <<>>
    BY <1>3
  <2> QED BY <1>13, <2>1, <2>2, <2>3 DEF Queues
<1> QED BY <1>5, <1>10, <1>11, <1>12, <1>14 DEF IParts

-----------------------------------------------------------------------------
\* The invariant holds initially and is preserved by every step.
LEMMA Invariance == Spec => []IInv
<1>1. Init => IInv
  <2> SUFFICES ASSUME Init PROVE IInv
    OBVIOUS
  <2> USE NAssumption DEF Init
  <2>1. TypeOK
    BY DEF TypeOK, Party
  <2>2. Counters
    BY DEF Counters, Party
  <2>3. \A i, j \in Party : i < j => ~AcceptedBy(j, i) /\ ~(target[i] > j)
    BY DEF AcceptedBy, Party
  <2>4. Handshakes /\ Wires /\ Queues
    BY <2>3 DEF Handshakes, Wires, Queues, Waits
  <2>5. Tables
    BY <2>3 DEF Tables
  <2> QED BY <2>1, <2>2, <2>4, <2>5 DEF IInv
<1>2. IInv /\ [Next]_vars => IInv'
  <2> SUFFICES ASSUME IInv, [Next]_vars PROVE IInv'
    OBVIOUS
  <2>1. TypeOK'
    BY TypeStep DEF IInv
  <2>2. IParts'
    <3>1. CASE UNCHANGED vars
      BY <3>1 DEF vars, IInv, IParts, Counters, Handshakes, Wires, Tables, Queues,
                  AcceptedBy, Waits, Listening
    <3>2. CASE Next
      BY <3>2, StartStep, DialStep, RefusedStep, ReadKeyStep, ListenStep, AcceptStep
         DEF Next, Step
    <3> QED BY <3>1, <3>2
  <2> QED BY <2>1, <2>2 DEF IInv, IParts
<1> QED BY <1>1, <1>2, PTL DEF Spec

\* Every variable keeps its type (NodeNetwork's tables and loop counters).
THEOREM TypeCorrect == Spec => []TypeOK
<1>1. IInv => TypeOK
  BY DEF IInv
<1> QED BY <1>1, Invariance, PTL

\* acceptPeers files every connection under the ID of the party that made it,
\* for every number of parties and every order of starts, exits and restarts.
THEOREM IdentityTheorem == Spec => []IdentityCorrect
<1>1. IInv => IdentityCorrect
  <2> SUFFICES ASSUME IInv, NEW p \in Party, NEW q \in Party
               PROVE  peer2sock[p][q] \in {Nobody, q}
    BY DEF IdentityCorrect
  <2>1. CASE p < q
    BY <2>1 DEF IInv, Tables
  <2>2. CASE q < p
    BY <2>2 DEF IInv, Tables
  <2>3. CASE p = q
    BY <2>3 DEF IInv, Tables
  <2> QED BY <2>1, <2>2, <2>3, Ranges DEF IInv
<1> QED BY <1>1, Invariance, PTL

\* Both ends of every socket set up AES with the same key (init_keys).
THEOREM KeysTheorem == Spec => []KeysAgree
<1>1. IInv => KeysAgree
  <2> SUFFICES ASSUME IInv, NEW p \in Party, NEW q \in Party
               PROVE  /\ keys[p][q] # BadKey
                      /\ (keys[p][q] # NoKey /\ keys[q][p] # NoKey) =>
                            keys[p][q] = keys[q][p]
    BY DEF KeysAgree
  <2>1. p < q \/ q < p \/ p = q
    BY Ranges DEF IInv
  <2>2. \A r \in Party : [by |-> p, for |-> r] # BadKey /\ [by |-> q, for |-> r] # BadKey
    BY NAssumption DEF BadKey, Party
  <2>3. NoKey # BadKey
    BY DEF NoKey, BadKey
  <2> QED BY <2>1, <2>2, <2>3 DEF IInv, Tables
<1> QED BY <1>1, Invariance, PTL

\* listen(7) never has more than one caller waiting.
THEOREM OnePendingTheorem == Spec => []OnePending
<1>1. IInv => OnePending
  <2> SUFFICES ASSUME IInv, NEW p \in Party PROVE Len(backlog[p]) <= 1
    BY DEF OnePending
  <2>1. CASE backlog[p] = <<>>
    BY <2>1
  <2>2. CASE backlog[p] # <<>>
    <3>1. PICK i \in Party : backlog[p] = <<i>>
      BY <2>2 DEF IInv, Queues
    <3> QED BY <3>1
  <2> QED BY <2>1, <2>2
<1> QED BY <1>1, Invariance, PTL

-----------------------------------------------------------------------------
\* A process that exits because its connect() was refused is unknown to all
\* others: no socket, no queue entry and no key of it exists anywhere.
THEOREM RefusedIsCleanTheorem == Spec => RefusedIsClean
<1> DEFINE Clean == \A p \in Party : pc[p] = "connect" /\ pc'[p] = "down" =>
          \A q \in Party :
             /\ peer2sock[p][q] = Nobody /\ wire[p] = NoKey
             /\ \A r \in Party : peer2sock[q][r] # p
             /\ \A k \in 1..Len(backlog[q]) : backlog[q][k] # p
<1>1. ASSUME IInv, [Next]_vars PROVE [Clean]_vars
  <2> SUFFICES ASSUME NEW p \in Party, pc[p] = "connect", pc'[p] = "down",
                      NEW q \in Party
               PROVE  /\ peer2sock[p][q] = Nobody /\ wire[p] = NoKey
                      /\ \A r \in Party : peer2sock[q][r] # p
                      /\ \A k \in 1..Len(backlog[q]) : backlog[q][k] # p
    OBVIOUS
  <2>1. Refused(p)
    <3>1. ASSUME NEW r \in Party, r # p, Start(r) \/ Step(r) PROVE FALSE
      BY <1>1, <3>1 DEF Start, Step, Dial, Refused, ReadKey, Listen, Accept, IInv, TypeOK
    <3>2. Start(p) \/ Step(p)
      BY <1>1, <3>1 DEF Next, vars
    <3> QED
      BY <1>1, <3>2 DEF Start, Step, Dial, ReadKey, Listen, Accept, IInv, TypeOK
  <2>2. /\ target[p] = p + 1 /\ accepted[p] = 0
        /\ \A j \in Party : p < j => ~AcceptedBy(j, p)
    BY <1>1, <2>1, RefusedAtFirst
  <2>3. wire[p] = NoKey
    BY <1>1 DEF IInv, Wires
  <2>4. \A r \in Party : r < p => ~AcceptedBy(p, r)
    BY <1>1, <2>2, Ranges DEF AcceptedBy, IInv
  <2>5. ASSUME NEW r \in Party PROVE peer2sock[p][r] = Nobody
    <3>1. CASE p < r
      <4>1. ~(target[p] > r) /\ pc[p] # "key"
        BY <1>1, <2>2, <3>1, Ranges DEF IInv
      <4> QED BY <1>1, <3>1, <4>1 DEF IInv, Tables
    <3>2. CASE r < p
      BY <1>1, <2>4, <3>2 DEF IInv, Tables
    <3>3. CASE r = p
      BY <1>1, <3>3 DEF IInv, Tables
    <3> QED BY <1>1, <3>1, <3>2, <3>3, Ranges DEF IInv
  <2>6. ASSUME NEW r \in Party PROVE peer2sock[q][r] # p
    <3>1. p # Nobody
      BY DEF Party, Nobody
    <3>2. r # p => peer2sock[q][r] # p
      <4>1. peer2sock[q][r] \in {Nobody, r}
        <5>1. CASE q < r
          BY <1>1, <5>1 DEF IInv, Tables
        <5>2. CASE r < q
          BY <1>1, <5>2 DEF IInv, Tables
        <5>3. CASE q = r
          BY <1>1, <5>3 DEF IInv, Tables
        <5> QED BY <1>1, <5>1, <5>2, <5>3, Ranges DEF IInv
      <4> QED BY <3>1, <4>1
    <3>3. peer2sock[q][p] = Nobody
      <4>1. CASE p < q
        BY <1>1, <2>2, <4>1 DEF IInv, Tables
      <4>2. CASE q < p
        <5>1. ~(target[q] > p)
          BY <1>1, <2>4, <4>2 DEF IInv, Handshakes
        <5>2. ~(target[q] = p /\ pc[q] = "key")
          BY <1>1, <4>2 DEF IInv, Handshakes, Listening
        <5> QED BY <1>1, <4>2, <5>1, <5>2 DEF IInv, Tables
      <4>3. CASE q = p
        BY <1>1, <4>3 DEF IInv, Tables
      <4> QED BY <1>1, <4>1, <4>2, <4>3, Ranges DEF IInv
    <3> QED BY <3>1, <3>2, <3>3
  <2>7. ASSUME NEW k \in 1..Len(backlog[q]) PROVE backlog[q][k] # p
    <3>1. PICK i \in Party : Waits(i, q) /\ backlog[q] = <<i>>
      BY <1>1 DEF IInv, Queues, TypeOK
    <3> QED BY <3>1 DEF Waits
  <2> QED BY <2>3, <2>5, <2>6, <2>7
<1> QED BY <1>1, Invariance, PTL DEF Spec, RefusedIsClean

\* Connection establishment implements Mesh: one link at a time, none lost.
THEOREM RefinesMeshTheorem == Spec => RefinesMesh
<1>1. ASSUME IInv
      PROVE  Links = {e \in Party \X Party : e[1] < e[2] /\ target[e[1]] > e[2]}
  <2>1. ASSUME NEW i \in Party, NEW j \in Party, i < j
        PROVE  keys[i][j] # NoKey <=> target[i] > j
    <3>1. [by |-> j, for |-> i] # NoKey
      BY DEF NoKey, Party
    <3> QED BY <1>1, <2>1, <3>1 DEF IInv, Tables
  <2> QED BY <2>1 DEF Links
<1>2. Init => Abstract!Init
  <2> SUFFICES ASSUME Init PROVE Links = {}
    BY DEF Abstract!Init
  <2> QED BY DEF Links, Init
<1>3. ASSUME IInv, IInv', [Next]_vars PROVE [Abstract!Next]_Links
  <2>1. Links' = {e \in Party \X Party : e[1] < e[2] /\ target'[e[1]] > e[2]}
    <3>1. ASSUME NEW i \in Party, NEW j \in Party, i < j
          PROVE  keys'[i][j] # NoKey <=> target'[i] > j
      <4>1. [by |-> j, for |-> i] # NoKey
        BY DEF NoKey, Party
      <4> QED BY <1>3, <3>1, <4>1 DEF IInv, Tables
    <3> QED BY <3>1 DEF Links
  <2>2. ASSUME target' = target PROVE Links' = Links
    BY <1>1, <1>3, <2>1, <2>2
  <2>3. ASSUME NEW p \in Party, Refused(p) PROVE Links' = Links
    <3>1. target[p] = p + 1
      BY <1>3, <2>3, RefusedAtFirst
    <3>2. target' = target
      BY <1>3, <2>3, <3>1 DEF Refused, IInv, TypeOK
    <3> QED BY <2>2, <3>2
  <2>4. ASSUME NEW p \in Party, ReadKey(p) PROVE Abstract!Next
    <3> DEFINE t == target[p]
    <3>1. t \in Party /\ p < t /\ AcceptedBy(t, p)
      BY <1>3, <2>4, Ranges DEF IInv, Counters, Wires, ReadKey, Party
    <3>2. \A q \in Party : target'[q] = IF q = p THEN t + 1 ELSE target[q]
      BY <1>3, <2>4 DEF ReadKey, IInv, TypeOK
    <3>3. Links' = Links \union {<<p, t>>}
      <4>1. ASSUME NEW i \in Party, NEW j \in Party
            PROVE  target'[i] > j <=> target[i] > j \/ (i = p /\ j = t)
        BY <1>3, <3>2, Ranges DEF IInv
      <4> QED BY <1>1, <1>3, <2>1, <3>1, <4>1
    <3>4. <<p, t>> \in Abstract!Pairs \ Links
      BY <1>1, <1>3, <3>1, Ranges DEF IInv, Abstract!Pairs, Party
    <3>5. ASSUME NEW k \in p+1 .. t-1 PROVE <<p, k>> \in Links /\ <<k, t>> \in Links
      <4>1. k \in Party /\ p < k /\ k < t
        BY <3>1, NAssumption DEF Party
      <4>2. AcceptedBy(k, p)
        BY <1>3, <4>1 DEF IInv, Handshakes
      <4>3. accepted[k] # 0
        BY <1>3, <4>1, <4>2, Ranges DEF AcceptedBy, IInv
      <4>4. target[k] = N + 1
        BY <1>3, <4>1, <4>3, Ranges DEF IInv, Counters
      <4>5. target[k] > t /\ target[p] > k
        BY <3>1, <4>1, <4>4, NAssumption DEF Party
      <4> QED BY <1>1, <1>3, <3>1, <4>1, <4>5
    <3>6. Abstract!Establish(p, t)
      BY <3>3, <3>4, <3>5 DEF Abstract!Establish, Abstract!Turn
    <3> QED BY <3>1, <3>6 DEF Abstract!Next, Party
  <2>5. CASE UNCHANGED vars
    BY <2>2, <2>5 DEF vars
  <2> QED BY <1>3, <2>2, <2>3, <2>4, <2>5 DEF Next, Step, Start, Dial, Listen, Accept
<1> QED BY <1>2, <1>3, Invariance, PTL DEF Spec, RefinesMesh, Abstract!Spec
=============================================================================
