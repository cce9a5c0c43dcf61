-------------------------- MODULE PrgStreamProofs --------------------------
(***************************************************************************)
(* The generator implements ByteStream for every set of keys and of        *)
(* request lengths.  The invariant is type correctness: what a container   *)
(* still has to give is between none and all of its sixteen bytes.         *)
(***************************************************************************)
EXTENDS PrgStream, TLAPS

\* The unsigned sum does not wrap for a request that is not empty, so rounds
\* is the number of blocks beyond the container that the request reaches into.
LEMMA RoundsOf ==
    ASSUME NEW len \in Lengths, NEW used \in 0..16
    PROVE  /\ len \in Nat /\ len >= 1
           /\ Rounds(len, used) \in Nat
           /\ 16 * Rounds(len, used) <= len + used - 1
           /\ len + used - 1 < 16 * Rounds(len, used) + 16
  <1>1. len \in Nat /\ len >= 1 /\ len + 16 < UintSize /\ UintSize \in Nat
    BY LengthsAssumption, UintAssumption
  <1>2. (len - 16 + used + 15) = len + used - 1 /\ len + used - 1 \in 0..UintSize-1
    BY <1>1
  <1>3. \A x \in Int, m \in Nat : x \in 0..m-1 => x % m = x
    BY SMT
  <1>4. (len + used - 1) % UintSize = len + used - 1
    BY <1>1, <1>2, <1>3
  <1>5. Rounds(len, used) = (len + used - 1) \div 16
    BY <1>2, <1>4 DEF Rounds
  <1> QED
    BY <1>1, <1>2, <1>5

\* A byte that belongs to its block and is at the given place of k's stream.
IsAt(byte, k, place) ==
    /\ byte \in [key : Keys, block : Nat, off : 0..15]
    /\ byte.key = k
    /\ Position(byte) = place

LEMMA PlaceOf ==
    ASSUME NEW k \in Keys, NEW b \in Nat, NEW o \in 0..15, NEW place,
           place = 16 * b + o
    PROVE  IsAt(Byte(k, b, o), k, place)
  BY DEF Byte, Position, Outside, IsAt

-----------------------------------------------------------------------------
\* The bytes a request gets are the next len bytes of key k.
GetsNext(k, len) ==
    /\ dest' = [i \in 1..len |-> dest'[i]]
    /\ \A i \in 1..len : IsAt(dest'[i], k, 16 * container[k] + P_container[k] + i - 1)

\* The key's stream has moved on by len bytes, to the block b, used up to u.
MovesTo(k, len, b, u) ==
    /\ container' = [container EXCEPT ![k] = b]
    /\ P_container' = [P_container EXCEPT ![k] = u]
    /\ b \in Nat /\ u \in 0..16
    /\ 16 * b + u = 16 * container[k] + P_container[k] + len

Served(k, len) == GetsNext(k, len) /\ \E b, u : MovesTo(k, len, b, u)

\* A request that the container can serve.
LEMMA ServedFromContainer ==
    ASSUME TypeOK, NEW k \in Keys, NEW len \in Lengths, FromContainer(k, len)
    PROVE  Served(k, len)
  <1> DEFINE c == container[k]
             used == P_container[k]
  <1>1. c \in Nat /\ used \in 0..16
    BY DEF TypeOK
  <1>2. Rounds(len, used) = 0
    BY DEF FromContainer
  <1>3. len \in Nat /\ len >= 1 /\ used + len <= 16
    <2> DEFINE rounds == Rounds(len, used)
    <2>1. /\ len \in Nat /\ len >= 1 /\ rounds \in Nat
          /\ 16 * rounds <= len + used - 1 /\ len + used - 1 < 16 * rounds + 16
      BY <1>1, RoundsOf
    <2> HIDE DEF rounds, used
    <2>2. rounds = 0
      BY <1>2 DEF rounds
    <2> QED
      BY <1>1, <2>1, <2>2
  <1>4. /\ container' = container
        /\ P_container' = [P_container EXCEPT ![k] = used + len]
        /\ dest' = [i \in 1..len |-> Byte(k, c, used + i - 1)]
    BY DEF FromContainer
  <1>5. container' = [container EXCEPT ![k] = c]
    BY <1>4 DEF TypeOK
  <1> HIDE DEF c, used
  <1>6. ASSUME NEW i \in 1..len
        PROVE  IsAt(dest'[i], k, 16 * c + used + i - 1)
    <2>1. dest'[i] = Byte(k, c, used + i - 1)
      BY <1>4
    <2>2. used + i - 1 \in 0..15 /\ 16 * c + used + i - 1 = 16 * c + (used + i - 1)
      BY <1>1, <1>3
    <2> QED
      BY <1>1, <2>1, <2>2, PlaceOf
  <1>7. GetsNext(k, len)
    BY <1>4, <1>6 DEF GetsNext, c, used
  <1>8. used + len \in 0..16 /\ 16 * c + (used + len) = 16 * c + used + len
    BY <1>1, <1>3
  <1>9. MovesTo(k, len, c, used + len)
    BY <1>1, <1>4, <1>5, <1>8 DEF MovesTo, c, used
  <1> QED
    BY <1>7, <1>9 DEF Served

\* A request that ends in the next block.
LEMMA ServedOneBlock ==
    ASSUME TypeOK, NEW k \in Keys, NEW len \in Lengths, OneBlock(k, len)
    PROVE  Served(k, len)
  <1> DEFINE c == container[k]
             used == P_container[k]
             rest == 16 - used
  <1>1. c \in Nat /\ used \in 0..16 /\ rest = 16 - used
    BY DEF TypeOK
  <1>2. Rounds(len, used) = 1
    BY DEF OneBlock
  <1>3. len \in Nat /\ len >= 1 /\ 16 <= len + used - 1 /\ len + used - 1 < 32
    <2> DEFINE rounds == Rounds(len, used)
    <2>1. /\ len \in Nat /\ len >= 1 /\ rounds \in Nat
          /\ 16 * rounds <= len + used - 1 /\ len + used - 1 < 16 * rounds + 16
      BY <1>1, RoundsOf
    <2> HIDE DEF rounds, used
    <2>2. rounds = 1
      BY <1>2 DEF rounds
    <2> QED
      BY <1>1, <2>1, <2>2
  <1>4. /\ container' = [container EXCEPT ![k] = c + 1]
        /\ P_container' = [P_container EXCEPT ![k] = len - rest]
        /\ dest' = [i \in 1..len |-> IF i <= rest THEN Byte(k, c, used + i - 1)
                                                  ELSE Byte(k, c + 1, i - 1 - rest)]
    BY DEF OneBlock, prg_aes
  <1> HIDE DEF c, used, rest
  <1>5. ASSUME NEW i \in 1..len
        PROVE  IsAt(dest'[i], k, 16 * c + used + i - 1)
    <2>1. CASE i <= rest
      <3>1. dest'[i] = Byte(k, c, used + i - 1)
        BY <1>4, <2>1
      <3>2. used + i - 1 \in 0..15 /\ 16 * c + used + i - 1 = 16 * c + (used + i - 1)
        BY <1>1, <1>3, <2>1
      <3> QED
        BY <1>1, <3>1, <3>2, PlaceOf
    <2>2. CASE ~(i <= rest)
      <3>1. dest'[i] = Byte(k, c + 1, i - 1 - rest)
        BY <1>4, <2>2
      <3>2. /\ c + 1 \in Nat /\ i - 1 - rest \in 0..15
            /\ 16 * c + used + i - 1 = 16 * (c + 1) + (i - 1 - rest)
        BY <1>1, <1>3, <2>2
      <3> QED
        BY <3>1, <3>2, PlaceOf
    <2> QED
      BY <2>1, <2>2
  <1>6. GetsNext(k, len)
    BY <1>4, <1>5 DEF GetsNext, c, used
  <1>7. /\ c + 1 \in Nat /\ len - rest \in 0..16
        /\ 16 * (c + 1) + (len - rest) = 16 * c + used + len
    BY <1>1, <1>3
  <1>8. MovesTo(k, len, c + 1, len - rest)
    BY <1>4, <1>7 DEF MovesTo, c, used
  <1> QED
    BY <1>6, <1>8 DEF Served

\* A request that goes through whole blocks generated in dest.
LEMMA ServedManyBlocks ==
    ASSUME TypeOK, NEW k \in Keys, NEW len \in Lengths, ManyBlocks(k, len)
    PROVE  Served(k, len)
  <1> DEFINE c == container[k]
             used == P_container[k]
             rest == 16 - used
             rounds == Rounds(len, used)
             final == prg_aes(prg_aes(c) + (rounds - 2))
             tail == rest + 16 * (rounds - 1)
  <1>1. c \in Nat /\ used \in 0..16 /\ rest = 16 - used /\ tail = rest + 16 * (rounds - 1)
    BY DEF TypeOK
  <1>2. /\ len \in Nat /\ len >= 1 /\ rounds \in Nat
        /\ 16 * rounds <= len + used - 1 /\ len + used - 1 < 16 * rounds + 16
    BY <1>1, RoundsOf
  <1>3. rounds >= 2
    BY DEF ManyBlocks
  <1>4. /\ container' = [container EXCEPT ![k] = final]
        /\ P_container' = [P_container EXCEPT ![k] = len - tail]
        /\ dest' = [i \in 1..len |->
              IF i <= rest THEN Byte(k, c, used + i - 1)
              ELSE IF i <= tail
              THEN Byte(k, prg_aes(c) + ((i - 1 - rest) \div 16), (i - 1 - rest) % 16)
              ELSE Byte(k, final, i - 1 - tail)]
    BY DEF ManyBlocks
  <1>5. final = c + rounds /\ prg_aes(c) = c + 1
    BY <1>1, <1>2 DEF prg_aes
  <1> HIDE DEF c, used, rest, rounds, final, tail
  <1>6. ASSUME NEW i \in 1..len
        PROVE  IsAt(dest'[i], k, 16 * c + used + i - 1)
    <2>1. CASE i <= rest
      <3>1. dest'[i] = Byte(k, c, used + i - 1)
        BY <1>4, <2>1
      <3>2. used + i - 1 \in 0..15 /\ 16 * c + used + i - 1 = 16 * c + (used + i - 1)
        BY <1>1, <1>2, <2>1
      <3> QED
        BY <1>1, <3>1, <3>2, PlaceOf
    <2>2. CASE ~(i <= rest) /\ i <= tail
      <3> DEFINE x == i - 1 - rest
                 d == x \div 16
                 m == x % 16
      <3>1. dest'[i] = Byte(k, c + 1 + d, m)
        BY <1>4, <1>5, <2>2
      <3>2. x \in Nat /\ x = i - 1 - rest
        BY <1>1, <1>2, <2>2
      <3> HIDE DEF x
      <3>3. d \in Nat /\ m \in 0..15 /\ x = 16 * d + m
        BY <3>2
      <3> HIDE DEF d, m
      <3>4. c + 1 + d \in Nat /\ 16 * c + used + i - 1 = 16 * (c + 1 + d) + m
        BY <1>1, <1>2, <3>2, <3>3
      <3> QED
        BY <3>1, <3>3, <3>4, PlaceOf
    <2>3. CASE ~(i <= rest) /\ ~(i <= tail)
      <3>1. dest'[i] = Byte(k, final, i - 1 - tail)
        BY <1>4, <2>3
      <3>2. /\ final \in Nat /\ i - 1 - tail \in 0..15
            /\ 16 * c + used + i - 1 = 16 * final + (i - 1 - tail)
        BY <1>1, <1>2, <1>3, <1>5, <2>3
      <3> QED
        BY <3>1, <3>2, PlaceOf
    <2> QED
      BY <2>1, <2>2, <2>3
  <1>7. GetsNext(k, len)
    <2>1. dest' = [i \in 1..len |-> dest'[i]]
      BY <1>4
    <2> QED
      BY <1>6, <2>1 DEF GetsNext, c, used
  <1>8. /\ final \in Nat /\ len - tail \in 0..16
        /\ 16 * final + (len - tail) = 16 * c + used + len
    BY <1>1, <1>2, <1>3, <1>5
  <1>9. MovesTo(k, len, final, len - tail)
    BY <1>4, <1>8 DEF MovesTo, c, used
  <1> QED
    BY <1>7, <1>9 DEF Served

LEMMA ServedByNext ==
    ASSUME TypeOK, NEW k \in Keys, NEW len \in Lengths, prg_getrandom(k, len)
    PROVE  Served(k, len)
  BY ServedFromContainer, ServedOneBlock, ServedManyBlocks DEF prg_getrandom

-----------------------------------------------------------------------------
\* Type correctness: P_container never passes the end of its container.
THEOREM TypeCorrect == Spec => []TypeOK
  <1>1. Init => TypeOK
    BY DEF Init, TypeOK
  <1>2. TypeOK /\ [Next]_vars => TypeOK'
    <2> SUFFICES ASSUME TypeOK, [Next]_vars PROVE TypeOK'
      OBVIOUS
    <2>1. CASE Next
      <3>1. PICK k \in Keys, len \in Lengths : prg_getrandom(k, len)
        BY <2>1 DEF Next
      <3>2. Served(k, len)
        BY <3>1, ServedByNext
      <3>3. PICK b, u : MovesTo(k, len, b, u)
        BY <3>2 DEF Served
      <3>4. container' \in [Keys -> Nat] /\ P_container' \in [Keys -> 0..16]
        BY <3>3 DEF MovesTo, TypeOK
      <3>5. \A i \in DOMAIN dest' : dest'[i] \in [key : Keys, block : Nat, off : 0..15]
        <4>1. DOMAIN dest' = 1..len
          BY <3>2 DEF Served, GetsNext
        <4> QED
          BY <3>2, <4>1 DEF Served, GetsNext, IsAt
      <3> QED
        BY <3>4, <3>5 DEF TypeOK
    <2>2. CASE UNCHANGED vars
      BY <2>2 DEF vars, TypeOK
    <2> QED
      BY <2>1, <2>2
  <1> QED
    BY <1>1, <1>2, PTL DEF Spec

\* Requests of whatever lengths hand out each key's stream byte by byte.
THEOREM RefinesByteStreamTheorem == Spec => RefinesByteStream
  <1> DEFINE taken == [k \in Keys |-> 16 * container[k] + P_container[k]]
             last == [i \in DOMAIN dest |-> <<dest[i].key, Position(dest[i])>>]
  <1>1. Init => Abstract!Init
    <2> SUFFICES ASSUME Init PROVE Abstract!Init
      OBVIOUS
    <2>1. taken = [k \in Keys |-> 0]
      BY DEF Init
    <2>2. last = <<>>
      BY DEF Init
    <2> QED
      BY <2>1, <2>2 DEF Abstract!Init
  <1>2. TypeOK /\ [Next]_vars => [Abstract!Next]_<<taken, last>>
    <2> SUFFICES ASSUME TypeOK, [Next]_vars
                 PROVE  [Abstract!Next]_<<taken, last>>
      OBVIOUS
    <2>1. CASE Next
      <3>1. PICK k \in Keys, len \in Lengths : prg_getrandom(k, len)
        BY <2>1 DEF Next
      <3>2. Served(k, len)
        BY <3>1, ServedByNext
      <3>3. PICK b, u : MovesTo(k, len, b, u)
        BY <3>2 DEF Served
      <3>4. taken[k] = 16 * container[k] + P_container[k]
        OBVIOUS
      <3>5. last' = [i \in 1..len |-> <<k, taken[k] + i - 1>>]
        <4>1. last' = [i \in DOMAIN dest' |-> <<dest'[i].key, Position(dest'[i])>>]
          BY DEF Position, Outside
        <4>2. DOMAIN dest' = 1..len
          BY <3>2 DEF Served, GetsNext
        <4>3. \A i \in 1..len : dest'[i].key = k /\ Position(dest'[i]) = taken[k] + i - 1
          BY <3>2, <3>4 DEF Served, GetsNext, IsAt
        <4> HIDE DEF taken, last
        <4> QED
          BY <4>1, <4>2, <4>3
      <3>6. taken' = [taken EXCEPT ![k] = @ + len]
        <4>1. taken' = [j \in Keys |-> 16 * container'[j] + P_container'[j]]
          OBVIOUS
        <4>2. \A j \in Keys \ {k} : container'[j] = container[j] /\ P_container'[j] = P_container[j]
          BY <3>3 DEF MovesTo, TypeOK
        <4>3. \A j \in Keys \ {k} : taken'[j] = taken[j]
          BY <4>2
        <4>4. container'[k] = b /\ P_container'[k] = u
          BY <3>3 DEF MovesTo, TypeOK
        <4>5. taken'[k] = 16 * b + u
          BY <4>1, <4>4
        <4>6. taken'[k] = taken[k] + len
          BY <3>3, <3>4, <4>5 DEF MovesTo
        <4>7. taken = [j \in Keys |-> taken[j]] /\ taken' = [j \in Keys |-> taken'[j]]
          OBVIOUS
        <4> HIDE DEF taken
        <4> QED
          BY <4>3, <4>6, <4>7
      <3>7. Abstract!Take(k, len)
        BY <3>5, <3>6 DEF Abstract!Take
      <3> QED
        BY <3>7 DEF Abstract!Next
    <2>2. CASE UNCHANGED vars
      BY <2>2 DEF vars, Position, Outside
    <2> QED
      BY <2>1, <2>2
  <1> QED
    BY <1>1, <1>2, TypeCorrect, PTL DEF Spec, RefinesByteStream, Abstract!Spec
=============================================================================
