------------------------------ MODULE Connect ------------------------------
(***************************************************************************)
(* How N independently started processes become a full mesh of keyed       *)
(* sockets (NodeNetwork::connectToPeers).  Party p first connects to       *)
(* p+1, ..., N in this order, blocking after each connect() until it has   *)
(* read the AES key the acceptor sends; only then does it listen, and the  *)
(* k-th connection it accepts is filed under the ID p-k without asking who *)
(* is at the other end.  A connect() that is refused ends the process, and *)
(* the operator starts it again.                                           *)
(***************************************************************************)
EXTENDS Integers, Sequences

CONSTANTS N,            \* number of parties in the runtime configuration
          Backlog       \* the second argument of listen()

ASSUME NAssumption == N \in Nat /\ N >= 2
ASSUME BacklogAssumption == Backlog \in Nat \ {0}

Party == 1..N
Nobody == 0             \* no entry of peer2sock

(***************************************************************************)
(* RAND_bytes draws a key for every accepted connection; a key is named by *)
(* its maker and by the ID whose public key encrypts it.  BadKey is what   *)
(* stays in the buffer when RSA decryption with another key fails.         *)
(***************************************************************************)
Key == [by : Party, for : Party]
NoKey == [by |-> 0, for |-> 0]
BadKey == [by |-> 0, for |-> 1]

VARIABLES
    pc,         \* where in main/connectToPeers each process is
    target,     \* requestConnection's ID: the party being connected to
    accepted,   \* acceptPeers' i: connections accepted so far
    backlog,    \* per listening socket, the callers not yet accepted
    peer2sock,  \* peer2sock[p][q]: who really is at the socket p filed under q
    wire,       \* wire[p]: the key on its way to the caller p
    keys        \* keys[p][q]: the key of peer2enlist/peer2delist under q

vars == <<pc, target, accepted, backlog, peer2sock, wire, keys>>

\* The server socket is open from listen() to the end of the process.
Listening(q) == pc[q] \in {"accept", "up"}

TypeOK ==
    /\ pc \in [Party -> {"down", "connect", "key", "listen", "accept", "up"}]
    /\ target \in [Party -> 2..N+1]
    /\ accepted \in [Party -> 0..N-1]
    /\ backlog \in [Party -> Seq(Party)]
    /\ peer2sock \in [Party -> [Party -> Party \union {Nobody}]]
    /\ wire \in [Party -> Key \union {NoKey}]
    /\ keys \in [Party -> [Party -> Key \union {NoKey, BadKey}]]

Init ==
    /\ pc = [p \in Party |-> "down"]
    /\ target = [p \in Party |-> p + 1]
    /\ accepted = [p \in Party |-> 0]
    /\ backlog = [p \in Party |-> <<>>]
    /\ peer2sock = [p \in Party |-> [q \in Party |-> Nobody]]
    /\ wire = [p \in Party |-> NoKey]
    /\ keys = [p \in Party |-> [q \in Party |-> NoKey]]

-----------------------------------------------------------------------------
\* The operator starts (or restarts) the program for party p.  Party N has
\* nobody to connect to and goes straight to acceptPeers.
Start(p) ==
    /\ pc[p] = "down"
    /\ pc' = [pc EXCEPT ![p] = IF p = N THEN "listen" ELSE "connect"]
    /\ UNCHANGED <<target, accepted, backlog, peer2sock, wire, keys>>

\* Faulty variant: all peers are dialled before any key is read.
Dial_nowait(p) ==
    LET t == target[p] IN
    /\ pc[p] = "connect"
    /\ Listening(t)
    /\ Len(backlog[t]) < Backlog
    /\ backlog' = [backlog EXCEPT ![t] = Append(@, p)]
    /\ peer2sock' = [peer2sock EXCEPT ![p][t] = t]
    /\ target' = [target EXCEPT ![p] = @ + 1]
    /\ pc' = [pc EXCEPT ![p] = IF t < N THEN "connect" ELSE "key"]
    /\ UNCHANGED <<accepted, wire, keys>>

\* connect() completes in the kernel of the listening peer; the caller files
\* the socket under the ID it dialled and blocks in read().
Dial(p) ==
    LET t == target[p] IN
    /\ pc[p] = "connect"
    /\ Listening(t)
    /\ Len(backlog[t]) < Backlog
    /\ backlog' = [backlog EXCEPT ![t] = Append(@, p)]
    /\ peer2sock' = [peer2sock EXCEPT ![p][t] = t]
    /\ pc' = [pc EXCEPT ![p] = "key"]
    /\ UNCHANGED <<target, accepted, wire, keys>>

\* Faulty variant: a connect() that takes long is given up like a refused one.
Refused_impatient(p) ==
    /\ pc[p] = "connect"
    /\ pc' = [pc EXCEPT ![p] = "down"]
    /\ target' = [target EXCEPT ![p] = p + 1]
    /\ peer2sock' = [peer2sock EXCEPT ![p] = [q \in Party |-> Nobody]]
    /\ keys' = [keys EXCEPT ![p] = [q \in Party |-> NoKey]]
    /\ UNCHANGED <<accepted, backlog, wire>>

\* connect() is refused: the process prints the error and calls exit(0).  It
\* does so on any other error of connect(), too; that needs a network that
\* fails between a caller and a peer that listens, and here none does.
Refused(p) ==
    /\ pc[p] = "connect"
    /\ ~Listening(target[p])
    /\ pc' = [pc EXCEPT ![p] = "down"]
    /\ target' = [target EXCEPT ![p] = p + 1]
    /\ peer2sock' = [peer2sock EXCEPT ![p] = [q \in Party |-> Nobody]]
    /\ keys' = [keys EXCEPT ![p] = [q \in Party |-> NoKey]]
    /\ UNCHANGED <<accepted, backlog, wire>>

\* What the rest of the loop body does with the key it reads, and where the
\* loop goes: the next ID, or listening, or (party 1) back to the constructor.
DecryptKey(p) == IF wire[p].for = p THEN wire[p] ELSE BadKey

ReadKey(p) ==
    /\ pc[p] = "key"
    /\ wire[p] # NoKey
    /\ keys' = [keys EXCEPT ![p][target[p]] = DecryptKey(p)]
    /\ wire' = [wire EXCEPT ![p] = NoKey]
    /\ target' = [target EXCEPT ![p] = @ + 1]
    /\ pc' = [pc EXCEPT ![p] = IF target[p] < N THEN "connect"
                               ELSE IF p = 1 THEN "up" ELSE "listen"]
    /\ UNCHANGED <<accepted, backlog, peer2sock>>

\* bind() and listen().
Listen(p) ==
    /\ pc[p] = "listen"
    /\ pc' = [pc EXCEPT ![p] = "accept"]
    /\ UNCHANGED <<target, accepted, backlog, peer2sock, wire, keys>>

\* Faulty variants: IDs assigned upwards from 1, or off by one.
NextID_upwards(p) == accepted[p] + 1
NextID_off(p) == p - (accepted[p] + 2)

\* The ID under which the accept loop files the next connection.
NextID(p) == p - (accepted[p] + 1)

\* Faulty variant: the accept loop ends one peer early.
LastAccept_early(p) == accepted[p] + 2 >= p - 1

\* This connection is the last one the accept loop waits for.
LastAccept(p) == accepted[p] + 1 = p - 1

Accept(p) ==
    LET caller == Head(backlog[p])
        id     == NextID(p)
        key    == [by |-> p, for |-> id] IN
    /\ pc[p] = "accept"
    /\ backlog[p] # <<>>
    /\ backlog' = [backlog EXCEPT ![p] = Tail(@)]
    /\ peer2sock' = [peer2sock EXCEPT ![p][id] = caller]
    /\ keys' = [keys EXCEPT ![p][id] = key]
    /\ wire' = [wire EXCEPT ![caller] = key]
    /\ accepted' = [accepted EXCEPT ![p] = @ + 1]
    /\ pc' = [pc EXCEPT ![p] = IF LastAccept(p) THEN "up" ELSE @]
    /\ UNCHANGED target

Step(p) == Dial(p) \/ Refused(p) \/ ReadKey(p) \/ Listen(p) \/ Accept(p)

Next == \E p \in Party : Start(p) \/ Step(p)

Spec == Init /\ [][Next]_vars

\* Every running process is scheduled, and an exited one is started again.
FairSpec == Spec /\ \A p \in Party : WF_vars(Start(p)) /\ WF_vars(Step(p))

-----------------------------------------------------------------------------
(***************************************************************************)
(* Correctness.                                                            *)
(***************************************************************************)

\* The socket a party files under the ID q leads to party q, although the
\* accept loop never asks for the caller's identity, whatever the start order.
IdentityCorrect ==
    \A p, q \in Party : peer2sock[p][q] \in {Nobody, q}

\* Two ends that both hold a key for each other hold the same one, and no RSA
\* decryption fails: the key was encrypted for the party that reads it.
KeysAgree ==
    \A p, q \in Party :
        /\ keys[p][q] # BadKey
        /\ (keys[p][q] # NoKey /\ keys[q][p] # NoKey) => keys[p][q] = keys[q][p]

\* At most one caller waits in any accept queue, so listen(7) is enough
\* whatever the number of parties.
OnePending == \A p \in Party : Len(backlog[p]) <= 1

\* exit(0) on a refused connect leaves no half-open connection behind: no
\* other process has, or will accept, a socket of the process that exits.
RefusedIsClean ==
    [][\A p \in Party : pc[p] = "connect" /\ pc'[p] = "down" =>
          \A q \in Party :
             /\ peer2sock[p][q] = Nobody /\ wire[p] = NoKey
             /\ \A r \in Party : peer2sock[q][r] # p
             /\ \A k \in 1..Len(backlog[q]) : backlog[q][k] # p]_vars

\* A link is established when the caller has read the acceptor's key.
Links == {e \in Party \X Party : e[1] < e[2] /\ keys[e[1]][e[2]] # NoKey}

Abstract == INSTANCE Mesh WITH links <- Links

\* Links are established one by one, in the order Mesh allows, and kept.
RefinesMesh == Abstract!Spec

\* With exited processes started again, every process gets through
\* connectToPeers, and the links then are the full mesh.
AllConnected == <>[]((\A p \in Party : pc[p] = "up") /\ Abstract!FullMesh)
=============================================================================
