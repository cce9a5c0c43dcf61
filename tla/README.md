# A TLA+ verification of RSS_ring_ppml

`RSS_ring_ppml` is a library for computing on replicated secret shares over a
ring Z_2^k, with 3, 5 or 7 parties of which a minority t = (n-1)/2 may pool
what it sees. A secret is the sum of C(n,t) shares; each share is named by a set
T of t parties and known to everybody *except* T, so that each party holds
C(n-1,t) shares. Every party runs the same program in one process, with one
TCP socket to each peer, blocking reads and writes and no message tags. This
directory models that program in TLA+, checks the models with TLC and proves
the most important facts with TLAPS.

Source paths below are relative to the repository.

## 1. Inventory

| Component (source) | State | Operations | Talks to | What makes it correct | Model |
|---|---|---|---|---|---|
| Connection establishment (`src/connection/NodeNetwork.cpp` 719-941) | `peer2sock`, `peer2enlist/delist`, the position in the dialling and accepting loops | dial, refused dial (exit), read key, listen, accept | the same code of every peer, through TCP | sockets filed under the right ID, equal keys, nobody waits forever | `Connect` |
| Message layer (`NodeNetwork.cpp` 336-717, 943-953, 1651-1816) | sockets, tables of peers | `sendDataToPeer`, `getDataFromPeer`, `SendAndGetDataFromPeer*`, `multicastToPeers`, `getRounds` | every protocol above it | each untagged chunk meets the receive it was sent for; no deadlock; every element sent once | `Exchange`, `Calls` |
| Seed exchange (1106-1517) | `random_container`, `prg_key` | send a seed, store a seed | message layer (raw bytes) | two parties share a stream exactly for the shares both hold | `SeedSetup` |
| Generators (1083-1104, 1561-1623) | `random_container`, `P_container` | `prg_getrandom` (two overloads), `prg_aes` | used by every protocol | every byte of a stream handed out once, in order | `PrgStream` |
| 3-party products and openings (`src/protocols_basic/Mult.cpp`, `Open.cpp`) | shares of every value | `Rss_Mult`, `Rss_MultPub`, `Rss_Open` and bit variants | generators, message layer | what one trusted machine would compute; copies of a share stay equal | `Rss3`, `Replicated` |
| 5/7-party products and openings (`Mult_5pc.cpp`, `Mult_7pc.cpp`, `Open_*`) | as above, 6 or 20 shares | as above | as above | as above | `RssN`, `Replicated` |
| Matrix products (`matMult*.cpp`) | none of their own (five parties add to the destination) | sums of products, one exchange | as above | every sum has its own terms, in every image of a batch | `Linear` |
| Random bits, edaBits (`src/protocols_rand`) | none of their own | `Rss_RandBit`, `rss_sqrt_inv`, `Rss_edaBit` and the truncation variants | MultPub, bit adders, `eda_map` tables | the bit is 0 or 1; the integer and the bits are one number | `RandomShares`, messages in `Calls` |
| Adders, comparison (`bitAdd*`, `bitLT*`) | arrays of carries, halved or combined round by round | carry trees over `Rss_Mult_Byte` | products | integer addition and comparison | `Adders`, `Comparison` |
| MSB, LT, Trunc, B2A, convert (`src/protocols_composite`) | none of their own | compositions of the above | all of the above | the integer functions | `Composite`, `RandomShares` |
| Neural and SVM layers (`src/protocols_ml`) | tensors | convolutions, activations, pooling, maxima | all of the above | each output depends on its own window, image and channel | `Linear`, `Layers`, `Networks` |
| Input/output (`src/utilities`) | files | read, split into shares, write | - | shares add up to the input | splitting in `Protocols` |
| Drivers, benchmarks, `latency/` | none | parse arguments, run a network, time, print | - | the opened class is the network's | `minionn` in `Networks` |

### What is hard here

* **Concurrency without tags.** Parties run at their own pace; a fast one may be
  a whole call ahead. Nothing on the wire says what a chunk is; FIFO order and
  identical loops are all there is.
* **Blocking everywhere.** Everybody sends before receiving. Whether that can
  deadlock depends on the chunk size against the kernel's buffer and on the
  peer tables, which for edaBits are asymmetric.
* **Identity by order of arrival.** The acceptor files its k-th connection under
  ID p-k.
* **Exits and restarts.** A refused `connect()` calls `exit(0)`; the operator
  starts the party again.
* **Streams in step.** Masks cancel only while all holders of a share have drawn
  exactly as many bytes of its stream.
* **Words wider than the ring.** A Lint has more than k bits; the high bits hold
  carries and uninitialized memory and are cut only where the code masks.
* **Tables of magic indices.** Which seed, share or coefficient belongs to which
  set T is written out by hand.
* **The same protocol three times.** The functions of five and seven parties are
  edited copies of those of three; what is left of the original (two shares,
  party `numShares`, four slots) is wrong without failing.
* **Trees over bits.** Carries are combined round by round on packed bytes; odd
  sizes, leftovers and rings that are no power of two are the edges.
* **Two rings, two kinds of sharing.** A number is masked in one ring, opened,
  compared as a bit string and put together again in another; every borrow that
  is not made up for gives a wrong result for some inputs only.
* **Flat tensors.** Every layer indexes an array by image, row, column and
  channel, each in an order of its own, and most are exercised by timings only.

`PROJECT.json` lists these hazards one by one with their lines.

## 2. The modules

| Module | Models |
|---|---|
| `Mesh` | abstract: authenticated links between parties that only grow into the full mesh |
| `Connect` | `connectToPeers`, `requestConnection`, `acceptPeers`, `init_keys` of N processes; implements `Mesh` |
| `Exchange` | the blocking sends and receives of n parties over bounded FIFO sockets, for any list of operations |
| `Calls` | the peer tables, `getRounds` and the loops of each kind of call: which operations a call consists of |
| `Sharing` | the constructor's table of share indices: which set T a party's share i belongs to |
| `SeedSetup` | `prg_setup`, `prg_setup_mp`, `prg_setup_mp_7` |
| `ByteStream` | abstract: a key is an endless stream of bytes, a request takes the next ones |
| `PrgStream` | `prg_getrandom` on its 16-byte containers; implements `ByteStream` |
| `Ideal` | abstract: one trusted machine multiplies secrets and reveals results |
| `Rss3` | `Rss_Mult`, `Rss_MultPub`, `Rss_Open` of three parties over the message layer; implements `Ideal` |
| `RssN` | the same of five and seven parties, over batches; implements `Ideal` but for seven-party opening and the packing of random words |
| `Replicated` | sharings of batches, and what products and openings of integers and of bits, with the words they draw, leave with every party |
| `Frames` | calls: what an activation of a function has in its arrays, calling, returning, one step between two exchanges |
| `Adders` | `bitAdd*.cpp`, `bitAddTrunc*.cpp` |
| `Comparison` | `bitLT*.cpp` |
| `RandomShares` | `randBit*.cpp`, `edaBit*.cpp`, `b2a*.cpp` |
| `Composite` | `MSB*.cpp`, `LT*.cpp`, `Trunc*.cpp`, `convert*.cpp` |
| `Linear` | `matMult*.cpp` of three and five parties; `im2col`, patches, padding, biases, zero points and sums of `neural_ops*.cpp` |
| `Layers` | activations and pooling of `neural_ops*.cpp`, maxima and their places of `svm_ops*.cpp` |
| `Networks` | the layers of `nn_layers*.cpp`, and a prediction of `benchmarks/minionn.cpp` |
| `Protocols` | composes them: a program calls one function on shared inputs; what every call promises |
| `MCExchange`, `MCRss3`, `MCRssN`, `MCProtocols` | instances for TLC |
| `ConnectProofs`, `ExchangeProofs`, `PrgStreamProofs`, `Rss3Proofs`, `RssNProofs` | theorems about the module of that name |
| `ScriptsProofs` | theorems about `Calls`: that rounds cover a vector and scripts are matched |
| `RssNIdeal` | on top of `RssNProofs`: that `RssN` implements `Ideal` |
| `WordProofs` | lemmas on powers of two and on calculating modulo one |

An operator whose name ends in a suffix after an underscore and whose comment
begins with "Faulty variant" is not part of a model: it is a plausible mistake
in the code, kept beside the definition it would replace, to show that the
properties notice it.

### How state and actions correspond

**Connect.** `pc[p]` is the place in `main`/`connectToPeers` (`connect` and `key`
are the two blocking calls of `requestConnection`, `accept` the loop of
`acceptPeers`); `target` is `ID`, `accepted` is `i`. `backlog` is the kernel's
queue of the listening socket, `peer2sock[p][q]` holds *who really is* at the
socket p filed under q, `wire` the encrypted key on its way. `Dial` needs a
listening peer, otherwise `Refused` resets the process. `Accept` is the whole loop
body: it files, makes a key, encrypts it for the ID it assumes and sends it.

**Exchange and Calls.** `Calls!Script(n, calls)` turns a list of calls into each
party's list of sends and receives of frames; a frame is one chunk of one slot
(the code's `i`) and round (`k`). `Exchange` executes scripts: `Send` needs room in
the kernel's buffer, `Recv` takes whatever comes first. The length sent ahead
of a chunk and its ciphertext are one frame; each is encrypted by itself
(`aes_encrypt` starts from the same IV each time), so frames need no order for
decryption. `SendAndGetDataFromPeer_bit*` are the same loops with one-byte units.

**SeedSetup.** A seed is named by its maker and its block of `RandomData`. `Steps`
is the list of (to, block, from, index) that the code writes out or loops over,
`Sharing!T_map` the constructor's table of share indices.

**PrgStream.** A block is named by its number in the chain of `prg_aes`. The three
actions are the three branches of `prg_getrandom` with their copies; `Rounds` is
the unsigned computation.

**Rss3.** Shares 1, 2, 3 add up to the secret; party p holds shares p+1 and p+2.
Each protocol is cut at its blocking reads: `MultSend` is everything up to the
send, `MultRecv` everything after the receive. Words have W bits, random words R
bits, the ring K bits; uninitialized high bits are a nondeterministic choice.
`Draw` takes the next word of a stream: `PrgStream` shows that this is what
`prg_getrandom` does, `SeedSetup` that the streams are shared as assumed, and
`Exchange` that the sockets are the FIFO queues assumed.

**RssN.** A share is named by its set T; `Missing(p, j)` is the T of p's share j, so
two parties hold copies at different indices. The tables of the code are the
operators `Cross` (which shares are multiplied), `prg_ctrs`, `Peers` and `Ops` (the
signs in `Rss_MultPub`: six hand-written cases per number of parties come down to
one threshold per party). `MultStart` and `OpenStart` go up to the first send, each
`Relay` is one read and the next send of the loop over peers (sends do not wait
here; `Exchange` treats the case that they do), `MultEnd` and `OpenEnd` the last
read and the rest. `PubEnd` is all reads of a multicast, between which nothing
happens. `v_a` is the memory the packed random words are copied into.

**Replicated to Protocols.** Above the products all parties run the same calls on
their own shares, and a value they exchange depends only on how many words each
stream has given out. `Rss3` and `RssN` show that for any interleaving a product or
an opening ends as if one machine had done it; `Replicated` therefore lets all
parties do an exchange at once. `x[p][j]` is party p's array for its share j, so
that a wrong share index, or a constant added by the wrong party, is a
difference between parties. A product follows the code's tables, signs, drawn
words and bit widths (`Tracked`, `Untracked`, `First` are the different ways the
variants of a product count through their random bytes).

`stack` holds the activations of functions, the innermost last (`Frames`): the
function's name, the numbers it was called with, its arrays of shares and public
numbers, and the place `at` it has reached. One definition per C++ function, named
like it, has one disjunct per stretch of code between two exchanges or calls;
`Call` pushes the frame of the callee with the arguments the code passes,
`Return` pops it and hands the arrays to the names the caller gave, and leaves the
finished call in `done`, where the invariants look. So `minionn` really runs
`Rss_MatMultArray_batch`, `eda_ReLU`, `new_Rss_MSB`, `Rss_RandBit`, the bit adder and
so on, down to every word drawn. Where functions for 3, 5 and 7 parties, or with
and without timers, have the same body, they are instances of one operator; where
they differ, they differ in the model. `CarryOutAux` and `CircleOpL` loop as the
code does, with `round` and `r` for the loop variables; packed bytes are modelled as
the bits in them, and `index_array`, the masks and the leftovers as the code
computes them.

**Repairs.** Some functions do not compute what they promise, and everything that
calls them is wrong for that reason alone. `run.repaired` says that a case runs with
the following corrections, and nothing else, changed: the constant of `Rss_MSB`
and `Rss_truncPr_time` goes to party 3; `new_Rss_CarryOutAux_mp` and `_7pc`
return the rows of g; `prg_bools` and the index of `Rss_GenerateRandomShares_7pc` are
in step; sums of seven parties are opened completely (always). `MCProtocols!Defective`
lists the functions that reach one of these; all others run as written.

## 3. What is checked

| Run | Instance | Shows |
|---|---|---|
| `connect` | N = 7, backlog 7 | `IdentityCorrect`, `KeysAgree`, `OnePending`, `RefusedIsClean`; `Mesh` is implemented; everybody gets through (`AllConnected`) |
| `exchange` | n = 3, 5, 7; each kind of call; 229376-byte buffer, 8-byte elements, vectors of 1 to 3 rounds | the code's tables are `ScriptsMatched`; `FrameMatch`, `NoDeadlock`, `Drained`; `RoundsCover` at the boundary sizes |
| `seed_setup` | n = 3, 5 | `SeedPlaced`, `SharedStreams`, `SetupEnds` |
| `seed_setup_7` | n = 7 | **violated**: see below |
| `prg_stream` | two keys, lengths around 16 and 32 and beyond, three blocks per key | `ByteStream` is implemented |
| `rss3` | K = 2, R = 3, W = 4; two programs of three instructions; six sharings, two sets of streams | `ReplicasAgree`, `StreamsInStep`; `Ideal` is implemented; everybody finishes |
| `rss_n` | K = 2, W = 4; n = 5: a product opened, a public product before a product, batches of one and two; n = 7: a product, a public product | `ReplicasAgree`, `StreamsInStep`; `Ideal` is implemented; everybody finishes |
| `rss_n_open7` | n = 7, one opening | **violated**: see below |
| `rss_n_flat` | n = 5, K = R = 2, W = 3, a public product of a batch of two | **violated**: see below |
| `protocols` | W = 8; 700 calls, see Bounds | all holders of a share agree at every step (`ReplicasAgree`); carries cover the right bits after every round (`CarriesRight`); every call returns what its function promises (`BitsRight`, `RandomRight`, `SelectionRight`, `RescalingRight`, `ProductsRight`, `PoolingRight`, `ConvolutionRight`, `PredictionRight`) |
| `bitlt_5` | n = 5, k = 3, 4, `Rss_BitLT_mp` as written | **violated**: see below |
| `eda_7` | n = 7, k = 3, 4, `Rss_edaBit_7pc` as written | **violated**: see below |

**The seven-party seeds.** `recived_order[0][1]` (`NodeNetwork.cpp:1423`) is 17, so
the seed made for {p+1,p+2,p+3} is stored by party p+5 as the seed of its share
17, which is another set; the comment on the table of IDs (line 1388) says "recv
s17", that is index 16. The next group stores the real s18 over it, and index 16
keeps the zero key. With seven parties the random streams of that share differ
between its holders. `seed_setup_7` is the counterexample.

**Seven-party opening.** `Rss_Open_7pc` (`Open_7pc.cpp:36-40`) sends three sums of
five shares. Written relative to the receiver, party 0, they are the shares of

    from p-1:  012 013 014 015 023
    from p-2:  012 013 014 023 024
    from p-3:  156 025 012 013 023

A party lacks the fifteen shares whose set contains it. Eight of those are in no
sum, four in several, and 156 is one it has. The result is not the secret, and
parties do not even agree on it. `new_Rss_MSB_7pc` and `Rss_MSB_7pc` open their sums
this way. The benchmark for seven parties does not check its results.

**Packed random words.** `Rss_MultPub_mp` (`Mult_5pc.cpp:443`) and `Rss_MultPub_7pc`
(`Mult_7pc.cpp:403`) copy the packed array of random words into an array of Lints
with one `memcpy`. When a word has fewer bytes than a Lint, the end of the array
keeps what the allocation contained. As masks the words still cancel when all
parties have the same ones, but uninitialized memory differs. With the benchmarked
rings (k = 30 or 60, where k + 2 bits fill the Lint) the copy is right; with the
others the README allows, such as k = 20, it is not.

**Comparison of five and seven parties.** `new_Rss_CarryOutAux_mp` keeps p and g of
all shares in `d[0..2*numShares-1]`, g in the upper half. Its base case
(`bitLT_5pc.cpp:301`, `bitLT_7pc.cpp:307`) still says `d[2]` and `d[3]`, which is g for
two shares only. With six shares `res[0]` and `res[1]` get two shares of p and the
others stay zero. `Rss_MSB_mp`, `new_Rss_MSB_mp`, and all comparisons, activations and
pooling of five parties are wrong through it.

**Seven-party edaBits.** Each of parties 1 to 4 shares a random number with the
help of the streams, and a party has to know which words of its streams are
whose. `Rss_GenerateRandomShares_7pc` goes through the parties with
`index = ((index - 1) % (numParties - 1) + (numParties - 1)) % (numParties - 1)`
(`edaBit_7pc.cpp:211`), in which `numParties` is unsigned: -1 modulo 6 is 3. And the
rows of `prg_bools` are in the opposite order of that walk. The five-party
function, with one row less and 2^32 a multiple of 4, is right.

### Known deviations that `protocols` steps around

They were met while modelling; the model does what the code does, and the
property excludes the case it names.

* The constant of `Rss_MSB` at party `numShares` instead of 3 (`MSB.cpp:624`), and of
  `Rss_truncPr_time` (`Trunc.cpp:184`): `Rss_LT` and through it `maximum`, `arg_max`,
  `old_ReLU` and `old_MaxPool` inherit it. Run repaired, so that the run itself does not
  show it: as written it breaks `ReplicasAgree`, of which `ai_misplaced`, the same
  constant at the same party, is the mutant.
* `fixed_Rss_GT_LT_time` (`LT.cpp:326`), the two-sided bound of `ReLU_6_alpha_timer`,
  returns 2a for a < 0, its comment says the smaller value. `PoolingRight` and
  `ConvolutionRight` allow anything there.
* `Rss_edaBit_trunc_mp` (`edaBit_5pc.cpp` 440-460): the third slot holds the bits
  themselves and overlaps the second, and `Rss_BitAdd_trunc_mp` swaps two arguments
  (`bitAddTrunc_5pc.cpp:50`). Five parties' truncations are run, and `ReplicasAgree`
  holds of them, but their values are not claimed.
* `Rss_dw_matrixmul` of three parties has the channel loop innermost and writes
  another sum than that of five parties; its value is not claimed.
* Five-party matrix products add to a destination they do not clear
  (`matMult_5pc.cpp:63`); `ProductsRight` says so (`AddsToDest`).
* `extract_patch` pads on the left without the factor of the channels, the
  pointwise window index has no factor f*f for the batch, and
  `Rss_pointwise_conv2d` activates the first image only: `ConvolutionRight` claims
  one channel and one image for windows larger than a pixel.
* Padding pixels also have the zero point subtracted; the run has zero points only
  where nothing is padded. The zero points of the weights are subtracted from the
  caller's array at every call.
* `Rss_conv2d_first` adds the zero point to `x[layer + 1]` when it returns.
* `Rss_avg_pool_trunc` divides by 2^floor(log2(n*n)); claimed for powers of two.
* `MaxPool` reaches the second column of a pair at `j + m/2`: square images only.

### Bounds, and why they are enough

* N = 7 is the largest configuration of the program; the proofs cover every N.
* `exchange` uses the code's real buffer size and vectors of one to three rounds:
  a party can be a round, a slot or a call ahead. The kernel's buffer is Linux's
  default receive buffer of 128 KiB, less than two chunks for three parties, so
  sends do block. Each frame in a socket is charged the size of a full one,
  which only makes blocking more frequent. Longer scripts are covered by the
  proofs, which need only that scripts are matched.
* `prg_stream`: `Rounds` distinguishes 0, 1 and more blocks; the lengths take each
  branch from each fill of the container. The proof covers all lengths.
* `rss3`: one carry bit and one bit of uninitialized memory above a ring of four
  elements; programs in which a product is used again, opened in between, and
  multiplied by itself. The share algebra is linear in each factor, so the
  inputs are chosen to make every share non-zero somewhere rather than to
  exhaust them.

* `rss_n`: the tables are fixed and the algebra over them is bilinear, so a wrong
  entry shows on generic words; inputs and streams are mixed from T and a
  position so that no two shares are alike. Interleavings of one or two
  instructions let a party be a whole instruction ahead. One content of
  uninitialized memory is chosen per call, not per array, which only weakens
  what `rss_n_flat` looks for.

* `protocols`: Lints of 8 bits, so that every ring used (1 to 6 bits) has room above
  it for carries that must be cut. Every bit string, comparison and sign over
  three bits and pairs at the boundaries for every ring of 2 to 6 bits, so that the
  carry trees have even, odd, one-element and unbalanced rounds; batches of two.
  Truncation by one and two bits, conversion to the same ring, a larger and one of twice
  the bits. Matrices with three different dimensions and every combination
  of weight flags; images of one to four pixels a side with one, two and nine
  channels, windows of 1, 2 and 3, strides 1 and 2; rows of one to five candidates,
  so that leftovers occur in every round. The network has 7 x 7 pixels and windows
  of 2 x 2 where the code has 28 x 28 and 5 x 5: all dimensions differ from each other
  so that swapped ones show. Random words are mixed from a seed, T and a
  position, two to four seeds for each: results do not depend on them unless a
  mask fails to cancel, which generic words show. Larger rings run the same code
  with more rounds.
* `bitlt_5`, `eda_7`: the smallest rings in which the parts of a number differ.

Deadlock checking is off in runs where the system ends by itself; each such run
has a liveness property or `NoDeadlock` that says nothing else stops it
(`prg_stream` stops at its bound `Limit`). `Protocols` has a step for the finished
program, so that there the check finds every call that cannot go on.

### Fairness and the network

`Connect` assumes weak fairness of every process's next step and of its being
started (again): an exited process does not come back by itself, the operator
starts it. `SeedSetup` assumes only that *some* enabled step
happens: with blocking calls, one thread per process and no shared state no
stronger scheduling is needed, because every enabled operation stays enabled
until it is taken. `Rss3` and `RssN` have weak fairness per party. `Exchange` needs none:
`NoDeadlock` is about states, and every step shortens a script. `Protocols` is
deterministic after its first state and every property is a state's. The sockets lose nothing
(TCP); no party is assumed to be fast.

The network is assumed not to fail while parties connect. `requestConnection` calls
`exit(0)` when `connect()` is refused, and also when it fails for another reason or is
not done in 15 seconds (`NodeNetwork.cpp:791-797`; the latter only on a non-blocking
socket, which `fcntl(F_SETFL)` without a flag need not make). Such an exit while the
peer listens could leave a connection in its queue, or earlier peers with a dead
socket, which nothing in the code repairs. `Refused` is the exit when the peer
does not listen yet, and `RefusedIsClean` speaks of no other.

## 4. What is proved

| Theorem | Statement | Argument |
|---|---|---|
| `ConnectProofs!TypeCorrect`, `IdentityTheorem`, `KeysTheorem`, `OnePendingTheorem`, `RefusedIsCleanTheorem` | the properties of `connect`, for every N >= 2 and backlog >= 1 | see below |
| `ConnectProofs!RefinesMeshTheorem` | `Connect` implements `Mesh` | `Links` is determined by `target`; a `ReadKey` establishes one link, other steps none |
| `ExchangeProofs!TypeCorrect`, `FrameMatchTheorem`, `NoDeadlockTheorem`, `DrainedTheorem` | for every set of matched scripts, any number of parties and any buffer a frame fits in | see below |
| `ScriptsProofs!CallsMatch` | the script of every list of calls is matched: any kinds, sizes and element widths, n = 3, 5, 7 | see below |
| `ScriptsProofs!ScriptsMatchedTheorem`, `RoundsCoverTheorem`, `CallsAreSafe` | when `Exchange` runs lists of calls and a chunk fits the kernel's buffer, its premise holds, and with it `FrameMatch`, `NoDeadlock` and `Drained` | from `CallsMatch` and the theorems above |
| `ScriptsProofs!CoversTheorem` | the rounds of `getRounds` carry each element once, for every size, width and n | division with remainder; every round but the last is full |
| `PrgStreamProofs!TypeCorrect`, `RefinesByteStreamTheorem` | `PrgStream` implements `ByteStream` for all keys and lengths | one lemma per branch: it hands out the bytes from 16 container + P_container on and moves that sum by len |
| `Rss3Proofs!TypeCorrect`, `StreamsInStepAlways`, `ReplicasAgreeAlways` | for all K <= R <= W, programs that write a register once, inputs, streams and contents of uninitialized memory | see below |
| `Rss3Proofs!ComputesTheIdeal` | `Rss3` implements `Ideal` | the invariant gives what each holder computed; the words drawn cancel in the sum |
| `RssNProofs!TypeCorrect`, `StreamsInStepAlways`, `ReplicasAgreeAlways` | for five and seven parties, all K <= R <= W, batch sizes, programs that write a register once, inputs, streams and contents of uninitialized memory | see below |
| `RssNIdeal!ComputesTheIdeal`, `ResultsRightAlways` | under the same parameters, `RssN` implements `Ideal`, and what a party was shown is right and stays right, when the program is `Supported` | see below |

*Connect.* None of the properties is inductive. The invariant `IInv` says where
everybody must be: a process whose next target is t has been accepted by exactly
the parties between itself and t; a party can be accepting only after all above
it are connected to it in order; so the next caller of an acceptor that has
accepted k is p-(k+1), it is the only one that can be in the queue, and the key
on the wire is for it. Identity, keys, the queue bound and the cleanliness of a
refused connect are consequences. A refused process is one that has not been
accepted by anyone, because a party listens only after everything above it did.

*Exchange.* A script is matched when each party's operations are sorted by frame
with sends before receives of the same frame, sends and receives pair up, and a
frame fits the buffer. The invariant `IInv` states what a socket holds: exactly
the frames its writer's position has passed and its reader's has not
(`Contents`), in increasing order (`Sorted`), and no reader is ahead of its
writer (`Causal`). `FrameMatch` follows since both ends visit the frames of a
socket in the same order. For `NoDeadlock` take an unfinished party whose next
operation has the lowest rank: were it blocked in a receive, the matching send
would have a lower rank and its owner would be behind; were it blocked in a
send, the socket would hold a lower frame whose reader would be behind.
The premise is proved of the code's tables and loops, next.

*Scripts.* A program is the concatenation, over the frames of a plan, of a
party's writes and reads of that frame. `Flatten` says what a concatenation
contains and that it is ordered when its parts are and no part comes before an
earlier one; it holds by induction over the parts, done by hand from the least
counterexample. So a program is sorted by frame. Sends and receives pair up when
the table of peers does (`Pairs`): three tables of edaBits are looked through,
and the others are rotations, in which going d up and then n - d up comes back.
That the chunk fits needs the parts of the buffer to be at least one element.

*Rss3.* `ReplicasAgree` speaks of a product's two holders, who may be instructions
apart. The invariant `IInv` fixes what each of them used: party p's message in
instruction i is `Message(p, i)`, an expression of p's operands and of the
words number `Draws(i)` + 1 of its streams. Both stay as they are once the instruction
is begun, because a register is written once. The sockets hold exactly the
messages sent and not yet read (`Queues` for the neighbour everyone sends to,
`PublicQueues` for the other, which gets those of public products only),
`Counts` ties the words drawn to the instruction reached, and `Products` writes
each share of a finished product as a word of the share's stream plus a message. Both
holders of a share name the same word and the same message, whence `ReplicasAgree`;
for `ComputesTheIdeal`, the three shares of a product, written out, are the nine
products of shares of its operands, and each stream's word occurs once with each
sign. All of this is modulo 2^K: what `memcpy` leaves above a word of R bits is a multiple of
2^R, hence of 2^K, and disappears. The calculation with remainders that the provers
do not know is in `WordProofs`; 2^(a+b) = 2^a 2^b is proved there by counting
subsets.

*RssN.* The same plan, with two things more. First, the sockets: a product or an
opening is t turns of writing to one party and reading from another, so what two
parties have exchanged depends on the turn each is in. `HasSent(p, q, k)` and
`HasRead(q, p, k)` say it for instruction k from `pc` and `sent`; the batches of
the instructions in between (`InFlight`) are in the socket, in the order of the
instructions (`Queues`, `Carries`), and nothing is read that was not sent
(`Causal`). A read in instruction k therefore gets the sender's `Sent(p, q, k)`:
a masked product (`Message`), a sum of shares (`Opening`) or a public product
(`Publishing`), and what a party is shown is `Shown(p, k)`, a sum of those. Second,
the tables: no party knows the name T of a share, only its index. `OwnerRule`
shows from `T_map`, the peers and `from_mult` that the message which is added to
share j is the one of the only party whose own T is that share's, and that the
keys of which `prg_ctrs` asks one word more are those without such a party
(`OwnerIs`). So holders of a share, looking from different distances, add the same
message and the same word as often (`CopiesAlike`, `Products`). `Complete` finds
the index of T at every party outside it: each set of t distances is a row of the
table. The provers go through the six and the twenty rows of the tables one by one
(`Distances` does the same for the peers). The theorems of `RssNProofs` include the
seven-party opening, whose result is wrong (`rss_n_open7`): it goes wrong in which
shares are added up, and an opened value is not a share.

*RssNIdeal.* With the invariant, `ComputesTheIdeal` is algebra on the code's tables.
A secret is a sum over the sets T of one copy of each share (`SecretIs`).
For any two shares exactly one of the parties that hold both multiplies them
(`OneMultiplies`: `Cross` is one party's list of pairs, and the lists of all parties
deal the pairs out; the tables `Who5` and `Who7` say who takes which and are compared
with `Cross` entry by entry), so the local products add up to the product
of the secrets (`PartsSum`). Every word of a stream is subtracted from messages as
often as it is put into the share (`WordsSum`), so it disappears from the sum
(`ProductSecret`). In a public product the last of the t + 1 holders of a stream is
the only one below `First`, and its word meets the others' (`LastHolder`). In an
opening of five parties each share a party lacks comes from exactly one of its two
neighbours (`Neighbours`). `Ideal` has the product at once while the parties end it
one by one; the step that makes it appear is that of party t + 1, by which time
every party has sent (`AllThere`), so operands cannot change any more. Until then
nobody can have been shown anything of it (`Supplied`). `ResultsRightAlways` adds that later
steps leave the secrets behind a result alone.

`Supported` has two parts, each the exact opposite of a finding: seven parties
do not call `Rss_Open` (`rss_n_open7`), and the random words of an `Rss_MultPub`
reach the last bit it uses, (size - 1) W + K <= size R (`rss_n_flat`). The second
holds of every batch of one, and of every batch when R = W, which are the rings
the code is benchmarked with (k + 2 bits take all the bytes of a Lint for k = 30
and 60). All cases of the run `rss_n` are `Supported`.

Assumptions: the named `ASSUME`s of the modules (N >= 2, a positive backlog,
positive request lengths below 2^32; for `Rss3`, widths K <= R <= W, programs that
use inputs and earlier products and write each register once, shares that are
words, and streams as long as the program; for `RssN`, n of 5 or 7, K at least 1, a
batch of at least one value, the same widths and programs, and inputs and streams
that are words), which TLC evaluates on the runs' instances. `ExchangeProofs` takes
matched scripts as a hypothesis, and `ScriptsProofs` discharges it for lists of
calls (`RunsCalls`): elements of 1 to 16 bytes, vectors that are not empty, and a
socket buffer of at least the largest chunk, a third of the code's buffer.

Only model-checked: liveness (`AllConnected`, `SetupEnds`, `Completes`), which the
prover does not do; `SeedSetup`, which has no parameter but the number of parties,
so that its run visits every state there is; and everything from `Replicated`
up. The last use the bitwise operators of the community modules,
which cannot be reached from a module with a proof, and what they say of loops
over bits and tensors needs induction over data.

## 5. Not modelled

* Network errors and timeouts of `connect()` against a peer that listens (see
  Fairness and the network).
* Killed processes, closed sockets and read errors: the code has no recovery; a
  reader of a closed socket spins (`NodeNetwork.cpp:635`).
* Partial reads and writes inside a chunk.
* The ciphers: keys and ciphertexts are names.
* `numBytesSent`, timing and printing.
* `Rss_EQZ` (unfinished: `Rss_k_OR_L` multiplies nothing and prints).
* `Rss_MatMultArray_batch_7pc`: it overwrites the sum with each term (`v = ` for
  `v +=`), has the indices of another layout and transposes the first matrix only.
  No network of seven parties exists.
* `Rss_Convert_mp`, whose table of indices is that of three parties, and
  `test_new_Rss_MSB`: nothing calls them. `new_Rss_Convert_mp` is modelled.
* `maximum_mp`, `eda_maximum_mp`, `arg_max_mp`, `arg_max_helper_mp`, `Rss_avg_pool`: they
  work on shares 0 and 1 of six; `eda_arg_max_mp`, which the network calls, is
  modelled. The dispatchers `MaxPool`, `ReLU` and so on choose by a flag.
* The earlier carry trees (`Rss_CarryOutAux`, the adders on `Lint`s, the `Rss_CircleOpL`
  of five and seven parties that is not called `_test`): nothing calls them.
* `minionn_mp` and `q_mobilenet`: their layers are modelled, their drivers are not.
  They do not clear arrays between predictions (five-party products add up),
  subtract the weights' zero points again for every image, and look for the class
  in `intermediate_x` after the last layer wrote `output_x`.
* Files, scaling and the weights' setup (`init_io*.cpp`, `output_io.cpp`), of which
  only the splitting of a value into shares is modelled; `splitX` and `splitData_X`
  copy only the first image of a batch (`init_io.cpp:408`).
* Packed copies of random words whose size is not a Lint's in `edaBit*.cpp`: in
  `Protocols` a word is as wide as a Lint; `rss_n_flat` shows what the others do.
* Which heap bytes are in slots nothing wrote: one value per slot, the same at all
  parties.
* The separate latency tool.

## 6. Plan

What could follow, each module written to be proved about as well as checked:

1. `SeedSetup` for every table of steps that pairs up: `SeedPlaced` from a premise on
   the table, as `ScriptsMatched` is for `Exchange`.
2. Lemmas on one round of the carry trees (`CarriesRight` is inductive over
   rounds), with bits as sets of positions instead of words.
3. `Framing`: the byte level under `Exchange`, partial sends and receives of the
   length and the ciphertext, implementing the FIFO of frames.
4. The seven-party opening and the seven-party edaBit with their tables corrected,
   message by message.
