# A formal model of libpbs

libpbs reconciles two sets, or two key-value maps, that differ in few keys. Its
own algorithm is the Parity Bitmap Sketch (PBS, `src/src/pbs.h`); around it are
a gRPC client and server that also run three competitors (PinSketch, Difference
Digest, Graphene) for experiments. This directory holds TLA+ modules for PBS, for
the services and for the pieces they stand on, TLC configurations, and TLAPS
proofs.

## 1. The system

### Components

| Component | State | Operations |
|---|---|---|
| `ParityBitmapSketch` (pbs.h) | group table (keys, original group, XOR rows, checksums), sketches, round counter, role, ids of failed groups and of groups with exceptions, keys recovered per round | `add`, `encode`, `encodeWithHint`, `decode`, `decodeCheck` |
| messages (pbs_*_message.h) | sketches; counts and positions; ids of groups | `parse`, `write` |
| bit streams (bit_utils.h) | the byte under construction, the bits left over | `Write`, `Flush`, `Read` |
| BCH parameters (pbs_params.h) | a cache per process, and one file for all | `bestBchParam` |
| PBS client (reconciliation_client.h) | its map, its `_pbs`, the keys of the last round | the loop of `Reconciliation_ParityBitmapSketch`, `PushAndPull`, `Pull`, `Push`, `SetUp_PBS` |
| server (reconciliation_server.h) | `_key_value_pairs`, `_pbs`, `_sketches`, `_estimated_diff`, for all clients | one handler per RPC |
| estimation (tow.h) | hash seeds | `apply`; client `Estimation`, server `Estimate` |
| PinSketch, DDigest, Graphene | none between calls | one RPC each, then perhaps a `Push` |
| IBLT (3rd/include/iblt) | cells: a count, two sums, a value | `insert`, `set`, `operator-`, `listEntries` |

### How they interact

Alice (a client) and Bob (the server) put their keys in groups by a hash. In a
round, each group of each side is mapped to a parity bitmap whose BCH sketch
Alice sends; Bob merges it with his own and decodes the bins in which the
bitmaps differ, and answers with the bins, the XOR of his keys in each, and a
checksum per group. Alice XORs these with her own and gets candidates for the
differences. A group ends a round in one of three ways:

* the BCH decoder fails: both sides split the group (`threeWaySplit_`) and the
  pieces go to the next round;
* the checksums disagree (an *exception*): Alice inserts what she recovered,
  moves the group to the next round, and names it in the next *hint*;
* the checksums agree: the group is dropped by both.

No message names the group a sketch, a count or a checksum is of. Both sides
must keep their tables in the same order although they change them in different
functions, at different moments, and Bob learns of exceptions a message later
than Alice. Over the RPC, the keys recovered in a round are pushed and pulled
with the request of the next round, so that a fake key is noticed by the server
as one it does not have. Length and capacity of the code are those
`bestBchParam` finds on each side for the number of differences, from a file both
may be rewriting.

The competitors first ask the server for an estimate of the difference, by
comparing tug-of-war sketches; the server remembers the estimate and sizes its
own sketch by it when the reconciliation proper is called. What the server lacks
is pushed afterwards.

### What is hard

Nothing in one `ParityBitmapSketch` runs concurrently; the difficulty is *order
and agreement* of two objects across a long sequence of calls (alignment of the
group tables, round-dependent seeds, ranges of hints, accumulators that are never
cleared), and *arithmetic that can lie* (XOR checksums, a BCH decoder beyond its
capacity, cells that balance to a count of one, formats without lengths). In the
services it is *partial failure* (lost calls, errors after half of a handler's
effects, results nobody reads, a server brought down by a division by zero) and
*stale and shared state* (a server object, sketches and an estimate that outlive
the call they were made for and are those of every client; a map that any client
can have replaced or cleared in the middle of the others' calls; a cache keyed by less
than it depends on, in a file that is emptied before it is written).
`PROJECT.json` lists each of these hazards at its line, with the properties that
would notice.

Correctness, component by component:

* sketch and protocol: tables aligned; rows and checksums fresh; keys in pieces
  of their own group; no call throws; both sides end together; no difference is
  lost except for what an XOR checksum cannot see; a round without accidents is
  the last one;
* messages and streams: the receiver gets what was sent, of the group it was
  sent for, whichever groups failed;
* services: but for changes of map, keys are exchanged, not lost or invented;
  what `true` means; calls return; what brings a process down;
* IBLT: only differences are listed; what `true` and `false` mean; listing ends;
* BCH parameters: the search finds the cheapest pair; only a torn file misleads.

## 2. Modules

| Module | Models |
|---|---|
| `XorKeys` | keys as sets of one-bits, XOR as symmetric difference, lists of ids |
| `ParityBitmapSketch` | the class: one operator per member function, on a record |
| `PbsProtocol` | Alice and Bob: one action per call; the properties of the protocol |
| `BitStream` | `BitWriter`, `BitReader` |
| `PbsWire` | the formats of the three messages, as operators on bits |
| `PbsMessages` | every message written once and parsed once |
| `KeyExchange` | abstract specification of any reconciliation between clients and a server whose map others may change |
| `PbsService` | clients and server running PBS over gRPC, with lost calls, repeated sessions, set-ups, END, crash and restart in the middle of calls; implements `KeyExchange` |
| `SketchServices` | estimation, DDigest, PinSketch and Graphene over gRPC, with the same events; implements `KeyExchange` |
| `Iblt` | the lookup table DDigest and Graphene use |
| `BchParams` | the parameter search, its caches and the file |
| `MC*` | small instances for TLC |
| `ParityBitmapSketchProofs`, `PbsProtocolProofs`, `BitStreamProofs`, `PbsMessagesProofs`, `PbsServiceProofs`, `SketchServicesProofs`, `IbltProofs`, `BchParamsProofs` | proofs |

`PbsProtocol` and `PbsService` both extend `ParityBitmapSketch`; `PbsService`
instantiates `PbsWire`; both services instantiate `KeyExchange`; `Iblt` extends
`XorKeys`. `SketchServices` uses of `Iblt` only what is proved of it: a table lists
all differences or fails, and a single difference is always listed.

### Correspondence and abstractions

**The sketch and the protocol**

* **Keys.** Everything PBS does with a key is XOR, equality and hashing, so a
  64-bit key is the set of its one-bits. A list of keys that reaches only XORs
  (`groups_[g]`, a bitmap) is its set of members of odd multiplicity: appending
  recovered keys is `(+)`, which is the argument of the comment in
  `doDecodeCheck_`.
* **Hash functions** (`getGroupId_`, `getBinId_` per round, the split per round)
  are arbitrary functions, fixed in the initial state. TLC takes a family of
  them; the proofs take all.
* **minisketch** (external). A set of at most `BchT` bins decodes to itself. A
  larger one fails, or decodes to a set at the distance of the code from it;
  position `bch_n_`, for which there is no bin, included. What `decode` reads
  for it is bin 0 of the next row (zero), or, past the end of the vector, anything.
* **The messages** of a round are local to an iteration of the loop: they are there
  from the call that makes them until Alice has checked.
* **A hint that names a group twice** (only a misread one can) moves its keys once
  and then an empty vector, as `std::move` leaves it.
* **Group ids** count from 1 in the sketch modules and from 0 on the wire.
* **Bits** of a message are a sequence; `BitStream` shows that the byte-wise
  writer and reader behave as such a sequence.

**PbsService**

* A value goes with its key. The estimate is agreed on, so that all sides have
  the same number of groups and the same code: `Begin` starts behind the
  estimation (client.h:557-562), which is not translated. Disagreement about the
  estimate is studied with the sketches of `SketchServices`.
* The hint and the decoding message go through `PbsWire`, so that a receiver with
  another number of groups misreads them as the code does; what is behind the
  buffer reads as zero. If the encoding message is too short for the server's
  groups its sketches stay empty (`parse` returns -1, which is ignored). Of a longer
  one the first sketches are taken, unless a sketch is some whole bytes and a rest:
  the rests are behind the whole bytes of all sketches, at a place that depends on
  the number of groups, so that any sketch may come out (`Misplaced`).
* If a misread message names a position twice in a group, the first XOR counts for
  both; `decodeCheck` would look at each. That is the one place where the model
  does not follow the code through a misread message.
* **The server's map** changes under the calls of others. `SetUp` (ReconcileSetUp)
  replaces it and keeps `_pbs`; `TearDown` (END) clears it and drops `_pbs`;
  `HintCrashesServer` (a hint that meets a range of 1 or 0 is divided by the width
  of an id, 0) loses both. Each asks only that the client that causes it is not in a
  call of its own, or in this very round, and that no handler is half way; the other
  clients may be anywhere in theirs. `maps` counts these events; `MaxMaps` bounds
  `SetUp` and `TearDown`. The client that has set up is then called, as `SetUp_PBS`
  does; whether its RPC reached the server is not looked at.
* `Restart` starts a crashed server again at any moment. It is `NotReady`: it has no
  map, and answers UNAVAILABLE until the next set-up. (It also has no estimate. The
  client that sets up asks for one first, so no state of its own is needed for that.)
* **Handlers are whole.** The server is a multi-threaded one without a lock, so
  handlers that overlap would be a data race on `_pbs` and on the map, and are not
  modelled. `ReconcileParityBitmapSketch` is two steps (`HandleEncode`,
  `HandleDecode`) between which no other handler runs, while clients go on; every
  other handler is one. Between handlers, those of all clients come in any order.
* `CallFails` loses the request or the reply. A call that has failed is over; that
  its handler runs only after the client has given up is not modelled.

**SketchServices**

* A sketch is what can be had from it. The tug-of-war sketches are computed (sum
  of signs, mean of squares, 1.38, rounded up) from an arbitrary hash.
* A call, its handler and what the client does with the answer are one step: the
  client waits for the answer, which it compares with its own map only, and the
  handler reads the shared state once. A lost call is a step of its own; a lost
  answer changes nothing on the server, except for `Estimate` and `Push`, where
  the step has that outcome too. Between the steps of one call (estimate,
  reconcile, push) other clients run, or set up their own experiment (`SetUp`, which
  replaces the map and the sketches; `Provide`, as the tests do), or end it (`End`,
  which clears the map and leaves sketches and estimate), and the server may crash
  (`ServerCrashes`: map, sketches and estimate are gone) and be started again.
* `SetUp` is possible when the server is down or not reached; the client gets its map
  all the same. `End` is sent if the client has the ground truth of the experiment it
  has set up.
* Sketches for different estimates do not match. Different IBLT layouts list any
  keys, never end, or write past the table; the server cuts a longer PinSketch
  and reads past a shorter one.
* `PinSketch::decode` returns a list of zeros when it fails, which the server
  answers with OK; whether the client then returns true depends on its keys.
* The keys that pass the Bloom filter of Graphene are an arbitrary superset of
  the common ones. PBS as a further method of the same server is not interleaved
  here: it shares with the others only the map and the estimate.

**Iblt.** The check of a key is ideal: no XOR of checks is the check of another
key. A value is a flag, whether the cell has one. Counts wrap at `MaxCount`. An
action is a key inserted, or a cell looked at.

**BchParams.** The failure bound is an arbitrary threshold `need` per length: what
the binary search relies on is that a larger capacity meets the target if a
smaller one does. Loading the file is one step (it fits in one buffer). In a
whole file the last turn of the `eof()` loop repeats the row before and inserts
nothing new; a torn file yields rows of any of its numbers, or `Junk`. `Open`
empties the file, `Close` writes it; a process may `End` at any moment.

**Bounds.** `MaxRounds` is the client's `PBS_MAX_ROUNDS` in `PbsProtocol`; in
`PbsService` that is `ClientRounds`, and `MaxRounds` bounds the rounds of one
server object over `Sessions` calls; `MaxMaps` bounds its set-ups and ENDs. `Calls`
bounds the set-ups and calls of `SketchServices`. `MaxWidth`, `MaxFields`, `MaxGroups`, `MaxRange` bound what is
written. `MMin`, `MMax`, `MaxBalls` are the constants of the search.

## 3. What TLC checks

| Run (cfg) | Distinct states | Shows |
|---|---|---|
| protocol (`PbsProtocol`) | 440,776 | `Aligned`, `CommonKeysCancel`, `PiecesOfOriginalGroup`, `NeverAborts`, `HintReadable`, `Conservation`, `AccumulatorsFresh`, `CompletesTogether`, `CompletedUpToZeroXor`, `CleanRoundCompletes`, and `InStep`, the inductive invariant |
| bit_stream (`BitStream`) | 1.3 million | `SizeIsAnnounced`, `ReadsBack`, `NeverReadsAhead` |
| messages (`PbsMessages`) | 24,741 | `HintArrives`, `DecodingArrives`, `EncodingArrives` |
| session (`PbsSession`) | 2,279,471 | `TrueMeansAgreement` and `ServerSurvives` for a call against a fresh server, `EarlierRoundsSettled` over two calls, with set-ups and END in between |
| shared (`PbsShared`) | 1,847,426 | two clients at once, set-ups, END and crashes of either in the middle of the other's call: `ExchangesKeys` (refinement of `KeyExchange`), `EarlierRoundsSettled` |
| returns (`PbsReturns`) | 76,616 | the same under fairness, with fewer maps and hash functions: `CallsReturn` |
| iblt (`Iblt`) | 799,236 | `HoldsTheRest`, `ListedAreDifferences`, `TrueMeansAll`, `FalseMeansStuck`, `PureCellsHaveValues`, and, under fairness, `ListingEnds` |
| services (`SketchServices`) | 2,555,655 | what `true`, `false` and a crash mean for DDigest, PinSketch and Graphene; `ExchangesKeys` |
| bch (`BchParams`) | 720,269 | `TypeOK`, `SearchIsCheapest`, `OnlyTornFilesMislead`, `AnswersStable`, and, under fairness, `CallsReturn` |

Three runs are expected to fail; each refutes a statement of the repository.

* hint (`PbsHint`): with one group in the round, a hint is zero bits and is lost
  (comment of the hint message: "we shift gid by 1"). `HintArrives` says what
  holds; in `PbsService` the effect is a call that returns false.
* union (`PbsUnion`): the call returns `true` although its last exchange failed.
* stale (`PbsStale`): a second call meets the server's `_pbs` of a failed one
  and returns `true` on the strength of sketches of the old map, though nobody
  has changed the map since it began. It is the property that run session shows for
  a fresh server.

`CompletedUpToZeroXor` is as strong as it can be. The comment in `doDecodeCheck_`
(pbs.h:543-545) expects a fake key to be corrected in later rounds; one that is
the XOR of the keys it hides passes the checksum, and the group is dropped.

### What the properties of the services leave open, and why

* `ExchangesKeys` does not promise that a key stays with the server: a set-up, END or
  crash of another client takes all of them (`KeyExchange!Provide`, `maps` counts).
  What it says is that nothing else does, and that a key that appears in the
  server's map comes from the client that is served, one that appears in a client's
  is one that the server had when it answered (`offered`), even if the map has
  been replaced since.
* `EarlierRoundsSettled` says of the client that it has the keys of its earlier
  rounds, whatever happens to the server. Of the server it can say so only as long as
  its map is the one of the beginning of the call (`SameMap`): another client's
  set-up or END between two rounds takes away what has been pushed.
* `TrueMeansAgreement` is about a client that had the server to itself and whose
  last exchange brought no key that was there already; what the maps may still
  differ by is a set whose XOR, per group, is zero. The requests of the rounds
  before check that (a duplicate is an error); `Synchronize` does not. Without it a
  key that the second round has recovered can be recovered again in the third, as
  the XOR of three others: both sides have it, the call returns true, and the three
  stay unnoticed although their XOR is not zero. The run session reaches that case.
* `DDigestTrueMeansAll` holds even if the estimate is of a map the server no
  longer has. `PinSketchTrueMeansAgreement` does not: maps that differ by more
  than twice the capacity can have the same syndromes, and a stale estimate makes
  that happen. `GrapheneTrueMeansPushed` exempts calls whose `Push` failed, whose
  result is discarded.
* `OnlyZeroCrashes`: an estimate of 0 for maps that are not empty is a division by
  zero on the client or on the server, and a failed `Estimate` is used as a size.
  Nothing else brings a lone client or the server down. With two clients that
  overwrite each other's estimate a table may be written past its end.
* `OnlyTornFilesMislead`: what is cached is the best pair of *some* request for
  the same `d`, because the cache is keyed by `d` alone.

### Why the bounds are enough

*PBS.* The events that matter are: the decoder succeeds, fails, or answers
nonsense; a bin holds one, two, three differences; a recovered key is true or
fake; a group is split, moved, or both in turn; failed and excepted groups occur
side by side in one round, in either order. Keys of three bits include three
independent ones and their XOR, the smallest set with an odd bin that yields a
fake. `BchT = 1` and `BchN = 3` make two differences already too many, and make
the decoder's wrong answer the position `bch_n_`. Either all keys are in one of the
two groups and the bins of the first two rounds are arbitrary on those four keys, or
the groups and the bins of the first round are; in the later rounds one or two functions stand for all. Three
rounds let a split or moved group be encoded, decoded and removed again. Splits
are by number of bits, by one bit, or into a single piece, and differ from round
to round.

*Messages.* Bytes of three bits make a field end before, at and behind a byte's
end with small widths; capacity 2 leaves no spare count beside the failure flag;
range 9 takes the fourth bit only for its last id.

*PbsService.* Inputs make one side, the other or both lack keys, more than a code
can decode included; two calls of three rounds let the second meet any state the
first left the server in. The runs with two clients have fewer hash functions and
inputs; in them the rounds of the two interleave in every way, and three changes of
map let both clients set up and one of them replace or clear the map again in the
middle of the other's call. One hash function of the run session is there for a key
that is recovered twice. The run returns has half of the hash functions, two inputs and
two changes of map besides crashes, since termination is costly to check; every
action happens in it: rounds that are lost or throw, give up, meet another map, an
unready server or a crash, and both kinds of return after a completed one.

*Iblt.* Two hash functions of three cells each, arbitrary on four keys of which
one is the XOR of two others: cells hold up to four keys, on either or both
sides, a balance of one included.

*SketchServices.* One tug-of-war sketch of three keys gives estimates of 0 to 13,
for maps that differ or not, and so do two clients with different maps; four
set-ups and calls let a map change under its sketches, and two clients estimate
before either reconciles. The two clients get the same choices, so that they are a
symmetry set; the run has no temporal property that this could make unsound
(`ExchangesKeys` is a safety property, of the form Init and [][Next]).

*BchParams.* Two lengths, with 26 as the threshold no capacity meets; limits of
12 and 5, of which the second is below the least capacity of every length; two
processes, of which each can load what the other has half written.

The mutants in `PROJECT.json` confirm that each property notices a plausible
mistake within these bounds.

Deadlock is checked in every run but those of the messages and bit streams, which
end when the message has been read. `Stopped` marks the ends the other programs
have.

### Fairness

* `PbsService`: `WF(ClientStep(c) \/ ServerStep(c))` for each client. A client is
  a plain loop, and the server handles a call it got (or dies of it:
  `HintCrashesServer` is what its handler does to such a hint), or, while it is
  crashed or not ready, the call fails. Nothing else is assumed of `CallFails`, and
  nothing of set-ups, END, restarts or the user.
  Without an answer `CallsReturn` would be false, as it is for the program: the
  client sets no deadline on its calls.
* `Iblt`: `WF(Next)`, a sequential program that nothing stops.
* `BchParams`: `WF(Step(p))` for each process: a search goes on. Nothing makes a
  process call, or end.

## 4. What is proved

Everything below holds for every value of the constants that satisfies the named
assumptions, which TLC evaluates: `BitAssumption` (finitely many bits),
`SketchAssumption` (positive parameters, at least two bins),
`ProtocolAssumption` (inputs are sets of keys; the hash functions have their
types and the decoder answers from `DecodeOutcomes`), `ServiceAssumption`,
`ServicesAssumption`, `IbltAssumption`, and those of `BchParams`.

### The protocol

`PbsProtocolProofs`: `StaysInStep` (the invariant), and from it `TypeCorrect`,
`AlwaysAligned`, `KeysStayInTheirGroup`, `NoCallThrows`, `HintsAreReadable`,
`BothComplete`.

None of the invariants is inductive. `Aligned` speaks of the moment when Bob
decodes; between two such moments one side has split, moved or dropped groups
and the other has not. `InStep` says for each phase what the side that is behind
will arrive at:

* `FirstRound`: the tables are those of the constructors;
* `AliceBehind` (Bob has decoded): Bob's table is Alice's followed by the pieces
  of the groups that failed in the message on its way to her;
* `BobBehind` (Alice has checked): Alice's table is Bob's after moving the groups
  of her hint to the end and dropping those of the round (`AfterMoves`), and the
  ids of the hint are increasing ids of that round;
* `BothEncoded`: nothing is left to be dropped;
* `Tables`: the four vectors are parallel, every key is in a piece of its group.

The proof has a lemma per action. What each member function does to the table
is stated once in `ParityBitmapSketchProofs` (`SplitProperties`,
`MoveProperties`, `RemoveProperties`, `EncodeProperties`, `WithHintProperties`,
`DecodeProperties`, `CheckProperties`), what lists of ids look like in
`OrderedProperties`.

Its second part adds what the groups hold. `RowsAreFresh`: `FreshRows` says in
which phase which rows have been accumulated into, and that those behind the
groups of the round are zero. `CommonKeysAlwaysCancel`: `CommonKeysMeet` says, as
`BobBehind` and `AliceBehind` do for the origins, at which positions the side that
is behind will have a common key. `CleanRoundsComplete`: `MessagesTell` says that
the sketches are the bitmaps of the groups (`Sketched`) and that Bob's message gives
the answer of the decoder for the bitmap of the difference, with the XORs and the
checksum of his group (`Told`). Keys that are alone in their bins are the bits of
that bitmap (`AloneInTheirBins`), so the decoder answers with their bins, the XOR of
each is the key, the key passes the test of bin and group because of
`KeysStayInTheirGroup`, and the checksums agree because what is recovered is all that
the groups differed by.

Its last part proves `DifferencesAreConserved` and `CompletesUpToZeroXor`.
`Conservation` speaks of the moment when Bob decodes. `Conserved` says the same of
every phase, for Alice's table against `BobTable`, the table Bob will have when he
has heard all that Alice knows (he moves the groups of her hint); `BobHasSplit` adds
that in the phase in which he has split and she has not, his pieces are those she
will make. What the groups of an original group differ by is `Toggled(I, F)`, the
keys in an odd number of the sets `F[i]`. `ParityBitmapSketchProofs` says how it behaves under
unions, bijections of the index sets and (+), by counting (`OddDifference`) and by
an induction over the naturals for sets (`SetInduction`). Then a split gives every
key of a failed group to one of its pieces (`SplitListKeepsToggled`), a move passes
a group on (`MoveListKeepsToggled`), an accepted group leaves out the keys of its
own that it has recovered (`PendingAfterCheck`), a group that was decoded without
an exception differs, under XOR, by what was recovered from it, because the
checksums agree (`CheckPending`), and a round's recovered keys are added to the parity of all
rounds (`ParityGrows`).

### The services

`PbsServiceProofs.ServiceExchangesKeys` and
`SketchServicesProofs.SketchesExchangeKeys`: every step of a service is a step of
`KeyExchange` or none. Set-ups, END and crashes are `Provide`: they are told from
other steps by `maps`, and leave the maps of running clients alone. For PBS the
others rest on what is known of the messages in flight (`InFlight`): a client pushes
keys it has (`Held`), and the server hands out keys of its own, which are `offered`
until the client takes them or its call fails. In `SketchServices` nothing is on
its way between two steps.

`EarlierRoundsAreSettled`, from `ServiceInvariant`, holds for any number of clients,
with a `_pbs` left by whomever, and with set-ups, END and crashes of others in the
middle of a call. `SessionInv` says of each client (`Sound`): its object is as
between two rounds and what it gets has as many groups as it expects (`Objects`),
`res` is the row of its last round (`LastRow`), earlier rows are settled
(`EarlierRows`), the maps have kept what they had at the beginning (`KeptSince`).
What these say of the server's map they say under `SameMap(c)`; that a map which has
been changed is never taken for the one of the beginning is `Numbered`, and
`MapStays` is what a step that changes no map preserves. The
keys of the last row are verified in two steps: the request names each of them to be
pushed or asked for (`Asked`); if the server has answered, it has inserted what was
pushed, so it did not have it, and holds what was asked for (`Pushed`); if the client
has taken that without a duplicate, it did not have it either (`Exchanged`). Of the
server, `ServerInv` says that its object is as between encode and decode while it
plays a round (`Encoded`), else fit for whatever hint comes, or not Bob's and refuses
it (`Answered`). That the bits of a message from any object are parsed without
reading outside is `HintParsed`, `AnswerIsBits` and `UnderstoodType`, from
`PbsMessagesProofs`, instantiated as `Msgs`; `AnyHint` and `AnyDecoding` there speak
of buffers that were written for another number of groups.

`FreshServersSurvive`: `FreshInv` says that in a call that has a new `_pbs` to itself
no other client is called, the server runs, and the two are `InStep`: the range in
which the server will read a hint is the client's (`NextRound`, `Requested`), the
client knows which groups the server has failed to decode (`Told`). There is one
exception: when a single group is left and fails its checksum, its id has no bit,
the hint is empty, and the server is left without a group; its empty answer makes the
client throw (`EmptyAnswerThrows`), and nothing worse follows.

`TrueReturnsAgree` carries the protocol over to such a call. `Run` in
`PbsServiceProofs` is an INSTANCE of `PbsProtocolProofs` whose variables are read off
the state of the service: Alice's object is the client's, Bob's the server's `_pbs` or
the one that its first request will construct (`BobOf`), the phase is the client's
(`Turn`), the hint and the decoding are what the receiver makes of the bits.
`AgreementInv` says that the call plays that run (`Played`): the invariant of its
rounds, `RoundInv`, holds of `Run`, until the exception above leaves the server
without a group. So every step is shown to be the one of `PbsProtocol` that the
phases name, or none, and the lemmas of `PbsProtocolProofs` are cited. That needs more
than `FreshInv` knows of the messages: the ids of a hint are read as they were written
(`HintReadBack`), and the client reads an answer exactly, positions, XORs and
checksums of each group (`AnswerReadExactly`). The other half is `Accounted`: the maps
differ by what they differed by when the call began and the parity of what has been
recovered, the last round excepted, whose keys are on their way. `RowBrought` is the
step that takes it along: if no pushed or requested key was there already and all
were found, no key was recovered twice in the round, and the maps differ by its
keys no more. When the run has completed nothing is pending (`RunIsComplete`), and
what is left cancels.

`DDigestAll`, `PinSketchAgrees`, `GraphenePushes`, `SmallReconciled`,
`ZeroCrashes`: the other properties of `SketchServices`. Their invariant is
`AloneKnow`, which says of a call that has had the server to itself what it knows
in each phase: while it estimates and reconciles the maps are those it began
with, its own size is the server's estimate, and what it is about to push is what
the server lacks.

### The bit streams

`BitStreamProofs`: `AnnouncedSizes`, `FieldsReadBack` and `ReadsNoFurther`, for any
number of bits in a byte and fields of any widths. None of them is inductive: they
speak of values, and the program keeps bytes. The invariant `StreamInv`
(`StreamInvariant`) says that there is a natural number whose bits are the fields
one behind the other (`Word`), and which bits of it every piece of state is: the
bytes written and the byte under construction (`Holds`), the bytes of the buffer, the
bits left over and the position of the reader (`Reads`). `WriteFieldHolds` and
`ReadFieldReads` then are facts about slices of a number (`SliceSplits`,
`SliceOfJoin`, `SliceBeyond`), which rest on facts about 2^n and division the
library does not have: `PowerStep` counts the subsets of 1..(n + 1), `Division` says
that quotient and remainder are unique, and what TotalBits and the loop of Read
compute recursively is found by induction for sets (`TotalExists`, `WholeIsSlice`).

### The messages

`PbsMessagesProofs`: `HintsArrive`, `DecodingsArrive` and `EncodingsArrive`, for every
code, number of groups, range and number of bits in a byte. The invariant is short
(`WireInvariant`: the buffer holds the message, written); the work is in
`HintIsRead`, `DecodingIsParsed`, `DecodingIsWalked` and `EncodingIsParsed`, which say
that parsing undoes writing. The formats are not self-describing, so all of them come
down to offsets: `FlattenPlaces` says where the k-th element of the g-th list is in
the lists one after another, `UptoOfWidth` where it is if all have the same length,
`CountedLists` that what the receiver adds up from the counts is where it was put,
and `ChecksumsCounted` the same of the number of a checksum. `ReadsField` reads a
number where its bits are; `FlagIsNoCount` is why no count is taken for the failure
flag; `LogLaws` and `ReadsNothing` are why an id fits and the padding is no id.
`FlattenSeq`, `ReadAt`, `SumUpTo` and `IncreasingSeqs` are defined by recursion:
`RecursionExists` and `RecursionIsUnique` say once that there is one solution, and an
induction for sets does the rest. Facts about powers and bits are cited from
`BitStreamProofs` through an INSTANCE.

### The table and the parameters

`IbltProofs`: `TableHoldsTheRest` is the inductive core: every cell reflects the
differences that have not been listed, whence a cell that looks pure holds a
single one. `OnlyDifferencesListed`, `TrueListsAll` and `FalseIsStuck` follow,
the last one with `PassSoFar`: a pass that has erased nothing has found no pure
cell so far. `PureAreValued` has an invariant of its own: a cell has a value
unless it is empty.

`BchParamsProofs`: `TypeCorrect`, `SearchFindsCheapest`, `WholeFilesDoNotMislead`,
`AnswersStay`. The invariant says that a search knows the cheapest pair of the
lengths behind it, that the lower end of a binary search does not meet the target
or is the least capacity and the upper end does, and that all rows are the best
of some request as long as no torn file has been loaded.

### Only model-checked

Liveness, which is out of the prover's reach: `CallsReturn` of `PbsService` and of
`BchParams`, and `ListingEnds` of `Iblt`. All safety and action properties of the
passing runs are proved.

## 5. What is not modelled

* The failure bound of pbs_params.h: floating-point matrices, the cached files
  they are stored in (`cache_helper.h`; a truncated one makes later runs throw),
  and with it the probability with which PBS ends within its rounds.
* `CB_solve_a` and the hashing of the Bloom filter (Graphene), minisketch itself,
  `IBLT::get`, `peelEntries` and the table of optimal parameters, which have no
  caller in the services.
* Handlers that overlap (a data race), a handler that runs after its client has
  given up, values that change during a call.
* `Reconciliation_Experiments`, which calls the modelled functions in a row and
  writes a CSV file; timers, generators, command lines, mains.
* Retired `.bk.h` files, which nothing includes, and vendored libraries other
  than the IBLT (CLI11, stats and gcem, tsl, stlcache, the Bloom filter): most of
  the tree's lines are theirs.

## 6. What could come next

1. PBS as a method among those of `SketchServices`, so that it and the estimate of
   another client interleave.
2. Handlers that outlive their call.
