--------------------------- MODULE SketchServices ---------------------------
(***************************************************************************)
(* Reconciliation over gRPC with the sketches other than PBS: DDigest,     *)
(* PinSketch and Graphene, the Estimate call the first two begin with, the *)
(* Push all of them end with, and the ReconcileSetUp calls of the          *)
(* experiments (src/src/reconciliation_client.h, reconciliation_server.h). *)
(*                                                                         *)
(* The server keeps one map, one vector of sketches and one estimate for   *)
(* all clients.  Calls may fail before or after the server has handled     *)
(* them.  A client waits for the answer, nothing but its own state depends *)
(* on it, and handlers do not overlap: a call, its handler and what the    *)
(* client does with the answer are one step.  Between two steps of a call  *)
(* another client may call, set up its own experiment or end it, and the   *)
(* server may crash and be started again.                                  *)
(*                                                                         *)
(* A key stands for its key-value pair.  A sketch is what can be had from  *)
(* it: an IBLT lists all differences or fails (module Iblt), and a         *)
(* PinSketch decodes to the differences or, if there are more than its     *)
(* capacity, fails or decodes to another set with the same syndromes.      *)
(***************************************************************************)
EXTENDS Integers, FiniteSets

CONSTANTS
    Key,
    Clients,
    Sketches,      \* DEFAULT_SKETCHES_
    Hashes,        \* the hash functions of the estimator: <<sketch, key>> to parity
    Inputs,        \* maps that tests provide: <<keys of each client, keys of the server>>
    Experiments,   \* those of the experiments: <<all keys, the ones one side has not>>
    Estimates,     \* estimates that tests provide
    Calls          \* bound: set-ups, and calls of a reconciliation

ASSUME ServicesAssumption ==
    /\ 0 \notin Key /\ IsFiniteSet(Key)
    /\ Sketches \in Nat \ {0}
    /\ Hashes \subseteq [(1..Sketches) \X Key -> {0, 1}]
    /\ Inputs \subseteq [Clients -> SUBSET Key] \X (SUBSET Key)
    /\ Experiments \subseteq (SUBSET Key) \X (SUBSET Key)
    /\ Estimates \subseteq Nat
    /\ Calls \in Nat

VARIABLES
    hash,         \* the hash functions of this run
    serverKeys,   \* keys of _key_value_pairs
    maps,         \* how many maps the server has had, or lost
    ready,        \* _key_value_pairs is not null
    sketches,     \* _sketches
    estimated,    \* _estimated_diff
    up,           \* the server has not crashed
    clientKeys,   \* keys of key_value_pairs, the map of each client
    phase,        \* where each client is
    method,       \* the reconciliation it is in, or was
    scaled,       \* scaled_d
    toPush,       \* the keys it is to push
    result,       \* what its last call has returned
    initial,      \* its map and the server's when the call began: a history
    alone,        \* whether no other call has begun since, or was running: a history
    failed,       \* whether one of its gRPC calls has failed: a history
    truth,        \* the ground truth of the experiment it has set up
    calls         \* set-ups and calls begun

serverVars == <<serverKeys, maps, ready, sketches, estimated, up>>
callVars   == <<method, initial, alone, truth, calls>>
vars == <<hash, serverVars, clientKeys, phase, scaled, toPush, result, failed, callVars>>

FS == INSTANCE FiniteSetsExt

Methods == {"DDigest", "PinSketch", "Graphene"}
NoSketches == << >>
NoTruth == {0}

-------------------------------------------------------------------------------
(* The tug-of-war sketches of a map: one more for every key of odd hash,   *)
(* one less for every other.                                               *)
Tow(keys) ==
    [i \in 1..Sketches |-> 2 * Cardinality({k \in keys : hash[i, k] = 1}) - Cardinality(keys)]

(* ESTIMATE_SM99 of the mean square of the differences: 1.38 times it,     *)
(* rounded up.                                                             *)
Scaled(mine, other) ==
    LET total == FS!MapThenSumSet(LAMBDA i : (mine[i] - other[i])^2, 1..Sketches)
    IN  (138 * total + 100 * Sketches - 1) \div (100 * Sketches)

(* The layout of the IBLT for d differences: hash functions and cells.     *)
Layout(d) ==
    LET hashes == IF d > 200 THEN 3 ELSE 4
    IN  <<hashes, hashes * ((2 * d + hashes - 1) \div hashes)>>

(* Whether listEntries() succeeds: a single key is always listed.          *)
Listings(differences) == IF Cardinality(differences) <= 1 THEN {TRUE} ELSE BOOLEAN

x (+) y == (x \ y) \union (y \ x)

(* Mutant: a list of nothing. *)
NoZeros(capacity) == {}

(* A list of zeros: what PinSketch::decode leaves when it fails.           *)
Zeros(capacity) == IF capacity = 0 THEN {} ELSE {0}

(* Sets with the same syndromes differ in more than twice the capacity.    *)
Decodings(differences, capacity) ==
    IF Cardinality(differences) > capacity
    THEN {Zeros(capacity)} \union
         {E \in SUBSET Key : /\ Cardinality(E) <= capacity
                             /\ Cardinality(E (+) differences) > 2 * capacity}
    ELSE {differences}

-------------------------------------------------------------------------------
Idle == \A c \in Clients : phase[c] = "idle"

(* What is remembered of the last call of a client goes when it is given   *)
(* another map: only the properties, and End, ask for it.  No call has the *)
(* server to itself, or had, when the server is.                           *)
Forgotten(c) ==
    /\ method' = [method EXCEPT ![c] = "none"]
    /\ scaled' = [scaled EXCEPT ![c] = -1]
    /\ result' = [result EXCEPT ![c] = "none"]
    /\ initial' = [initial EXCEPT ![c] = <<{}, {}>>]
    /\ alone' = [d \in Clients |-> FALSE]
    /\ failed' = [failed EXCEPT ![c] = FALSE]

Init ==
    /\ hash \in Hashes
    /\ serverKeys = {} /\ maps = 0
    /\ ready = FALSE /\ sketches = NoSketches /\ estimated = -1
    /\ up = TRUE
    /\ clientKeys = [c \in Clients |-> {}]
    /\ phase = [c \in Clients |-> "idle"]
    /\ method = [c \in Clients |-> "none"]
    /\ scaled = [c \in Clients |-> -1]
    /\ toPush = [c \in Clients |-> {}]
    /\ result = [c \in Clients |-> "none"]
    /\ initial = [c \in Clients |-> <<{}, {}>>]
    /\ alone = [c \in Clients |-> FALSE]
    /\ failed = [c \in Clients |-> FALSE]
    /\ truth = [c \in Clients |-> NoTruth]
    /\ calls = 0

(* A test provides maps (set_key_value_pairs) and possibly an estimate     *)
(* (set_estimated_diff).  The sketches stay as they are.                   *)
Provide(c) ==
    /\ phase[c] = "idle" /\ up /\ calls < Calls
    /\ \E input \in Inputs :
          /\ clientKeys' = [clientKeys EXCEPT ![c] = input[1][c]]
          /\ serverKeys' = input[2]
    /\ maps' = maps + 1
    /\ ready' = TRUE
    /\ estimated' \in {estimated} \union Estimates
    /\ truth' = [truth EXCEPT ![c] = NoTruth]
    /\ calls' = calls + 1
    /\ Forgotten(c)
    /\ UNCHANGED <<hash, sketches, up, phase, toPush>>

(* SetUp_DDigest, SetUp_PinSketch and SetUp_Graphene: the client gets its  *)
(* map whether or not the server has got its own.                          *)
SetUp(c, m) ==
    /\ phase[c] = "idle" /\ calls < Calls
    /\ \E e \in Experiments :
          LET part == e[1] \ e[2]
              servers == IF m = "Graphene" THEN part ELSE e[1]
          IN  /\ clientKeys' = [clientKeys EXCEPT ![c] = IF m = "Graphene" THEN e[1] ELSE part]
              /\ truth' = [truth EXCEPT ![c] = e[1]]
              /\ \/ /\ up
                    /\ serverKeys' = servers
                    /\ maps' = maps + 1
                    /\ ready' = TRUE
                    /\ sketches' = IF m = "Graphene" THEN sketches ELSE Tow(servers)
                 \/ UNCHANGED <<serverKeys, maps, ready, sketches>>
    /\ calls' = calls + 1
    /\ Forgotten(c)
    /\ UNCHANGED <<hash, estimated, up, phase, toPush>>

(* verifyServerSide, when the client has what it should: the method END.   *)
(* The map is cleared, the sketches and the estimate are not.              *)
End(c) ==
    /\ phase[c] = "idle" /\ up
    /\ result[c] = "true"
    /\ clientKeys[c] = truth[c]
    /\ serverKeys' = {}
    /\ maps' = maps + 1
    /\ Forgotten(c)
    /\ UNCHANGED <<hash, ready, sketches, estimated, up, clientKeys, phase, toPush,
                   truth, calls>>

(* A crashed server is started again.                                      *)
Restart ==
    /\ ~up
    /\ up' = TRUE
    /\ UNCHANGED <<hash, serverKeys, maps, ready, sketches, estimated, clientKeys, phase,
                   scaled, toPush, result, failed, callVars>>

-------------------------------------------------------------------------------
(* Reconciliation_DDigest(key_value_pairs, d) and so on are called; if d   *)
(* is -1 they ask for an estimate.                                         *)
Begin(c, m, d) ==
    /\ phase[c] = "idle" /\ calls < Calls
    /\ calls' = calls + 1
    /\ method' = [method EXCEPT ![c] = m]
    /\ scaled' = [scaled EXCEPT ![c] = d]
    /\ phase' = [phase EXCEPT ![c] = IF d = -1 /\ m # "Graphene" THEN "estimate" ELSE "reconcile"]
    /\ result' = [result EXCEPT ![c] = "none"]
    /\ initial' = [initial EXCEPT ![c] = <<clientKeys[c], serverKeys>>]
    /\ alone' = [other \in Clients |-> other = c /\ Idle /\ d \in {-1, estimated}]
    /\ failed' = [failed EXCEPT ![c] = FALSE]
    /\ UNCHANGED <<hash, serverVars, clientKeys, toPush, truth>>

Return(c, value) ==
    /\ phase' = [phase EXCEPT ![c] = "idle"]
    /\ result' = [result EXCEPT ![c] = value]
    /\ toPush' = [toPush EXCEPT ![c] = {}]

ToPush(c, keys) ==
    /\ phase' = [phase EXCEPT ![c] = "push"]
    /\ toPush' = [toPush EXCEPT ![c] = keys]
    /\ UNCHANGED result

Failed(c) == failed' = [failed EXCEPT ![c] = TRUE]

(* What a handler does when it is not called, or answers UNAVAILABLE.      *)
NoAnswer(c) == Failed(c) /\ UNCHANGED serverVars

(* The estimate is -1 when the call has failed, and no sketch can be made  *)
(* with static_cast<size_t>(-1) cells.                                     *)
EstimateFails(c) ==
    /\ phase[c] = "estimate"
    /\ NoAnswer(c)
    /\ Return(c, "crashed")
    /\ UNCHANGED <<hash, clientKeys, scaled, callVars>>

(* Mutant: the estimate of the first client is kept for all. *)
KeptEstimate(d) == IF estimated = -1 THEN d ELSE estimated

NewEstimate(d) == d

Estimate(c) ==
    /\ phase[c] = "estimate"
    /\ up
    /\ sketches # NoSketches \/ ready
    /\ sketches' = IF sketches = NoSketches THEN Tow(serverKeys) ELSE sketches
    /\ LET d == Scaled(sketches', Tow(clientKeys[c]))
       IN  /\ estimated' = NewEstimate(d)
           /\ \/ /\ scaled' = [scaled EXCEPT ![c] = d]
                 /\ phase' = [phase EXCEPT ![c] = "reconcile"]
                 /\ UNCHANGED <<toPush, result, failed>>
              \/ Failed(c) /\ Return(c, "crashed") /\ UNCHANGED scaled
    /\ UNCHANGED <<hash, serverKeys, maps, ready, up, clientKeys, callVars>>

-------------------------------------------------------------------------------
(* In a table of no cells a key is at its hash modulo 0: SIGFPE.           *)
NoCells(c) == method[c] = "DDigest" /\ scaled[c] = 0 /\ clientKeys[c] # {}

(* A reconciliation fails if its call does. *)
CallFails(c) ==
    /\ phase[c] = "reconcile" /\ ~NoCells(c)
    /\ NoAnswer(c)
    /\ Return(c, "false")
    /\ UNCHANGED <<hash, clientKeys, scaled, callVars>>

(* The server is brought down by the call: what it had is gone. *)
ServerCrashes(c) ==
    /\ up' = FALSE
    /\ serverKeys' = {} /\ maps' = maps + 1
    /\ ready' = FALSE /\ sketches' = NoSketches /\ estimated' = -1
    /\ Return(c, "false")
    /\ UNCHANGED <<clientKeys, failed>>

(* The handler never returns. *)
Hangs(c) ==
    /\ phase' = [phase EXCEPT ![c] = "hung"]
    /\ UNCHANGED <<serverVars, clientKeys, toPush, result, failed>>

(* The reply is false, and the client returns. *)
Refuses(c) ==
    /\ Return(c, "false")
    /\ UNCHANGED <<serverVars, clientKeys, failed>>

(* The client inserts the keys the server has pushed, up to the first that *)
(* it has, and pushes those that the server misses.                        *)
Takes(c, pushed, missing) ==
    /\ \/ /\ pushed \intersect clientKeys[c] = {}
          /\ clientKeys' = [clientKeys EXCEPT ![c] = @ \union pushed]
          /\ IF missing = {} THEN Return(c, "true") ELSE ToPush(c, missing)
       \/ /\ pushed \intersect clientKeys[c] # {}
          /\ \E some \in SUBSET (pushed \ clientKeys[c]) :
                clientKeys' = [clientKeys EXCEPT ![c] = @ \union some]
          /\ Return(c, "false")
    /\ UNCHANGED <<serverVars, failed>>

(* Mutant: whatever has been listed is used. *)
PartlyListed(c) ==
    \E pos \in SUBSET (serverKeys \ clientKeys[c]), neg \in SUBSET (clientKeys[c] \ serverKeys) :
       Takes(c, pos, neg)

(* The tables have the same layout: what is listed are the differences.    *)
DDigestMatched(c) ==
    \E succeed \in Listings(clientKeys[c] (+) serverKeys) :
       IF succeed THEN Takes(c, serverKeys \ clientKeys[c], clientKeys[c] \ serverKeys)
       ELSE Refuses(c)

(* They have not: a table of cells is set beyond its end, or keys are      *)
(* looked for in other cells than they are in.  The peeling may list any   *)
(* keys, or never end.                                                     *)
DDigestMismatched(c) ==
    \/ ServerCrashes(c)
    \/ Hangs(c)
    \/ Refuses(c)
    \/ \E pos \in SUBSET serverKeys, neg \in SUBSET (clientKeys[c] \union serverKeys) :
          Takes(c, pos, neg)

DDigest(c) ==
    /\ phase[c] = "reconcile" /\ method[c] = "DDigest"
    /\ IF NoCells(c)
       THEN Return(c, "crashed") /\ UNCHANGED <<serverVars, clientKeys, failed>>
       ELSE /\ up /\ ready /\ estimated # -1
            /\ IF estimated = 0 /\ serverKeys # {} THEN ServerCrashes(c)
               ELSE IF Layout(scaled[c]) = Layout(estimated) THEN DDigestMatched(c)
               ELSE DDigestMismatched(c)
    /\ UNCHANGED <<hash, scaled, callVars>>

(* Mutant: the lists of the reply are swapped. *)
SwappedDecoded(c, E) == Takes(c, E \ serverKeys, E \intersect serverKeys)

(* What the server has of the decoded keys it pushes, the others it misses.*)
Decoded(c, E) == Takes(c, E \intersect serverKeys, E \ serverKeys)

(* A sketch longer than the server's is cut, which leaves a sketch; behind *)
(* the end of a shorter one the server reads whatever there is.            *)
PinSketch(c) ==
    /\ phase[c] = "reconcile" /\ method[c] = "PinSketch"
    /\ up /\ ready /\ estimated # -1
    /\ IF scaled[c] = estimated \/ scaled[c] > estimated
       THEN \E E \in Decodings(clientKeys[c] (+) serverKeys, estimated) : Decoded(c, E)
       ELSE \/ ServerCrashes(c)
            \/ \E E \in (SUBSET Key) \union {Zeros(estimated)} : Decoded(c, E)
    /\ UNCHANGED <<hash, scaled, callVars>>

(* Mutant: keys that pass the filter by mistake are not looked for. *)
NotInFilter(c, passed) == clientKeys[c] \ (serverKeys \union passed)

(* What the filter and the table tell the client to push.                  *)
NotOnServer(c, passed) == (clientKeys[c] \ (serverKeys \union passed)) \union passed

(* The server's keys, and some others, pass its Bloom filter.  The table   *)
(* of those of the client that pass is compared with that of the server;   *)
(* keys only the server has are listed, and forgotten.                     *)
Graphene(c) ==
    /\ phase[c] = "reconcile" /\ method[c] = "Graphene"
    /\ up /\ ready
    /\ \E passed \in SUBSET (clientKeys[c] \ serverKeys) :
       \E correct \in Listings(passed \union (serverKeys \ clientKeys[c])) :
          IF correct
          THEN ToPush(c, NotOnServer(c, passed)) /\ UNCHANGED <<serverVars, clientKeys, failed>>
          ELSE Refuses(c)
    /\ UNCHANGED <<hash, scaled, callVars>>

-------------------------------------------------------------------------------
(* Graphene does not look at what its Push returns. *)
Pushed(c, value) == Return(c, IF value \/ method[c] = "Graphene" THEN "true" ELSE "false")

(* Mutant: what is asked for is pushed. *)
PushesAnything(c) == TRUE

HasAll(c) == toPush[c] \subseteq clientKeys[c]

(* Push: a key that the client has not, or a call that fails. *)
PushFails(c) ==
    /\ phase[c] = "push"
    /\ IF HasAll(c) THEN Failed(c) ELSE UNCHANGED failed
    /\ Pushed(c, FALSE)
    /\ UNCHANGED <<hash, serverVars, clientKeys, scaled, callVars>>

(* Synchronize; the reply may be lost.                                     *)
Push(c) ==
    /\ phase[c] = "push"
    /\ HasAll(c)
    /\ up /\ ready
    /\ serverKeys' = serverKeys \union toPush[c]
    /\ \/ Pushed(c, TRUE) /\ UNCHANGED failed
       \/ Pushed(c, FALSE) /\ Failed(c)
    /\ UNCHANGED <<hash, maps, ready, sketches, estimated, up, clientKeys, scaled, callVars>>

(* The handler's answer to a reconciliation is lost: it has changed        *)
(* nothing, so that this is CallFails.                                     *)
ClientStep(c) ==
    \/ \E m \in Methods, d \in {-1} \union Estimates : Begin(c, m, d)
    \/ EstimateFails(c) \/ Estimate(c)
    \/ CallFails(c) \/ DDigest(c) \/ PinSketch(c) \/ Graphene(c)
    \/ PushFails(c) \/ Push(c)

UserStep ==
    \/ Restart
    \/ \E c \in Clients : Provide(c) \/ End(c) \/ \E m \in Methods : SetUp(c, m)

(* Everything has been called, or waits for ever. *)
Stopped ==
    /\ calls = Calls
    /\ \A c \in Clients : phase[c] \in {"idle", "hung"}
    /\ UNCHANGED vars

Next == UserStep \/ Stopped \/ \E c \in Clients : ClientStep(c)

Spec == Init /\ [][Next]_vars

-------------------------------------------------------------------------------
(* Whatever the estimates, the sketches and the failures, and although     *)
(* clients share the server's estimate and may overwrite that of another,  *)
(* replace its map, clear it or bring the server down in the middle of a   *)
(* call: but for these changes of map, a call only moves keys from one map *)
(* to the other, and none is lost.                                         *)
Exchange == INSTANCE KeyExchange WITH
    clientKeys <- clientKeys,
    serverKeys <- serverKeys,
    serverMaps <- maps,
    offered <- [c \in Clients |-> {}],
    running <- {c \in Clients : phase[c] # "idle"}

ExchangesKeys == Exchange!Spec

(* A call that has had the server to itself.                               *)
Returned(c, m, value) == alone[c] /\ method[c] = m /\ result[c] = value

All(c) == initial[c][1] \union initial[c][2]

(* True from DDigest means that both have all keys, even if the estimate   *)
(* was of a map the server no longer has.                                  *)
DDigestTrueMeansAll ==
    \A c \in Clients :
       Returned(c, "DDigest", "true") => clientKeys[c] = All(c) /\ serverKeys = All(c)

(* True from PinSketch means that the maps agree, or are still so far      *)
(* apart that the sketches of differences and of none are the same.        *)
PinSketchTrueMeansAgreement ==
    \A c \in Clients :
       Returned(c, "PinSketch", "true") =>
          \/ clientKeys[c] = serverKeys
          \/ Cardinality(clientKeys[c] (+) serverKeys) > 2 * estimated

(* True from Graphene means that the server has all keys, unless the Push  *)
(* failed, which Graphene does not notice.                                 *)
GrapheneTrueMeansPushed ==
    \A c \in Clients :
       Returned(c, "Graphene", "true") /\ ~failed[c] => serverKeys = All(c)

(* A difference within the capacity of a PinSketch, or of a single key, is *)
(* reconciled: there is no false but for a failed call.                    *)
SmallDifferencesReconciled ==
    \A c \in Clients :
       LET d == Cardinality(initial[c][1] (+) initial[c][2])
       IN  /\ Returned(c, "PinSketch", "false") => failed[c] \/ d > scaled[c]
           /\ Returned(c, "DDigest", "false") => failed[c] \/ d > 1 \/ scaled[c] = 0
           /\ Returned(c, "Graphene", "false") => failed[c] \/ d > 1

(* Neither side is brought down but by an estimate of 0, and the client by *)
(* one it has not got.                                                     *)
OnlyZeroCrashes ==
    \A c \in Clients :
       /\ alone[c] /\ result[c] = "crashed" => failed[c] \/ scaled[c] = 0
       /\ alone[c] /\ result[c] = "false" /\ ~up => failed[c] \/ scaled[c] = 0
=============================================================================
