----------------------------- MODULE PbsService -----------------------------
(***************************************************************************)
(* Reconciliation of two key-value maps over gRPC:                         *)
(* Reconciliation_ParityBitmapSketch of src/src/reconciliation_client.h    *)
(* against the handlers of EstimationServiceImpl in                        *)
(* src/src/reconciliation_server.h.                                        *)
(*                                                                         *)
(* A client is Alice.  The server keeps one ParityBitmapSketch, _pbs, for  *)
(* all clients and calls, from the first request on until it is told that  *)
(* the experiment has ended; it answers a request by playing Bob's round,  *)
(* and carries out what the client asks for the keys recovered in the      *)
(* round before.  A call can fail before or after the server has handled   *)
(* it; a client whose call has failed returns, and may be called again.    *)
(* ReconcileSetUp gives the server another map, or takes it and _pbs away, *)
(* when any client likes, in the middle of the calls of the others.        *)
(*                                                                         *)
(* A value never changes and goes with its key, so a map is its keys.  The *)
(* two sides have agreed on the estimate of the difference, hence on       *)
(* NumGroups and on the BCH code.  Hints and decoding messages are the     *)
(* bits of PbsWire: the receiver may expect another number of groups.      *)
(***************************************************************************)
EXTENDS ParityBitmapSketch

CONSTANTS
    Clients,
    Inputs,         \* the maps to reconcile: <<keys of each client, keys of the server>>
    Hashes,         \* the hash functions
    ByteBits,       \* bits in a byte (8 in the code)
    BchM,           \* bch_m_
    ClientRounds,   \* PBS_MAX_ROUNDS
    Sessions,       \* bound: calls of Reconciliation_ParityBitmapSketch
    MaxMaps         \* bound: maps the server gets, or loses to END

ASSUME ServiceAssumption ==
    /\ Inputs \subseteq [Clients -> SUBSET Key] \X (SUBSET Key)
    /\ \A h \in Hashes : IsHash(h)
    /\ ByteBits \in Nat \ {0}
    /\ BchM \in Nat /\ BchN = 2^BchM - 1
    /\ ClientRounds \in Nat \ {0}
    /\ Sessions \in Nat \ {0} /\ MaxMaps \in Nat
    /\ Sessions * ClientRounds <= MaxRounds   \* the rounds of one _pbs

VARIABLES
    hash,         \* the hash functions of this run
    clientData,   \* keys of key_value_pairs, the map of each client
    serverData,   \* keys of _key_value_pairs, the server's map
    maps,         \* how many maps it has had, or lost
    truth,        \* the ground truth of each client: all keys of its experiment
    client,       \* _pbs of each client
    server,       \* _pbs of the server
    phase,        \* where each client is
    request,      \* the request it has sent
    reply,        \* the reply of the server to it
    res,          \* res: the keys of its last round, group by group
    result,       \* what its last call has returned
    initial,      \* its map, the server's and maps when the call began: a history
    fresh,        \* whether it has the server and a new _pbs to itself: a history
    synced,       \* whether its last exchange brought it all, once: a history
    sessions      \* calls begun

vars == <<hash, clientData, serverData, maps, truth, client, server, phase,
          request, reply, res, result, initial, fresh, synced, sessions>>

Wire == INSTANCE PbsWire
Seqs == INSTANCE SequencesExt

NoPbs == [none |-> TRUE]         \* a null pointer
NotReady == [notReady |-> TRUE]  \* the server has no map, hence no _pbs either
Crashed == [crashed |-> TRUE]    \* the process of the server is gone
NoMessage == [none |-> TRUE]

Down == {Crashed, NotReady}

-------------------------------------------------------------------------------
(* Lists of keys, in the order in which loops meet them.  Only the order   *)
(* of a list matters, so that a loop that skips keys yields the list with  *)
(* gaps: its restriction to the others.                                    *)
KeyList(groups) ==
    Seqs!FlattenSeq([g \in 1..Len(groups) |-> Seqs!SetToSeq(groups[g])])

Without(keys, S) == [i \in {j \in DOMAIN keys : keys[j] \notin S} |-> keys[i]]

KeysOf(keys) == {keys[i] : i \in DOMAIN keys}

(* A loop that inserts keys and stops at the first that is there already.  *)
Duplicates(data, keys) ==
    {i \in DOMAIN keys : \/ keys[i] \in data
                         \/ \E j \in DOMAIN keys : j < i /\ keys[j] = keys[i]}

(* Mutant: the check for a duplicate without the insertion. *)
InsertedNothing(data, keys) == data

Inserted(data, keys) ==
    data \union {keys[i] : i \in {i \in DOMAIN keys :
                                     \A j \in Duplicates(data, keys) : i < j}}

(* What the client has it pushes, what it has not it asks for.             *)
Missing(c) == Without(KeyList(res[c]), clientData[c])
Pushes(c)  == Without(KeyList(res[c]), KeysOf(Missing(c)))

-------------------------------------------------------------------------------
(* The messages, for a receiver with n groups.                             *)
HintBits(p) ==
    IF p.exceptions = << >> THEN << >>
    ELSE Wire!WriteHint(p.hintRange,
                        [i \in 1..Len(p.exceptions) |-> p.exceptions[i] - 1])

(* What parse() makes of the sketches.  If the message is too short it is  *)
(* not parsed, the callers ignore that, and the sketches stay empty.  The  *)
(* bits of a sketch that do not fill a byte are behind the whole bytes of  *)
(* all the sketches, that is, at a place that depends on n: in a longer    *)
(* message something else is there, and any sketch may come out.           *)
SketchBits == BchM * BchT

Misplaced(n, sketches) ==
    /\ n < Len(sketches)
    /\ SketchBits \div ByteBits > 0
    /\ SketchBits % ByteBits > 0

SketchesFor(n, sketches) ==
    IF Wire!Bits2Bytes(SketchBits * n) > Wire!Bits2Bytes(SketchBits * Len(sketches))
    THEN {[g \in 1..n |-> {}]}
    ELSE IF Misplaced(n, sketches) THEN [1..n -> SUBSET Bins]
    ELSE {[g \in 1..n |-> IF g <= Len(sketches) THEN sketches[g] ELSE {}]}

(* What the server sends for its decoding dec: the message, and the lists  *)
(* of XORs and checksums.                                                  *)
Positions(dec, g) == IF dec[g].ok THEN Ordered(dec[g].at) ELSE Wire!Failed

MessageBits(dec) ==
    Wire!WriteDecoding(BchM, BchT, [g \in 1..Len(dec) |-> Positions(dec, g)])

XorList(dec) ==
    Seqs!FlattenSeq([g \in 1..Len(dec) |->
        IF dec[g].ok
        THEN [k \in 1..Cardinality(dec[g].at) |-> dec[g].xors[Positions(dec, g)[k]]]
        ELSE << >>])

SumList(dec) ==
    Seqs!FlattenSeq([g \in 1..Len(dec) |-> IF dec[g].ok THEN <<dec[g].sum>> ELSE << >>])

(* What decodeCheck() finds at its cursors in a message parsed for the     *)
(* groups of the client.  (Position 0 is only read by mistake; nothing is  *)
(* ever found there.  If the slice of a group is misread and has a position *)
(* twice, the first XOR stands for both.)                                  *)
Slice(counts, g) ==
    Wire!OffsetOf(counts, g) + 1 .. Wire!OffsetOf(counts, g) + counts[g]

FailedGroup == [ok |-> FALSE, at |-> {}, xors |-> [b \in {} |-> {}], sum |-> {}]

Understood(parsed, xors, sums) ==
    [g \in 1..Len(parsed.counts) |->
        LET slice == Slice(parsed.counts, g)
            at    == {parsed.positions[i] : i \in slice} \ {0}
        IN  IF parsed.counts[g] < 0 THEN FailedGroup
            ELSE [ok   |-> TRUE,
                  at   |-> at,
                  xors |-> [b \in at |-> xors[CHOOSE i \in slice : parsed.positions[i] = b]],
                  sum  |-> sums[Wire!CidOf(parsed.counts, g)]]]

-------------------------------------------------------------------------------
Init ==
    /\ hash \in Hashes
    /\ clientData = [c \in Clients |-> {}] /\ serverData = {} /\ maps = 0
    /\ truth = [c \in Clients |-> {}]
    /\ client = [c \in Clients |-> NoPbs] /\ server = NotReady
    /\ phase = [c \in Clients |-> "idle"]
    /\ request = [c \in Clients |-> NoMessage] /\ reply = [c \in Clients |-> NoMessage]
    /\ res = [c \in Clients |-> << >>]
    /\ result = [c \in Clients |-> "none"]
    /\ initial = [c \in Clients |-> <<{}, {}, 0>>]
    /\ fresh = [c \in Clients |-> FALSE] /\ synced = [c \in Clients |-> FALSE]
    /\ sessions = 0

Idle == \A c \in Clients : phase[c] = "idle"

(* A handler is at most in one place between its two steps. *)
NoHandler == \A c \in Clients : phase[c] # "encoded"

(* The server's map is still the one of the beginning of the call, and     *)
(* what has been added to it.                                              *)
SameMap(c) == initial[c][3] = maps

Goto(c, place) == phase' = [phase EXCEPT ![c] = place]

(* A call returns; the client's object goes.                               *)
Return(c, value) ==
    /\ Goto(c, "idle")
    /\ result' = [result EXCEPT ![c] = value]
    /\ client' = [client EXCEPT ![c] = NoPbs]
    /\ request' = [request EXCEPT ![c] = NoMessage]
    /\ reply' = [reply EXCEPT ![c] = NoMessage]

Answer(c, message) == reply' = [reply EXCEPT ![c] = message]

(* ReconcileSetUp (or set_key_value_pairs) replaces the server's map and   *)
(* leaves its _pbs alone, wherever the other clients are.  The client gets *)
(* its own map whether or not the server has got one, and is called next.  *)
SetUp(c) ==
    /\ phase[c] = "idle" /\ result[c] # "setUp"
    /\ maps < MaxMaps /\ sessions < Sessions
    /\ \E input \in Inputs :
          /\ clientData' = [clientData EXCEPT ![c] = input[1][c]]
          /\ truth' = [truth EXCEPT ![c] = input[1][c] \union input[2]]
          /\ \/ /\ server # Crashed /\ NoHandler
                /\ server' = IF server = NotReady THEN NoPbs ELSE server
                /\ serverData' = input[2]
                /\ maps' = maps + 1
             \/ UNCHANGED <<server, serverData, maps>>
    /\ result' = [result EXCEPT ![c] = "setUp"]
    /\ fresh' = [d \in Clients |-> FALSE]
    /\ UNCHANGED <<hash, client, phase, request, reply, res, initial, synced,
                   sessions>>

(* A server that has crashed is started again. *)
Restart ==
    /\ server = Crashed
    /\ server' = NotReady
    /\ UNCHANGED <<hash, clientData, serverData, maps, truth, client, phase, request,
                   reply, res, result, initial, fresh, synced, sessions>>

(* A client is called. *)
Begin(c) ==
    /\ phase[c] = "idle"
    /\ sessions < Sessions
    /\ sessions' = sessions + 1
    /\ client' = [client EXCEPT ![c] = Construct(clientData[c], hash)]
    /\ Goto(c, "loop")
    /\ res' = [res EXCEPT ![c] = << >>]
    /\ result' = [result EXCEPT ![c] = "none"]
    /\ initial' = [initial EXCEPT ![c] = <<clientData[c], serverData, maps>>]
    /\ fresh' = [d \in Clients |-> d = c /\ Idle /\ server = NoPbs]
    /\ synced' = [synced EXCEPT ![c] = FALSE]
    /\ UNCHANGED <<hash, clientData, serverData, maps, truth, server, request,
                   reply>>

(* END, which SetUp_PBS sends when the client has what it should: the map  *)
(* is cleared and _pbs goes, whoever else is using them.                   *)
TearDown(c) ==
    /\ phase[c] = "idle"
    /\ maps < MaxMaps
    /\ result[c] = "true"
    /\ clientData[c] = truth[c]
    /\ server # Crashed /\ NoHandler
    /\ server' = IF server = NotReady THEN NotReady ELSE NoPbs
    /\ serverData' = {}
    /\ maps' = maps + 1
    /\ result' = [result EXCEPT ![c] = "none"]
    /\ fresh' = [d \in Clients |-> FALSE]
    /\ UNCHANGED <<hash, clientData, truth, client, phase, request, reply, res,
                   initial, synced, sessions>>

(* The top of the loop: give up, or encode and send.                       *)
GiveUp(c) ==
    /\ phase[c] = "loop"
    /\ client[c].round >= ClientRounds
    /\ Return(c, "false")
    /\ UNCHANGED <<hash, clientData, serverData, maps, truth, server, res,
                   initial, fresh, synced, sessions>>

Call(c) ==
    /\ phase[c] = "loop"
    /\ client[c].round < ClientRounds
    /\ ~encodeThrows(client[c])
    /\ client' = [client EXCEPT ![c] = encode(@, hash)]
    /\ request' = [request EXCEPT ![c] =
                      [sketches |-> client'[c].sketches, hint |-> HintBits(client[c]),
                       pushes |-> Pushes(c), missing |-> Missing(c)]]
    /\ Goto(c, "called")
    /\ UNCHANGED <<hash, clientData, serverData, maps, truth, server, reply,
                   res, result, initial, fresh, synced, sessions>>

(* ReconcileParityBitmapSketch, in the steps of BobEncode and BobDecode of *)
(* PbsProtocol: nothing comes between them.  What throws there is a failed *)
(* call to the client, and leaves _pbs as it is at that point.             *)
FirstEncode(c) ==
    /\ server = NoPbs
    /\ IF request[c].hint # << >>
       THEN /\ server' = Construct(serverData, hash)
            /\ Goto(c, "answered") /\ Answer(c, [ok |-> FALSE])
       ELSE /\ server' = encode(Construct(serverData, hash), hash)
            /\ Goto(c, "encoded") /\ UNCHANGED reply

LaterEncode(c) ==
    /\ server # NoPbs
    /\ request[c].hint = << >> \/ Wire!HintDivides(server.hintRange, request[c].hint)
    /\ \E parsed \in {Wire!ParseHint(server.hintRange, request[c].hint)} :
       \E ids \in {[i \in 1..Len(parsed.ids) |-> parsed.ids[i] + 1]} :
          IF parsed.threw \/ encodeWithHintThrows(server, ids)
          THEN /\ server' = IF parsed.threw \/ server.role # "Bob" THEN server
                            ELSE WithHint(server, ids)
               /\ Goto(c, "answered") /\ Answer(c, [ok |-> FALSE])
          ELSE /\ server' = encodeWithHint(server, hash, ids)
               /\ Goto(c, "encoded") /\ UNCHANGED reply

HandleEncode(c) ==
    /\ phase[c] = "called"
    /\ NoHandler
    /\ server \notin Down
    /\ FirstEncode(c) \/ LaterEncode(c)
    /\ UNCHANGED <<hash, clientData, serverData, maps, truth, client, request,
                   res, result, initial, fresh, synced, sessions>>

(* Parsing the hint kills the process, and its _pbs and its map are gone.  *)
HintCrashesServer(c) ==
    /\ phase[c] = "called"
    /\ NoHandler
    /\ server \notin Down \union {NoPbs}
    /\ Wire!HintDividesByZero(server.hintRange, request[c].hint)
    /\ server' = Crashed
    /\ serverData' = {}
    /\ maps' = maps + 1
    /\ UNCHANGED <<hash, clientData, truth, client, phase, request, reply, res,
                   result, initial, fresh, synced, sessions>>

(* After Bob has decoded, the keys of the round before are pushed one by   *)
(* one, and then looked up.                                                *)
PushesFail(c) == Duplicates(serverData, request[c].pushes) # {}

(* Mutant: the keys asked for are taken to be there. *)
LookupsSucceed(c) == FALSE

LookupsFail(c) ==
    \E k \in KeysOf(request[c].missing) : k \notin Inserted(serverData, request[c].pushes)

ReadsPastEnd(other) ==
    /\ server.remaining > 0
    /\ FailedIds(server, hash, other) = << >>
    /\ BchN \in DecodeOf(server, hash, other, server.remaining).at

HandleDecode(c) ==
    /\ phase[c] = "encoded"
    /\ \E other \in SketchesFor(server.remaining, request[c].sketches) :
          /\ \E pastEnd \in IF ReadsPastEnd(other) THEN Key ELSE {{}} :
                Answer(c, IF PushesFail(c) \/ LookupsFail(c) THEN [ok |-> FALSE]
                          ELSE [ok |-> TRUE, pushed |-> request[c].missing,
                                dec |-> decodeMessage(server, hash, other, pastEnd)])
          /\ server' = decode(server, hash, other)
    /\ serverData' = Inserted(serverData, request[c].pushes)
    /\ Goto(c, "answered")
    /\ UNCHANGED <<hash, clientData, maps, truth, client, request, res,
                   result, initial, fresh, synced, sessions>>

(* Mutant: a lost request is sent again, and is no round. *)
CallFailsAndRetries(c) ==
    /\ phase[c] \in {"called", "answered"}
    /\ IF phase[c] = "called"
       THEN Goto(c, "loop") /\ UNCHANGED <<client, request, reply, result>>
       ELSE Return(c, "false")
    /\ UNCHANGED <<hash, clientData, serverData, maps, truth, server, res,
                   initial, fresh, synced, sessions>>

(* The request or the reply is lost, or the server is not ready and says    *)
(* UNAVAILABLE.                                                            *)
CallFails(c) ==
    /\ phase[c] \in {"called", "answered"}
    /\ Return(c, "false")
    /\ UNCHANGED <<hash, clientData, serverData, maps, truth, server, res,
                   initial, fresh, synced, sessions>>

(* The client takes the keys it asked for, unless the status is not OK or  *)
(* it finds one of them there already, and parses the answer.              *)
Take(c) == clientData' = [clientData EXCEPT ![c] = Inserted(@, reply[c].pushed)]

Receive(c) ==
    /\ phase[c] = "answered"
    /\ reply[c].ok
    /\ Duplicates(clientData[c], reply[c].pushed) = {}
    /\ Take(c)
    /\ \E bits \in {MessageBits(reply[c].dec)} :
       \E parsed \in {Wire!ParseDecoding(BchM, BchT, client[c].remaining, bits)} :
       \E xors \in {XorList(reply[c].dec)} :
          Answer(c, IF Wire!CheckThrows(parsed, xors, SumList(reply[c].dec))
                    THEN [throws |-> TRUE, decoding |-> << >>]
                    ELSE [throws |-> FALSE,
                          decoding |-> Understood(parsed, xors, SumList(reply[c].dec))])
    /\ Goto(c, "received")
    /\ UNCHANGED <<hash, serverData, maps, truth, client, server, request,
                   res, result, initial, fresh, synced, sessions>>

ReceiveError(c) ==
    /\ phase[c] = "answered"
    /\ \/ ~reply[c].ok /\ UNCHANGED clientData
       \/ reply[c].ok /\ Duplicates(clientData[c], reply[c].pushed) # {} /\ Take(c)
    /\ Return(c, "false")
    /\ UNCHANGED <<hash, serverData, maps, truth, server, res, initial, fresh,
                   synced, sessions>>

(* The client checks the round; or decodeCheck() runs out of XORs or       *)
(* checksums, and throws.                                                  *)
Check(c) ==
    /\ phase[c] = "received"
    /\ ~reply[c].throws
    /\ client' = [client EXCEPT ![c] = decodeCheck(@, hash, reply[c].decoding)]
    /\ res' = [res EXCEPT ![c] = client'[c].recovered[Len(client'[c].recovered)]]
    /\ Goto(c, IF decodeCheckCompletes(client'[c]) THEN "completed" ELSE "loop")
    /\ request' = [request EXCEPT ![c] = NoMessage]
    /\ Answer(c, NoMessage)
    /\ UNCHANGED <<hash, clientData, serverData, maps, truth, server, result,
                   initial, fresh, synced, sessions>>

CheckThrows(c) ==
    /\ phase[c] = "received"
    /\ reply[c].throws
    /\ Return(c, "false")
    /\ UNCHANGED <<hash, clientData, serverData, maps, truth, server, res,
                   initial, fresh, synced, sessions>>

(* The reconciliation has completed: the keys of the last round are        *)
(* exchanged by PushAndPull, Push or Pull, if there are any.               *)
Synchronize(c) ==
    /\ phase[c] = "completed"
    /\ KeyList(res[c]) # << >>
    /\ request' = [request EXCEPT ![c] = [pushes |-> Pushes(c), pulls |-> Missing(c)]]
    /\ Goto(c, "syncCalled")
    /\ UNCHANGED <<hash, clientData, serverData, maps, truth, client, server,
                   reply, res, result, initial, fresh, synced, sessions>>

NothingToSynchronize(c) ==
    /\ phase[c] = "completed"
    /\ KeyList(res[c]) = << >>
    /\ synced' = [synced EXCEPT ![c] = TRUE]
    /\ Return(c, "true")
    /\ UNCHANGED <<hash, clientData, serverData, maps, truth, server, res,
                   initial, fresh, sessions>>

(* The handler Synchronize.  It does not look whether a key is there        *)
(* already, as ReconcileParityBitmapSketch and its client do.              *)
HandleSynchronize(c) ==
    /\ phase[c] = "syncCalled"
    /\ NoHandler
    /\ server \notin Down
    /\ serverData' = serverData \union KeysOf(request[c].pushes)
    /\ Answer(c, IF KeysOf(request[c].pulls) \subseteq serverData'
                 THEN [ok |-> TRUE, pushed |-> request[c].pulls]
                 ELSE [ok |-> FALSE])
    /\ synced' = [synced EXCEPT ![c] = /\ Duplicates(serverData, request[c].pushes) = {}
                                       /\ Duplicates(clientData[c], request[c].pulls) = {}]
    /\ Goto(c, "syncAnswered")
    /\ UNCHANGED <<hash, clientData, maps, truth, client, server, request,
                   res, result, initial, fresh, sessions>>

(* Whether the exchange has succeeded is not looked at. *)
ReceiveSynchronize(c) ==
    /\ phase[c] = "syncAnswered"
    /\ synced' = [synced EXCEPT ![c] = @ /\ reply[c].ok]
    /\ clientData' = IF reply[c].ok
                     THEN [clientData EXCEPT ![c] = @ \union KeysOf(reply[c].pushed)]
                     ELSE clientData
    /\ Return(c, "true")
    /\ UNCHANGED <<hash, serverData, maps, truth, server, res, initial, fresh,
                   sessions>>

SynchronizeFails(c) ==
    /\ phase[c] \in {"syncCalled", "syncAnswered"}
    /\ synced' = [synced EXCEPT ![c] = FALSE]
    /\ Return(c, "true")
    /\ UNCHANGED <<hash, clientData, serverData, maps, truth, server, res,
                   initial, fresh, sessions>>

(* No call is left to make. *)
Stopped ==
    /\ Idle /\ sessions = Sessions
    /\ UNCHANGED vars

ClientStep(c) ==
    \/ GiveUp(c) \/ Call(c) \/ Receive(c) \/ ReceiveError(c) \/ Check(c) \/ CheckThrows(c)
    \/ Synchronize(c) \/ NothingToSynchronize(c) \/ ReceiveSynchronize(c)

ServerStep(c) ==
    \/ HandleEncode(c) \/ HintCrashesServer(c) \/ HandleDecode(c) \/ HandleSynchronize(c)
    \/ server \in Down /\ (CallFails(c) \/ SynchronizeFails(c))

Next ==
    \/ Restart
    \/ \E c \in Clients :
          \/ SetUp(c) \/ Begin(c) \/ TearDown(c)
          \/ GiveUp(c) \/ Call(c) \/ HandleEncode(c) \/ HintCrashesServer(c)
          \/ HandleDecode(c) \/ CallFails(c)
          \/ Receive(c) \/ ReceiveError(c)
          \/ Check(c) \/ CheckThrows(c)
          \/ Synchronize(c) \/ NothingToSynchronize(c) \/ HandleSynchronize(c)
          \/ ReceiveSynchronize(c) \/ SynchronizeFails(c)
    \/ Stopped

Spec == Init /\ [][Next]_vars

(* The clients run on, and a call is handled, or fails if the server has   *)
(* crashed or is not ready.                                                *)
FairSpec == Spec /\ \A c \in Clients : WF_vars(ClientStep(c) \/ ServerStep(c))

-------------------------------------------------------------------------------
(* The maps of a service that uses any sketch, and the keys in the replies. *)
Offered(c) ==
    IF phase[c] \in {"answered", "syncAnswered"} /\ reply[c].ok
    THEN KeysOf(reply[c].pushed) ELSE {}

Exchange == INSTANCE KeyExchange WITH
                clientKeys <- clientData, serverKeys <- serverData,
                serverMaps <- maps, offered <- [c \in Clients |-> Offered(c)],
                running <- {c \in Clients : phase[c] # "idle"}

(* No call loses a key or invents one: whatever is lost on the way, however *)
(* stale the server's _pbs, and although other clients share it, replace    *)
(* the map or have it cleared, or bring the server down between any two     *)
(* rounds.  But for these changes of map a key that appears in the server's *)
(* map comes from the client that is served, one that appears in a client's *)
(* is one the server had when it answered, and no value is handed out for a *)
(* fake key.                                                                *)
ExchangesKeys == Exchange!Spec

(* A request that succeeds has verified the keys of the round before.  In a *)
(* running call, what was recovered in any round but the last is with the   *)
(* client; and if the server has kept its map since the call began, it was  *)
(* a true difference, and by now the server has it as well.  (Another       *)
(* client's set-up or END, or a crash, may take it from the server.)        *)
InCall(c) == phase[c] \in {"loop", "completed"}

EarlierRoundsSettled ==
    \A c \in Clients : InCall(c) =>
        \A r \in 1..(Len(client[c].recovered) - 1) :
            \A g \in 1..Len(client[c].recovered[r]) :
                \A k \in client[c].recovered[r][g] :
                    /\ k \in clientData[c]
                    /\ SameMap(c) => /\ k \in serverData
                                     /\ k \notin initial[c][1] \intersect initial[c][2]

(* A call that has the server, with no _pbs of an earlier call, to itself  *)
(* does not crash it.                                                      *)
ServerSurvives == \A c \in Clients : fresh[c] => server # Crashed

(* If a call returns true that had the server, with no _pbs of an earlier  *)
(* call, to itself, and its last exchange has succeeded and brought no key  *)
(* that was there already, then what the maps still differ by cancels to   *)
(* zero under XOR in every original group: there is no other way to miss a *)
(* difference.  (A key that an earlier round has recovered and exchanged   *)
(* can be recovered again, as a fake, in the place of three others; only   *)
(* in the last round nothing would notice.)                                *)
Agreement(c) ==
    result[c] = "true" /\ synced[c] =>
        \A o \in GroupId :
            XorSum({k \in clientData[c] (+) serverData : getGroupId_(hash, k) = o}) = {}

TrueMeansAgreement == \A c \in Clients : fresh[c] => Agreement(c)

(* The same of every call, as long as the server has kept its map. *)
TrueAlwaysMeansAgreement == \A c \in Clients : SameMap(c) => Agreement(c)

(* Every call of a client returns: rounds are counted whatever happens in  *)
(* them.                                                                   *)
CallsReturn == \A c \in Clients : phase[c] = "loop" ~> phase[c] = "idle"

(* What the tests of the service expect of a call that returns true: the   *)
(* client has every key.                                                   *)
TrueMeansUnion ==
    \A c \in Clients :
        result[c] = "true" => clientData[c] = initial[c][1] \union initial[c][2]
=============================================================================
