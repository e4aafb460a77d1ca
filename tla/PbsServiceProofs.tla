-------------------------- MODULE PbsServiceProofs --------------------------
(***************************************************************************)
(* PbsService implements KeyExchange, for all clients, maps, hash          *)
(* functions and decoders: whatever is lost or thrown, however stale the   *)
(* server's _pbs, and whenever others replace or clear its map, no other   *)
(* step loses a key or invents one.                                        *)
(*                                                                         *)
(* What makes it so is what is known of the messages in flight: a client   *)
(* pushes keys of its map, and the server hands out keys of its own.       *)
(*                                                                         *)
(* The second part is about the rounds of a call: SessionInv says what     *)
(* the objects and messages of a session are, and how far the keys of the  *)
(* last round have been verified, and EarlierRoundsSettled follows.        *)
(*                                                                         *)
(* The third is about a call that has a new _pbs of the server to itself:  *)
(* by FreshInv the two sides are in step, and the server does not crash.   *)
(*                                                                         *)
(* The fourth shows that such a call plays PbsProtocol, until the server is *)
(* left without a group: Run is that module, read off the state of the     *)
(* service, and the invariant of its rounds holds of Run.  With what the   *)
(* maps have exchanged of each round, TrueMeansAgreement follows.          *)
(***************************************************************************)
EXTENDS PbsService, ParityBitmapSketchProofs

Maps ==
    /\ clientData \in [Clients -> SUBSET Key]
    /\ serverData \in SUBSET Key

PerClient ==
    /\ phase = [c \in Clients |-> phase[c]]
    /\ request = [c \in Clients |-> request[c]]
    /\ reply = [c \in Clients |-> reply[c]]

Held(c) ==
    phase[c] \in {"called", "encoded", "syncCalled"} =>
        KeysOf(request[c].pushes) \subseteq clientData[c]

InFlight == Maps /\ PerClient /\ \A c \in Clients : Held(c) /\ Offered(c) \subseteq Key

-------------------------------------------------------------------------------
(* A loop that inserts keys adds some of them, and only such: the loops of *)
(* ReconcileParityBitmapSketch and of the client.                          *)
LEMMA InsertionAdds ==
    ASSUME NEW data, NEW keys
    PROVE  /\ data \subseteq Inserted(data, keys)
           /\ Inserted(data, keys) \subseteq data \union KeysOf(keys)
BY DEF Inserted, KeysOf

(* What the client pushes it has: the partition of the recovered keys at   *)
(* the end of a round.                                                     *)
LEMMA PushesAreHeld ==
    ASSUME NEW c
    PROVE  KeysOf(Pushes(c)) \subseteq clientData[c]
<1> DEFINE keys == KeyList(res[c])
<1>1. SUFFICES ASSUME NEW i \in DOMAIN keys, keys[i] \notin KeysOf(Missing(c))
               PROVE  keys[i] \in clientData[c]
  BY DEF Pushes, KeysOf, Without
<1>2. SUFFICES ASSUME keys[i] \notin clientData[c] PROVE FALSE
  OBVIOUS
<1>3. i \in DOMAIN Missing(c) /\ Missing(c)[i] = keys[i]
  BY <1>2 DEF Missing, Without
<1> QED
  BY <1>1, <1>3 DEF KeysOf

(* A step of one client, after which no client has lost a key, keeps what  *)
(* is known of the messages of the others, and what is offered to them.    *)
Untouched(c) ==
    \A d \in Clients \ {c} :
        phase'[d] = phase[d] /\ request'[d] = request[d] /\ reply'[d] = reply[d]

Grow == \A d \in Clients : clientData[d] \subseteq clientData'[d]

LEMMA OthersUnaffected ==
    ASSUME InFlight, NEW c \in Clients, Untouched(c), Grow, Maps', PerClient', Held(c)',
           Offered(c)' \subseteq Key
    PROVE  InFlight'
<1>1. SUFFICES ASSUME NEW d \in Clients \ {c} PROVE Held(d)' /\ Offered(d)' = Offered(d)
  BY DEF InFlight
<1>2. /\ phase'[d] = phase[d] /\ request'[d] = request[d] /\ reply'[d] = reply[d]
      /\ clientData[d] \subseteq clientData'[d]
      /\ Held(d)
  BY DEF Untouched, Grow, InFlight
<1>3. KeysOf(request'[d].pushes) = KeysOf(request[d].pushes)
  BY <1>2
<1>4. Offered(d)' = Offered(d)
  BY <1>2 DEF Offered, KeysOf
<1> QED
  BY <1>2, <1>3, <1>4 DEF Held

Offers == [c \in Clients |-> Offered(c)]

LEMMA OffersChange ==
    ASSUME NEW c \in Clients, Untouched(c)
    PROVE  /\ Offers' = [Offers EXCEPT ![c] = Offered(c)']
           /\ Offers' = [Offers EXCEPT ![c] = Offers'[c]]
<1>1. \A d \in Clients : Offers[d] = Offered(d) /\ Offers'[d] = Offered(d)'
  BY DEF Offers
<1>2. ASSUME NEW d \in Clients \ {c} PROVE Offered(d)' = Offered(d)
  <2>1. phase'[d] = phase[d] /\ reply'[d] = reply[d]
    BY DEF Untouched
  <2> QED BY <2>1 DEF Offered, KeysOf
<1>3. DOMAIN Offers = Clients /\ DOMAIN Offers' = Clients
  BY DEF Offers
<1>4. Offers = [d \in Clients |-> Offers[d]] /\ Offers' = [d \in Clients |-> Offers'[d]]
  BY <1>1 DEF Offers
<1> QED BY <1>1, <1>2, <1>3, <1>4

(* The clients that are in a call.                                         *)
Running == {c \in Clients : phase[c] # "idle"}

LEMMA CallGoesOn ==
    ASSUME InFlight, NEW c \in Clients, phase[c] # "idle",
           NEW place, place # "idle", Goto(c, place)
    PROVE  Running' = Running
BY DEF InFlight, PerClient, Running, Goto

(* A client that takes over keys of the server, or keys it has been        *)
(* offered, and perhaps returns.                                           *)
LEMMA ClientGainsImplements ==
    ASSUME InFlight, NEW c \in Clients, Running' \in {Running, Running \ {c}}, c \in Running,
           UNCHANGED <<serverData, maps>>,
           NEW gained, gained \subseteq serverData \union Offered(c),
           Maps', clientData' = [clientData EXCEPT ![c] = @ \union gained],
           PerClient', Untouched(c), Held(c)', Offered(c)' = {}
    PROVE  InFlight' /\ Exchange!ClientGains(c)
<1>1. clientData'[c] = clientData[c] \union gained
  BY DEF InFlight, Maps
<1>2. clientData' = [clientData EXCEPT ![c] = clientData'[c]]
  BY <1>1
<1>3. Exchange!Grows(clientData[c], clientData'[c], serverData \union Offers[c])
  BY <1>1 DEF Exchange!Grows, Offers
<1>4. Offers' = [Offers EXCEPT ![c] = {}]
  BY OffersChange
<1>5. Exchange!ClientGains(c)
  BY <1>2, <1>3, <1>4 DEF Exchange!ClientGains, Running, Offers
<1>6. Grow
  BY DEF InFlight, Maps, Grow
<1> QED
  BY <1>5, <1>6, OthersUnaffected

(* A call that returns, perhaps after taking keys it has been offered.     *)
LEMMA ReturnImplements ==
    ASSUME InFlight, NEW c \in Clients, phase[c] # "idle", NEW value, Return(c, value),
           UNCHANGED <<serverData, maps>>, Maps',
           NEW gained, gained \subseteq Offered(c),
           clientData' = [clientData EXCEPT ![c] = @ \union gained]
    PROVE  InFlight' /\ Exchange!ClientGains(c)
<1>1. Running' = Running \ {c} /\ c \in Running
  BY DEF InFlight, PerClient, Running, Return, Goto
<1>2. PerClient' /\ Untouched(c) /\ phase'[c] = "idle"
  BY DEF InFlight, PerClient, Untouched, Return, Goto
<1>3. Held(c)' /\ Offered(c)' = {}
  BY <1>2 DEF Held, Offered
<1> QED
  BY <1>1, <1>2, <1>3, ClientGainsImplements

LEMMA EmptyReturnImplements ==
    ASSUME InFlight, NEW c \in Clients, phase[c] # "idle", NEW value, Return(c, value),
           UNCHANGED <<clientData, serverData, maps>>
    PROVE  InFlight' /\ Exchange!ClientGains(c)
<1>1. clientData' = [clientData EXCEPT ![c] = @ \union {}] /\ Maps'
  BY DEF InFlight, Maps
<1>2. PICK gained : /\ gained \subseteq Offered(c)
                    /\ clientData' = [clientData EXCEPT ![c] = @ \union gained]
  BY <1>1
<1> QED
  BY <1>1, <1>2, ReturnImplements

(* A step that leaves the maps alone, does not end the call and offers     *)
(* nothing.                                                                *)
LEMMA StutterImplements ==
    ASSUME InFlight, NEW c \in Clients, phase[c] # "idle",
           NEW place, place # "idle", Goto(c, place),
           UNCHANGED <<clientData, serverData, maps>>,
           PerClient', Untouched(c), Held(c)', Offered(c) = {}, Offered(c)' = {}
    PROVE  InFlight' /\ UNCHANGED Exchange!vars
<1>1. Running' = Running
  BY CallGoesOn
<1>2. Maps' /\ Grow
  BY DEF InFlight, Maps, Grow
<1>3. Offers' = Offers
  <2>1. Offers' = [Offers EXCEPT ![c] = {}] /\ Offers[c] = {}
    BY OffersChange DEF Offers
  <2> QED BY <2>1 DEF Offers
<1>4. UNCHANGED Exchange!vars
  BY <1>1, <1>3 DEF Exchange!vars, Running, Offers
<1> QED
  BY <1>2, <1>4, OthersUnaffected

-------------------------------------------------------------------------------
(* Other maps: a set-up, an END, a crash.                                  *)
LEMMA OtherMapsImplement ==
    ASSUME InFlight, Maps', NEW c \in Clients,
           \A d \in Clients : d # c \/ phase[c] # "idle" => clientData'[d] = clientData[d],
           \/ UNCHANGED <<serverData, maps>>
           \/ maps' = maps + 1,
           UNCHANGED <<phase, request, reply>>
    PROVE  InFlight' /\ Exchange!Provide
<1>1. Running' = Running /\ Offers' = Offers
  BY DEF Running, Offers, Offered, KeysOf
<1>2. \A d \in Running : clientData'[d] = clientData[d]
  BY DEF Running
<1>3. Exchange!Provide
  BY <1>1, <1>2 DEF Maps, Running, Offers, Exchange!Provide
<1>4. ASSUME NEW d \in Clients PROVE Held(d)' /\ Offered(d)' = Offered(d)
  <2>1. phase[d] = "idle" \/ clientData'[d] = clientData[d]
    OBVIOUS
  <2> QED BY <2>1 DEF InFlight, Held, KeysOf, Offered
<1> QED
  BY <1>3, <1>4 DEF InFlight, PerClient

LEMMA SetUpImplements ==
    ASSUME InFlight, NEW c \in Clients, SetUp(c) PROVE InFlight' /\ Exchange!Provide
<1>1. PICK input \in Inputs :
          /\ clientData' = [clientData EXCEPT ![c] = input[1][c]]
          /\ \/ serverData' = input[2] /\ maps' = maps + 1
             \/ UNCHANGED <<serverData, maps>>
  BY DEF SetUp
<1>2. input[1] \in [Clients -> SUBSET Key] /\ input[2] \in SUBSET Key
  BY ServiceAssumption
<1>3. Maps' /\ \A d \in Clients : d # c => clientData'[d] = clientData[d]
  BY <1>1, <1>2 DEF InFlight, Maps
<1>4. phase[c] = "idle" /\ UNCHANGED <<phase, request, reply>>
  BY DEF SetUp
<1> QED
  BY <1>1, <1>3, <1>4, OtherMapsImplement

LEMMA TearDownImplements ==
    ASSUME InFlight, NEW c \in Clients, TearDown(c) PROVE InFlight' /\ Exchange!Provide
<1>1. /\ maps' = maps + 1 /\ serverData' = {}
      /\ UNCHANGED <<clientData, phase, request, reply>>
  BY DEF TearDown
<1>2. Maps'
  BY <1>1 DEF InFlight, Maps
<1> QED
  BY <1>1, <1>2, OtherMapsImplement

LEMMA HintCrashesServerImplements ==
    ASSUME InFlight, NEW c \in Clients, HintCrashesServer(c)
    PROVE  InFlight' /\ Exchange!Provide
<1>1. /\ maps' = maps + 1 /\ serverData' = {}
      /\ UNCHANGED <<clientData, phase, request, reply>>
  BY DEF HintCrashesServer
<1>2. Maps'
  BY <1>1 DEF InFlight, Maps
<1> QED
  BY <1>1, <1>2, OtherMapsImplement

LEMMA RestartImplements ==
    ASSUME InFlight, Restart PROVE InFlight' /\ UNCHANGED Exchange!vars
BY DEF Restart, InFlight, Maps, PerClient, Held, KeysOf, Offered, Exchange!vars

LEMMA BeginImplements ==
    ASSUME InFlight, NEW c \in Clients, Begin(c) PROVE InFlight' /\ Exchange!Start(c)
<1>1. Running' = Running \union {c}
  BY DEF Begin, Goto, InFlight, PerClient, Running
<1>2. PerClient' /\ Untouched(c) /\ phase[c] = "idle" /\ phase'[c] = "loop"
  BY DEF InFlight, PerClient, Untouched, Begin, Goto
<1>3. Offers' = Offers
  <2>1. Offered(c) = {} /\ Offered(c)' = {}
    BY <1>2 DEF Offered
  <2>2. Offers' = [Offers EXCEPT ![c] = {}] /\ Offers[c] = {}
    BY <1>2, <2>1, OffersChange DEF Offers
  <2> QED BY <2>2 DEF Offers
<1>4. Exchange!Start(c)
  BY <1>1, <1>3 DEF Begin, Running, Offers, Exchange!Start
<1>5. Maps' /\ Grow
  BY DEF InFlight, Maps, Grow, Begin
<1>6. Held(c)' /\ Offered(c)' \subseteq Key
  BY <1>2 DEF Held, Offered
<1> QED
  BY <1>2, <1>4, <1>5, <1>6, OthersUnaffected

-------------------------------------------------------------------------------
(* A call.                                                                 *)
LEMMA CallImplements ==
    ASSUME InFlight, NEW c \in Clients, Call(c)
    PROVE  InFlight' /\ UNCHANGED Exchange!vars
<1>1. PerClient' /\ Untouched(c) /\ phase[c] = "loop" /\ phase'[c] = "called"
  BY DEF InFlight, PerClient, Untouched, Call, Goto
<1>2. request'[c].pushes = Pushes(c)
  BY DEF InFlight, PerClient, Call
<1>3. UNCHANGED <<clientData, serverData, maps>>
  BY DEF Call
<1>4. KeysOf(request'[c].pushes) \subseteq clientData'[c]
  BY <1>2, <1>3, PushesAreHeld
<1>5. Held(c)' /\ Offered(c) = {} /\ Offered(c)' = {}
  BY <1>1, <1>4 DEF Held, Offered
<1>6. phase[c] # "idle" /\ Goto(c, "called")
  BY DEF Call
<1> QED
  BY <1>1, <1>3, <1>5, <1>6, StutterImplements

LEMMA HandleEncodeImplements ==
    ASSUME InFlight, NEW c \in Clients, HandleEncode(c)
    PROVE  InFlight' /\ UNCHANGED Exchange!vars
<1>1. /\ phase[c] = "called"
      /\ UNCHANGED <<clientData, serverData, maps, request>>
      /\ \/ Goto(c, "answered") /\ Answer(c, [ok |-> FALSE])
         \/ Goto(c, "encoded") /\ UNCHANGED reply
  BY DEF HandleEncode, FirstEncode, LaterEncode
<1>2. PerClient' /\ Untouched(c)
  BY <1>1 DEF InFlight, PerClient, Untouched, Goto, Answer
<1>3. KeysOf(request'[c].pushes) \subseteq clientData'[c]
  BY <1>1 DEF InFlight, Held
<1>4. \/ phase'[c] = "answered" /\ ~reply'[c].ok
      \/ phase'[c] = "encoded"
  BY <1>1 DEF InFlight, PerClient, Goto, Answer
<1>5. Held(c)' /\ Offered(c) = {} /\ Offered(c)' = {}
  BY <1>1, <1>3, <1>4 DEF Held, Offered
<1> QED
  BY <1>1, <1>2, <1>5, StutterImplements

(* The server takes over the pushed keys, all of them or as many as come   *)
(* before a duplicate, whatever it answers; what it hands out it has.      *)
LEMMA ServerGainsImplements ==
    ASSUME InFlight, NEW c \in Clients, phase[c] # "idle",
           NEW place, place # "idle", Goto(c, place),
           UNCHANGED <<clientData, request, maps>>,
           serverData \subseteq serverData', serverData' \subseteq serverData \union clientData[c],
           PerClient', Untouched(c), Held(c)', Offered(c)' \subseteq serverData'
    PROVE  InFlight' /\ Exchange!ServerGains(c)
<1>1. Running' = Running /\ c \in Running
  BY CallGoesOn DEF Running
<1>2. Exchange!Grows(serverData, serverData', clientData[c])
  BY DEF Exchange!Grows
<1>3. Offers' = [Offers EXCEPT ![c] = Offers'[c]] /\ Offers'[c] \subseteq serverData'
  BY OffersChange DEF Offers
<1>4. Exchange!ServerGains(c)
  BY <1>1, <1>2, <1>3 DEF Running, Offers, Exchange!ServerGains
<1>5. Maps' /\ Grow
  BY DEF InFlight, Maps, Grow
<1>6. Offered(c)' \subseteq Key
  BY <1>5 DEF Maps
<1> QED
  BY <1>4, <1>5, <1>6, OthersUnaffected

LEMMA HandleDecodeImplements ==
    ASSUME InFlight, NEW c \in Clients, HandleDecode(c)
    PROVE  InFlight' /\ Exchange!ServerGains(c)
<1>1. /\ phase[c] = "encoded" /\ Goto(c, "answered")
      /\ UNCHANGED <<clientData, request, maps>>
      /\ serverData' = Inserted(serverData, request[c].pushes)
  BY DEF HandleDecode
<1>2. PICK dec :
          Answer(c, IF PushesFail(c) \/ LookupsFail(c) THEN [ok |-> FALSE]
                    ELSE [ok |-> TRUE, pushed |-> request[c].missing, dec |-> dec])
  BY DEF HandleDecode
<1>3. PerClient' /\ Untouched(c) /\ phase'[c] = "answered"
  BY <1>1, <1>2 DEF InFlight, PerClient, Untouched, Goto, Answer
<1>4. KeysOf(request[c].pushes) \subseteq clientData[c]
  BY <1>1 DEF InFlight, Held
<1>5. serverData \subseteq serverData' /\ serverData' \subseteq serverData \union clientData[c]
  BY <1>1, <1>4, InsertionAdds
<1>6. reply'[c].ok => reply'[c].pushed = request[c].missing /\ ~LookupsFail(c)
  BY <1>2 DEF InFlight, PerClient, Answer
<1>7. reply'[c].ok => KeysOf(reply'[c].pushed) \subseteq serverData'
  BY <1>1, <1>6 DEF LookupsFail
<1>8. Held(c)' /\ Offered(c)' \subseteq serverData'
  BY <1>3, <1>7 DEF Held, Offered
<1> QED
  BY <1>1, <1>3, <1>5, <1>8, ServerGainsImplements

LEMMA HandleSynchronizeImplements ==
    ASSUME InFlight, NEW c \in Clients, HandleSynchronize(c)
    PROVE  InFlight' /\ Exchange!ServerGains(c)
<1>1. /\ phase[c] = "syncCalled" /\ Goto(c, "syncAnswered")
      /\ UNCHANGED <<clientData, request, maps>>
      /\ serverData' = serverData \union KeysOf(request[c].pushes)
      /\ Answer(c, IF KeysOf(request[c].pulls) \subseteq serverData'
                   THEN [ok |-> TRUE, pushed |-> request[c].pulls]
                   ELSE [ok |-> FALSE])
  BY DEF HandleSynchronize
<1>2. PerClient' /\ Untouched(c) /\ phase'[c] = "syncAnswered"
  BY <1>1 DEF InFlight, PerClient, Untouched, Goto, Answer
<1>3. KeysOf(request[c].pushes) \subseteq clientData[c]
  BY <1>1 DEF InFlight, Held
<1>4. reply'[c] = IF KeysOf(request[c].pulls) \subseteq serverData'
                  THEN [ok |-> TRUE, pushed |-> request[c].pulls]
                  ELSE [ok |-> FALSE]
  BY <1>1 DEF InFlight, PerClient, Answer
<1>5. reply'[c].ok => KeysOf(reply'[c].pushed) \subseteq serverData'
  BY <1>4
<1>6. Held(c)' /\ Offered(c)' \subseteq serverData'
  BY <1>2, <1>5 DEF Held, Offered
<1> QED
  BY <1>1, <1>2, <1>3, <1>6, ServerGainsImplements

(* The client takes over the keys of an answer, all or as many as come     *)
(* before a duplicate.                                                     *)
LEMMA TakeTakesOfferedKeys ==
    ASSUME InFlight, NEW c \in Clients, phase[c] = "answered", reply[c].ok, Take(c),
           UNCHANGED serverData
    PROVE  Maps' /\ \E gained : /\ gained \subseteq Offered(c)
                                /\ clientData' = [clientData EXCEPT ![c] = @ \union gained]
<1> DEFINE all == Inserted(clientData[c], reply[c].pushed)
<1>1. KeysOf(reply[c].pushed) = Offered(c)
  BY DEF Offered
<1>2. clientData[c] \subseteq all /\ all \subseteq clientData[c] \union Offered(c)
  BY <1>1, InsertionAdds
<1>3. all = clientData[c] \union (all \ clientData[c]) /\ all \ clientData[c] \subseteq Offered(c)
  BY <1>2
<1>4. clientData' = [clientData EXCEPT ![c] = @ \union (all \ clientData[c])]
  BY <1>3 DEF Take
<1>5. Maps'
  BY <1>3, <1>4 DEF InFlight, Maps
<1> QED
  BY <1>3, <1>4, <1>5

LEMMA ReceiveImplements ==
    ASSUME InFlight, NEW c \in Clients, Receive(c)
    PROVE  InFlight' /\ Exchange!ClientGains(c)
<1>1. /\ phase[c] = "answered" /\ reply[c].ok /\ Take(c) /\ Goto(c, "received")
      /\ UNCHANGED <<serverData, maps, request>>
      /\ \E message : Answer(c, message)
  BY DEF Receive
<1>2. PICK gained : /\ gained \subseteq Offered(c)
                    /\ clientData' = [clientData EXCEPT ![c] = @ \union gained]
  BY <1>1, TakeTakesOfferedKeys
<1>3. Running' = Running /\ c \in Running
  BY <1>1, CallGoesOn DEF Running
<1>4. PerClient' /\ Untouched(c) /\ phase'[c] = "received"
  BY <1>1 DEF InFlight, PerClient, Untouched, Goto, Answer
<1>5. Held(c)' /\ Offered(c)' = {}
  BY <1>4 DEF Held, Offered
<1>6. Maps'
  BY <1>1, TakeTakesOfferedKeys
<1>7. gained \subseteq serverData \union Offered(c)
  BY <1>2
<1> QED
  BY <1>1, <1>2, <1>3, <1>4, <1>5, <1>6, <1>7, ClientGainsImplements

LEMMA ReceiveErrorImplements ==
    ASSUME InFlight, NEW c \in Clients, ReceiveError(c)
    PROVE  InFlight' /\ Exchange!ClientGains(c)
<1>1. phase[c] = "answered" /\ Return(c, "false") /\ UNCHANGED <<serverData, maps>>
  BY DEF ReceiveError
<1>2. CASE UNCHANGED clientData
  BY <1>1, <1>2, EmptyReturnImplements
<1>3. CASE reply[c].ok /\ Take(c)
  <2>1. PICK gained : /\ gained \subseteq Offered(c)
                      /\ clientData' = [clientData EXCEPT ![c] = @ \union gained]
    BY <1>1, <1>3, TakeTakesOfferedKeys
  <2>2. Maps'
    BY <1>1, <1>3, TakeTakesOfferedKeys
  <2> QED
    BY <1>1, <2>1, <2>2, ReturnImplements
<1> QED
  BY <1>2, <1>3 DEF ReceiveError

LEMMA CheckImplements ==
    ASSUME InFlight, NEW c \in Clients, Check(c)
    PROVE  InFlight' /\ UNCHANGED Exchange!vars
<1>1. /\ phase[c] = "received"
      /\ UNCHANGED <<clientData, serverData, maps>>
      /\ request' = [request EXCEPT ![c] = NoMessage] /\ Answer(c, NoMessage)
  BY DEF Check
<1>2. PICK place \in {"completed", "loop"} : Goto(c, place)
  BY DEF Check
<1>3. PerClient' /\ Untouched(c) /\ phase'[c] = place
  BY <1>1, <1>2 DEF InFlight, PerClient, Untouched, Goto, Answer
<1>4. Held(c)' /\ Offered(c) = {} /\ Offered(c)' = {}
  BY <1>1, <1>3 DEF Held, Offered
<1> QED
  BY <1>1, <1>2, <1>3, <1>4, StutterImplements

LEMMA SynchronizeImplements ==
    ASSUME InFlight, NEW c \in Clients, Synchronize(c)
    PROVE  InFlight' /\ UNCHANGED Exchange!vars
<1>1. /\ phase[c] = "completed" /\ Goto(c, "syncCalled")
      /\ UNCHANGED <<clientData, serverData, maps, reply, res>>
      /\ request' = [request EXCEPT ![c] = [pushes |-> Pushes(c), pulls |-> Missing(c)]]
  BY DEF Synchronize
<1>2. PerClient' /\ Untouched(c) /\ phase'[c] = "syncCalled"
  BY <1>1 DEF InFlight, PerClient, Untouched, Goto
<1>3. request'[c].pushes = Pushes(c)
  BY <1>1 DEF InFlight, PerClient
<1>4. KeysOf(request'[c].pushes) \subseteq clientData'[c]
  BY <1>1, <1>3, PushesAreHeld
<1>5. Held(c)' /\ Offered(c) = {} /\ Offered(c)' = {}
  BY <1>1, <1>2, <1>4 DEF Held, Offered
<1> QED
  BY <1>1, <1>2, <1>5, StutterImplements

LEMMA ReceiveSynchronizeImplements ==
    ASSUME InFlight, NEW c \in Clients, ReceiveSynchronize(c)
    PROVE  InFlight' /\ Exchange!ClientGains(c)
<1>1. phase[c] = "syncAnswered" /\ Return(c, "true") /\ UNCHANGED <<serverData, maps>>
  BY DEF ReceiveSynchronize
<1>2. CASE reply[c].ok
  <2>1. Offered(c) = KeysOf(reply[c].pushed) /\ Offered(c) \subseteq Key
    BY <1>1, <1>2 DEF InFlight, Offered
  <2>2. clientData' = [clientData EXCEPT ![c] = @ \union KeysOf(reply[c].pushed)]
    BY <1>2 DEF ReceiveSynchronize
  <2>3. Maps'
    BY <1>1, <2>1, <2>2 DEF InFlight, Maps
  <2> QED
    BY <1>1, <2>1, <2>2, <2>3, ReturnImplements
<1>3. CASE ~reply[c].ok
  <2>1. UNCHANGED clientData
    BY <1>3 DEF ReceiveSynchronize
  <2> QED
    BY <1>1, <2>1, EmptyReturnImplements
<1> QED
  BY <1>2, <1>3

-------------------------------------------------------------------------------
LEMMA InitImplements ==
    Init => InFlight /\ Exchange!Init
BY DEF Init, InFlight, Maps, PerClient, Held, Offered, Exchange!Init

(* Every step of the service is one of the abstract exchange, or none.     *)
LEMMA StepImplements ==
    ASSUME InFlight, [Next]_vars
    PROVE  InFlight' /\ [Exchange!Next]_(Exchange!vars)
<1>1. CASE UNCHANGED vars
  BY <1>1 DEF vars, InFlight, Maps, PerClient, Held, Offered, KeysOf, Exchange!vars
<1>2. CASE Restart
  BY <1>2, RestartImplements
<1>3. ASSUME NEW c \in Clients, Begin(c) PROVE InFlight' /\ Exchange!Next
  BY <1>3, BeginImplements DEF Exchange!Next
<1>4. ASSUME NEW c \in Clients, SetUp(c) \/ TearDown(c) \/ HintCrashesServer(c)
      PROVE  InFlight' /\ Exchange!Next
  BY <1>4, SetUpImplements, TearDownImplements, HintCrashesServerImplements
     DEF Exchange!Next
<1>5. ASSUME NEW c \in Clients,
             GiveUp(c) \/ CallFails(c) \/ CheckThrows(c) \/ NothingToSynchronize(c)
                \/ SynchronizeFails(c)
      PROVE  InFlight' /\ Exchange!Next
  <2>1. /\ phase[c] # "idle" /\ UNCHANGED <<clientData, serverData, maps>>
        /\ \E value : Return(c, value)
    BY <1>5 DEF GiveUp, CallFails, CheckThrows, NothingToSynchronize, SynchronizeFails
  <2> QED
    BY <2>1, EmptyReturnImplements DEF Exchange!Next
<1>6. ASSUME NEW c \in Clients,
             Call(c) \/ HandleEncode(c) \/ Check(c) \/ Synchronize(c)
      PROVE  InFlight' /\ UNCHANGED Exchange!vars
  BY <1>6, CallImplements, HandleEncodeImplements, CheckImplements, SynchronizeImplements
<1>7. ASSUME NEW c \in Clients, HandleDecode(c) \/ HandleSynchronize(c)
      PROVE  InFlight' /\ Exchange!Next
  BY <1>7, HandleDecodeImplements, HandleSynchronizeImplements DEF Exchange!Next
<1>8. ASSUME NEW c \in Clients, Receive(c) \/ ReceiveError(c) \/ ReceiveSynchronize(c)
      PROVE  InFlight' /\ Exchange!Next
  BY <1>8, ReceiveImplements, ReceiveErrorImplements, ReceiveSynchronizeImplements
     DEF Exchange!Next
<1> QED
  BY <1>1, <1>2, <1>3, <1>4, <1>5, <1>6, <1>7, <1>8 DEF Next, Stopped

(* PBS over gRPC implements the exchange of keys: ExchangesKeys, whatever   *)
(* is lost, thrown or stale, and although other clients share the server,  *)
(* replace or clear its map and bring it down while a call runs.           *)
THEOREM ServiceExchangesKeys == Spec => ExchangesKeys
<1>1. Init => InFlight /\ Exchange!Init
  BY InitImplements
<1>2. InFlight /\ [Next]_vars => InFlight' /\ [Exchange!Next]_(Exchange!vars)
  BY StepImplements
<1> QED
  BY <1>1, <1>2, PTL DEF Spec, ExchangesKeys, Exchange!Spec

-------------------------------------------------------------------------------
(* The messages of a call.  What is known of them is proved in             *)
(* PbsMessagesProofs, of the operators of PbsWire under another name.      *)
Msgs == INSTANCE PbsMessagesProofs WITH
            Codes <- {}, MaxGroups <- 1, MaxRange <- 1,
            message <- << >>, buffer <- << >>, received <- << >>

Bits == {0, 1}

LEMMA SameFlatten == \A ss : Seqs!FlattenSeq(ss) = Msgs!FlattenSeq(ss)
BY DEF Seqs!FlattenSeq, Msgs!FlattenSeq

LEMMA SameWriteHint ==
    \A range, ids : Wire!WriteHint(range, ids) = Msgs!WriteHint(range, ids)
BY DEF Wire!WriteHint, Wire!Flushed, Wire!Bits2Bytes, Wire!FlattenSeq, Wire!Field,
       Wire!BitsEach, Wire!CeilLog2,
       Msgs!WriteHint, Msgs!Flushed, Msgs!Bits2Bytes, Msgs!FlattenSeq, Msgs!Field,
       Msgs!BitsEach, Msgs!CeilLog2

LEMMA SameParseHint ==
    \A range, bits : Wire!ParseHint(range, bits) = Msgs!ParseHint(range, bits)
BY DEF Wire!ParseHint, Wire!HintEnd, Wire!HintCount, Wire!HintId, Wire!ReadAt, Wire!BitAt,
       Wire!Min, Wire!BitsEach, Wire!CeilLog2,
       Msgs!ParseHint, Msgs!HintEnd, Msgs!HintCount, Msgs!HintId, Msgs!ReadAt, Msgs!BitAt,
       Msgs!Min, Msgs!BitsEach, Msgs!CeilLog2

LEMMA SameWriteDecoding ==
    \A m, t, groups : Wire!WriteDecoding(m, t, groups) = Msgs!WriteDecoding(m, t, groups)
BY DEF Wire!WriteDecoding, Wire!Flushed, Wire!Bits2Bytes, Wire!FlattenSeq, Wire!Field,
       Wire!FailureFlag, Wire!SizeofEachD, Wire!CeilLog2, Wire!UIntXMax,
       Wire!Counts, Wire!Positions, Wire!OfDecoded, Wire!Failed,
       Msgs!WriteDecoding, Msgs!Flushed, Msgs!Bits2Bytes, Msgs!FlattenSeq, Msgs!Field,
       Msgs!FailureFlag, Msgs!SizeofEachD, Msgs!CeilLog2, Msgs!UIntXMax,
       Msgs!Counts, Msgs!Positions, Msgs!OfDecoded, Msgs!Failed

LEMMA SameParseDecoding ==
    \A m, t, n, bits : Wire!ParseDecoding(m, t, n, bits) = Msgs!ParseDecoding(m, t, n, bits)
BY DEF Wire!ParseDecoding, Wire!Bits2Bytes, Wire!Bytes, Wire!FailureFlag, Wire!ReadAt,
       Wire!BitAt, Wire!CeilLog2, Wire!SizeofEachD, Wire!UIntXMax, Wire!SumOf, Wire!SumUpTo,
       Msgs!ParseDecoding, Msgs!Bits2Bytes, Msgs!Bytes, Msgs!FailureFlag, Msgs!ReadAt,
       Msgs!BitAt, Msgs!CeilLog2, Msgs!SizeofEachD, Msgs!UIntXMax, Msgs!SumOf, Msgs!SumUpTo

LEMMA SameSum == \A counts, n : Wire!SumUpTo(counts, n) = Msgs!SumUpTo(counts, n)
BY DEF Wire!SumUpTo, Msgs!SumUpTo

LEMMA SameCid == \A counts, g : Wire!CidOf(counts, g) = Msgs!CidOf(counts, g)
BY DEF Wire!CidOf, Msgs!CidOf, Wire!Cardinality, Msgs!Cardinality

LEMMA HintSent ==
    \A range \in Nat \ {0} : \A ids \in Seq(Nat) : Wire!WriteHint(range, ids) \in Seq(Bits)
<1>1. ByteBits \in Nat \ {0}
  BY ServiceAssumption
<1> QED BY <1>1, SameWriteHint, Msgs!HintIsBits DEF Bits, Msgs!Bits

(* The ids that a receiver makes of a hint are numbers, below the range if *)
(* the parser does not throw.                                              *)
HintIs(range, hint) ==
    /\ Len(hint.ids) \in Nat /\ hint.ids \in [1..Len(hint.ids) -> Nat]
    /\ ~hint.threw => \A i \in 1..Len(hint.ids) : hint.ids[i] < range

LEMMA HintParsed ==
    \A range \in Nat : \A bits \in Seq(Bits) :
        bits = << >> \/ Wire!HintDivides(range, bits) => HintIs(range, Wire!ParseHint(range, bits))
<1> SUFFICES ASSUME NEW range \in Nat, NEW bits \in Seq(Bits),
                    bits = << >> \/ Wire!HintDivides(range, bits)
             PROVE  HintIs(range, Wire!ParseHint(range, bits))
  OBVIOUS
<1>1. bits \in Seq(Msgs!Bits) /\ (bits = << >> \/ range # 1)
  BY DEF Wire!HintDivides, Bits, Msgs!Bits
<1>2. ByteBits \in Nat \ {0}
  BY ServiceAssumption
<1>3. Msgs!HintLaw(range, Msgs!ParseHint(range, bits))
  BY <1>1, <1>2, Msgs!AnyHint
<1>4. Wire!ParseHint(range, bits) = Msgs!ParseHint(range, bits)
  BY SameParseHint
<1> QED BY <1>3, <1>4 DEF HintIs, Msgs!HintLaw

-------------------------------------------------------------------------------
(* Lists of lists.                                                         *)
HoldsAll(s, ss) == \A g \in 1..Len(ss) : \A k \in 1..Len(ss[g]) : \E i \in 1..Len(s) : s[i] = ss[g][k]

LEMMA FlattenHolds ==
    ASSUME NEW S, NEW ss \in Seq(Seq(S))
    PROVE  Seqs!FlattenSeq(ss) \in Seq(S) /\ HoldsAll(Seqs!FlattenSeq(ss), ss)
<1>1. ByteBits \in Nat \ {0}
  BY ServiceAssumption
<1>2. Seqs!FlattenSeq(ss) = Msgs!FlattenSeq(ss)
  BY SameFlatten
<1>3. Msgs!FlattenSeq(ss) \in Seq(S) /\ Msgs!Placed(Msgs!FlattenSeq(ss), ss, Len(ss))
  BY <1>1, Msgs!FlattenPlaces
<1> QED BY <1>2, <1>3 DEF HoldsAll, Msgs!Placed

(* A finite set as a list. *)
LEMMA ListOfSet ==
    ASSUME NEW S, IsFiniteSet(S)
    PROVE  /\ Seqs!SetToSeq(S) \in Seq(S)
           /\ \A k \in S : \E i \in 1..Len(Seqs!SetToSeq(S)) : Seqs!SetToSeq(S)[i] = k
<1> DEFINE n == Cardinality(S)
           q == Seqs!SetToSeq(S)
<1>1. n \in Nat /\ ExistsBijection(1..n, S)
  BY FS_CardinalityType
<1> HIDE DEF n
<1>2. PICK f \in [1..n -> S] : IsInjective(f)
  BY <1>1 DEF ExistsBijection, Bijection, Injection
<1>3. q = CHOOSE h \in [1..n -> S] : IsInjective(h)
  BY DEF Seqs!SetToSeq, Seqs!IsInjective, IsInjective, Seqs!Cardinality, Cardinality, n
<1> HIDE DEF q
<1>4. q \in [1..n -> S] /\ IsInjective(q)
  BY <1>2, <1>3
<1>5. q \in Injection(1..n, S)
  BY <1>4 DEF Injection
<1>6. IsFiniteSet(1..n) /\ Cardinality(1..n) = n
  BY <1>1, FS_Interval
<1>7. q \in Surjection(1..n, S)
  BY <1>5, <1>6, FS_Injection DEF n
<1>8. q \in Seq(S) /\ Len(q) = n
  BY <1>1, <1>4
<1>9. \A k \in S : \E i \in 1..n : q[i] = k
  BY <1>7 DEF Surjection
<1> QED BY <1>8, <1>9 DEF q

(* The keys of the groups of a round, and the client's list of them.       *)
KeysIn(groups) == UNION {groups[g] : g \in 1..Len(groups)}

LEMMA ListOfKeys ==
    ASSUME NEW groups \in Seq(SUBSET Key)
    PROVE  KeysIn(groups) \subseteq KeysOf(KeyList(groups))
<1> DEFINE n == Len(groups)
           ss == [g \in 1..n |-> Seqs!SetToSeq(groups[g])]
           s == KeyList(groups)
<1>1. n \in Nat
  OBVIOUS
<1>2. ASSUME NEW g \in 1..n
      PROVE  /\ ss[g] \in Seq(Key)
             /\ \A k \in groups[g] : \E i \in 1..Len(ss[g]) : ss[g][i] = k
  <2>1. groups[g] \in SUBSET Key
    OBVIOUS
  <2>2. IsFiniteSet(groups[g])
    BY <2>1, KeysAreFinite
  <2> DEFINE q == Seqs!SetToSeq(groups[g])
  <2>3. q \in Seq(groups[g]) /\ \A k \in groups[g] : \E i \in 1..Len(q) : q[i] = k
    BY <2>2, ListOfSet
  <2>4. ss[g] = q
    OBVIOUS
  <2> HIDE DEF q, ss
  <2>5. q \in Seq(Key)
    BY <2>1, <2>3
  <2> QED BY <2>3, <2>4, <2>5
<1>3. s = Seqs!FlattenSeq(ss)
  BY DEF KeyList
<1>4. ss \in [1..n -> Seq(Key)]
  BY <1>2
<1>5. Len(ss) = n
  BY <1>1
<1> HIDE DEF ss
<1>6. ss \in Seq(Seq(Key))
  BY <1>1, <1>4
<1>7. s \in Seq(Key) /\ HoldsAll(s, ss)
  BY <1>3, <1>6, FlattenHolds
<1> HIDE DEF s
<1>8. ASSUME NEW k \in KeysIn(groups) PROVE k \in KeysOf(s)
  <2>1. PICK g \in 1..n : k \in groups[g]
    BY DEF KeysIn
  <2>2. PICK i \in 1..Len(ss[g]) : ss[g][i] = k
    BY <1>2, <2>1
  <2>3. PICK j \in 1..Len(s) : s[j] = k
    BY <1>5, <1>7, <2>2 DEF HoldsAll
  <2>4. j \in DOMAIN s
    BY <1>7, <2>3
  <2> QED BY <2>3, <2>4 DEF KeysOf
<1> QED BY <1>8 DEF s

-------------------------------------------------------------------------------
(* The answer of the server: bits, lists of keys, and what the client      *)
(* makes of them.                                                          *)
LEMMA GroupDecodingIs ==
    \A d \in GroupDecoding :
        d.ok \in BOOLEAN /\ d.at \in SUBSET Position /\ d.xors \in [d.at -> Key] /\ d.sum \in Key
BY DEF GroupDecoding

LEMMA IsGroupDecoding ==
    \A ok \in BOOLEAN : \A at \in SUBSET Position : \A xors \in [at -> Key] : \A sum \in Key :
        [ok |-> ok, at |-> at, xors |-> xors, sum |-> sum] \in GroupDecoding
BY DEF GroupDecoding

(* The positions of a group, which are not the mark of a failed one.       *)
ArePositions(s, at) ==
    /\ s \in Seq(Nat) /\ Len(s) = Cardinality(at) /\ Len(s) <= BchN
    /\ \A k \in 1..Len(s) : s[k] \in at /\ s[k] \in 1..BchN
    /\ s # Wire!Failed

LEMMA OrderedPositions ==
    ASSUME NEW at \in SUBSET Position
    PROVE  ArePositions(Ordered(at), at)
<1> DEFINE s == Ordered(at)
           n == Cardinality(at)
<1>1. BchN \in Nat /\ at \in SUBSET (1..BchN)
  BY SketchAssumption DEF Position
<1>2. n \in Nat /\ n <= BchN /\ s \in [1..n -> at]
  BY <1>1, OrderedProperties
<1> HIDE DEF n, s
<1>a. \A k \in 1..n : s[k] \in at
  BY <1>2
<1>b. \A k \in 1..n : s[k] \in 1..BchN
  BY <1>1, <1>a
<1>c. \A k \in 1..n : s[k] \in Nat
  BY <1>1, <1>b
<1>4. s \in [1..n -> Nat]
  BY <1>2, <1>c
<1>5. s \in Seq(Nat) /\ Len(s) = n
  BY <1>2, <1>4, FunctionIsSeq
<1>3. Len(s) = n /\ \A k \in 1..n : s[k] \in at /\ s[k] \in 1..BchN
  BY <1>5, <1>a, <1>b
<1>6. s # Wire!Failed
  <2>1. Len(Wire!Failed) = 1 /\ Wire!Failed[1] = 0
    BY DEF Wire!Failed
  <2>2. ASSUME s = Wire!Failed PROVE FALSE
    <3>1. 1 \in 1..n /\ s[1] = 0
      BY <1>3, <2>1, <2>2
    <3>2. 0 \in 1..BchN
      BY <1>3, <3>1
    <3> QED BY <1>1, <3>2
  <2> QED BY <2>2
<1> QED BY <1>2, <1>3, <1>5, <1>6 DEF ArePositions, s, n

LEMMA AnswerIsBits ==
    ASSUME NEW dec \in DecodingMessage
    PROVE  MessageBits(dec) \in Seq(Bits)
<1> DEFINE n == Len(dec)
           groups == [g \in 1..n |-> Positions(dec, g)]
<1>1. n \in Nat /\ \A g \in 1..n : dec[g].at \in SUBSET Position
  BY GroupDecodingIs DEF DecodingMessage
<1>2. BchN \in Nat /\ BchM \in Nat /\ BchT \in Nat /\ ByteBits \in Nat \ {0} /\ BchN = 2^BchM - 1
  BY SketchAssumption, ServiceAssumption
<1>3. ASSUME NEW g \in 1..n PROVE Msgs!IsOutcome(groups[g], BchM, BchN)
  <2> DEFINE s == Ordered(dec[g].at)
  <2>1. ArePositions(s, dec[g].at)
    BY <1>1, OrderedPositions
  <2>2. groups[g] = IF dec[g].ok THEN s ELSE Wire!Failed
    BY DEF Positions
  <2> HIDE DEF groups, s
  <2>3. Msgs!Failed = Wire!Failed
    BY DEF Msgs!Failed, Wire!Failed
  <2>4. ASSUME NEW k \in 1..Len(s) PROVE s[k] < 2^BchM
    <3> DEFINE e == 2^BchM
    <3>1. s[k] \in 1..BchN /\ BchN = e - 1 /\ e \in Nat
      BY <1>2, <2>1, Msgs!Stream!PowerType DEF ArePositions
    <3> HIDE DEF e
    <3>2. s[k] < e
      BY <1>2, <3>1
    <3> QED BY <3>2 DEF e
  <2>5. Msgs!IsOutcome(s, BchM, BchN)
    BY <2>1, <2>3, <2>4 DEF ArePositions, Msgs!IsOutcome
  <2>6. Msgs!IsOutcome(Wire!Failed, BchM, BchN)
    BY <2>3 DEF Msgs!IsOutcome
  <2> QED BY <2>2, <2>5, <2>6
<1>4. Len(groups) = n /\ groups = [g \in 1..n |-> groups[g]]
  BY <1>1
<1>5. MessageBits(dec) = Wire!WriteDecoding(BchM, BchT, groups)
  BY DEF MessageBits
<1> HIDE DEF groups
<1>6. Msgs!AreOutcomes(groups, BchM, BchN)
  BY <1>1, <1>3, <1>4 DEF Msgs!AreOutcomes
<1>7. Msgs!WriteDecoding(BchM, BchT, groups) \in Seq(Msgs!Bits)
  BY <1>2, <1>6, Msgs!DecodingIsBits
<1> QED BY <1>5, <1>7, SameWriteDecoding DEF Bits, Msgs!Bits

LEMMA AnswerLists ==
    ASSUME NEW dec \in DecodingMessage
    PROVE  XorList(dec) \in Seq(Key) /\ SumList(dec) \in Seq(Key)
<1> DEFINE n == Len(dec)
           xs(g) == [k \in 1..Cardinality(dec[g].at) |-> dec[g].xors[Positions(dec, g)[k]]]
           sx == [g \in 1..n |-> IF dec[g].ok THEN xs(g) ELSE << >>]
           ss == [g \in 1..n |-> IF dec[g].ok THEN <<dec[g].sum>> ELSE << >>]
<1>1. /\ n \in Nat
      /\ \A g \in 1..n : /\ dec[g].at \in SUBSET Position /\ dec[g].xors \in [dec[g].at -> Key]
                         /\ dec[g].sum \in Key
  BY GroupDecodingIs DEF DecodingMessage
<1>2. << >> \in Seq(Key)
  OBVIOUS
<1>3. ASSUME NEW g \in 1..n PROVE sx[g] \in Seq(Key) /\ ss[g] \in Seq(Key)
  <2>1. ASSUME dec[g].ok PROVE xs(g) \in Seq(Key)
    <3> DEFINE at == dec[g].at
               l == Cardinality(at)
    <3>1. ArePositions(Ordered(at), at) /\ Positions(dec, g) = Ordered(at)
      BY <1>1, <2>1, OrderedPositions DEF Positions
    <3>2. l \in Nat /\ \A k \in 1..l : Positions(dec, g)[k] \in at
      BY <3>1 DEF ArePositions
    <3>3. xs(g) \in [1..l -> Key]
      BY <1>1, <3>2
    <3> HIDE DEF l, xs
    <3> QED BY <3>2, <3>3
  <2>2. <<dec[g].sum>> \in Seq(Key)
    BY <1>1
  <2>3. sx[g] = (IF dec[g].ok THEN xs(g) ELSE << >>) /\ ss[g] = IF dec[g].ok THEN <<dec[g].sum>> ELSE << >>
    OBVIOUS
  <2> HIDE DEF sx, ss, xs
  <2> QED BY <1>2, <2>1, <2>2, <2>3
<1>4. sx \in [1..n -> Seq(Key)] /\ ss \in [1..n -> Seq(Key)]
  BY <1>3
<1>5. XorList(dec) = Seqs!FlattenSeq(sx) /\ SumList(dec) = Seqs!FlattenSeq(ss)
  BY DEF XorList, SumList
<1> DEFINE T == Seq(Key)
<1> HIDE DEF sx, ss, n, T
<1>6. sx \in Seq(T) /\ ss \in Seq(T)
  <2>1. n \in Nat /\ sx \in [1..n -> T] /\ ss \in [1..n -> T]
    BY <1>1, <1>4 DEF T
  <2>2. sx \in Seq(T)
    BY <2>1, FunctionIsSeq
  <2>3. ss \in Seq(T)
    BY <2>1, FunctionIsSeq
  <2> QED BY <2>2, <2>3
<1> USE DEF T
<1> QED BY <1>5, <1>6, FlattenHolds

UnderstoodAs(n, dec) == dec \in DecodingMessage /\ Len(dec) = n

LEMMA UnderstoodType ==
    ASSUME NEW n \in Nat, NEW bits \in Seq(Bits), NEW xors \in Seq(Key), NEW sums \in Seq(Key),
           NEW parsed, parsed = Wire!ParseDecoding(BchM, BchT, n, bits),
           ~Wire!CheckThrows(parsed, xors, sums)
    PROVE  UnderstoodAs(n, Understood(parsed, xors, sums))
<1> DEFINE c == parsed.counts
           p == parsed.positions
           l == Wire!SumUpTo(c, n)
           slice(g) == Slice(c, g)
           at(g) == {p[i] : i \in slice(g)} \ {0}
           row(g) == [b \in at(g) |-> xors[CHOOSE i \in slice(g) : p[i] = b]]
           sum(g) == sums[Wire!CidOf(c, g)]
           dec == Understood(parsed, xors, sums)
<1>1. /\ BchN \in Nat /\ BchM \in Nat /\ BchT \in Nat /\ ByteBits \in Nat \ {0}
      /\ BchN = 2^BchM - 1
  BY SketchAssumption, ServiceAssumption
<1>2. Msgs!DecodingLaw(BchM, n, parsed)
  <2>1. bits \in Seq(Msgs!Bits)
    BY DEF Bits, Msgs!Bits
  <2>2. parsed = Msgs!ParseDecoding(BchM, BchT, n, bits)
    BY SameParseDecoding
  <2> QED BY <1>1, <2>1, <2>2, Msgs!AnyDecoding
<1>3. /\ Len(c) = n /\ \A g \in 1..n : c[g] \in Int
      /\ l \in Nat /\ \A i \in 1..l : p[i] \in 0..BchN
  BY <1>1, <1>2, SameSum DEF Msgs!DecodingLaw, Msgs!AreCounts
<1>4. ASSUME NEW g \in 1..n, ~(c[g] < 0)
      PROVE  /\ Wire!OffsetOf(c, g) \in Nat
             /\ Wire!OffsetOf(c, g) + c[g] <= l
             /\ Wire!CidOf(c, g) \in 1..Wire!CidOf(c, n)
  <2>1. c[g] >= 0
    BY <1>3, <1>4
  <2>2. Wire!OffsetOf(c, g) = Msgs!OffsetOf(c, g)
    BY SameSum DEF Wire!OffsetOf, Msgs!OffsetOf
  <2> HIDE DEF c
  <2> QED BY <1>2, <2>1, <2>2, SameSum, SameCid DEF Msgs!DecodingLaw, Msgs!InSlices, c
<1>5. l <= Len(xors) /\ Wire!CidOf(c, n) <= Len(sums) /\ Wire!CidOf(c, n) \in Nat
  <2>1. Wire!SumOf(c) = l
    BY <1>3 DEF Wire!SumOf
  <2>2. ~(l > Len(xors)) /\ ~(Wire!CidOf(c, n) > Len(sums))
    BY <1>3, <2>1 DEF Wire!CheckThrows
  <2>3. Wire!CidOf(c, n) \in Nat
    <3> DEFINE B == {h \in 1..n : c[h] >= 0}
    <3>1. IsFiniteSet(1..n) /\ B \subseteq 1..n
      BY FS_Interval
    <3> HIDE DEF B
    <3>2. Cardinality(B) \in Nat
      BY <3>1, FS_Subset, FS_CardinalityType
    <3> QED BY <3>2 DEF B, Wire!CidOf, Wire!Cardinality, Cardinality
  <2> HIDE DEF l, c
  <2> QED BY <1>3, <2>2, <2>3
<1>6. ASSUME NEW g \in 1..n
      PROVE  dec[g] = IF c[g] < 0 THEN FailedGroup
                      ELSE [ok |-> TRUE, at |-> at(g), xors |-> row(g), sum |-> sum(g)]
  BY <1>3 DEF Understood
<1>7. dec = [g \in 1..n |-> dec[g]] /\ DOMAIN dec = 1..n
  BY <1>3 DEF Understood
<1>8. FailedGroup \in GroupDecoding
  <2>1. {} \in SUBSET Position /\ [b \in {} |-> {}] \in [{} -> Key] /\ {} \in Key
    BY DEF Key
  <2> QED BY <2>1, IsGroupDecoding DEF FailedGroup
<1>9. ASSUME NEW g \in 1..n, ~(c[g] < 0)
      PROVE  [ok |-> TRUE, at |-> at(g), xors |-> row(g), sum |-> sum(g)] \in GroupDecoding
  <2>1. \A i \in slice(g) : i \in 1..l
    <3> DEFINE o == Wire!OffsetOf(c, g)
               q == c[g]
    <3>1. o \in Nat /\ q \in Int /\ q >= 0 /\ o + q <= l /\ slice(g) = (o + 1)..(o + q)
      BY <1>3, <1>4, <1>9 DEF Slice
    <3> HIDE DEF o, q, l, slice
    <3> QED BY <1>3, <3>1
  <2> HIDE DEF slice, c, p
  <2>2. at(g) \in SUBSET Position
    BY <1>3, <2>1 DEF Position
  <2>3. row(g) \in [at(g) -> Key]
    <3>1. ASSUME NEW b \in at(g) PROVE xors[CHOOSE i \in slice(g) : p[i] = b] \in Key
      <4> DEFINE j == CHOOSE i \in slice(g) : p[i] = b
      <4>1. \E i \in slice(g) : p[i] = b
        OBVIOUS
      <4>2. j \in slice(g)
        BY <4>1
      <4> HIDE DEF j
      <4>3. j \in 1..Len(xors)
        BY <1>3, <1>5, <2>1, <4>2
      <4>4. xors[j] \in Key
        BY <4>3
      <4> QED BY <4>4 DEF j
    <3> HIDE DEF at
    <3> QED BY <3>1
  <2>4. sum(g) \in Key
    <3> DEFINE j == Wire!CidOf(c, g)
               e == Wire!CidOf(c, n)
    <3>1. j \in 1..e /\ e <= Len(sums) /\ e \in Nat /\ Len(sums) \in Nat
      BY <1>4, <1>5, <1>9 DEF c
    <3> HIDE DEF j, e
    <3>2. j \in 1..Len(sums)
      BY <3>1
    <3>3. sums[j] \in Key
      BY <3>2
    <3> QED BY <3>3 DEF j
  <2> HIDE DEF at, row, sum
  <2> QED BY <2>2, <2>3, <2>4, IsGroupDecoding
<1> HIDE DEF dec, at, row, sum, c
<1>10. ASSUME NEW g \in 1..n PROVE dec[g] \in GroupDecoding
  BY <1>6, <1>8, <1>9
<1>11. dec \in [1..n -> GroupDecoding]
  BY <1>7, <1>10
<1>12. dec \in Seq(GroupDecoding) /\ Len(dec) = n
  BY <1>11
<1> QED BY <1>12 DEF UnderstoodAs, DecodingMessage, dec

-------------------------------------------------------------------------------
(* The objects of a session.  Alice's table between two rounds; Bob's      *)
(* between his encode and his decode; Bob's between two requests, or what  *)
(* a request with an unexpected hint has left.                             *)
Aligned(p) == p \in Pbs /\ Parallel(p) /\ Len(p.groups) = p.remaining

ClientObject(p) ==
    /\ Aligned(p)
    /\ p.remaining >= 1 /\ p.hintRange >= 1
    /\ IdList(p.exceptions, p.hintRange)

Encoded(p) == Aligned(p) /\ Len(p.sketches) = p.remaining /\ p.failed = << >>

Answered(p) ==
    /\ p \in Pbs /\ Parallel(p)
    /\ p.role = "Bob" =>
          p.hintRange = p.remaining /\ Len(p.groups) = p.remaining + PieceCount(p.failed)

LEMMA HashType == \A h \in Hashes : h \in Hash
BY ServiceAssumption DEF IsHash

LEMMA NewObject ==
    ASSUME NEW S \in SUBSET Key, NEW h \in Hashes
    PROVE  /\ ClientObject(Construct(S, h)) /\ Answered(Construct(S, h))
           /\ Construct(S, h).recovered = << >> /\ Construct(S, h).failed = << >>
           /\ Construct(S, h).exceptions = << >> /\ Construct(S, h).remaining = NumGroups
<1> DEFINE p == Construct(S, h)
<1>1. h \in Hash
  BY HashType
<1>2. p \in Pbs /\ Parallel(p) /\ Len(p.groups) = NumGroups
  BY <1>1, ConstructProperties
<1>3. /\ p.remaining = NumGroups /\ p.hintRange = NumGroups /\ p.exceptions = << >>
      /\ p.recovered = << >> /\ p.failed = << >> /\ p.role = "Undetermined"
  BY DEF Construct
<1> HIDE DEF p
<1>4. NumGroups \in Nat /\ NumGroups >= 1
  BY SketchAssumption
<1>5. IdList(p.exceptions, p.hintRange)
  BY <1>3 DEF IdList
<1>6. ClientObject(p)
  BY <1>2, <1>3, <1>4, <1>5 DEF ClientObject, Aligned
<1>7. Answered(p)
  BY <1>2, <1>3 DEF Answered
<1> QED BY <1>3, <1>6, <1>7 DEF p

LEMMA EncodingObject ==
    ASSUME NEW p, Aligned(p), NEW h
    PROVE  LET q == encode(p, h)
           IN  /\ Aligned(q) /\ Len(q.sketches) = q.remaining
               /\ q.sketches \in Seq(SUBSET Bins)
               /\ q.remaining = p.remaining /\ q.hintRange = p.hintRange
               /\ q.exceptions = << >> /\ q.failed = p.failed /\ q.recovered = p.recovered
<1> DEFINE r == doEncode_(p, h)
           q == [r EXCEPT !.exceptions = << >>]
<1>1. p \in Pbs /\ Parallel(p) /\ Len(p.groups) = p.remaining
  BY DEF Aligned
<1>2. /\ r \in Pbs /\ Parallel(r) /\ r.groups = p.groups
      /\ Len(r.sketches) = p.remaining /\ r.remaining = p.remaining
      /\ r.hintRange = p.hintRange /\ r.failed = p.failed /\ r.recovered = p.recovered
  BY <1>1, EncodeProperties
<1> HIDE DEF r
<1>3. q \in Pbs
  <2>1. << >> \in Seq(Nat)
    OBVIOUS
  <2> QED BY <1>2, <2>1 DEF Pbs
<1>4. /\ q.groups = r.groups /\ q.origin = r.origin /\ q.xors = r.xors
      /\ q.checksums = r.checksums /\ q.sketches = r.sketches /\ q.remaining = r.remaining
      /\ q.hintRange = r.hintRange /\ q.failed = r.failed /\ q.recovered = r.recovered
      /\ q.exceptions = << >>
  BY <1>2 DEF Pbs
<1>5. q = encode(p, h)
  BY DEF encode, r
<1> HIDE DEF q
<1>6. Parallel(q) /\ Len(q.groups) = q.remaining
  BY <1>1, <1>2, <1>4 DEF Parallel
<1>7. q.sketches \in Seq(SUBSET Bins)
  BY <1>3 DEF Pbs
<1> QED BY <1>2, <1>3, <1>4, <1>5, <1>6, <1>7 DEF Aligned

(* A hint that is read in the range Bob expects fits his table.            *)
LEMMA HintedObject ==
    ASSUME NEW p, Answered(p), p.role = "Bob", NEW h,
           NEW m \in Nat, NEW ids \in [1..m -> 1..p.hintRange]
    PROVE  /\ ~encodeWithHintThrows(p, ids) /\ Encoded(encodeWithHint(p, h, ids))
           /\ encodeWithHint(p, h, ids).remaining = PieceCount(p.failed) + m
<1> DEFINE q == WithHint(p, ids)
           r == doEncode_(q, h)
           pieces == PieceCount(p.failed)
<1>1. /\ p \in Pbs /\ Parallel(p) /\ p.hintRange = p.remaining
      /\ Len(p.groups) = p.remaining + pieces /\ p.remaining \in Nat
  BY DEF Answered, Pbs
<1>2. Len(p.failed) \in Nat /\ pieces \in Nat /\ pieces = Splits * Len(p.failed)
  <2>1. Len(p.failed) \in Nat
    BY <1>1 DEF Pbs
  <2> QED BY <2>1, PieceCountIsNat DEF PieceCount
<1> HIDE DEF pieces
<1>3. p.remaining <= Len(p.groups) /\ Len(p.groups) \in Nat
  BY <1>1, <1>2
<1>4. ids \in [1..m -> 1..Len(p.groups)]
  BY <1>1, <1>3
<1>5. /\ q \in Pbs /\ Parallel(q)
      /\ q.remaining = Len(p.groups) + m - p.remaining
      /\ Len(q.groups) = q.remaining /\ q.failed = << >>
  BY <1>1, <1>3, <1>4, WithHintProperties
<1> HIDE DEF q
<1>6. /\ r \in Pbs /\ Parallel(r) /\ r.groups = q.groups
      /\ Len(r.sketches) = q.remaining /\ r.remaining = q.remaining /\ r.failed = q.failed
  BY <1>5, EncodeProperties
<1> HIDE DEF r
<1>7. Encoded(r)
  BY <1>5, <1>6 DEF Encoded, Aligned
<1>8. ids \in Seq(1..Len(p.groups)) /\ Len(ids) = m
  BY <1>4, FunctionIsSeq
<1>9. Len(ids) + Splits * Len(p.failed) = q.remaining
  BY <1>1, <1>2, <1>5, <1>8
<1>10. ~encodeWithHintThrows(p, ids)
  <2>1. \A i \in 1..Len(ids) : ids[i] \in 1..Len(p.groups)
    BY <1>4, <1>8
  <2> QED BY <1>9, <2>1 DEF encodeWithHintThrows, q
<1>11. r.remaining = pieces + m
  BY <1>1, <1>2, <1>5, <1>6
<1> QED BY <1>7, <1>10, <1>11 DEF encodeWithHint, r, q, pieces

LEMMA DecodingObject ==
    ASSUME NEW p, Encoded(p), NEW h \in Hash,
           NEW other \in Seq(SUBSET Bins), Len(other) = p.remaining
    PROVE  /\ Answered(decode(p, h, other)) /\ decode(p, h, other).role = "Bob"
           /\ decode(p, h, other).hintRange = p.remaining
           /\ \A e \in Key :
                 /\ decodeMessage(p, h, other, e) \in DecodingMessage
                 /\ Len(decodeMessage(p, h, other, e)) = p.remaining
                 /\ FailedGroups(p.remaining, decodeMessage(p, h, other, e))
                       = decode(p, h, other).failed
<1>1. /\ p \in Pbs /\ Parallel(p) /\ Len(p.groups) = p.remaining
      /\ Len(p.sketches) = p.remaining /\ p.failed = << >>
  BY DEF Encoded, Aligned
<1> DEFINE q == decode(p, h, other)
<1>2. /\ q \in Pbs /\ Parallel(q)
      /\ Len(q.groups) = p.remaining + PieceCount(q.failed)
      /\ q.remaining = p.remaining /\ q.hintRange = p.remaining /\ q.role = "Bob"
      /\ q.failed = FailedIds(p, h, other)
  BY <1>1, DecodeProperties
<1> HIDE DEF q
<1>3. Answered(q)
  BY <1>2 DEF Answered
<1>4. ASSUME NEW e \in Key
      PROVE  /\ decodeMessage(p, h, other, e) \in DecodingMessage
             /\ Len(decodeMessage(p, h, other, e)) = p.remaining
             /\ FailedGroups(p.remaining, decodeMessage(p, h, other, e)) = q.failed
  BY <1>1, <1>2, DecodeMessageProperties
<1> QED BY <1>2, <1>3, <1>4 DEF q

(* What a round has recovered is appended to what was recovered before.    *)
Extended(p, q) == \E row \in Seq(SUBSET Key) : q.recovered = Append(p.recovered, row)

LEMMA CheckedObject ==
    ASSUME NEW p, ClientObject(p), NEW h,
           NEW dec \in DecodingMessage, Len(dec) = p.remaining
    PROVE  LET q == decodeCheck(p, h, dec)
           IN  /\ q \in Pbs /\ Extended(p, q)
               /\ ~decodeCheckCompletes(q) => ClientObject(q)
<1> DEFINE q == decodeCheck(p, h, dec)
           row == [g \in 1..p.remaining |-> Accepted(p, h, dec, g)]
<1>1. /\ p \in Pbs /\ Parallel(p) /\ Len(p.groups) = p.remaining
      /\ p.remaining \in Nat /\ p.remaining >= 1
  BY DEF ClientObject, Aligned, Pbs
<1>2. /\ q \in Pbs /\ Parallel(q) /\ Len(q.groups) = q.remaining
      /\ IdList(q.exceptions, p.remaining) /\ q.hintRange = p.remaining
  BY <1>1, CheckProperties
<1>3. q.recovered = Append(p.recovered, row)
  BY <1>1, CheckRecovers
<1> HIDE DEF q
<1>4. row \in Seq(SUBSET Key)
  <2>1. \A g \in 1..p.remaining : Accepted(p, h, dec, g) \in SUBSET Key
    BY <1>1, AcceptedProperties
  <2>2. row \in [1..p.remaining -> SUBSET Key]
    BY <2>1
  <2> QED BY <1>1, <2>2, FunctionIsSeq
<1>5. Extended(p, q)
  BY <1>3, <1>4 DEF Extended
<1>6. ASSUME ~decodeCheckCompletes(q) PROVE ClientObject(q)
  <2>1. q.remaining \in Nat /\ q.remaining # 0
    BY <1>2, <1>6 DEF Pbs, decodeCheckCompletes
  <2> QED BY <1>1, <1>2, <2>1 DEF ClientObject, Aligned
<1> QED BY <1>2, <1>5, <1>6 DEF q

-------------------------------------------------------------------------------
(* What the two sides send for their objects, and understand.              *)
LEMMA HintBitsType ==
    \A p : ClientObject(p) => HintBits(p) \in Seq(Bits)
<1> SUFFICES ASSUME NEW p, ClientObject(p) PROVE HintBits(p) \in Seq(Bits)
  OBVIOUS
<1> DEFINE n == Len(p.exceptions)
           ids == [i \in 1..n |-> p.exceptions[i] - 1]
<1>1. /\ n \in Nat /\ p.exceptions \in [1..n -> 1..p.hintRange]
      /\ p.hintRange \in Nat \ {0}
  BY DEF ClientObject, Aligned, Pbs, IdList
<1>2. \A i \in 1..n : p.exceptions[i] - 1 \in Nat
  BY <1>1
<1>3. ids \in [1..n -> Nat]
  BY <1>2
<1>4. ids \in Seq(Nat)
  BY <1>1, <1>3, FunctionIsSeq
<1> DEFINE range == p.hintRange
<1>5. HintBits(p) = IF p.exceptions = << >> THEN << >> ELSE Wire!WriteHint(range, ids)
  BY DEF HintBits
<1> HIDE DEF ids, n, range
<1>6. Wire!WriteHint(range, ids) \in Seq(Bits)
  BY <1>1, <1>4, HintSent DEF range
<1>7. << >> \in Seq(Bits)
  OBVIOUS
<1> QED BY <1>5, <1>6, <1>7

LEMMA SketchesForType ==
    ASSUME NEW n \in Nat, NEW sketches \in Seq(SUBSET Bins), NEW other \in SketchesFor(n, sketches)
    PROVE  other \in Seq(SUBSET Bins) /\ Len(other) = n
<1> DEFINE T == SUBSET Bins
<1>1. other \in [1..n -> T]
  <2>1. \A g \in 1..n : (IF g <= Len(sketches) THEN sketches[g] ELSE {}) \in T
    <3>1. \A g \in 1..Len(sketches) : sketches[g] \in T
      OBVIOUS
    <3> QED BY <3>1
  <2>2. [g \in 1..n |-> {}] \in [1..n -> T]
    OBVIOUS
  <2>3. [g \in 1..n |-> IF g <= Len(sketches) THEN sketches[g] ELSE {}] \in [1..n -> T]
    BY <2>1
  <2> HIDE DEF T
  <2> QED BY <2>2, <2>3 DEF SketchesFor, T
<1> HIDE DEF T
<1>2. other \in Seq(T) /\ Len(other) = n
  BY <1>1, FunctionIsSeq
<1> QED BY <1>2 DEF T

(* The answer to a request, as the client with n groups makes of it.       *)
LEMMA AnswerUnderstood ==
    ASSUME NEW dec \in DecodingMessage, NEW n \in Nat, NEW parsed,
           parsed = Wire!ParseDecoding(BchM, BchT, n, MessageBits(dec)),
           ~Wire!CheckThrows(parsed, XorList(dec), SumList(dec))
    PROVE  UnderstoodAs(n, Understood(parsed, XorList(dec), SumList(dec)))
<1> DEFINE bits == MessageBits(dec)
           xors == XorList(dec)
           sums == SumList(dec)
<1>1. bits \in Seq(Bits)
  BY AnswerIsBits
<1>2. xors \in Seq(Key) /\ sums \in Seq(Key)
  BY AnswerLists
<1>3. parsed = Wire!ParseDecoding(BchM, BchT, n, bits) /\ ~Wire!CheckThrows(parsed, xors, sums)
  OBVIOUS
<1> HIDE DEF bits, xors, sums
<1>4. UnderstoodAs(n, Understood(parsed, xors, sums))
  BY <1>1, <1>2, <1>3, UnderstoodType
<1> QED BY <1>4 DEF xors, sums

(* The pointer, when it is none to an object.                              *)
LEMMA NotObjects ==
    /\ NoPbs \notin Pbs /\ Crashed \notin Pbs /\ NotReady \notin Pbs
    /\ NoPbs # Crashed /\ NoPbs # NotReady /\ NotReady # Crashed
<1>1. /\ "none" \in DOMAIN NoPbs /\ "none" \notin DOMAIN Crashed /\ "none" \notin DOMAIN NotReady
      /\ "crashed" \notin DOMAIN NotReady
  BY DEF NoPbs, Crashed, NotReady
<1>2. "crashed" \in DOMAIN Crashed /\ "notReady" \in DOMAIN NotReady
  BY DEF Crashed, NotReady
<1>3. \A p \in Pbs : "none" \notin DOMAIN p /\ "crashed" \notin DOMAIN p /\ "notReady" \notin DOMAIN p
  BY DEF Pbs
<1> QED BY <1>1, <1>2, <1>3

-------------------------------------------------------------------------------
(* What is known of a session.  The objects and messages are what they     *)
(* should be, whoever has used the server before.  The rounds a client     *)
(* has behind it are settled; what it recovered in its last round is       *)
(* verified on the way: the keys to push when the server has inserted      *)
(* them all, the keys asked for when the client has.  What the server has  *)
(* is known as long as it has kept its map.                                *)
Playing == {"loop", "called", "encoded", "answered", "received"}

Objects(c) ==
    /\ phase[c] \in Playing => ClientObject(client[c])
    /\ phase[c] \in {"called", "encoded"} =>
          request[c].hint \in Seq(Bits) /\ request[c].sketches \in Seq(SUBSET Bins)
    /\ phase[c] = "answered" /\ reply[c].ok => reply[c].dec \in DecodingMessage
    /\ phase[c] = "received" /\ ~reply[c].throws =>
          UnderstoodAs(client[c].remaining, reply[c].decoding)

Settled(c, row) ==
    /\ KeysIn(row) \subseteq clientData[c]
    /\ SameMap(c) => /\ KeysIn(row) \subseteq serverData
                     /\ \A k \in KeysIn(row) : k \notin initial[c][1] \intersect initial[c][2]

RoundsOf(c) == Len(client[c].recovered)

LastRow(c) ==
    phase[c] \in Playing =>
        res[c] = IF RoundsOf(c) = 0 THEN << >> ELSE client[c].recovered[RoundsOf(c)]

EarlierRows(c) ==
    phase[c] \in Playing \union {"completed"} =>
        \A r \in 1..(RoundsOf(c) - 1) : Settled(c, client[c].recovered[r])

KeptSince(c) ==
    phase[c] # "idle" =>
        /\ initial[c][1] \subseteq clientData[c]
        /\ SameMap(c) => initial[c][2] \subseteq serverData

Asked(c) ==
    phase[c] \in {"called", "encoded"} =>
        /\ KeysIn(res[c]) \subseteq KeysOf(request[c].pushes) \union KeysOf(request[c].missing)
        /\ KeysOf(request[c].missing) \intersect clientData[c] = {}

Pushed(c) ==
    phase[c] = "answered" /\ reply[c].ok =>
        /\ KeysIn(res[c]) \ KeysOf(reply[c].pushed) \subseteq clientData[c]
        /\ KeysOf(reply[c].pushed) \intersect clientData[c] = {}
        /\ SameMap(c) =>
              /\ KeysIn(res[c]) \subseteq serverData
              /\ \A k \in KeysIn(res[c]) \ KeysOf(reply[c].pushed) : k \notin initial[c][2]

Exchanged(c) == phase[c] = "received" => Settled(c, res[c])

Sound(c) ==
    /\ Objects(c) /\ LastRow(c) /\ EarlierRows(c) /\ KeptSince(c)
    /\ Asked(c) /\ Pushed(c) /\ Exchanged(c)

(* The server plays one round at a time. *)
ServerInv ==
    /\ \A c, d \in Clients : phase[c] = "encoded" /\ phase[d] = "encoded" => c = d
    /\ \A c \in Clients : phase[c] = "encoded" => Encoded(server)
    /\ (\A c \in Clients : phase[c] # "encoded") =>
          server \in {NoPbs, NotReady, Crashed} \/ Answered(server)

Functions ==
    /\ client = [c \in Clients |-> client[c]]
    /\ res = [c \in Clients |-> res[c]]
    /\ initial = [c \in Clients |-> initial[c]]

(* The maps are counted. *)
Numbered == maps \in Nat /\ \A c \in Clients : initial[c][3] \in 0..maps

SessionInv ==
    /\ InFlight /\ Functions /\ hash \in Hashes /\ Numbered /\ ServerInv
    /\ \A c \in Clients : Sound(c)

LEMMA MapsGoOn ==
    ASSUME [Next]_vars
    PROVE  \/ UNCHANGED initial /\ maps' \in {maps, maps + 1}
           \/ \E c \in Clients :
                 /\ initial' = [initial EXCEPT ![c] = <<clientData[c], serverData, maps>>]
                 /\ UNCHANGED maps
<1>1. CASE UNCHANGED vars
  BY <1>1 DEF vars
<1>2. CASE Restart
  BY <1>2 DEF Restart
<1>3. ASSUME NEW c \in Clients, SetUp(c) \/ TearDown(c) \/ HintCrashesServer(c)
      PROVE  UNCHANGED initial /\ maps' \in {maps, maps + 1}
  BY <1>3 DEF SetUp, TearDown, HintCrashesServer
<1>4. ASSUME NEW c \in Clients, Begin(c)
      PROVE  /\ initial' = [initial EXCEPT ![c] = <<clientData[c], serverData, maps>>]
             /\ UNCHANGED maps
  BY <1>4 DEF Begin
<1>5. ASSUME NEW c \in Clients,
             \/ GiveUp(c) \/ Call(c) \/ HandleEncode(c) \/ HandleDecode(c) \/ CallFails(c)
             \/ Receive(c) \/ ReceiveError(c) \/ Check(c) \/ CheckThrows(c)
             \/ Synchronize(c) \/ NothingToSynchronize(c) \/ HandleSynchronize(c)
             \/ ReceiveSynchronize(c) \/ SynchronizeFails(c)
      PROVE  UNCHANGED <<initial, maps>>
  BY <1>5 DEF GiveUp, Call, HandleEncode, HandleDecode, CallFails, Receive, ReceiveError, Check,
              CheckThrows, Synchronize, NothingToSynchronize, HandleSynchronize,
              ReceiveSynchronize, SynchronizeFails
<1> QED BY <1>1, <1>2, <1>3, <1>4, <1>5 DEF Next, Stopped

LEMMA StillNumbered ==
    ASSUME Numbered, Functions, [Next]_vars PROVE Numbered'
<1>1. CASE UNCHANGED initial /\ maps' \in {maps, maps + 1}
  BY <1>1 DEF Numbered
<1>2. ASSUME NEW c \in Clients, UNCHANGED maps,
             initial' = [initial EXCEPT ![c] = <<clientData[c], serverData, maps>>]
      PROVE  Numbered'
  <2>1. initial'[c][3] = maps /\ \A d \in Clients \ {c} : initial'[d] = initial[d]
    BY <1>2 DEF Functions
  <2> QED BY <1>2, <2>1 DEF Numbered
<1> QED BY <1>1, <1>2, MapsGoOn

(* Once the server has got another map it never has the old one again. *)
LEMMA SameMapBefore ==
    ASSUME Numbered, [Next]_vars, NEW c \in Clients, initial'[c] = initial[c], SameMap(c)'
    PROVE  SameMap(c) /\ maps' = maps
BY MapsGoOn DEF Numbered, SameMap

(* A step of client c leaves the others as they are. *)
OthersSame(c) ==
    \A d \in Clients \ {c} :
        /\ phase'[d] = phase[d] /\ request'[d] = request[d] /\ reply'[d] = reply[d]
        /\ client'[d] = client[d] /\ res'[d] = res[d] /\ initial'[d] = initial[d]
        /\ clientData'[d] = clientData[d]

MapStays(c) == SameMap(c)' => SameMap(c) /\ serverData \subseteq serverData'

LEMMA RowStaysSettled ==
    ASSUME NEW c, NEW row, Settled(c, row), initial'[c] = initial[c],
           clientData[c] \subseteq clientData'[c], MapStays(c)
    PROVE  Settled(c, row)'
BY DEF Settled, MapStays

Same(d) ==
    /\ phase'[d] = phase[d] /\ request'[d] = request[d] /\ reply'[d] = reply[d]
    /\ client'[d] = client[d] /\ res'[d] = res[d] /\ initial'[d] = initial[d]
    /\ clientData'[d] = clientData[d]

LEMMA StaysSound ==
    ASSUME Numbered, [Next]_vars, maps' = maps => serverData \subseteq serverData',
           NEW d \in Clients, Same(d), Sound(d)
    PROVE  Sound(d)'
<1>1. /\ phase'[d] = phase[d] /\ request'[d] = request[d] /\ reply'[d] = reply[d]
      /\ client'[d] = client[d] /\ res'[d] = res[d] /\ initial'[d] = initial[d]
      /\ clientData'[d] = clientData[d]
  BY DEF Same
<1>0. MapStays(d)
  BY <1>1, SameMapBefore DEF MapStays
<1>2. ASSUME NEW row, Settled(d, row) PROVE Settled(d, row)'
  BY <1>0, <1>1, <1>2, RowStaysSettled
<1>3. Objects(d)'
  BY <1>1 DEF Sound, Objects
<1>4. LastRow(d)'
  BY <1>1 DEF Sound, LastRow, RoundsOf
<1>5. EarlierRows(d)'
  BY <1>1, <1>2 DEF Sound, EarlierRows, RoundsOf
<1>6. KeptSince(d)'
  BY <1>0, <1>1 DEF Sound, KeptSince, MapStays
<1>7. Asked(d)'
  BY <1>1 DEF Sound, Asked
<1>8. Pushed(d)'
  BY <1>0, <1>1 DEF Sound, Pushed, MapStays
<1>9. Exchanged(d)'
  BY <1>1, <1>2 DEF Sound, Exchanged
<1> QED BY <1>3, <1>4, <1>5, <1>6, <1>7, <1>8, <1>9 DEF Sound

LEMMA SessionGoesOn ==
    ASSUME SessionInv, [Next]_vars, NEW c \in Clients, OthersSame(c),
           maps' = maps => serverData \subseteq serverData',
           Functions', hash' = hash, ServerInv', Sound(c)'
    PROVE  SessionInv'
<1>1. InFlight' /\ Numbered'
  BY StepImplements, StillNumbered DEF SessionInv
<1>2. ASSUME NEW d \in Clients \ {c} PROVE Sound(d)'
  <2>1. Same(d)
    BY DEF OthersSame, Same
  <2> QED BY <2>1, StaysSound DEF SessionInv
<1> QED BY <1>1, <1>2 DEF SessionInv

(* A step of no client, which takes the server its map at most. *)
LEMMA SessionStays ==
    ASSUME SessionInv, [Next]_vars, maps' = maps => serverData \subseteq serverData',
           UNCHANGED <<hash, clientData, client, phase, request, reply, res, initial>>, ServerInv'
    PROVE  SessionInv'
<1>1. InFlight' /\ Numbered'
  BY StepImplements, StillNumbered DEF SessionInv
<1>2. ASSUME NEW d \in Clients PROVE Sound(d)'
  <2>1. Same(d)
    BY DEF Same
  <2> QED BY <2>1, StaysSound DEF SessionInv
<1>3. Functions'
  BY DEF SessionInv, Functions
<1> QED BY <1>1, <1>2, <1>3 DEF SessionInv

(* The server between two steps of its own. *)
LEMMA ServerWaits ==
    ASSUME ServerInv, NEW c \in Clients, phase[c] # "encoded", phase'[c] # "encoded",
           \A d \in Clients \ {c} : phase'[d] = phase[d], UNCHANGED server
    PROVE  ServerInv'
BY DEF ServerInv

(* A call that returns leaves nothing to be known. *)
LEMMA ReturnKeepsSession ==
    ASSUME SessionInv, [Next]_vars, NEW c \in Clients, phase[c] \notin {"idle", "encoded"},
           NEW value, Return(c, value), UNCHANGED <<hash, serverData, server, res, initial>>,
           \A d \in Clients \ {c} : clientData'[d] = clientData[d]
    PROVE  SessionInv'
<1>1. PerClient /\ Functions
  BY DEF SessionInv, InFlight
<1>2. phase'[c] = "idle"
  BY <1>1 DEF PerClient, Return, Goto
<1>3. OthersSame(c)
  BY <1>1 DEF PerClient, Functions, Return, Goto, OthersSame
<1>4. Sound(c)'
  BY <1>2 DEF Sound, Objects, LastRow, EarlierRows, KeptSince, Asked, Pushed, Exchanged, Playing
<1>5. Functions'
  BY <1>1 DEF Functions, Return
<1>6. ServerInv'
  <2>1. \A d \in Clients \ {c} : phase'[d] = phase[d]
    BY <1>3 DEF OthersSame
  <2> QED BY <1>2, <2>1, ServerWaits DEF SessionInv
<1> QED BY <1>3, <1>4, <1>5, <1>6, SessionGoesOn

-------------------------------------------------------------------------------
(* Between calls.                                                          *)
LEMMA SetUpKeepsSession ==
    ASSUME SessionInv, [Next]_vars, NEW c \in Clients, SetUp(c) PROVE SessionInv'
<1>1. /\ phase[c] = "idle" /\ UNCHANGED <<hash, client, phase, request, reply, res, initial>>
      /\ \E keys : clientData' = [clientData EXCEPT ![c] = keys]
      /\ \/ maps' = maps + 1 /\ NoHandler
            /\ server' = IF server = NotReady THEN NoPbs ELSE server
         \/ UNCHANGED <<server, serverData, maps>>
  BY DEF SetUp
<1>2. PerClient /\ Functions /\ Maps /\ Numbered /\ ServerInv
  BY DEF SessionInv, InFlight
<1>3. OthersSame(c) /\ Functions'
  BY <1>1, <1>2 DEF OthersSame, Functions, Maps
<1>4. maps' = maps => serverData \subseteq serverData'
  BY <1>1, <1>2 DEF Numbered
<1>5. ServerInv'
  BY <1>1, <1>2 DEF ServerInv, NoHandler
<1>6. Sound(c)'
  BY <1>1 DEF Sound, Objects, LastRow, EarlierRows, KeptSince, Asked, Pushed, Exchanged, Playing
<1> QED BY <1>1, <1>3, <1>4, <1>5, <1>6, SessionGoesOn

LEMMA TearDownKeepsSession ==
    ASSUME SessionInv, [Next]_vars, NEW c \in Clients, TearDown(c) PROVE SessionInv'
<1>1. /\ maps' = maps + 1 /\ NoHandler /\ server' \in {NoPbs, NotReady}
      /\ UNCHANGED <<hash, clientData, client, phase, request, reply, res, initial>>
  BY DEF TearDown
<1>2. ServerInv'
  BY <1>1 DEF ServerInv, NoHandler
<1>3. maps' = maps => serverData \subseteq serverData'
  BY <1>1 DEF SessionInv, Numbered
<1> QED BY <1>1, <1>2, <1>3, SessionStays

LEMMA RestartKeepsSession ==
    ASSUME SessionInv, [Next]_vars, Restart PROVE SessionInv'
<1>1. /\ server = Crashed /\ server' = NotReady
      /\ UNCHANGED <<hash, clientData, serverData, maps, client, phase, request, reply, res,
                     initial>>
  BY DEF Restart
<1>2. NoHandler
  <2>1. ASSUME NEW c \in Clients, phase[c] = "encoded" PROVE Crashed \in Pbs
    BY <1>1, <2>1 DEF SessionInv, ServerInv, Encoded, Aligned
  <2> QED BY <2>1, NotObjects DEF NoHandler
<1>3. ServerInv'
  BY <1>1, <1>2 DEF ServerInv, NoHandler
<1> QED BY <1>1, <1>3, SessionStays

LEMMA BeginKeepsSession ==
    ASSUME SessionInv, [Next]_vars, NEW c \in Clients, Begin(c) PROVE SessionInv'
<1>1. PerClient /\ Functions /\ Maps /\ hash \in Hashes
  BY DEF SessionInv, InFlight
<1>2. /\ phase[c] = "idle" /\ phase'[c] = "loop"
      /\ client'[c] = Construct(clientData[c], hash)
      /\ res'[c] = << >> /\ initial'[c] = <<clientData[c], serverData, maps>>
      /\ UNCHANGED <<hash, clientData, serverData, maps, server, request, reply>>
  BY <1>1 DEF PerClient, Functions, Begin, Goto
<1>3. OthersSame(c)
  BY <1>1 DEF PerClient, Functions, Begin, Goto, OthersSame
<1>4. Functions'
  BY <1>1 DEF Functions, Begin
<1>5. ClientObject(client'[c]) /\ client'[c].recovered = << >>
  BY <1>1, <1>2, NewObject DEF Maps
<1>6. RoundsOf(c)' = 0
  BY <1>5 DEF RoundsOf
<1>7. Sound(c)'
  BY <1>2, <1>5, <1>6
     DEF SameMap, Sound, Objects, LastRow, EarlierRows, KeptSince, Asked, Pushed, Exchanged, Playing
<1>8. ServerInv'
  <2>1. \A d \in Clients \ {c} : phase'[d] = phase[d]
    BY <1>3 DEF OthersSame
  <2> QED BY <1>2, <2>1, ServerWaits DEF SessionInv
<1> QED BY <1>2, <1>3, <1>4, <1>7, <1>8, SessionGoesOn

(* The rows a client has recovered, and the last of them, are keys.        *)
LEMMA RowsAreKeys ==
    ASSUME NEW c, ClientObject(client[c]), LastRow(c), phase[c] \in Playing
    PROVE  /\ client[c].recovered \in Seq(Seq(SUBSET Key)) /\ RoundsOf(c) \in Nat
           /\ res[c] \in Seq(SUBSET Key)
<1>1. client[c].recovered \in Seq(Seq(SUBSET Key))
  BY DEF ClientObject, Aligned, Pbs
<1> DEFINE T == Seq(SUBSET Key)
           rec == client[c].recovered
<1>2. rec \in Seq(T) /\ RoundsOf(c) = Len(rec)
  BY <1>1 DEF RoundsOf
<1>3. << >> \in T
  OBVIOUS
<1>4. res[c] = IF RoundsOf(c) = 0 THEN << >> ELSE rec[RoundsOf(c)]
  BY DEF LastRow
<1> HIDE DEF T, rec
<1>5. RoundsOf(c) \in Nat /\ (RoundsOf(c) # 0 => rec[RoundsOf(c)] \in T)
  BY <1>2
<1> QED BY <1>1, <1>3, <1>4, <1>5 DEF T, rec

LEMMA CallKeepsSession ==
    ASSUME SessionInv, [Next]_vars, NEW c \in Clients, Call(c) PROVE SessionInv'
<1>1. PerClient /\ Functions /\ Sound(c)
  BY DEF SessionInv, InFlight
<1>2. /\ phase[c] = "loop" /\ phase'[c] = "called"
      /\ client'[c] = encode(client[c], hash)
      /\ request'[c] = [sketches |-> client'[c].sketches, hint |-> HintBits(client[c]),
                        pushes |-> Pushes(c), missing |-> Missing(c)]
      /\ UNCHANGED <<hash, clientData, serverData, maps, server, reply, res, initial>>
  BY <1>1 DEF PerClient, Functions, Call, Goto
<1>3. OthersSame(c)
  BY <1>1 DEF PerClient, Functions, Call, Goto, OthersSame
<1>4. Functions'
  BY <1>1 DEF Functions, Call
<1>5. ClientObject(client[c])
  BY <1>1, <1>2 DEF Sound, Objects, Playing
<1>6. /\ Aligned(client'[c]) /\ client'[c].sketches \in Seq(SUBSET Bins)
      /\ client'[c].remaining = client[c].remaining /\ client'[c].hintRange = client[c].hintRange
      /\ client'[c].exceptions = << >> /\ client'[c].recovered = client[c].recovered
  BY <1>2, <1>5, EncodingObject DEF ClientObject
<1>7. ClientObject(client'[c])
  <2>1. IdList(<< >>, client'[c].hintRange)
    BY DEF IdList
  <2> QED BY <1>5, <1>6, <2>1 DEF ClientObject
<1>8. HintBits(client[c]) \in Seq(Bits)
  BY <1>5, HintBitsType
<1>9. Objects(c)'
  BY <1>2, <1>6, <1>7, <1>8 DEF Objects
<1>10. RoundsOf(c)' = RoundsOf(c)
  BY <1>6 DEF RoundsOf
<1>11. LastRow(c)'
  BY <1>1, <1>2, <1>6, <1>10 DEF Sound, LastRow, Playing
<1>12. EarlierRows(c)'
  BY <1>1, <1>2, <1>6, <1>10 DEF SameMap, Sound, EarlierRows, Playing, Settled
<1>13. KeptSince(c)'
  BY <1>1, <1>2 DEF SameMap, Sound, KeptSince
<1>14. Asked(c)'
  <2>1. res[c] \in Seq(SUBSET Key)
    BY <1>1, <1>2, <1>5, RowsAreKeys DEF Sound, Playing
  <2>2. KeysIn(res[c]) \subseteq KeysOf(KeyList(res[c]))
    BY <2>1, ListOfKeys
  <2>3. KeysOf(KeyList(res[c])) \subseteq KeysOf(Pushes(c)) \union KeysOf(Missing(c))
    BY DEF Pushes, Without, KeysOf
  <2>4. KeysOf(Missing(c)) \intersect clientData[c] = {}
    BY DEF Missing, Without, KeysOf
  <2>5. request'[c].pushes = Pushes(c) /\ request'[c].missing = Missing(c)
    BY <1>2
  <2> QED BY <1>2, <2>2, <2>3, <2>4, <2>5 DEF Asked
<1>15. Sound(c)'
  BY <1>2, <1>9, <1>11, <1>12, <1>13, <1>14 DEF SameMap, Sound, Pushed, Exchanged
<1>16. ServerInv'
  <2>1. \A d \in Clients \ {c} : phase'[d] = phase[d]
    BY <1>3 DEF OthersSame
  <2> QED BY <1>2, <2>1, ServerWaits DEF SessionInv
<1> QED BY <1>2, <1>3, <1>4, <1>15, <1>16, SessionGoesOn

-------------------------------------------------------------------------------
(* The server.                                                             *)
LEMMA FirstEncodeServes ==
    ASSUME Maps, hash \in Hashes, NEW c \in Clients, PerClient, FirstEncode(c)
    PROVE  \/ phase'[c] = "answered" /\ ~reply'[c].ok /\ Answered(server')
           \/ phase'[c] = "encoded" /\ Encoded(server')
<1> DEFINE p == Construct(serverData, hash)
<1>1. ClientObject(p) /\ Answered(p) /\ p.failed = << >>
  BY NewObject DEF Maps
<1>2. Encoded(encode(p, hash))
  <2>1. Aligned(p)
    BY <1>1 DEF ClientObject
  <2> DEFINE q == encode(p, hash)
  <2>2. Aligned(q) /\ Len(q.sketches) = q.remaining /\ q.failed = p.failed
    BY <2>1, EncodingObject
  <2> HIDE DEF q, p
  <2>3. Encoded(q)
    BY <1>1, <2>2 DEF Encoded
  <2> QED BY <2>3 DEF q
<1>3. CASE request[c].hint # << >>
  BY <1>1, <1>3 DEF FirstEncode, Goto, Answer, PerClient
<1>4. CASE ~(request[c].hint # << >>)
  BY <1>2, <1>4 DEF FirstEncode, Goto, Answer, PerClient
<1> QED BY <1>3, <1>4

LEMMA LaterEncodeServes ==
    ASSUME Answered(server), hash \in Hashes, NEW c \in Clients, PerClient,
           request[c].hint \in Seq(Bits), LaterEncode(c)
    PROVE  \/ phase'[c] = "answered" /\ ~reply'[c].ok /\ Answered(server')
           \/ phase'[c] = "encoded" /\ Encoded(server')
<1> DEFINE parsed == Wire!ParseHint(server.hintRange, request[c].hint)
           n == Len(parsed.ids)
           ids == [i \in 1..n |-> parsed.ids[i] + 1]
<1>1. server \in Pbs /\ server.hintRange \in Nat
  BY DEF Answered, Pbs
<1>2. HintIs(server.hintRange, parsed)
  BY <1>1, HintParsed DEF LaterEncode
<1>3. n \in Nat /\ parsed.ids \in [1..n -> Nat]
  BY <1>2 DEF HintIs
<1>4. IF parsed.threw \/ encodeWithHintThrows(server, ids)
      THEN /\ server' = IF parsed.threw \/ server.role # "Bob" THEN server
                        ELSE WithHint(server, ids)
           /\ Goto(c, "answered") /\ Answer(c, [ok |-> FALSE])
      ELSE /\ server' = encodeWithHint(server, hash, ids)
           /\ Goto(c, "encoded") /\ UNCHANGED reply
  BY DEF LaterEncode
<1>5. ASSUME ~parsed.threw PROVE ids \in [1..n -> 1..server.hintRange]
  <2>1. \A i \in 1..n : parsed.ids[i] \in Nat /\ parsed.ids[i] < server.hintRange
    BY <1>2, <1>3, <1>5 DEF HintIs
  <2>2. \A i \in 1..n : parsed.ids[i] + 1 \in 1..server.hintRange
    BY <1>1, <2>1
  <2> QED BY <2>2
<1> HIDE DEF ids, n, parsed
<1>6. ASSUME ~parsed.threw, server.role = "Bob"
      PROVE  ~encodeWithHintThrows(server, ids) /\ Encoded(encodeWithHint(server, hash, ids))
  BY <1>3, <1>5, <1>6, HintedObject
<1>7. CASE parsed.threw \/ server.role # "Bob"
  <2>1. parsed.threw \/ encodeWithHintThrows(server, ids)
    BY <1>7 DEF encodeWithHintThrows
  <2>2. server' = server /\ Goto(c, "answered") /\ Answer(c, [ok |-> FALSE])
    BY <1>4, <1>7, <2>1
  <2>3. phase'[c] = "answered" /\ reply'[c] = [ok |-> FALSE]
    BY <2>2 DEF Goto, Answer, PerClient
  <2> QED BY <2>2, <2>3
<1>8. CASE ~(parsed.threw \/ server.role # "Bob")
  <2>1. server' = encodeWithHint(server, hash, ids) /\ Goto(c, "encoded")
    BY <1>4, <1>6, <1>8
  <2>2. phase'[c] = "encoded"
    BY <2>1 DEF Goto, PerClient
  <2> QED BY <1>6, <1>8, <2>1, <2>2
<1> QED BY <1>7, <1>8

LEMMA HandleEncodeKeepsSession ==
    ASSUME SessionInv, [Next]_vars, NEW c \in Clients, HandleEncode(c) PROVE SessionInv'
<1>1. InFlight /\ PerClient /\ Functions /\ Maps /\ hash \in Hashes /\ ServerInv /\ Sound(c)
  BY DEF SessionInv, InFlight
<1>2. /\ phase[c] = "called" /\ (\A d \in Clients : phase[d] # "encoded")
      /\ server \notin Down
      /\ UNCHANGED <<hash, clientData, serverData, maps, client, request, res, initial>>
      /\ FirstEncode(c) \/ LaterEncode(c)
  BY DEF HandleEncode, NoHandler
<1>3. OthersSame(c)
  BY <1>1, <1>2 DEF PerClient, FirstEncode, LaterEncode, Goto, Answer, OthersSame
<1>4. \/ phase'[c] = "answered" /\ ~reply'[c].ok /\ Answered(server')
      \/ phase'[c] = "encoded" /\ Encoded(server')
  <2>1. CASE FirstEncode(c)
    BY <1>1, <2>1, FirstEncodeServes
  <2>2. CASE LaterEncode(c)
    <3>1. Answered(server)
      BY <1>1, <1>2, <2>2 DEF ServerInv, LaterEncode, Down
    <3>2. request[c].hint \in Seq(Bits)
      BY <1>1, <1>2 DEF Sound, Objects
    <3> QED BY <1>1, <2>2, <3>1, <3>2, LaterEncodeServes
  <2> QED BY <1>2, <2>1, <2>2
<1>5. ServerInv'
  <2>1. \A d \in Clients \ {c} : phase'[d] # "encoded"
    BY <1>2, <1>3 DEF OthersSame
  <2> QED BY <1>4, <2>1 DEF ServerInv
<1>6. /\ phase[c] \in Playing /\ phase'[c] \in Playing
      /\ phase[c] \in {"called", "encoded"}
      /\ phase'[c] = "encoded" \/ (phase'[c] = "answered" /\ ~reply'[c].ok)
  BY <1>2, <1>4 DEF Playing
<1>7. Objects(c)'
  BY <1>1, <1>2, <1>6 DEF Sound, Objects
<1>8. LastRow(c)' /\ EarlierRows(c)' /\ KeptSince(c)'
  BY <1>1, <1>2, <1>6 DEF SameMap, Sound, LastRow, EarlierRows, KeptSince, RoundsOf, Settled
<1>9. Asked(c)' /\ Pushed(c)' /\ Exchanged(c)'
  BY <1>1, <1>2, <1>6 DEF SameMap, Sound, Asked, Pushed, Exchanged
<1>10. Functions'
  BY <1>1, <1>2 DEF Functions
<1> QED BY <1>2, <1>3, <1>5, <1>7, <1>8, <1>9, <1>10, SessionGoesOn DEF Sound

LEMMA HintCrashesServerKeepsSession ==
    ASSUME SessionInv, [Next]_vars, NEW c \in Clients, HintCrashesServer(c) PROVE SessionInv'
<1>1. /\ maps' = maps + 1 /\ NoHandler /\ server' = Crashed
      /\ UNCHANGED <<hash, clientData, client, phase, request, reply, res, initial>>
  BY DEF HintCrashesServer
<1>2. ServerInv'
  BY <1>1 DEF ServerInv, NoHandler
<1>3. maps' = maps => serverData \subseteq serverData'
  BY <1>1 DEF SessionInv, Numbered
<1> QED BY <1>1, <1>2, <1>3, SessionStays

(* What is inserted when no key is there already.                          *)
LEMMA InsertedWhole ==
    ASSUME NEW data, NEW keys, Duplicates(data, keys) = {}
    PROVE  Inserted(data, keys) = data \union KeysOf(keys) /\ KeysOf(keys) \intersect data = {}
BY DEF Inserted, Duplicates, KeysOf

LEMMA HandleDecodeKeepsSession ==
    ASSUME SessionInv, [Next]_vars, NEW c \in Clients, HandleDecode(c) PROVE SessionInv'
<1>1. InFlight /\ PerClient /\ Functions /\ hash \in Hashes /\ ServerInv /\ Sound(c) /\ Held(c)
  BY DEF SessionInv, InFlight
<1>2. /\ phase[c] = "encoded"
      /\ UNCHANGED <<hash, maps, clientData, client, request, res, initial>>
      /\ serverData' = Inserted(serverData, request[c].pushes)
      /\ Goto(c, "answered")
  BY DEF HandleDecode
<1>3. Encoded(server)
  BY <1>1, <1>2 DEF ServerInv
<1>0. PICK other \in SketchesFor(server.remaining, request[c].sketches) :
          /\ \E pastEnd \in Key :
                Answer(c, IF PushesFail(c) \/ LookupsFail(c) THEN [ok |-> FALSE]
                          ELSE [ok |-> TRUE, pushed |-> request[c].missing,
                                dec |-> decodeMessage(server, hash, other, pastEnd)])
          /\ server' = decode(server, hash, other)
  <2>1. {} \in Key
    BY DEF Key
  <2> QED BY <2>1 DEF HandleDecode
<1>4. PICK pastEnd \in Key :
          Answer(c, IF PushesFail(c) \/ LookupsFail(c) THEN [ok |-> FALSE]
                    ELSE [ok |-> TRUE, pushed |-> request[c].missing,
                          dec |-> decodeMessage(server, hash, other, pastEnd)])
  BY <1>0
<1>5. server' = decode(server, hash, other)
  BY <1>0
<1>6. phase'[c] = "answered" /\ OthersSame(c)
  BY <1>1, <1>2, <1>4 DEF PerClient, Goto, Answer, OthersSame
<1>7. reply'[c] = IF PushesFail(c) \/ LookupsFail(c) THEN [ok |-> FALSE]
                  ELSE [ok |-> TRUE, pushed |-> request[c].missing,
                        dec |-> decodeMessage(server, hash, other, pastEnd)]
  BY <1>1, <1>4 DEF PerClient, Answer
<1>8. other \in Seq(SUBSET Bins) /\ Len(other) = server.remaining
  <2>1. server.remaining \in Nat
    BY <1>3 DEF Encoded, Aligned, Pbs
  <2>2. request[c].sketches \in Seq(SUBSET Bins)
    BY <1>1, <1>2 DEF Sound, Objects
  <2> QED BY <2>1, <2>2, SketchesForType
<1>9. /\ Answered(server')
      /\ decodeMessage(server, hash, other, pastEnd) \in DecodingMessage
  <2>1. hash \in Hash
    BY <1>1, HashType
  <2> QED BY <1>3, <1>5, <1>8, <2>1, DecodingObject
<1>10. serverData \subseteq serverData'
  BY <1>2, InsertionAdds
<1>11. ServerInv'
  <2>1. \A d \in Clients \ {c} : phase'[d] # "encoded"
    BY <1>1, <1>2, <1>6 DEF ServerInv, OthersSame
  <2> QED BY <1>6, <1>9, <2>1 DEF ServerInv
<1>12. Objects(c)'
  BY <1>1, <1>2, <1>6, <1>7, <1>9 DEF Sound, Objects, Playing
<1>13. LastRow(c)' /\ KeptSince(c)'
  BY <1>1, <1>2, <1>6, <1>10 DEF SameMap, Sound, LastRow, KeptSince, RoundsOf, Playing
<1>14. EarlierRows(c)'
  BY <1>1, <1>2, <1>6, <1>10 DEF SameMap, Sound, EarlierRows, RoundsOf, Settled, Playing
<1>15. Pushed(c)'
  <2>1. SUFFICES ASSUME reply'[c].ok PROVE Pushed(c)'
    BY DEF SameMap, Pushed
  <2>2. ~PushesFail(c) /\ ~LookupsFail(c) /\ reply'[c].pushed = request[c].missing
    BY <1>7, <2>1
  <2> DEFINE pushes == KeysOf(request[c].pushes)
             missing == KeysOf(request[c].missing)
  <2>3. serverData' = serverData \union pushes /\ pushes \intersect serverData = {}
    BY <1>2, <2>2, InsertedWhole DEF PushesFail
  <2>4. missing \subseteq serverData'
    BY <1>2, <2>2 DEF LookupsFail
  <2>5. /\ KeysIn(res[c]) \subseteq pushes \union missing
        /\ missing \intersect clientData[c] = {} /\ pushes \subseteq clientData[c]
        /\ SameMap(c) => initial[c][2] \subseteq serverData
    BY <1>1, <1>2 DEF Sound, Asked, Held, KeptSince
  <2>6. KeysOf(reply'[c].pushed) = missing
    BY <2>2
  <2> HIDE DEF pushes, missing
  <2>7. KeysIn(res[c]) \subseteq serverData'
    BY <2>3, <2>4, <2>5
  <2>8. \A k \in KeysIn(res[c]) \ missing :
           k \in clientData[c] /\ (SameMap(c) => k \notin initial[c][2])
    BY <2>3, <2>5
  <2>9. SameMap(c)' = SameMap(c)
    BY <1>2 DEF SameMap
  <2> QED BY <1>2, <2>5, <2>6, <2>7, <2>8, <2>9 DEF Pushed
<1>16. Asked(c)' /\ Exchanged(c)'
  BY <1>6 DEF Asked, Exchanged
<1>17. Functions'
  BY <1>1, <1>2 DEF Functions
<1> QED
  BY <1>2, <1>6, <1>10, <1>11, <1>12, <1>13, <1>14, <1>15, <1>16, <1>17, SessionGoesOn DEF Sound

LEMMA HandleSynchronizeKeepsSession ==
    ASSUME SessionInv, [Next]_vars, NEW c \in Clients, HandleSynchronize(c) PROVE SessionInv'
<1>1. PerClient /\ Functions /\ ServerInv /\ Sound(c)
  BY DEF SessionInv, InFlight
<1>2. /\ phase[c] = "syncCalled" /\ phase'[c] = "syncAnswered" /\ OthersSame(c)
      /\ UNCHANGED <<hash, maps, clientData, client, server, request, res, initial>>
      /\ serverData \subseteq serverData'
  BY <1>1 DEF PerClient, HandleSynchronize, Goto, Answer, OthersSame
<1>3. Functions'
  BY <1>1, <1>2 DEF Functions
<1>4. ServerInv'
  <2>1. \A d \in Clients \ {c} : phase'[d] = phase[d]
    BY <1>2 DEF OthersSame
  <2> QED BY <1>1, <1>2, <2>1, ServerWaits
<1>5. KeptSince(c)'
  BY <1>1, <1>2 DEF SameMap, Sound, KeptSince
<1>6. Sound(c)'
  BY <1>2, <1>5 DEF SameMap, Sound, Objects, LastRow, EarlierRows, Asked, Pushed, Exchanged, Playing
<1> QED BY <1>2, <1>3, <1>4, <1>6, SessionGoesOn

-------------------------------------------------------------------------------
(* The client.                                                             *)
LEMMA ReceiveKeepsSession ==
    ASSUME SessionInv, [Next]_vars, NEW c \in Clients, Receive(c) PROVE SessionInv'
<1>1. PerClient /\ Functions /\ Maps /\ ServerInv /\ Sound(c)
  BY DEF SessionInv, InFlight
<1>2. /\ phase[c] = "answered" /\ reply[c].ok /\ Goto(c, "received")
      /\ Duplicates(clientData[c], reply[c].pushed) = {} /\ Take(c)
      /\ UNCHANGED <<hash, serverData, maps, client, server, request, res, initial>>
  BY DEF Receive
<1> DEFINE dec == reply[c].dec
           n == client[c].remaining
           parsed == Wire!ParseDecoding(BchM, BchT, n, MessageBits(dec))
           understood == Understood(parsed, XorList(dec), SumList(dec))
<1>3. Answer(c, IF Wire!CheckThrows(parsed, XorList(dec), SumList(dec))
                THEN [throws |-> TRUE, decoding |-> << >>]
                ELSE [throws |-> FALSE, decoding |-> understood])
  BY DEF Receive
<1>4. phase'[c] = "received" /\ OthersSame(c)
  BY <1>1, <1>2, <1>3 DEF PerClient, Maps, Goto, Answer, Take, OthersSame
<1>5. reply'[c] = IF Wire!CheckThrows(parsed, XorList(dec), SumList(dec))
                  THEN [throws |-> TRUE, decoding |-> << >>]
                  ELSE [throws |-> FALSE, decoding |-> understood]
  BY <1>1, <1>3 DEF PerClient, Answer
<1>6. ClientObject(client[c]) /\ dec \in DecodingMessage
  BY <1>1, <1>2 DEF Sound, Objects, Playing
<1>7. ASSUME ~Wire!CheckThrows(parsed, XorList(dec), SumList(dec))
      PROVE  UnderstoodAs(n, understood)
  <2>1. n \in Nat
    BY <1>6 DEF ClientObject, Aligned, Pbs
  <2>2. \E x : x = parsed
    OBVIOUS
  <2>3. PICK x : x = parsed
    BY <2>2
  <2>4. x = Wire!ParseDecoding(BchM, BchT, n, MessageBits(dec))
    BY <2>3
  <2> HIDE DEF n, dec
  <2>5. UnderstoodAs(n, Understood(x, XorList(dec), SumList(dec)))
    BY <1>6, <1>7, <2>1, <2>3, <2>4, AnswerUnderstood
  <2> QED BY <2>3, <2>5
<1>8. Objects(c)'
  <2>1. ClientObject(client'[c]) /\ client'[c].remaining = n
    BY <1>2, <1>6
  <2>2. ~reply'[c].throws => UnderstoodAs(n, reply'[c].decoding)
    BY <1>5, <1>7
  <2> HIDE DEF n
  <2> QED BY <1>4, <2>1, <2>2 DEF Objects
<1> HIDE DEF dec, n, parsed, understood
<1>9. /\ clientData'[c] = clientData[c] \union KeysOf(reply[c].pushed)
      /\ clientData[c] \subseteq clientData'[c]
  <2>1. clientData'[c] = Inserted(clientData[c], reply[c].pushed)
    BY <1>1, <1>2 DEF Take, Maps
  <2> QED BY <1>2, <2>1, InsertedWhole
<1>10. LastRow(c)' /\ KeptSince(c)'
  BY <1>1, <1>2, <1>4, <1>9 DEF SameMap, Sound, LastRow, KeptSince, RoundsOf, Playing
<1>11. EarlierRows(c)'
  <2>0. MapStays(c)
    BY <1>2 DEF MapStays, SameMap
  <2>1. ASSUME NEW row, Settled(c, row) PROVE Settled(c, row)'
    BY <1>2, <1>9, <2>0, <2>1, RowStaysSettled
  <2> QED BY <1>1, <1>2, <1>4, <2>1 DEF SameMap, Sound, EarlierRows, RoundsOf, Playing
<1>12. Exchanged(c)'
  <2> DEFINE pushed == KeysOf(reply[c].pushed)
  <2>1. /\ SameMap(c) => /\ KeysIn(res[c]) \subseteq serverData
                         /\ \A k \in KeysIn(res[c]) \ pushed : k \notin initial[c][2]
        /\ KeysIn(res[c]) \ pushed \subseteq clientData[c]
        /\ pushed \intersect clientData[c] = {}
        /\ initial[c][1] \subseteq clientData[c]
    BY <1>1, <1>2 DEF Sound, Pushed, KeptSince
  <2>2. clientData'[c] = clientData[c] \union pushed
    BY <1>9
  <2> HIDE DEF pushed
  <2>3. KeysIn(res[c]) \subseteq clientData'[c]
    BY <2>1, <2>2
  <2>4. SameMap(c) => \A k \in KeysIn(res[c]) : k \notin initial[c][1] \intersect initial[c][2]
    BY <2>1
  <2>5. SameMap(c)' = SameMap(c)
    BY <1>2 DEF SameMap
  <2> QED BY <1>2, <2>1, <2>3, <2>4, <2>5 DEF Exchanged, Settled
<1>13. Asked(c)' /\ Pushed(c)'
  BY <1>4 DEF SameMap, Asked, Pushed
<1>14. ServerInv'
  <2>1. \A d \in Clients \ {c} : phase'[d] = phase[d]
    BY <1>4 DEF OthersSame
  <2> QED BY <1>1, <1>2, <1>4, <2>1, ServerWaits
<1>15. Functions'
  BY <1>1, <1>2 DEF Functions
<1> QED
  BY <1>2, <1>4, <1>8, <1>10, <1>11, <1>12, <1>13, <1>14, <1>15, SessionGoesOn DEF Sound

LEMMA CheckKeepsSession ==
    ASSUME SessionInv, [Next]_vars, NEW c \in Clients, Check(c) PROVE SessionInv'
<1>1. PerClient /\ Functions /\ ServerInv /\ Sound(c)
  BY DEF SessionInv, InFlight
<1> DEFINE p == client[c]
           q == decodeCheck(p, hash, reply[c].decoding)
<1>2. /\ phase[c] = "received" /\ ~reply[c].throws
      /\ client' = [client EXCEPT ![c] = q]
      /\ res' = [res EXCEPT ![c] = client'[c].recovered[Len(client'[c].recovered)]]
      /\ Goto(c, IF decodeCheckCompletes(client'[c]) THEN "completed" ELSE "loop")
      /\ request' = [request EXCEPT ![c] = NoMessage] /\ Answer(c, NoMessage)
      /\ UNCHANGED <<hash, clientData, serverData, maps, server, initial>>
  BY DEF Check
<1> HIDE DEF q
<1>3. client'[c] = q
  BY <1>1, <1>2 DEF Functions
<1>4. OthersSame(c)
  BY <1>1, <1>2 DEF PerClient, Functions, Goto, Answer, OthersSame
<1>5. phase'[c] = IF decodeCheckCompletes(q) THEN "completed" ELSE "loop"
  BY <1>1, <1>2, <1>3 DEF PerClient, Goto
<1>6. res'[c] = q.recovered[Len(q.recovered)]
  BY <1>1, <1>2, <1>3 DEF Functions
<1>7. ClientObject(p) /\ UnderstoodAs(p.remaining, reply[c].decoding)
  BY <1>1, <1>2 DEF Sound, Objects, Playing
<1>8. Extended(p, q) /\ (~decodeCheckCompletes(q) => ClientObject(q))
  BY <1>7, CheckedObject DEF UnderstoodAs, q
<1>9. PICK row \in Seq(SUBSET Key) : q.recovered = Append(p.recovered, row)
  BY <1>8 DEF Extended
<1>10. RoundsOf(c) \in Nat /\ p.recovered \in Seq(Seq(SUBSET Key))
  BY <1>1, <1>2, <1>7, RowsAreKeys DEF Sound, Playing
<1> DEFINE n == RoundsOf(c)
           T == Seq(SUBSET Key)
<1>11. /\ Len(q.recovered) = n + 1 /\ q.recovered[n + 1] = row
       /\ \A r \in 1..n : q.recovered[r] = p.recovered[r]
  <2>1. p.recovered \in Seq(T) /\ row \in T /\ n = Len(p.recovered)
    BY <1>9, <1>10 DEF RoundsOf
  <2> HIDE DEF T, n
  <2> QED BY <1>9, <2>1
<1>12. RoundsOf(c)' = n + 1 /\ n \in Nat
  BY <1>3, <1>10, <1>11 DEF RoundsOf
<1>13. Objects(c)'
  BY <1>3, <1>5, <1>8 DEF Objects, Playing
<1>14. LastRow(c)'
  <2>1. res'[c] = client'[c].recovered[n + 1]
    BY <1>3, <1>6, <1>11
  <2> HIDE DEF n
  <2>2. n + 1 # 0
    BY <1>12
  <2> QED BY <1>12, <2>1, <2>2 DEF LastRow
<1>15. EarlierRows(c)'
  <2>1. ASSUME NEW r \in 1..n PROVE Settled(c, p.recovered[r])
    <3>1. CASE r = n
      <4>1. n # 0 /\ res[c] = p.recovered[n]
        BY <1>1, <1>2, <1>10, <2>1, <3>1 DEF Sound, LastRow, Playing
      <4>2. Settled(c, res[c])
        BY <1>1, <1>2 DEF Sound, Exchanged
      <4> QED BY <3>1, <4>1, <4>2
    <3>2. CASE r # n
      <4>1. r \in 1..(n - 1)
        BY <1>12, <3>2
      <4> QED BY <1>1, <1>2, <4>1 DEF SameMap, Sound, EarlierRows, Playing
    <3> QED BY <3>1, <3>2
  <2>2. ASSUME NEW r \in 1..n PROVE Settled(c, client[c].recovered[r])'
    <3>1. client'[c].recovered[r] = p.recovered[r]
      BY <1>3, <1>11
    <3>2. Settled(c, p.recovered[r])
      BY <2>1
    <3> QED BY <1>2, <3>1, <3>2 DEF SameMap, Settled
  <2>3. (RoundsOf(c) - 1)' = n
    BY <1>12
  <2> QED BY <2>2, <2>3 DEF SameMap, EarlierRows
<1>16. KeptSince(c)'
  BY <1>1, <1>2 DEF SameMap, Sound, KeptSince
<1>17. Asked(c)' /\ Pushed(c)' /\ Exchanged(c)'
  BY <1>5 DEF SameMap, Asked, Pushed, Exchanged
<1>18. ServerInv'
  <2>1. \A d \in Clients \ {c} : phase'[d] = phase[d]
    BY <1>4 DEF OthersSame
  <2> QED BY <1>1, <1>2, <1>5, <2>1, ServerWaits
<1>19. Functions'
  BY <1>1, <1>2 DEF Functions
<1> QED
  BY <1>2, <1>4, <1>13, <1>14, <1>15, <1>16, <1>17, <1>18, <1>19, SessionGoesOn DEF Sound

LEMMA SynchronizeKeepsSession ==
    ASSUME SessionInv, [Next]_vars, NEW c \in Clients, Synchronize(c) PROVE SessionInv'
<1>1. PerClient /\ Functions /\ ServerInv /\ Sound(c)
  BY DEF SessionInv, InFlight
<1>2. /\ phase[c] = "completed" /\ phase'[c] = "syncCalled" /\ OthersSame(c)
      /\ UNCHANGED <<hash, clientData, serverData, maps, client, server, reply, res, initial>>
  BY <1>1 DEF PerClient, Synchronize, Goto, OthersSame
<1>3. Functions'
  BY <1>1, <1>2 DEF Functions
<1>4. ServerInv'
  <2>1. \A d \in Clients \ {c} : phase'[d] = phase[d]
    BY <1>2 DEF OthersSame
  <2> QED BY <1>1, <1>2, <2>1, ServerWaits
<1>5. KeptSince(c)'
  BY <1>1, <1>2 DEF SameMap, Sound, KeptSince
<1>6. Sound(c)'
  BY <1>2, <1>5 DEF SameMap, Sound, Objects, LastRow, EarlierRows, Asked, Pushed, Exchanged, Playing
<1> QED BY <1>2, <1>3, <1>4, <1>6, SessionGoesOn

LEMMA ReturnsKeepSession ==
    ASSUME SessionInv, [Next]_vars, NEW c \in Clients,
           \/ GiveUp(c) \/ CallFails(c) \/ ReceiveError(c) \/ CheckThrows(c)
           \/ NothingToSynchronize(c) \/ ReceiveSynchronize(c) \/ SynchronizeFails(c)
    PROVE  SessionInv'
<1>1. Maps
  BY DEF SessionInv, InFlight
<1>2. /\ phase[c] \notin {"idle", "encoded"} /\ \E value : Return(c, value)
      /\ UNCHANGED <<hash, serverData, maps, server, res, initial>>
  BY DEF GiveUp, CallFails, ReceiveError, CheckThrows, NothingToSynchronize,
         ReceiveSynchronize, SynchronizeFails
<1>3. \A d \in Clients \ {c} : clientData'[d] = clientData[d]
  BY <1>1 DEF Maps, Take, GiveUp, CallFails, ReceiveError, CheckThrows,
              NothingToSynchronize, ReceiveSynchronize, SynchronizeFails
<1> QED BY <1>2, <1>3, ReturnKeepsSession

-------------------------------------------------------------------------------
LEMMA SessionStarts == Init => SessionInv
<1> SUFFICES ASSUME Init PROVE SessionInv
  OBVIOUS
<1>1. InFlight
  BY InitImplements
<1>2. \A c \in Clients : phase[c] = "idle"
  BY DEF Init
<1>3. \A c \in Clients : Sound(c)
  BY <1>2 DEF SameMap, Sound, Objects, LastRow, EarlierRows, KeptSince, Asked, Pushed, Exchanged, Playing
<1>4. ServerInv
  BY <1>2 DEF Init, ServerInv
<1> QED BY <1>1, <1>3, <1>4 DEF Init, Functions, Numbered, SessionInv

LEMMA SessionStep ==
    SessionInv /\ [Next]_vars => SessionInv'
<1> SUFFICES ASSUME SessionInv, [Next]_vars PROVE SessionInv'
  OBVIOUS
<1>1. CASE UNCHANGED vars
  <2>1. ServerInv'
    BY <1>1 DEF vars, SessionInv, ServerInv
  <2> QED BY <1>1, <2>1, SessionStays DEF vars
<1>2. CASE Restart
  BY <1>2, RestartKeepsSession
<1>3. ASSUME NEW c \in Clients,
             \/ SetUp(c) \/ Begin(c) \/ TearDown(c) \/ Call(c) \/ HandleEncode(c)
             \/ HintCrashesServer(c)
      PROVE  SessionInv'
  BY <1>3, SetUpKeepsSession, BeginKeepsSession, TearDownKeepsSession, CallKeepsSession,
     HandleEncodeKeepsSession, HintCrashesServerKeepsSession
<1>4. ASSUME NEW c \in Clients,
             HandleDecode(c) \/ Receive(c) \/ Check(c) \/ Synchronize(c) \/ HandleSynchronize(c)
      PROVE  SessionInv'
  BY <1>4, HandleDecodeKeepsSession, ReceiveKeepsSession, CheckKeepsSession,
     SynchronizeKeepsSession, HandleSynchronizeKeepsSession
<1>5. ASSUME NEW c \in Clients,
             \/ GiveUp(c) \/ CallFails(c) \/ ReceiveError(c) \/ CheckThrows(c)
             \/ NothingToSynchronize(c) \/ ReceiveSynchronize(c) \/ SynchronizeFails(c)
      PROVE  SessionInv'
  BY <1>5, ReturnsKeepSession
<1> QED BY <1>1, <1>2, <1>3, <1>4, <1>5 DEF Next, Stopped

(* Whatever is lost, thrown, stale or shared, and whenever the server gets  *)
(* another map or crashes, the objects and the messages of every session   *)
(* are well-formed, the server plays one round at a time, and what a       *)
(* client has recovered is verified round by round: against its own map,   *)
(* and against the server's as long as that is the map of the beginning.   *)
THEOREM ServiceInvariant == Spec => []SessionInv
BY SessionStarts, SessionStep, PTL DEF Spec

(* A request that succeeds has verified the keys of the round before: in a *)
(* running call the client has every key recovered in any round but the    *)
(* last; and if the server has kept its map since the call began, the key  *)
(* was a true difference then, and the server has it too.                  *)
THEOREM EarlierRoundsAreSettled == Spec => []EarlierRoundsSettled
<1>1. SessionInv => EarlierRoundsSettled
  <2> SUFFICES ASSUME SessionInv, NEW c \in Clients, InCall(c),
                      NEW r \in 1..(Len(client[c].recovered) - 1),
                      NEW g \in 1..Len(client[c].recovered[r]),
                      NEW k \in client[c].recovered[r][g]
               PROVE  /\ k \in clientData[c]
                      /\ SameMap(c) => /\ k \in serverData
                                       /\ k \notin initial[c][1] \intersect initial[c][2]
    BY DEF EarlierRoundsSettled
  <2>1. Settled(c, client[c].recovered[r])
    BY DEF SameMap, SessionInv, Sound, EarlierRows, InCall, Playing, RoundsOf
  <2>2. k \in KeysIn(client[c].recovered[r])
    BY DEF KeysIn
  <2> QED BY <2>1, <2>2 DEF SameMap, Settled
<1> QED BY <1>1, ServiceInvariant, PTL

-------------------------------------------------------------------------------
(* What the other side reads of a message.                                 *)
LEMMA HintRead ==
    ASSUME NEW p, ClientObject(p), p.exceptions # << >>
    PROVE  /\ p.hintRange = 1 => HintBits(p) = << >>
           /\ p.hintRange # 1 =>
                 /\ Len(Wire!ParseHint(p.hintRange, HintBits(p)).ids) = Len(p.exceptions)
                 /\ Wire!ParseHint(p.hintRange, HintBits(p)).ids
                       = [i \in 1..Len(p.exceptions) |-> p.exceptions[i] - 1]
<1> DEFINE n == Len(p.exceptions)
           range == p.hintRange
           ids == [i \in 1..n |-> p.exceptions[i] - 1]
<1>1. /\ n \in Nat /\ p.exceptions \in [1..n -> 1..range] /\ range \in Nat \ {0}
      /\ \A i, j \in 1..n : i < j => p.exceptions[i] < p.exceptions[j]
      /\ p.exceptions \in Seq(Nat)
  BY DEF ClientObject, Aligned, Pbs, IdList
<1>2. n > 0
  BY <1>1
<1>3. HintBits(p) = Wire!WriteHint(range, ids)
  BY DEF HintBits
<1> HIDE DEF n, range
<1>4. \A i \in 1..n : p.exceptions[i] - 1 \in Nat /\ p.exceptions[i] - 1 < range
  BY <1>1
<1>5. ids \in [1..n -> Nat] /\ \A i \in 1..n : ids[i] < range
  BY <1>4
<1>6. ids \in Seq(Nat) /\ Len(ids) = n
  BY <1>1, <1>5, FunctionIsSeq
<1>7. \A i, j \in 1..n : i < j => ids[i] < ids[j]
  <2>1. SUFFICES ASSUME NEW i \in 1..n, NEW j \in 1..n, i < j PROVE ids[i] < ids[j]
    OBVIOUS
  <2>2. ids[i] = p.exceptions[i] - 1 /\ ids[j] = p.exceptions[j] - 1
    OBVIOUS
  <2>3. p.exceptions[i] < p.exceptions[j] /\ p.exceptions[i] \in Int /\ p.exceptions[j] \in Int
    BY <1>1, <2>1
  <2> QED BY <2>2, <2>3
<1> HIDE DEF ids
<1>8. Msgs!IsIncreasing(ids, range)
  BY <1>5, <1>6, <1>7 DEF Msgs!IsIncreasing
<1>9. ByteBits \in Nat \ {0}
  BY ServiceAssumption
<1>10. ASSUME range = 1 PROVE HintBits(p) = << >>
  <2>1. Msgs!WriteHint(1, ids) = << >>
    BY <1>6, <1>9, Msgs!HintOfOne
  <2> QED BY <1>3, <1>10, <2>1, SameWriteHint
<1>11. ASSUME range # 1
       PROVE  LET read == Wire!ParseHint(range, HintBits(p)).ids
              IN  Len(read) = n /\ read = ids
  <2>1. Msgs!ParseHint(range, Msgs!WriteHint(range, ids))
           = [threw |-> FALSE, ids |-> IF range = 1 THEN << >> ELSE ids]
    BY <1>1, <1>2, <1>6, <1>8, <1>9, Msgs!HintIsRead
  <2>2. Wire!ParseHint(range, HintBits(p)) = Msgs!ParseHint(range, Msgs!WriteHint(range, ids))
    BY <1>3, SameWriteHint, SameParseHint
  <2>3. Wire!ParseHint(range, HintBits(p)).ids = ids
    BY <1>11, <2>1, <2>2
  <2> QED BY <1>6, <2>3
<1> QED BY <1>10, <1>11 DEF range, n, ids

(* The decoder never answers more positions than the code corrects.        *)
Faithful(dec) == \A g \in 1..Len(dec) : Cardinality(dec[g].at) <= BchT

LEMMA AnswerIsFaithful ==
    ASSUME NEW p, Encoded(p), NEW h \in Hashes, NEW other \in Seq(SUBSET Bins),
           Len(other) = p.remaining, NEW e \in Key
    PROVE  Faithful(decodeMessage(p, h, other, e))
<1> DEFINE dec == decodeMessage(p, h, other, e)
<1>1. /\ p \in Pbs /\ Len(p.sketches) = p.remaining /\ p.remaining \in Nat
      /\ p.sketches \in Seq(SUBSET Bins)
  BY DEF Encoded, Aligned, Pbs
<1>2. IsHash(h) /\ BchT \in Nat
  BY ServiceAssumption, SketchAssumption
<1>3. ASSUME NEW g \in 1..p.remaining PROVE Cardinality(dec[g].at) <= BchT
  <2> DEFINE s == p.sketches[g] (+) other[g]
  <2>1. s \in SUBSET Bins
    <3>1. p.sketches[g] \in SUBSET Bins /\ other[g] \in SUBSET Bins
      BY <1>1
    <3> QED BY <3>1 DEF (+)
  <2>2. dec[g].at = h.decode[s].at
    BY DEF decodeMessage, DecodeOf
  <2> HIDE DEF s
  <2>3. h.decode[s] \in DecodeOutcomes(s)
    BY <1>2, <2>1 DEF IsHash
  <2>4. Cardinality({}) <= BchT
    BY <1>2, FS_EmptySet
  <2>5. Cardinality(h.decode[s].at) <= BchT
    <3>1. CASE Cardinality(s) <= BchT
      <4>1. h.decode[s].at = s
        BY <2>3, <3>1 DEF DecodeOutcomes
      <4> QED BY <3>1, <4>1
    <3>2. CASE ~(Cardinality(s) <= BchT)
      <4>1. h.decode[s].at = {} \/ Cardinality(h.decode[s].at) <= BchT
        BY <2>3, <3>2 DEF DecodeOutcomes
      <4> QED BY <2>4, <4>1
    <3> QED BY <3>1, <3>2
  <2> QED BY <2>2, <2>5
<1>4. Len(dec) = p.remaining
  BY <1>1 DEF decodeMessage
<1> QED BY <1>3, <1>4 DEF Faithful

LEMMA AnswerReadBack ==
    ASSUME NEW dec \in DecodingMessage, Faithful(dec), NEW parsed,
           parsed = Wire!ParseDecoding(BchM, BchT, Len(dec), MessageBits(dec)), NEW xors, NEW sums
    PROVE  FailedGroups(Len(dec), Understood(parsed, xors, sums)) = FailedGroups(Len(dec), dec)
<1> DEFINE n == Len(dec)
           groups == [g \in 1..n |-> Positions(dec, g)]
           c == parsed.counts
           und == Understood(parsed, xors, sums)
<1>1. n \in Nat /\ \A g \in 1..n : dec[g].at \in SUBSET Position /\ dec[g].ok \in BOOLEAN
  BY GroupDecodingIs DEF DecodingMessage
<1>2. BchN \in Nat /\ BchM \in Nat /\ BchT \in Nat /\ ByteBits \in Nat \ {0} /\ BchN = 2^BchM - 1
  BY SketchAssumption, ServiceAssumption
<1>3. ASSUME NEW g \in 1..n
      PROVE  /\ Msgs!IsOutcome(groups[g], BchM, BchT)
             /\ groups[g] = Msgs!Failed <=> ~dec[g].ok
  <2> DEFINE s == Ordered(dec[g].at)
  <2>1. ArePositions(s, dec[g].at)
    BY <1>1, OrderedPositions
  <2>2. groups[g] = IF dec[g].ok THEN s ELSE Wire!Failed
    BY DEF Positions
  <2>3. Cardinality(dec[g].at) <= BchT
    BY DEF Faithful
  <2> HIDE DEF groups, s
  <2>4. Msgs!Failed = Wire!Failed
    BY DEF Msgs!Failed, Wire!Failed
  <2>5. ASSUME NEW k \in 1..Len(s) PROVE s[k] < 2^BchM
    <3> DEFINE e == 2^BchM
    <3>1. s[k] \in 1..BchN /\ BchN = e - 1 /\ e \in Nat
      BY <1>2, <2>1, Msgs!Stream!PowerType DEF ArePositions
    <3> HIDE DEF e
    <3>2. s[k] < e
      BY <1>2, <3>1
    <3> QED BY <3>2 DEF e
  <2>6. Msgs!IsOutcome(s, BchM, BchT)
    BY <2>1, <2>3, <2>4, <2>5 DEF ArePositions, Msgs!IsOutcome
  <2>7. Msgs!IsOutcome(Wire!Failed, BchM, BchT)
    BY <2>4 DEF Msgs!IsOutcome
  <2>8. s # Wire!Failed
    BY <2>1 DEF ArePositions
  <2> QED BY <2>2, <2>4, <2>6, <2>7, <2>8
<1>4. Len(groups) = n /\ groups = [g \in 1..n |-> groups[g]]
  BY <1>1
<1>5. MessageBits(dec) = Wire!WriteDecoding(BchM, BchT, groups)
  BY DEF MessageBits
<1> HIDE DEF groups
<1>6. Msgs!AreOutcomes(groups, BchM, BchT)
  BY <1>1, <1>3, <1>4 DEF Msgs!AreOutcomes
<1>7. parsed = [counts |-> Msgs!Counts(groups), positions |-> Msgs!Positions(groups)]
  <2>1. Msgs!ParseDecoding(BchM, BchT, Len(groups), Msgs!WriteDecoding(BchM, BchT, groups))
           = [counts |-> Msgs!Counts(groups), positions |-> Msgs!Positions(groups)]
    BY <1>2, <1>6, Msgs!DecodingIsParsed
  <2> QED BY <1>4, <1>5, <2>1, SameWriteDecoding, SameParseDecoding
<1>8. Len(c) = n /\ \A g \in 1..n : c[g] < 0 <=> groups[g] = Msgs!Failed
  <2>1. /\ Len(Msgs!Counts(groups)) = Len(groups)
        /\ \A g \in 1..Len(groups) : Msgs!Counts(groups)[g] < 0 <=> groups[g] = Msgs!Failed
    BY <1>2, <1>6, Msgs!CountsType
  <2> QED BY <1>4, <1>7, <2>1
<1>9. ASSUME NEW g \in 1..n PROVE und[g].ok <=> dec[g].ok
  <2>1. c[g] < 0 <=> ~dec[g].ok
    BY <1>3, <1>8
  <2>2. und[g].ok = ~(c[g] < 0)
    BY <1>8 DEF Understood, FailedGroup
  <2> QED BY <1>1, <2>1, <2>2
<1> HIDE DEF und
<1>10. {g \in 1..n : ~und[g].ok} = {g \in 1..n : ~dec[g].ok}
  BY <1>9
<1> QED BY <1>10 DEF FailedGroups, und

LEMMA EmptyAnswerThrows ==
    ASSUME NEW dec \in DecodingMessage, Len(dec) = 0, NEW n \in Nat \ {0}, NEW parsed,
           parsed = Wire!ParseDecoding(BchM, BchT, n, MessageBits(dec))
    PROVE  Wire!CheckThrows(parsed, XorList(dec), SumList(dec))
<1>1. dec = << >>
  BY DEF DecodingMessage
<1>2. BchM \in Nat /\ BchT \in Nat /\ ByteBits \in Nat \ {0}
  BY SketchAssumption, ServiceAssumption
<1>3. MessageBits(dec) = << >>
  <2>1. MessageBits(dec) = Wire!WriteDecoding(BchM, BchT, << >>)
    BY <1>1 DEF MessageBits
  <2>2. Msgs!WriteDecoding(BchM, BchT, << >>) = << >>
    BY <1>2, Msgs!DecodingOfNone
  <2> QED BY <2>1, <2>2, SameWriteDecoding
<1>4. Seqs!FlattenSeq(<< >>) = << >>
  BY <1>2, SameFlatten, Msgs!NoLists
<1>5. XorList(dec) = << >> /\ SumList(dec) = << >>
  BY <1>1, <1>4 DEF XorList, SumList
<1>6. Msgs!CheckThrows(Msgs!ParseDecoding(BchM, BchT, n, << >>), << >>, << >>)
  BY <1>2, Msgs!NothingThrows
<1>7. parsed = Msgs!ParseDecoding(BchM, BchT, n, << >>)
  BY <1>3, SameParseDecoding
<1>8. Msgs!CheckThrows(parsed, << >>, << >>) = Wire!CheckThrows(parsed, << >>, << >>)
  BY SameSum, SameCid DEF Wire!CheckThrows, Msgs!CheckThrows, Wire!SumOf, Msgs!SumOf
<1> QED BY <1>5, <1>6, <1>7, <1>8

-------------------------------------------------------------------------------
(* A call that has the server, with no _pbs of an earlier call, to itself: *)
(* what the server is about to do is what the client expects it to do.     *)
(* There is one exception.  If a single group is left and has failed its   *)
(* checksum, its id has no bit, the hint is empty, and the server is left  *)
(* without a group; its empty answer makes the client throw.               *)
Bob(p) == p \in Pbs /\ p.role = "Bob"

NextRound(c) ==
    \/ /\ server = NoPbs
       /\ client[c].exceptions = << >> /\ client[c].remaining = NumGroups
    \/ /\ Bob(server)
       /\ server.hintRange = client[c].hintRange
       /\ client[c].remaining = PieceCount(server.failed) + Len(client[c].exceptions)
       /\ client[c].hintRange = 1 /\ client[c].exceptions # << >> => server.failed = << >>

Requested(c) ==
    \/ server = NoPbs /\ request[c].hint = << >> /\ client[c].remaining = NumGroups
    \/ /\ Bob(server)
       /\ server.hintRange = client[c].hintRange
       /\ \/ /\ request[c].hint = << >>
             /\ server.failed = << >> \/ client[c].remaining = PieceCount(server.failed)
          \/ /\ client[c].hintRange # 1
             /\ client[c].remaining = PieceCount(server.failed)
                   + Len(Wire!ParseHint(client[c].hintRange, request[c].hint).ids)

Told(c, dec) ==
    /\ Bob(server)
    /\ server.hintRange = client[c].remaining
    /\ Len(dec) = client[c].remaining
    /\ FailedGroups(client[c].remaining, dec) = server.failed

InStep(c) ==
    /\ phase[c] = "loop" => NextRound(c)
    /\ phase[c] = "called" => Requested(c)
    /\ phase[c] = "encoded" => server.remaining \in {0, client[c].remaining}
    /\ phase[c] = "answered" /\ reply[c].ok =>
          \/ Len(reply[c].dec) = 0
          \/ Told(c, reply[c].dec) /\ Faithful(reply[c].dec)
    /\ phase[c] = "received" /\ ~reply[c].throws => Told(c, reply[c].decoding)

Undisturbed(c) ==
    fresh[c] =>
        /\ \A d \in Clients \ {c} : phase[d] = "idle"
        /\ server # Crashed
        /\ InStep(c)

FreshInv == \A c \in Clients : Undisturbed(c)

(* Only a client that is called disturbs another call. *)
LEMMA OthersUndisturbed ==
    ASSUME FreshInv, NEW c \in Clients, phase[c] # "idle", fresh' = fresh, Undisturbed(c)'
    PROVE  FreshInv'
BY DEF FreshInv, Undisturbed

LEMMA ReturnUndisturbed ==
    ASSUME FreshInv, PerClient, NEW c \in Clients, phase[c] # "idle",
           Goto(c, "idle"), UNCHANGED <<server, fresh>>
    PROVE  FreshInv'
<1>1. phase'[c] = "idle" /\ \A d \in Clients \ {c} : phase'[d] = phase[d]
  BY DEF PerClient, Goto
<1>2. InStep(c)'
  BY <1>1 DEF InStep
<1>3. Undisturbed(c)'
  BY <1>1, <1>2 DEF FreshInv, Undisturbed
<1> QED BY <1>3, OthersUndisturbed

LEMMA CallStaysInStep ==
    ASSUME SessionInv, FreshInv, NEW c \in Clients, Call(c) PROVE FreshInv'
<1>1. PerClient /\ Functions /\ Sound(c)
  BY DEF SessionInv, InFlight
<1>2. /\ phase[c] = "loop" /\ phase'[c] = "called"
      /\ \A d \in Clients \ {c} : phase'[d] = phase[d]
      /\ client'[c] = encode(client[c], hash)
      /\ request'[c].hint = HintBits(client[c])
      /\ server' = server /\ fresh' = fresh
  BY <1>1 DEF PerClient, Functions, Call, Goto
<1> DEFINE p == client[c]
<1>3. ClientObject(p)
  BY <1>1, <1>2 DEF Sound, Objects, Playing
<1>4. client'[c].remaining = p.remaining /\ client'[c].hintRange = p.hintRange
  BY <1>2, <1>3, EncodingObject DEF ClientObject
<1>5. ASSUME NextRound(c) PROVE Requested(c)'
  <2>1. CASE server = NoPbs
    <3>1. p.exceptions = << >> /\ p.remaining = NumGroups
      BY <1>5, <2>1, NotObjects DEF NextRound, Bob
    <3> QED BY <1>2, <1>4, <2>1, <3>1 DEF Requested, HintBits
  <2>2. CASE server # NoPbs
    <3>1. /\ Bob(server) /\ server.hintRange = p.hintRange
          /\ p.remaining = PieceCount(server.failed) + Len(p.exceptions)
          /\ p.hintRange = 1 /\ p.exceptions # << >> => server.failed = << >>
      BY <1>5, <2>2 DEF NextRound
    <3>2. CASE p.exceptions = << >>
      <4>1. request'[c].hint = << >>
        BY <1>2, <3>2 DEF HintBits
      <4>2. PieceCount(server.failed) \in Nat
        <5>1. Len(server.failed) \in Nat
          BY <3>1 DEF Bob, Pbs
        <5> QED BY <5>1, PieceCountIsNat
      <4>3. p.remaining = PieceCount(server.failed)
        BY <3>1, <3>2, <4>2
      <4> QED BY <1>2, <1>4, <3>1, <4>1, <4>3 DEF Requested, Bob
    <3>3. CASE p.exceptions # << >> /\ p.hintRange = 1
      <4>1. request'[c].hint = << >> /\ server.failed = << >>
        BY <1>2, <1>3, <3>1, <3>3, HintRead
      <4> QED BY <1>2, <1>4, <3>1, <4>1 DEF Requested, Bob
    <3>4. CASE p.exceptions # << >> /\ p.hintRange # 1
      <4>1. Len(Wire!ParseHint(p.hintRange, request'[c].hint).ids) = Len(p.exceptions)
        BY <1>2, <1>3, <3>4, HintRead
      <4> QED BY <1>2, <1>4, <3>1, <3>4, <4>1 DEF Requested, Bob
    <3> QED BY <3>2, <3>3, <3>4
  <2> QED BY <2>1, <2>2
<1>6. Undisturbed(c)'
  BY <1>2, <1>5 DEF FreshInv, Undisturbed, InStep
<1> QED BY <1>2, <1>6, OthersUndisturbed

LEMMA HintCrashesNoFreshServer ==
    ASSUME SessionInv, FreshInv, NEW c \in Clients, HintCrashesServer(c) PROVE FreshInv'
<1>1. /\ phase[c] = "called" /\ server \notin {NoPbs, Crashed}
      /\ request[c].hint # << >> /\ server.hintRange \in {0, 1}
  BY DEF HintCrashesServer, Down, Wire!HintDividesByZero
<1>2. ClientObject(client[c])
  BY <1>1 DEF SessionInv, Sound, Objects, Playing
<1>3. ASSUME fresh[c] PROVE FALSE
  <2>1. Requested(c)
    BY <1>1, <1>3 DEF FreshInv, Undisturbed, InStep
  <2>2. server.hintRange = client[c].hintRange /\ client[c].hintRange # 1
    BY <1>1, <2>1 DEF Requested
  <2> QED BY <1>1, <1>2, <2>2 DEF ClientObject
<1>4. ASSUME NEW d \in Clients \ {c} PROVE ~fresh[d]
  BY <1>1 DEF FreshInv, Undisturbed
<1>5. fresh' = fresh
  BY DEF HintCrashesServer
<1> QED BY <1>3, <1>4, <1>5 DEF FreshInv, Undisturbed

(* The server finds as many groups as the client has, or none.             *)
LEMMA FirstEncodeInStep ==
    ASSUME SessionInv, NEW c \in Clients, Requested(c), phase'[c] = "encoded",
           phase[c] = "called", FirstEncode(c)
    PROVE  server'.remaining = client[c].remaining
<1>1. PerClient /\ Maps /\ hash \in Hashes
  BY DEF SessionInv, InFlight
<1>2. server = NoPbs
  BY DEF FirstEncode
<1>3. client[c].remaining = NumGroups
  BY <1>2, NotObjects DEF Requested, Bob
<1>4. request[c].hint = << >>
  BY <1>1 DEF FirstEncode, Goto, PerClient
<1>5. server' = encode(Construct(serverData, hash), hash)
  BY <1>4 DEF FirstEncode
<1> DEFINE p == Construct(serverData, hash)
<1>6. Aligned(p) /\ p.remaining = NumGroups
  BY <1>1, NewObject DEF Maps, ClientObject
<1> HIDE DEF p
<1>7. encode(p, hash).remaining = NumGroups
  BY <1>6, EncodingObject
<1> QED BY <1>3, <1>5, <1>7 DEF p

(* The groups that a hint names for a server in step. *)
HintFor(p, bits) ==
    LET ids == Wire!ParseHint(p.hintRange, bits).ids
    IN  [i \in 1..Len(ids) |-> ids[i] + 1]

LEMMA LaterEncodeDoes ==
    ASSUME SessionInv, NEW c \in Clients, Requested(c), phase'[c] = "encoded",
           phase[c] = "called", LaterEncode(c), server # Crashed,
           \A d \in Clients : phase[d] # "encoded"
    PROVE  LET ids == HintFor(client[c], request[c].hint)
           IN  /\ Answered(server) /\ Bob(server)
               /\ ~encodeWithHintThrows(server, ids) /\ server' = encodeWithHint(server, hash, ids)
               /\ server'.remaining = PieceCount(server.failed) + Len(ids)
               /\ Len(ids) = Len(Wire!ParseHint(client[c].hintRange, request[c].hint).ids)
               /\ Len(ids) \in Nat /\ (request[c].hint = << >> => Len(ids) = 0)
               /\ PieceCount(server.failed) \in Nat
               /\ server.failed = << >> => PieceCount(server.failed) = 0
<1> DEFINE range == server.hintRange
           hint == request[c].hint
           parsed == Wire!ParseHint(range, hint)
           n == Len(parsed.ids)
           ids == [i \in 1..n |-> parsed.ids[i] + 1]
           pieces == PieceCount(server.failed)
<1>1. PerClient /\ Sound(c) /\ ServerInv
  BY DEF SessionInv, InFlight
<1>2. server # NoPbs /\ (hint = << >> \/ Wire!HintDivides(range, hint))
  BY DEF LaterEncode
<1>3. Answered(server) /\ Bob(server) /\ range = client[c].hintRange
  BY <1>1, <1>2, NotObjects DEF ServerInv, Requested, Bob
<1>4. range \in Nat /\ hint \in Seq(Bits)
  BY <1>1, <1>3 DEF Answered, Pbs, Sound, Objects
<1>5. HintIs(range, parsed)
  <2> HIDE DEF hint, range
  <2> QED BY <1>2, <1>4, HintParsed
<1>6. n \in Nat /\ parsed.ids \in [1..n -> Nat]
  BY <1>5 DEF HintIs
<1>7. server' = encodeWithHint(server, hash, ids) /\ ~parsed.threw
  <2>1. IF parsed.threw \/ encodeWithHintThrows(server, ids)
        THEN Goto(c, "answered")
        ELSE server' = encodeWithHint(server, hash, ids)
    BY DEF LaterEncode
  <2>2. ~Goto(c, "answered")
    BY <1>1 DEF Goto, PerClient
  <2> QED BY <2>1, <2>2
<1>8. ids \in [1..n -> 1..range]
  <2>1. \A i \in 1..n : parsed.ids[i] \in Nat /\ parsed.ids[i] < range
    BY <1>5, <1>6, <1>7 DEF HintIs
  <2>2. \A i \in 1..n : parsed.ids[i] + 1 \in 1..range
    BY <1>4, <2>1
  <2> QED BY <2>2
<1>9. hint = << >> => n = 0
  <2>1. hint = << >> => parsed.ids = << >>
    BY DEF Wire!ParseHint
  <2> QED BY <2>1
<1>10. pieces \in Nat /\ (server.failed = << >> => pieces = 0)
  <2>1. Len(server.failed) \in Nat
    BY <1>3 DEF Bob, Pbs
  <2>2. pieces \in Nat
    BY <2>1, PieceCountIsNat
  <2>3. Splits \in Nat
    BY SketchAssumption
  <2>4. server.failed = << >> => Len(server.failed) = 0
    OBVIOUS
  <2> QED BY <2>2, <2>3, <2>4 DEF PieceCount
<1>11. server'.remaining = pieces + n /\ ~encodeWithHintThrows(server, ids)
  <2> HIDE DEF ids, n, parsed, hint, range
  <2>1. /\ encodeWithHint(server, hash, ids).remaining = PieceCount(server.failed) + n
        /\ ~encodeWithHintThrows(server, ids)
    BY <1>3, <1>6, <1>8, HintedObject DEF Bob, range
  <2> QED BY <1>7, <2>1 DEF pieces
<1>12. ids = HintFor(client[c], request[c].hint) /\ Len(ids) = n
  BY <1>3, <1>6 DEF HintFor
<1> HIDE DEF ids, n, parsed, range, pieces
<1> QED BY <1>3, <1>6, <1>7, <1>9, <1>10, <1>11, <1>12 DEF n, parsed, range, pieces

LEMMA LaterEncodeInStep ==
    ASSUME SessionInv, NEW c \in Clients, Requested(c), phase'[c] = "encoded",
           phase[c] = "called", LaterEncode(c), server # Crashed,
           \A d \in Clients : phase[d] # "encoded"
    PROVE  server'.remaining \in {0, client[c].remaining}
<1> DEFINE pieces == PieceCount(server.failed)
           ids == HintFor(client[c], request[c].hint)
<1>1. /\ server'.remaining = pieces + Len(ids)
      /\ Len(ids) = Len(Wire!ParseHint(client[c].hintRange, request[c].hint).ids)
      /\ Len(ids) \in Nat /\ (request[c].hint = << >> => Len(ids) = 0)
      /\ pieces \in Nat /\ (server.failed = << >> => pieces = 0)
  BY LaterEncodeDoes
<1>2. server # NoPbs
  BY DEF LaterEncode
<1>3. \/ request[c].hint = << >> /\ (server.failed = << >> \/ client[c].remaining = pieces)
      \/ client[c].remaining = pieces + Len(ids)
  BY <1>1, <1>2 DEF Requested
<1> HIDE DEF ids, pieces
<1> QED BY <1>1, <1>3

LEMMA HandleEncodeStaysInStep ==
    ASSUME SessionInv, FreshInv, NEW c \in Clients, HandleEncode(c) PROVE FreshInv'
<1>1. PerClient /\ Maps /\ hash \in Hashes /\ ServerInv /\ Sound(c)
  BY DEF SessionInv, InFlight
<1>2. /\ phase[c] = "called" /\ (\A d \in Clients : phase[d] # "encoded")
      /\ server \notin Down /\ server # Crashed
      /\ UNCHANGED <<client, request, fresh>>
      /\ FirstEncode(c) \/ LaterEncode(c)
  BY DEF HandleEncode, NoHandler, Down
<1>3. \A d \in Clients \ {c} : phase'[d] = phase[d]
  BY <1>1, <1>2 DEF PerClient, FirstEncode, LaterEncode, Goto
<1>4. \/ phase'[c] = "answered" /\ ~reply'[c].ok /\ Answered(server')
      \/ phase'[c] = "encoded" /\ Encoded(server')
  <2>1. CASE FirstEncode(c)
    BY <1>1, <2>1, FirstEncodeServes
  <2>2. CASE LaterEncode(c)
    <3>1. Answered(server)
      BY <1>1, <1>2, <2>2 DEF ServerInv, LaterEncode, Down
    <3>2. request[c].hint \in Seq(Bits)
      BY <1>1, <1>2 DEF Sound, Objects
    <3> QED BY <1>1, <2>2, <3>1, <3>2, LaterEncodeServes
  <2> QED BY <1>2, <2>1, <2>2
<1>5. server' # Crashed
  BY <1>4, NotObjects DEF Answered, Encoded, Aligned
<1>6. ASSUME fresh[c] PROVE InStep(c)'
  <2>1. Requested(c)
    BY <1>2, <1>6 DEF FreshInv, Undisturbed, InStep
  <2>2. ASSUME phase'[c] = "encoded" PROVE server'.remaining \in {0, client'[c].remaining}
    BY <1>2, <2>1, <2>2, FirstEncodeInStep, LaterEncodeInStep
  <2> QED BY <1>4, <2>2 DEF InStep
<1>7. Undisturbed(c)'
  BY <1>2, <1>3, <1>5, <1>6 DEF FreshInv, Undisturbed
<1> QED BY <1>2, <1>7, OthersUndisturbed

LEMMA HandleDecodeStaysInStep ==
    ASSUME SessionInv, FreshInv, NEW c \in Clients, HandleDecode(c) PROVE FreshInv'
<1>1. PerClient /\ hash \in Hashes /\ ServerInv /\ Sound(c)
  BY DEF SessionInv, InFlight
<1>2. phase[c] = "encoded" /\ UNCHANGED <<client, fresh>> /\ Goto(c, "answered")
  BY DEF HandleDecode
<1>3. Encoded(server)
  BY <1>1, <1>2 DEF ServerInv
<1>0. PICK other \in SketchesFor(server.remaining, request[c].sketches) :
          /\ \E pastEnd \in Key :
                Answer(c, IF PushesFail(c) \/ LookupsFail(c) THEN [ok |-> FALSE]
                          ELSE [ok |-> TRUE, pushed |-> request[c].missing,
                                dec |-> decodeMessage(server, hash, other, pastEnd)])
          /\ server' = decode(server, hash, other)
  <2>1. {} \in Key
    BY DEF Key
  <2> QED BY <2>1 DEF HandleDecode
<1>4. PICK pastEnd \in Key :
          Answer(c, IF PushesFail(c) \/ LookupsFail(c) THEN [ok |-> FALSE]
                    ELSE [ok |-> TRUE, pushed |-> request[c].missing,
                          dec |-> decodeMessage(server, hash, other, pastEnd)])
  BY <1>0
<1>5. server' = decode(server, hash, other)
  BY <1>0
<1>6. phase'[c] = "answered" /\ \A d \in Clients \ {c} : phase'[d] = phase[d]
  BY <1>1, <1>2 DEF PerClient, Goto
<1> DEFINE dec == decodeMessage(server, hash, other, pastEnd)
<1>7. reply'[c].ok => reply'[c].dec = dec
  <2>1. reply'[c] = IF PushesFail(c) \/ LookupsFail(c) THEN [ok |-> FALSE]
                    ELSE [ok |-> TRUE, pushed |-> request[c].missing, dec |-> dec]
    BY <1>1, <1>4 DEF PerClient, Answer
  <2> HIDE DEF dec
  <2> QED BY <2>1
<1>8. other \in Seq(SUBSET Bins) /\ Len(other) = server.remaining
  <2>1. server.remaining \in Nat
    BY <1>3 DEF Encoded, Aligned, Pbs
  <2>2. request[c].sketches \in Seq(SUBSET Bins)
    BY <1>1, <1>2 DEF Sound, Objects
  <2> QED BY <2>1, <2>2, SketchesForType
<1>9. /\ Bob(server') /\ server'.hintRange = server.remaining
      /\ Len(dec) = server.remaining
      /\ FailedGroups(server.remaining, dec) = server'.failed
  <2>1. hash \in Hash
    BY <1>1, HashType
  <2>2. /\ Answered(decode(server, hash, other)) /\ decode(server, hash, other).role = "Bob"
        /\ decode(server, hash, other).hintRange = server.remaining
        /\ \A e \in Key :
              /\ decodeMessage(server, hash, other, e) \in DecodingMessage
              /\ Len(decodeMessage(server, hash, other, e)) = server.remaining
              /\ FailedGroups(server.remaining, decodeMessage(server, hash, other, e))
                    = decode(server, hash, other).failed
    BY <1>3, <1>8, <2>1, DecodingObject
  <2> QED BY <1>5, <2>2 DEF Bob, Answered
<1>10. Faithful(dec)
  BY <1>1, <1>3, <1>8, AnswerIsFaithful
<1> HIDE DEF dec
<1>11. server' # Crashed
  BY <1>9, NotObjects DEF Bob
<1>12. ASSUME fresh[c] PROVE InStep(c)'
  <2>1. server.remaining \in {0, client[c].remaining}
    BY <1>2, <1>12 DEF FreshInv, Undisturbed, InStep
  <2>2. ASSUME reply'[c].ok
        PROVE  Len(reply'[c].dec) = 0 \/ (Told(c, reply[c].dec) /\ Faithful(reply[c].dec))'
    <3>1. reply'[c].dec = dec
      BY <1>7, <2>2
    <3>2. CASE server.remaining = 0
      BY <1>9, <3>1, <3>2
    <3>3. CASE server.remaining = client[c].remaining
      BY <1>2, <1>9, <1>10, <3>1, <3>3 DEF Told
    <3> QED BY <2>1, <3>2, <3>3
  <2> QED BY <1>6, <2>2 DEF InStep
<1>13. Undisturbed(c)'
  BY <1>2, <1>6, <1>11, <1>12 DEF FreshInv, Undisturbed
<1> QED BY <1>2, <1>13, OthersUndisturbed

LEMMA OrderedNothing == Ordered({}) = << >>
<1>1. Cardinality({}) = 0
  BY FS_EmptySet
<1>2. 1..0 = {}
  OBVIOUS
<1> QED BY <1>1, <1>2 DEF Ordered

(* The client understands what it is told, or throws.                      *)
LEMMA AnswerTells ==
    ASSUME NEW c \in Clients, ClientObject(client[c]), NEW dec \in DecodingMessage,
           Len(dec) = 0 \/ (Told(c, dec) /\ Faithful(dec)), NEW parsed,
           parsed = Wire!ParseDecoding(BchM, BchT, client[c].remaining, MessageBits(dec)),
           ~Wire!CheckThrows(parsed, XorList(dec), SumList(dec))
    PROVE  Told(c, Understood(parsed, XorList(dec), SumList(dec)))
<1> DEFINE n == client[c].remaining
           xors == XorList(dec)
           sums == SumList(dec)
           und == Understood(parsed, xors, sums)
<1>1. n \in Nat /\ n >= 1
  BY DEF ClientObject, Aligned, Pbs
<1>2. n \in Nat \ {0}
  BY <1>1
<1>3. parsed = Wire!ParseDecoding(BchM, BchT, n, MessageBits(dec))
  OBVIOUS
<1>4. Len(dec) # 0
  <2>1. SUFFICES ASSUME Len(dec) = 0 PROVE FALSE
    OBVIOUS
  <2> HIDE DEF n, xors, sums
  <2>2. Wire!CheckThrows(parsed, XorList(dec), SumList(dec))
    BY <1>2, <1>3, <2>1, EmptyAnswerThrows
  <2> QED BY <2>2
<1>5. Told(c, dec) /\ Faithful(dec)
  BY <1>4
<1>6. Len(dec) = n
  BY <1>5 DEF Told
<1>7. Len(und) = n
  <2> HIDE DEF n
  <2>1. UnderstoodAs(n, Understood(parsed, XorList(dec), SumList(dec)))
    BY <1>1, <1>3, AnswerUnderstood
  <2> QED BY <2>1 DEF UnderstoodAs
<1>8. FailedGroups(n, und) = FailedGroups(n, dec)
  <2> HIDE DEF n, xors, sums
  <2>1. parsed = Wire!ParseDecoding(BchM, BchT, Len(dec), MessageBits(dec))
    BY <1>3, <1>6
  <2>2. FailedGroups(Len(dec), Understood(parsed, xors, sums)) = FailedGroups(Len(dec), dec)
    BY <1>5, <2>1, AnswerReadBack
  <2> QED BY <1>6, <2>2
<1> HIDE DEF und
<1>9. Told(c, und)
  BY <1>5, <1>7, <1>8 DEF Told
<1> QED BY <1>9 DEF und

LEMMA ReceiveStaysInStep ==
    ASSUME SessionInv, FreshInv, NEW c \in Clients, Receive(c) PROVE FreshInv'
<1>1. PerClient /\ Sound(c)
  BY DEF SessionInv, InFlight
<1>2. /\ phase[c] = "answered" /\ reply[c].ok /\ Goto(c, "received")
      /\ UNCHANGED <<client, server, fresh>>
  BY DEF Receive
<1> DEFINE dec == reply[c].dec
           parsed == Wire!ParseDecoding(BchM, BchT, client[c].remaining, MessageBits(dec))
           understood == Understood(parsed, XorList(dec), SumList(dec))
<1>3. Answer(c, IF Wire!CheckThrows(parsed, XorList(dec), SumList(dec))
                THEN [throws |-> TRUE, decoding |-> << >>]
                ELSE [throws |-> FALSE, decoding |-> understood])
  BY DEF Receive
<1>4. phase'[c] = "received" /\ \A d \in Clients \ {c} : phase'[d] = phase[d]
  BY <1>1, <1>2 DEF PerClient, Goto
<1>5. reply'[c] = IF Wire!CheckThrows(parsed, XorList(dec), SumList(dec))
                  THEN [throws |-> TRUE, decoding |-> << >>]
                  ELSE [throws |-> FALSE, decoding |-> understood]
  BY <1>1, <1>3 DEF PerClient, Answer
<1>6. ClientObject(client[c]) /\ dec \in DecodingMessage
  BY <1>1, <1>2 DEF Sound, Objects, Playing
<1>7. ASSUME fresh[c], ~Wire!CheckThrows(parsed, XorList(dec), SumList(dec))
      PROVE  Told(c, understood)
  <2>1. Len(dec) = 0 \/ (Told(c, dec) /\ Faithful(dec))
    BY <1>2, <1>7 DEF FreshInv, Undisturbed, InStep
  <2>2. \E x : x = parsed
    OBVIOUS
  <2>3. PICK x : x = parsed
    BY <2>2
  <2>4. x = Wire!ParseDecoding(BchM, BchT, client[c].remaining, MessageBits(dec))
    BY <2>3
  <2> HIDE DEF dec
  <2>5. Told(c, Understood(x, XorList(dec), SumList(dec)))
    BY <1>6, <1>7, <2>1, <2>3, <2>4, AnswerTells
  <2> QED BY <2>3, <2>5
<1> HIDE DEF dec, parsed, understood
<1>8. ASSUME fresh[c], ~reply'[c].throws PROVE Told(c, reply[c].decoding)'
  <2>1. reply'[c].decoding = understood /\ Told(c, understood)
    BY <1>5, <1>7, <1>8
  <2> QED BY <1>2, <2>1 DEF Told
<1>9. Undisturbed(c)'
  BY <1>2, <1>4, <1>8 DEF FreshInv, Undisturbed, InStep
<1> QED BY <1>2, <1>9, OthersUndisturbed

LEMMA CheckStaysInStep ==
    ASSUME SessionInv, FreshInv, NEW c \in Clients, Check(c) PROVE FreshInv'
<1>1. PerClient /\ Functions /\ Sound(c)
  BY DEF SessionInv, InFlight
<1> DEFINE p == client[c]
           dec == reply[c].decoding
           q == decodeCheck(p, hash, dec)
<1>2. /\ phase[c] = "received" /\ ~reply[c].throws
      /\ client' = [client EXCEPT ![c] = q]
      /\ Goto(c, IF decodeCheckCompletes(client'[c]) THEN "completed" ELSE "loop")
      /\ UNCHANGED <<server, fresh>>
  BY DEF Check
<1>3. client'[c] = q
  BY <1>1, <1>2 DEF Functions
<1>4. /\ phase'[c] \in {"completed", "loop"}
      /\ \A d \in Clients \ {c} : phase'[d] = phase[d]
  BY <1>1, <1>2 DEF PerClient, Goto
<1>5. ClientObject(p) /\ dec \in DecodingMessage /\ Len(dec) = p.remaining
  BY <1>1, <1>2 DEF Sound, Objects, Playing, UnderstoodAs
<1>6. /\ q.hintRange = p.remaining
      /\ q.remaining = PieceCount(FailedGroups(p.remaining, dec)) + Len(q.exceptions)
  BY <1>5, CheckProperties DEF ClientObject, Aligned
<1>7. q.exceptions = Ordered(ExceptionGroups(p, hash, dec))
  <2>1. p \in Pbs
    BY <1>5 DEF ClientObject, Aligned
  <2> HIDE DEF p, dec
  <2> QED BY <2>1, CheckRecovers
<1> HIDE DEF q
<1>8. ASSUME p.remaining = 1, q.exceptions # << >> PROVE FailedGroups(p.remaining, dec) = << >>
  <2>1. ExceptionGroups(p, hash, dec) # {}
    BY <1>7, <1>8, OrderedNothing
  <2>2. dec[1].ok
    BY <1>8, <2>1 DEF ExceptionGroups
  <2>3. {g \in 1..p.remaining : ~dec[g].ok} = {}
    BY <1>8, <2>2
  <2> QED BY <2>3, OrderedNothing DEF FailedGroups
<1>9. ASSUME fresh[c] PROVE NextRound(c)'
  <2>1. Told(c, dec)
    BY <1>2, <1>9 DEF FreshInv, Undisturbed, InStep
  <2>2. /\ Bob(server) /\ server.hintRange = p.remaining
        /\ FailedGroups(p.remaining, dec) = server.failed
    BY <2>1 DEF Told
  <2>3. /\ server.hintRange = q.hintRange
        /\ q.remaining = PieceCount(server.failed) + Len(q.exceptions)
        /\ q.hintRange = 1 /\ q.exceptions # << >> => server.failed = << >>
    BY <1>6, <1>8, <2>2
  <2> QED BY <1>2, <1>3, <2>2, <2>3 DEF NextRound, Bob
<1>10. Undisturbed(c)'
  BY <1>2, <1>4, <1>9 DEF FreshInv, Undisturbed, InStep
<1> QED BY <1>2, <1>10, OthersUndisturbed

LEMMA SynchronizationStaysInStep ==
    ASSUME SessionInv, FreshInv, NEW c \in Clients, Synchronize(c) \/ HandleSynchronize(c)
    PROVE  FreshInv'
<1>1. PerClient
  BY DEF SessionInv, InFlight
<1>2. /\ phase[c] # "idle" /\ phase'[c] \in {"syncCalled", "syncAnswered"}
      /\ \A d \in Clients \ {c} : phase'[d] = phase[d]
      /\ UNCHANGED <<server, fresh>>
  BY <1>1 DEF PerClient, Synchronize, HandleSynchronize, Goto
<1>3. Undisturbed(c)'
  BY <1>2 DEF FreshInv, Undisturbed, InStep
<1> QED BY <1>2, <1>3, OthersUndisturbed

LEMMA ReturnsStayInStep ==
    ASSUME SessionInv, FreshInv, NEW c \in Clients,
           \/ GiveUp(c) \/ CallFails(c) \/ ReceiveError(c) \/ CheckThrows(c)
           \/ NothingToSynchronize(c) \/ ReceiveSynchronize(c) \/ SynchronizeFails(c)
    PROVE  FreshInv'
<1>1. PerClient
  BY DEF SessionInv, InFlight
<1>2. phase[c] # "idle" /\ Goto(c, "idle") /\ UNCHANGED <<server, fresh>>
  BY DEF GiveUp, CallFails, ReceiveError, CheckThrows, NothingToSynchronize,
         ReceiveSynchronize, SynchronizeFails, Return
<1> QED BY <1>1, <1>2, ReturnUndisturbed

(* A call begins. *)
LEMMA BeginStaysInStep ==
    ASSUME SessionInv, FreshInv, NEW c \in Clients, Begin(c) PROVE FreshInv'
<1>1. PerClient /\ Functions /\ Maps /\ hash \in Hashes
  BY DEF SessionInv, InFlight
<1>2. /\ client' = [client EXCEPT ![c] = Construct(clientData[c], hash)]
      /\ Goto(c, "loop") /\ server' = server
      /\ fresh' = [d \in Clients |-> d = c /\ Idle /\ server = NoPbs]
  BY DEF Begin
<1>3. /\ phase'[c] = "loop" /\ (\A d \in Clients \ {c} : phase'[d] = phase[d])
      /\ client'[c] = Construct(clientData[c], hash)
  BY <1>1, <1>2 DEF PerClient, Functions, Goto
<1>4. client'[c].exceptions = << >> /\ client'[c].remaining = NumGroups
  BY <1>1, <1>3, NewObject DEF Maps
<1>5. ASSUME NEW d \in Clients, fresh'[d]
      PROVE  /\ \A e \in Clients \ {d} : phase'[e] = "idle"
             /\ server' # Crashed /\ InStep(d)'
  <2>1. d = c /\ Idle /\ server = NoPbs
    BY <1>2, <1>5
  <2>2. server' # Crashed
    BY <1>2, <2>1, NotObjects
  <2>3. NextRound(c)'
    BY <1>2, <1>4, <2>1 DEF NextRound
  <2>4. InStep(c)'
    BY <1>3, <2>3 DEF InStep
  <2> QED BY <1>3, <2>1, <2>2, <2>4 DEF Idle
<1> QED BY <1>5 DEF FreshInv, Undisturbed

LEMMA FreshStep == SessionInv /\ FreshInv /\ [Next]_vars => FreshInv'
<1> SUFFICES ASSUME SessionInv, FreshInv, [Next]_vars PROVE FreshInv'
  OBVIOUS
<1>1. CASE UNCHANGED vars
  BY <1>1 DEF vars, FreshInv, Undisturbed, InStep, NextRound, Requested, Told
<1>2. CASE Restart
  BY <1>2 DEF Restart, FreshInv, Undisturbed
<1>3. ASSUME NEW c \in Clients, SetUp(c) \/ TearDown(c) PROVE FreshInv'
  <2>1. \A d \in Clients : ~fresh'[d]
    BY <1>3 DEF SetUp, TearDown
  <2> QED BY <2>1 DEF FreshInv, Undisturbed
<1>4. ASSUME NEW c \in Clients,
             \/ Begin(c) \/ Call(c) \/ HandleEncode(c) \/ HintCrashesServer(c)
             \/ HandleDecode(c)
      PROVE  FreshInv'
  BY <1>4, BeginStaysInStep, CallStaysInStep, HandleEncodeStaysInStep,
     HintCrashesNoFreshServer, HandleDecodeStaysInStep
<1>5. ASSUME NEW c \in Clients,
             Receive(c) \/ Check(c) \/ Synchronize(c) \/ HandleSynchronize(c)
      PROVE  FreshInv'
  BY <1>5, ReceiveStaysInStep, CheckStaysInStep, SynchronizationStaysInStep
<1>6. ASSUME NEW c \in Clients,
             \/ GiveUp(c) \/ CallFails(c) \/ ReceiveError(c) \/ CheckThrows(c)
             \/ NothingToSynchronize(c) \/ ReceiveSynchronize(c) \/ SynchronizeFails(c)
      PROVE  FreshInv'
  BY <1>6, ReturnsStayInStep
<1> QED BY <1>1, <1>2, <1>3, <1>4, <1>5, <1>6 DEF Next, Stopped

(* A call that has the server, with no _pbs of an earlier call, to itself  *)
(* does not crash it: every hint is read in the range it was written for.  *)
THEOREM FreshServersSurvive == Spec => []ServerSurvives
<1>1. Init => FreshInv
  BY DEF Init, FreshInv, Undisturbed
<1>2. FreshInv => ServerSurvives
  BY DEF FreshInv, Undisturbed, ServerSurvives
<1> QED BY <1>1, <1>2, FreshStep, ServiceInvariant, PTL DEF Spec
-------------------------------------------------------------------------------
(* A call that has the server, with no _pbs of an earlier call, to itself  *)
(* plays PbsProtocol.  The maps of the client and of the server, when it   *)
(* began, are setA and setB; their objects are alice and bob; and each     *)
(* message is what the receiver reads of it.                               *)
Lone == CHOOSE c \in Clients : fresh[c]

Turn(place) ==
    CASE place = "loop" -> "aliceEncode"
      [] place = "called" -> "bobEncode"
      [] place = "encoded" -> "bobDecode"
      [] place \in {"answered", "received"} -> "aliceCheck"
      [] OTHER -> "done"

BobOf(pbs, theirs, h) == IF pbs = NoPbs THEN Construct(theirs, h) ELSE pbs

InRound == {"called", "encoded", "answered", "received"}

EncodingRead(place, message) == IF place \in InRound THEN message.sketches ELSE << >>

HintTaken(place, p, message) ==
    IF place \in InRound THEN HintFor(p, message.hint) ELSE << >>

DecodingRead(place, answer) ==
    CASE place = "answered" -> answer.dec
      [] place = "received" -> answer.decoding
      [] OTHER -> << >>

RunSetA     == initial[Lone][1]
RunSetB     == initial[Lone][2]
RunAlice    == client[Lone]
RunBob      == BobOf(server, RunSetB, hash)
RunPhase    == Turn(phase[Lone])
RunEncoding == EncodingRead(phase[Lone], request[Lone])
RunHint     == HintTaken(phase[Lone], client[Lone], request[Lone])
RunDecoding == DecodingRead(phase[Lone], reply[Lone])

Run == INSTANCE PbsProtocolProofs WITH
           setA <- RunSetA, setB <- RunSetB, alice <- RunAlice, bob <- RunBob,
           phase <- RunPhase, encoding <- RunEncoding, hint <- RunHint,
           decoding <- RunDecoding, Inputs <- (SUBSET Key) \X (SUBSET Key)

(* The operators of PbsProtocolProofs are those of this module.            *)
LEMMA SameXor == \A x, y : Run!(+)(x, y) = x (+) y
BY DEF Run!(+), (+)

LEMMA SameXorSum == \A S : Run!XorSum(S) = XorSum(S)
BY DEF Run!XorSum, XorSum, Run!IsOdd, IsOdd, Run!Cardinality, Cardinality

LEMMA SameHash == \A h : Run!IsHash(h) = IsHash(h)
BY DEF Run!IsHash, IsHash, Run!DecodeOutcomes, DecodeOutcomes, Run!Hash, Hash, Run!Outcome, Outcome,
       Run!Position, Position, Run!Bins, Bins, Run!Rounds, Rounds, Run!GroupId, GroupId,
       Run!Key, Key, Run!(+), (+), Run!Cardinality, Cardinality

LEMMA SameConstruct == \A S, h : Run!Construct(S, h) = Construct(S, h)
BY DEF Run!Construct, Construct, Run!GroupId, GroupId, Run!EmptyRow, EmptyRow, Run!Bins, Bins,
       Run!getGroupId_, getGroupId_

LEMMA SameEncode == \A p, h : Run!encode(p, h) = encode(p, h)
BY DEF Run!encode, encode, Run!doEncode_, doEncode_, Run!KeysInBin, KeysInBin,
       Run!getBinId_, getBinId_, Run!IsOdd, IsOdd, Run!(+), (+), Run!XorSum, XorSum,
       Run!Bins, Bins, Run!Cardinality, Cardinality

LEMMA SameEncodeThrows == \A p : Run!encodeThrows(p) = encodeThrows(p)
BY DEF Run!encodeThrows, encodeThrows

LEMMA SameWithHint == \A p, ids : Run!WithHint(p, ids) = WithHint(p, ids)
BY DEF Run!WithHint, WithHint, Run!removeCompletedGroups_, removeCompletedGroups_,
       Run!Behind, Behind, Run!MoveGroups, MoveGroups, Run!AppendGroups, AppendGroups,
       Run!MovedGroups, MovedGroups, Run!MovedOrigins, MovedOrigins, Run!EmptyRow, EmptyRow,
       Run!Bins, Bins

LEMMA SameEncodeWithHint ==
    /\ \A p, h, ids : Run!encodeWithHint(p, h, ids) = encodeWithHint(p, h, ids)
    /\ \A p, ids : Run!encodeWithHintThrows(p, ids) = encodeWithHintThrows(p, ids)
<1>1. \A p, h : Run!doEncode_(p, h) = doEncode_(p, h)
  BY DEF Run!doEncode_, doEncode_, Run!KeysInBin, KeysInBin,
         Run!getBinId_, getBinId_, Run!IsOdd, IsOdd, Run!(+), (+), Run!XorSum, XorSum,
         Run!Bins, Bins, Run!Cardinality, Cardinality
<1>2. \A p, h, ids : Run!encodeWithHint(p, h, ids) = encodeWithHint(p, h, ids)
  BY <1>1, SameWithHint DEF Run!encodeWithHint, encodeWithHint
<1>3. \A p, ids : Run!encodeWithHintThrows(p, ids) = encodeWithHintThrows(p, ids)
  BY SameWithHint DEF Run!encodeWithHintThrows, encodeWithHintThrows
<1> QED BY <1>2, <1>3

LEMMA SameDecode ==
    /\ \A p, h, other : Run!FailedIds(p, h, other) = FailedIds(p, h, other)
    /\ \A p, h, other, g : Run!DecodeOf(p, h, other, g) = DecodeOf(p, h, other, g)
    /\ \A p, h, other : Run!decode(p, h, other) = decode(p, h, other)
    /\ \A p, h, other, e : Run!decodeMessage(p, h, other, e) = decodeMessage(p, h, other, e)
    /\ \A p : Run!decodeThrows(p) = decodeThrows(p)
<1>1. \A p, h, other : Run!FailedIds(p, h, other) = FailedIds(p, h, other)
  BY DEF Run!FailedIds, FailedIds, Run!Ordered, Ordered, Run!Rank, Rank,
         Run!Cardinality, Cardinality, Run!DecodeOf, DecodeOf, Run!(+), (+)
<1>2. \A p, h, other, g : Run!DecodeOf(p, h, other, g) = DecodeOf(p, h, other, g)
  BY DEF Run!DecodeOf, DecodeOf, Run!(+), (+)
<1>3. \A p, h, ids : Run!threeWaySplit_(p, h, ids) = threeWaySplit_(p, h, ids)
  BY DEF Run!threeWaySplit_, threeWaySplit_, Run!AppendGroups, AppendGroups,
         Run!Pieces, Pieces, Run!PieceOrigins, PieceOrigins, Run!SplitSource, SplitSource,
         Run!SplitIndex, SplitIndex, Run!EmptyRow, EmptyRow, Run!Bins, Bins
<1>4. ASSUME NEW p, NEW h, NEW other PROVE Run!decode(p, h, other) = decode(p, h, other)
  <2> DEFINE q == threeWaySplit_(p, h, FailedIds(p, h, other))
  <2>1. Run!threeWaySplit_(p, h, Run!FailedIds(p, h, other)) = q
    BY <1>1, <1>3
  <2>2. \A s : [g \in 1..Len(s) |-> Run!(+)(s[g], other[g])] = [g \in 1..Len(s) |-> s[g] (+) other[g]]
    BY DEF Run!(+), (+)
  <2>3. Run!decode(p, h, other) =
           [q EXCEPT !.hintRange = p.remaining,
                     !.role      = "Bob",
                     !.sketches  = [g \in 1..Len(q.sketches) |-> Run!(+)(q.sketches[g], other[g])],
                     !.failed    = q.failed \o FailedIds(p, h, other),
                     !.round     = q.round + 1]
    BY <1>1, <2>1 DEF Run!decode
  <2>4. decode(p, h, other) =
           [q EXCEPT !.hintRange = p.remaining,
                     !.role      = "Bob",
                     !.sketches  = [g \in 1..Len(q.sketches) |-> q.sketches[g] (+) other[g]],
                     !.failed    = q.failed \o FailedIds(p, h, other),
                     !.round     = q.round + 1]
    BY DEF decode
  <2> HIDE DEF q
  <2> QED BY <2>2, <2>3, <2>4
<1>5. \A p, h, other, e : Run!decodeMessage(p, h, other, e) = decodeMessage(p, h, other, e)
  BY DEF Run!decodeMessage, decodeMessage, Run!DecodeOf, DecodeOf, Run!XorAt, XorAt,
         Run!Bins, Bins, Run!(+), (+)
<1>6. \A p : Run!decodeThrows(p) = decodeThrows(p)
  BY DEF Run!decodeThrows, decodeThrows
<1> QED BY <1>1, <1>2, <1>4, <1>5, <1>6

LEMMA SameCheck ==
    /\ \A p, h, dec : Run!decodeCheck(p, h, dec) = decodeCheck(p, h, dec)
    /\ \A p : Run!decodeCheckThrows(p) = decodeCheckThrows(p)
    /\ \A p : Run!decodeCheckCompletes(p) = decodeCheckCompletes(p)
<1>1. \A p, h, dec, g : Run!Accepted(p, h, dec, g) = Accepted(p, h, dec, g)
  BY DEF Run!Accepted, Accepted, Run!Accepts, Accepts, Run!Candidate, Candidate,
         Run!XorAt, XorAt, Run!Bins, Bins, Run!(+), (+), Run!getBinId_, getBinId_,
         Run!getGroupId_, getGroupId_
<1>2. \A p, h, dec : Run!ExceptionGroups(p, h, dec) = ExceptionGroups(p, h, dec)
  BY <1>1, SameXor, SameXorSum DEF Run!ExceptionGroups, ExceptionGroups,
         Run!ChecksumFails, ChecksumFails
<1>3. \A p, h, dec : Run!InsertRecovered(p, h, dec) = InsertRecovered(p, h, dec)
  BY <1>1, <1>2, SameXor DEF Run!InsertRecovered, InsertRecovered
<1>4. \A p, h, ids : Run!threeWaySplit_(p, h, ids) = threeWaySplit_(p, h, ids)
  BY DEF Run!threeWaySplit_, threeWaySplit_, Run!AppendGroups, AppendGroups,
         Run!Pieces, Pieces, Run!PieceOrigins, PieceOrigins, Run!SplitSource, SplitSource,
         Run!SplitIndex, SplitIndex, Run!EmptyRow, EmptyRow, Run!Bins, Bins
<1>5. \A p, ids : Run!MoveGroups(p, ids) = MoveGroups(p, ids)
  BY DEF Run!MoveGroups, MoveGroups, Run!AppendGroups, AppendGroups,
         Run!MovedGroups, MovedGroups, Run!MovedOrigins, MovedOrigins, Run!EmptyRow, EmptyRow,
         Run!Bins, Bins
<1>6. \A p : Run!removeCompletedGroups_(p) = removeCompletedGroups_(p)
  BY DEF Run!removeCompletedGroups_, removeCompletedGroups_, Run!Behind, Behind
<1>7. \A S : Run!Ordered(S) = Ordered(S)
  BY DEF Run!Ordered, Ordered, Run!Rank, Rank, Run!Cardinality, Cardinality
<1>8. \A n, dec : Run!FailedGroups(n, dec) = FailedGroups(n, dec)
  BY <1>7 DEF Run!FailedGroups, FailedGroups
<1>9. ASSUME NEW p, NEW h, NEW dec PROVE Run!decodeCheck(p, h, dec) = decodeCheck(p, h, dec)
  <2> DEFINE ids == FailedGroups(p.remaining, dec)
             exc == Ordered(ExceptionGroups(p, h, dec))
             moved == MoveGroups(threeWaySplit_(InsertRecovered(p, h, dec), h, ids), exc)
             left == removeCompletedGroups_([moved EXCEPT !.role = "Alice"])
             row == [g \in 1..p.remaining |-> Accepted(p, h, dec, g)]
  <2>1. /\ Run!FailedGroups(p.remaining, dec) = ids
        /\ Run!Ordered(Run!ExceptionGroups(p, h, dec)) = exc
    BY <1>2, <1>7, <1>8
  <2>2. Run!MoveGroups(Run!threeWaySplit_(Run!InsertRecovered(p, h, dec), h, ids), exc) = moved
    BY <1>3, <1>4, <1>5
  <2>3. Run!removeCompletedGroups_([moved EXCEPT !.role = "Alice"]) = left
    BY <1>6
  <2>4. [g \in 1..p.remaining |-> Run!Accepted(p, h, dec, g)] = row
    BY <1>1
  <2> HIDE DEF ids, exc, moved, left, row
  <2>5. Run!decodeCheck(p, h, dec) =
           [left EXCEPT !.failed = ids, !.exceptions = exc,
                        !.recovered = Append(left.recovered, row), !.round = left.round + 1]
    BY <2>1, <2>2, <2>3, <2>4 DEF Run!decodeCheck
  <2>6. decodeCheck(p, h, dec) =
           [left EXCEPT !.failed = ids, !.exceptions = exc,
                        !.recovered = Append(left.recovered, row), !.round = left.round + 1]
    BY DEF decodeCheck, ids, exc, moved, left, row
  <2> QED BY <2>5, <2>6
<1>10. \A p : Run!decodeCheckThrows(p) = decodeCheckThrows(p)
  BY DEF Run!decodeCheckThrows, decodeCheckThrows
<1>11. \A p : Run!decodeCheckCompletes(p) = decodeCheckCompletes(p)
  BY DEF Run!decodeCheckCompletes, decodeCheckCompletes
<1> QED BY <1>9, <1>10, <1>11

(* The assumptions of PbsProtocol. *)
LEMMA RunAssumed ==
    /\ Run!IsFiniteSet(Bit)
    /\ (SUBSET Key) \X (SUBSET Key) \subseteq (SUBSET Run!Key) \X (SUBSET Run!Key)
    /\ \A h \in Hashes : Run!IsHash(h)
<1>1. Run!IsFiniteSet(Bit)
  BY BitAssumption DEF Run!IsFiniteSet, IsFiniteSet
<1>2. Run!Key = Key
  BY DEF Run!Key, Key
<1> QED BY <1>1, <1>2, ServiceAssumption, SameHash

(* Its steps. *)
LEMMA RunStarts == Run!Init => Run!RoundInv
BY RunAssumed, SketchAssumption, Run!RoundStarts

LEMMA RunGoesOn ==
    ASSUME Run!RoundInv,
           \/ Run!AliceEncode \/ Run!BobEncode \/ Run!BobEncodeWithHint
           \/ Run!BobDecode \/ Run!AliceCheck \/ UNCHANGED Run!vars
    PROVE  Run!RoundInv'
<1>1. Run!AliceEncode => Run!RoundInv'
  BY RunAssumed, SketchAssumption, Run!AliceEncodeRound
<1>2. Run!BobEncode => Run!RoundInv'
  BY RunAssumed, SketchAssumption, Run!BobEncodeRound
<1>3. Run!BobEncodeWithHint => Run!RoundInv'
  BY RunAssumed, SketchAssumption, Run!BobEncodeWithHintRound
<1>4. Run!BobDecode => Run!RoundInv'
  BY RunAssumed, SketchAssumption, Run!BobDecodeRound
<1>5. Run!AliceCheck => Run!RoundInv'
  BY RunAssumed, SketchAssumption, Run!AliceCheckRound
<1>6. UNCHANGED Run!vars => Run!RoundInv'
  BY RunAssumed, SketchAssumption, Run!StutteringRound
<1> QED BY <1>1, <1>2, <1>3, <1>4, <1>5, <1>6

-------------------------------------------------------------------------------
(* The hint, as the server reads it.                                       *)
LEMMA HintReadBack ==
    ASSUME NEW p, ClientObject(p), p.exceptions = << >> \/ p.hintRange # 1
    PROVE  HintFor(p, HintBits(p)) = p.exceptions
<1> DEFINE n == Len(p.exceptions)
<1>1. /\ n \in Nat /\ p.exceptions \in [1..n -> 1..p.hintRange] /\ p.hintRange \in Nat
      /\ p.exceptions \in Seq(Nat)
  BY DEF ClientObject, Aligned, Pbs, IdList
<1>2. CASE p.exceptions = << >>
  <2>1. Wire!ParseHint(p.hintRange, HintBits(p)).ids = << >>
    BY <1>2 DEF HintBits, Wire!ParseHint
  <2> QED BY <1>2, <2>1 DEF HintFor
<1>3. CASE p.exceptions # << >>
  <2>1. Wire!ParseHint(p.hintRange, HintBits(p)).ids = [i \in 1..n |-> p.exceptions[i] - 1]
    BY <1>3, HintRead
  <2>2. \A i \in 1..n : p.exceptions[i] \in Int
    BY <1>1
  <2> DEFINE ids == [i \in 1..n |-> p.exceptions[i] - 1]
  <2>3. Len(ids) = n /\ \A i \in 1..n : ids[i] + 1 = p.exceptions[i]
    BY <1>1, <2>2
  <2>4. HintFor(p, HintBits(p)) = [i \in 1..Len(ids) |-> ids[i] + 1]
    BY <2>1 DEF HintFor
  <2> HIDE DEF ids
  <2>5. HintFor(p, HintBits(p)) = [i \in 1..n |-> p.exceptions[i]]
    BY <2>3, <2>4
  <2> QED BY <1>1, <2>5
<1> QED BY <1>2, <1>3

-------------------------------------------------------------------------------
(* The list of the keys of a round, if it has none twice.                  *)
RowParity(row) == Toggled(1..Len(row), row)

NoDuplicate(list) == \A i, j \in 1..Len(list) : list[i] = list[j] => i = j

ListsAll(list, S) ==
    /\ \A i \in 1..Len(list) : list[i] \in S
    /\ \A x \in S : \E i \in 1..Len(list) : list[i] = x

RowLists(row) == [g \in 1..Len(row) |-> Seqs!SetToSeq(row[g])]

LEMMA RowListsHold ==
    ASSUME NEW row \in Seq(SUBSET Key)
    PROVE  /\ RowLists(row) \in Seq(Seq(Key)) /\ Len(RowLists(row)) = Len(row)
           /\ \A g \in 1..Len(row) : ListsAll(RowLists(row)[g], row[g])
<1> DEFINE n == Len(row)
           ss == RowLists(row)
<1>1. n \in Nat
  OBVIOUS
<1>2. ASSUME NEW g \in 1..n
      PROVE  ss[g] \in Seq(Key) /\ ListsAll(ss[g], row[g])
  <2>1. row[g] \in SUBSET Key
    OBVIOUS
  <2>2. IsFiniteSet(row[g])
    BY <2>1, KeysAreFinite
  <2> DEFINE q == Seqs!SetToSeq(row[g])
  <2>3. q \in Seq(row[g]) /\ \A k \in row[g] : \E i \in 1..Len(q) : q[i] = k
    BY <2>2, ListOfSet
  <2>4. ss[g] = q
    BY DEF RowLists
  <2> HIDE DEF q, ss
  <2>5. q \in Seq(Key)
    BY <2>1, <2>3
  <2>6. ListsAll(q, row[g])
    BY <2>3 DEF ListsAll
  <2> QED BY <2>4, <2>5, <2>6
<1>3. ss = [g \in 1..n |-> ss[g]]
  BY DEF RowLists
<1> HIDE DEF ss
<1>4. ss \in [1..n -> Seq(Key)]
  BY <1>2, <1>3
<1>5. ss \in Seq(Seq(Key)) /\ Len(ss) = n
  BY <1>1, <1>4, FunctionIsSeq
<1> QED BY <1>2, <1>5 DEF ss

LEMMA ListIsOfRow ==
    ASSUME NEW row \in Seq(SUBSET Key)
    PROVE  /\ KeyList(row) \in Seq(Key)
           /\ KeysOf(KeyList(row)) = KeysIn(row)
           /\ NoDuplicate(KeyList(row)) => RowParity(row) = KeysIn(row)
<1> DEFINE n == Len(row)
           ss == RowLists(row)
           s == KeyList(row)
<1>1. n \in Nat /\ \A g \in 1..n : row[g] \in SUBSET Key
  OBVIOUS
<1>2. /\ ss \in Seq(Seq(Key)) /\ Len(ss) = n
      /\ \A g \in 1..n : ListsAll(ss[g], row[g])
  BY RowListsHold
<1>3. s = Msgs!FlattenSeq(ss)
  BY SameFlatten DEF KeyList, RowLists
<1> HIDE DEF ss, s
<1>4. ByteBits \in Nat \ {0}
  BY ServiceAssumption
<1>5. s \in Seq(Key) /\ Msgs!Placed(s, ss, n)
  BY <1>2, <1>3, <1>4, Msgs!FlattenPlaces
<1> DEFINE o(g) == Msgs!Upto(ss, g)
<1>6. /\ Len(s) = o(n)
      /\ \A g \in 1..n : \A k \in 1..Len(ss[g]) :
            o(g - 1) + k \in 1..o(n) /\ s[o(g - 1) + k] = ss[g][k]
      /\ \A j \in 1..o(n) : \E g \in 1..n : \E k \in 1..Len(ss[g]) : j = o(g - 1) + k
  BY <1>5 DEF Msgs!Placed
<1>7. KeysOf(s) = KeysIn(row)
  <2>1. ASSUME NEW j \in 1..Len(s) PROVE s[j] \in KeysIn(row)
    <3>1. PICK g \in 1..n : \E k \in 1..Len(ss[g]) : j = o(g - 1) + k
      BY <1>6, <2>1
    <3>2. PICK k \in 1..Len(ss[g]) : j = o(g - 1) + k
      BY <3>1
    <3>3. s[j] = ss[g][k]
      BY <1>6, <3>2
    <3>4. s[j] \in row[g]
      BY <1>2, <3>3 DEF ListsAll
    <3> QED BY <3>4 DEF KeysIn
  <2>2. ASSUME NEW g \in 1..n, NEW x \in row[g] PROVE \E j \in 1..Len(s) : s[j] = x
    <3>1. PICK k \in 1..Len(ss[g]) : ss[g][k] = x
      BY <1>2 DEF ListsAll
    <3> QED BY <1>6, <3>1
  <2>3. DOMAIN s = 1..Len(s)
    BY <1>5
  <2>4. KeysOf(s) = {s[j] : j \in 1..Len(s)}
    BY <2>3 DEF KeysOf
  <2>5. KeysIn(row) \subseteq KeysOf(s)
    BY <2>2, <2>4 DEF KeysIn
  <2>6. KeysOf(s) \subseteq KeysIn(row)
    BY <2>1, <2>4
  <2> QED BY <2>5, <2>6
<1>8. ASSUME NoDuplicate(s), NEW x \in Key
      PROVE  x \in RowParity(row) <=> x \in KeysIn(row)
  <2> DEFINE G == {g \in 1..n : x \in row[g]}
  <2>1. ASSUME NEW g \in G, NEW h \in G, g < h PROVE FALSE
    <3>1. PICK i \in 1..Len(ss[g]) : ss[g][i] = x
      BY <1>2 DEF ListsAll
    <3>2. PICK j \in 1..Len(ss[h]) : ss[h][j] = x
      BY <1>2 DEF ListsAll
    <3>3. o(g - 1) + i = o(h - 1) + j
      <4>1. /\ o(g - 1) + i \in 1..Len(s) /\ s[o(g - 1) + i] = x
            /\ o(h - 1) + j \in 1..Len(s) /\ s[o(h - 1) + j] = x
        BY <1>6, <3>1, <3>2
      <4> HIDE DEF o
      <4> QED BY <1>8, <4>1 DEF NoDuplicate
    <3>4. /\ o(g) = o(g - 1) + Len(ss[g]) /\ o(g) \in Nat /\ o(g - 1) \in Nat
          /\ o(h - 1) \in Nat
      <4>1. /\ \A i_ \in 0..n : o(i_) \in Nat
            /\ \A i_ \in 1..n : o(i_) = o(i_ - 1) + Len(ss[i_])
        <5>1. /\ Msgs!Upto(ss, 0) = 0
              /\ \A i_ \in 0..Len(ss) : Msgs!Upto(ss, i_) \in Nat /\ Msgs!Upto(ss, i_) <= Msgs!Upto(ss, Len(ss))
              /\ \A i_ \in 1..Len(ss) : Msgs!Upto(ss, i_) = Msgs!Upto(ss, i_ - 1) + Len(ss[i_])
          BY <1>2, <1>4, Msgs!UptoGrows
        <5> HIDE DEF n
        <5> QED BY <1>2, <5>1
      <4>2. g \in 1..n /\ h - 1 \in 0..n /\ g - 1 \in 0..n /\ g \in 0..n
        BY <1>1
      <4> HIDE DEF o
      <4> QED BY <4>1, <4>2
    <3>5. o(g) <= o(h - 1)
      <4>1. Msgs!AreCounts(Msgs!Lengths(ss), n)
        BY <1>2, <1>4, Msgs!LengthsAreCounts
      <4>2. Msgs!AreCounts(Msgs!Lengths(ss), h - 1)
        BY <4>1 DEF Msgs!AreCounts
      <4>3. h - 1 \in Nat /\ g \in 0..(h - 1)
        BY <1>1, <2>1
      <4>4. \A i_ \in 0..(h - 1) : Msgs!SumUpTo(Msgs!Lengths(ss), i_) <= Msgs!SumUpTo(Msgs!Lengths(ss), h - 1)
        BY <1>4, <4>2, <4>3, Msgs!SumIsMonotone
      <4> QED BY <4>3, <4>4 DEF Msgs!Upto
    <3>6. Len(ss[g]) \in Nat /\ Len(ss[h]) \in Nat
      BY <1>2
    <3> HIDE DEF o
    <3> QED BY <3>1, <3>2, <3>3, <3>4, <3>5, <3>6
  <2>2. CASE G = {}
    <3>1. x \notin RowParity(row)
      <4>1. Cardinality(G) = 0
        BY <2>2, FS_EmptySet
      <4> QED BY <4>1 DEF RowParity, Toggled, IsOdd
    <3> QED BY <2>2, <3>1 DEF KeysIn
  <2>3. ASSUME NEW g \in G PROVE x \in RowParity(row) /\ x \in KeysIn(row)
    <3>1. G = {g}
      <4>1. \A h \in G : ~(g < h) /\ ~(h < g)
        BY <2>1
      <4>2. \A h \in G : h \in Int
        BY <1>1
      <4> HIDE DEF G
      <4> QED BY <2>3, <4>1, <4>2
    <3>2. Cardinality(G) = 1
      BY <3>1, FS_Singleton
    <3>3. x \in RowParity(row)
      BY <3>2 DEF RowParity, Toggled, IsOdd
    <3> QED BY <3>3 DEF KeysIn
  <2> QED BY <2>2, <2>3
<1>9. RowParity(row) \in SUBSET Key
  BY ToggledIsKeys DEF RowParity
<1>10. KeysIn(row) \in SUBSET Key
  BY <1>1 DEF KeysIn
<1>11. NoDuplicate(s) => RowParity(row) = KeysIn(row)
  BY <1>8, <1>9, <1>10
<1> QED BY <1>5, <1>7, <1>11 DEF s

(* What a client does not have it gets and what it has it gives: if each   *)
(* key of the list comes where it was not, and once, then the list is what  *)
(* the maps then differ by no more.                                        *)
Brought(list, C, S, gets, gives) ==
    /\ gets = Without(list, C) /\ gives = Without(list, KeysOf(gets))
    /\ Duplicates(C, gets) = {} /\ Duplicates(S, gives) = {}
    /\ KeysOf(gets) \subseteq S \union KeysOf(gives)

LEMMA ListBrought ==
    ASSUME NEW list \in Seq(Key), NEW C, NEW S, NEW gets, NEW gives, Brought(list, C, S, gets, gives)
    PROVE  /\ NoDuplicate(list)
           /\ (C \union KeysOf(gets)) (+) (S \union KeysOf(gives)) = (C (+) S) (+) KeysOf(list)
<1>1. DOMAIN list = 1..Len(list) /\ Len(list) \in Nat
  OBVIOUS
<1>2. /\ DOMAIN gets = {i \in 1..Len(list) : list[i] \notin C}
      /\ \A i \in DOMAIN gets : gets[i] = list[i]
  BY <1>1 DEF Brought, Without
<1>3. /\ DOMAIN gives = {i \in 1..Len(list) : list[i] \notin KeysOf(gets)}
      /\ \A i \in DOMAIN gives : gives[i] = list[i]
  BY <1>1 DEF Brought, Without
<1>4. ASSUME NEW i \in 1..Len(list), NEW j \in 1..Len(list), list[i] = list[j], i < j PROVE FALSE
  <2>1. CASE list[i] \notin C
    BY <1>2, <1>4, <2>1 DEF Brought, Duplicates
  <2>2. CASE list[i] \in C
    <3>1. list[i] \notin KeysOf(gets)
      BY <1>2, <2>2 DEF KeysOf
    <3> QED BY <1>3, <1>4, <3>1 DEF Brought, Duplicates
  <2> QED BY <2>1, <2>2
<1>5. NoDuplicate(list)
  BY <1>1, <1>4 DEF NoDuplicate
<1>6. KeysOf(gets) = KeysOf(list) \ C
  BY <1>1, <1>2 DEF KeysOf
<1>7. KeysOf(gives) = KeysOf(list) \ KeysOf(gets)
  BY <1>1, <1>3 DEF KeysOf
<1>8. KeysOf(gives) \intersect S = {}
  BY DEF Brought, Duplicates, KeysOf
<1>9. KeysOf(gets) \subseteq S \union KeysOf(gives)
  BY DEF Brought
<1> HIDE DEF KeysOf
<1>10. (C \union KeysOf(gets)) (+) (S \union KeysOf(gives)) = (C (+) S) (+) KeysOf(list)
  BY <1>6, <1>7, <1>8, <1>9 DEF (+)
<1> QED BY <1>5, <1>10

-------------------------------------------------------------------------------
(* The answer, as the client with as many groups reads it.                 *)
PositionLists(dec) == [g \in 1..Len(dec) |-> Positions(dec, g)]

LEMMA AnswerParsed ==
    ASSUME NEW dec \in DecodingMessage, Faithful(dec), NEW parsed,
           parsed = Wire!ParseDecoding(BchM, BchT, Len(dec), MessageBits(dec))
    PROVE  LET groups == PositionLists(dec)
           IN  /\ Msgs!AreOutcomes(groups, BchM, BchT) /\ Len(groups) = Len(dec)
               /\ \A g \in 1..Len(dec) : groups[g] = Msgs!Failed <=> ~dec[g].ok
               /\ parsed = [counts |-> Msgs!Counts(groups), positions |-> Msgs!Positions(groups)]
<1> DEFINE n == Len(dec)
           groups == PositionLists(dec)
<1>1. n \in Nat /\ \A g \in 1..n : dec[g].at \in SUBSET Position /\ dec[g].ok \in BOOLEAN
  BY GroupDecodingIs DEF DecodingMessage
<1>2. BchN \in Nat /\ BchM \in Nat /\ BchT \in Nat /\ ByteBits \in Nat \ {0} /\ BchN = 2^BchM - 1
  BY SketchAssumption, ServiceAssumption
<1>3. ASSUME NEW g \in 1..n
      PROVE  /\ Msgs!IsOutcome(groups[g], BchM, BchT)
             /\ groups[g] = Msgs!Failed <=> ~dec[g].ok
  <2> DEFINE s == Ordered(dec[g].at)
  <2>1. ArePositions(s, dec[g].at)
    BY <1>1, OrderedPositions
  <2>2. groups[g] = IF dec[g].ok THEN s ELSE Wire!Failed
    BY DEF Positions, PositionLists
  <2>3. Cardinality(dec[g].at) <= BchT
    BY DEF Faithful
  <2> HIDE DEF groups, s
  <2>4. Msgs!Failed = Wire!Failed
    BY DEF Msgs!Failed, Wire!Failed
  <2>5. ASSUME NEW k \in 1..Len(s) PROVE s[k] < 2^BchM
    <3> DEFINE e == 2^BchM
    <3>1. s[k] \in 1..BchN /\ BchN = e - 1 /\ e \in Nat
      BY <1>2, <2>1, Msgs!Stream!PowerType DEF ArePositions
    <3> HIDE DEF e
    <3>2. s[k] < e
      BY <1>2, <3>1
    <3> QED BY <3>2 DEF e
  <2>6. Msgs!IsOutcome(s, BchM, BchT)
    BY <2>1, <2>3, <2>4, <2>5 DEF ArePositions, Msgs!IsOutcome
  <2>7. Msgs!IsOutcome(Wire!Failed, BchM, BchT)
    BY <2>4 DEF Msgs!IsOutcome
  <2>8. s # Wire!Failed
    BY <2>1 DEF ArePositions
  <2> QED BY <2>2, <2>4, <2>6, <2>7, <2>8
<1>4. Len(groups) = n /\ groups = [g \in 1..n |-> groups[g]]
  BY <1>1 DEF PositionLists
<1>5. MessageBits(dec) = Wire!WriteDecoding(BchM, BchT, groups)
  BY DEF MessageBits, PositionLists
<1> HIDE DEF groups
<1>6. Msgs!AreOutcomes(groups, BchM, BchT)
  BY <1>1, <1>3, <1>4 DEF Msgs!AreOutcomes
<1>7. parsed = [counts |-> Msgs!Counts(groups), positions |-> Msgs!Positions(groups)]
  <2>1. Msgs!ParseDecoding(BchM, BchT, Len(groups), Msgs!WriteDecoding(BchM, BchT, groups))
           = [counts |-> Msgs!Counts(groups), positions |-> Msgs!Positions(groups)]
    BY <1>2, <1>6, Msgs!DecodingIsParsed
  <2> QED BY <1>4, <1>5, <2>1, SameWriteDecoding, SameParseDecoding
<1> QED BY <1>3, <1>4, <1>6, <1>7 DEF groups

(* A list with an element for every position, and one with an element for  *)
(* every group, as decodeCheck() finds them.                               *)
LEMMA ElementFound ==
    ASSUME NEW groups, Msgs!AreOutcomes(groups, BchM, BchT), NEW S, NEW list,
           Msgs!AreLists(groups, list, S), Msgs!AreCounted(groups, list),
           NEW g \in 1..Len(groups), groups[g] # Msgs!Failed
    PROVE  /\ Msgs!OffsetOf(Msgs!Counts(groups), g) \in Nat
           /\ \A k \in 1..Len(list[g]) :
                 Msgs!OfDecoded(groups, list)[Msgs!OffsetOf(Msgs!Counts(groups), g) + k] = list[g][k]
<1> DEFINE ss == Msgs!Listed(groups, list)
           n == Len(groups)
           o == Msgs!OffsetOf(Msgs!Counts(groups), g)
           flat == Msgs!OfDecoded(groups, list)
<1>1. BchM \in Nat /\ BchT \in Nat /\ ByteBits \in Nat \ {0} /\ n \in Nat
  BY SketchAssumption, ServiceAssumption DEF Msgs!AreOutcomes
<1>2. /\ ss \in Seq(Seq(S)) /\ Len(ss) = n /\ ss[g] = list[g]
      /\ flat = Msgs!FlattenSeq(ss)
  BY <1>1, Msgs!ListedType DEF Msgs!ListedLaw
<1>3. \A i \in 0..n : Msgs!Upto(ss, i) = Msgs!SumUpTo(Msgs!Counts(groups), i)
  BY <1>1, Msgs!CountedLists
<1> HIDE DEF ss
<1>4. g - 1 \in 0..n
  BY <1>1
<1>5. o = Msgs!Upto(ss, g - 1)
  BY <1>3, <1>4 DEF Msgs!OffsetOf
<1>6. Msgs!Placed(Msgs!FlattenSeq(ss), ss, n)
  BY <1>1, <1>2, Msgs!FlattenPlaces
<1>7. \A i \in 0..Len(ss) : Msgs!Upto(ss, i) \in Nat
  BY <1>1, <1>2, Msgs!UptoGrows
<1> HIDE DEF o, flat, n
<1>8. o \in Nat
  BY <1>2, <1>4, <1>5, <1>7
<1>9. g \in 1..n
  BY DEF n
<1>10. \A k \in 1..Len(list[g]) : flat[o + k] = list[g][k]
  BY <1>2, <1>5, <1>6, <1>9 DEF Msgs!Placed
<1> QED BY <1>8, <1>10 DEF o, flat

LEMMA SumFound ==
    ASSUME NEW groups, Msgs!AreOutcomes(groups, BchM, BchT), NEW S, NEW list,
           Msgs!AreLists(groups, list, S), Msgs!AreSingle(groups, list),
           NEW g \in 1..Len(groups), groups[g] # Msgs!Failed
    PROVE  Msgs!OfDecoded(groups, list)[Msgs!CidOf(Msgs!Counts(groups), g)] = list[g][1]
<1> DEFINE ss == Msgs!Listed(groups, list)
           n == Len(groups)
           flat == Msgs!OfDecoded(groups, list)
<1>1. BchM \in Nat /\ BchT \in Nat /\ ByteBits \in Nat \ {0} /\ n \in Nat
  BY SketchAssumption, ServiceAssumption DEF Msgs!AreOutcomes
<1>2. /\ ss \in Seq(Seq(S)) /\ Len(ss) = n /\ ss[g] = list[g]
      /\ flat = Msgs!FlattenSeq(ss)
  BY <1>1, Msgs!ListedType DEF Msgs!ListedLaw
<1>3. \A i \in 0..n : Msgs!Upto(ss, i) = Msgs!CidOf(Msgs!Counts(groups), i)
  BY <1>1, Msgs!ChecksumsCounted
<1>4. Len(list[g]) = 1
  BY DEF Msgs!AreSingle
<1> HIDE DEF ss
<1>5. Msgs!Placed(Msgs!FlattenSeq(ss), ss, n)
  BY <1>1, <1>2, Msgs!FlattenPlaces
<1>6. /\ \A i \in 0..Len(ss) : Msgs!Upto(ss, i) \in Nat
      /\ \A i \in 1..Len(ss) : Msgs!Upto(ss, i) = Msgs!Upto(ss, i - 1) + Len(ss[i])
  BY <1>1, <1>2, Msgs!UptoGrows
<1> HIDE DEF flat, n
<1>7. g \in 1..n /\ g \in 0..n
  BY <1>1 DEF n
<1>8. flat[Msgs!Upto(ss, g - 1) + 1] = list[g][1]
  <2>1. \A k \in 1..Len(ss[g]) : flat[Msgs!Upto(ss, g - 1) + k] = ss[g][k]
    BY <1>2, <1>5, <1>7 DEF Msgs!Placed
  <2>2. 1 \in 1..Len(ss[g])
    BY <1>2, <1>4
  <2> QED BY <1>2, <2>1, <2>2
<1>9. Msgs!Upto(ss, g) = Msgs!Upto(ss, g - 1) + 1
  BY <1>2, <1>4, <1>6, <1>7
<1> QED BY <1>3, <1>7, <1>8, <1>9 DEF flat

(* The decoder answers no position for a group that it fails on, and the   *)
(* server sends no checksum.                                               *)
Blank(d) == ~d.ok => d.at = {} /\ d.sum = {}

Exact(dec) == \A g \in 1..Len(dec) : Blank(dec[g])

LEMMA AnswerIsExact ==
    ASSUME NEW p, Encoded(p), NEW h \in Hashes, NEW other \in Seq(SUBSET Bins),
           Len(other) = p.remaining, NEW e
    PROVE  Exact(decodeMessage(p, h, other, e))
<1> DEFINE dec == decodeMessage(p, h, other, e)
<1>1. /\ p \in Pbs /\ Len(p.sketches) = p.remaining /\ p.remaining \in Nat
      /\ p.sketches \in Seq(SUBSET Bins)
  BY DEF Encoded, Aligned, Pbs
<1>2. IsHash(h)
  BY ServiceAssumption
<1>3. ASSUME NEW g \in 1..p.remaining PROVE Blank(dec[g])
  <2> DEFINE s == p.sketches[g] (+) other[g]
  <2>1. s \in SUBSET Bins
    <3>1. p.sketches[g] \in SUBSET Bins /\ other[g] \in SUBSET Bins
      BY <1>1
    <3> QED BY <3>1 DEF (+)
  <2>2. /\ dec[g].ok = h.decode[s].ok /\ dec[g].at = h.decode[s].at
        /\ dec[g].sum = IF h.decode[s].ok THEN p.checksums[g] ELSE {}
    <3>1. DecodeOf(p, h, other, g) = h.decode[s]
      BY DEF DecodeOf
    <3> HIDE DEF s
    <3> QED BY <3>1 DEF decodeMessage
  <2> HIDE DEF s, dec
  <2>3. h.decode[s] \in DecodeOutcomes(s)
    BY <1>2, <2>1 DEF IsHash
  <2>4. h.decode[s].ok \/ h.decode[s].at = {}
    BY <2>3 DEF DecodeOutcomes
  <2> QED BY <2>2, <2>4 DEF Blank
<1>4. Len(dec) = p.remaining
  BY <1>1 DEF decodeMessage
<1> QED BY <1>3, <1>4 DEF Exact

(* What is read for a group that was decoded. *)
FoundAt(p, o, l) == {p[i] : i \in (o + 1)..(o + l)} \ {0}

FoundXors(p, xors, o, l) ==
    [b \in FoundAt(p, o, l) |-> xors[CHOOSE i \in (o + 1)..(o + l) : p[i] = b]]

ReadsAt(p, xors, o, s, row) ==
    \A k \in 1..Len(s) : p[o + k] = s[k] /\ xors[o + k] = row[s[k]]

LEMMA GroupRead ==
    ASSUME NEW p, NEW o \in Nat, NEW xors, NEW s, NEW at, NEW row \in [at -> Key],
           ArePositions(s, at), ListsAll(s, at), ReadsAt(p, xors, o, s, row)
    PROVE  FoundAt(p, o, Len(s)) = at /\ FoundXors(p, xors, o, Len(s)) = row
<1> DEFINE slice == (o + 1)..(o + Len(s))
           found == {p[i] : i \in slice} \ {0}
<1>1. Len(s) \in Nat /\ \A k \in 1..Len(s) : s[k] # 0
  <2>1. BchN \in Nat
    BY SketchAssumption
  <2>2. Len(s) \in Nat /\ \A k \in 1..Len(s) : s[k] \in 1..BchN
    BY DEF ArePositions
  <2> QED BY <2>1, <2>2
<1>2. \A i \in slice : \E k \in 1..Len(s) : i = o + k
  <2>1. ASSUME NEW i \in slice PROVE i - o \in 1..Len(s) /\ i = o + (i - o)
    BY <1>1
  <2> QED BY <2>1
<1>3. \A k \in 1..Len(s) : o + k \in slice
  BY <1>1
<1> USE DEF ReadsAt
<1> HIDE DEF slice
<1>4. found = at
  <2>1. ASSUME NEW x \in found PROVE x \in at
    BY <1>2 DEF ListsAll
  <2>2. ASSUME NEW k \in 1..Len(s) PROVE s[k] \in found
    <3>1. s[k] # 0 /\ o + k \in slice /\ p[o + k] = s[k]
      BY <1>1, <1>3
    <3> QED BY <3>1
  <2>3. found \subseteq at
    BY <2>1
  <2>4. at \subseteq found
    <3> HIDE DEF found
    <3> QED BY <2>2 DEF ListsAll
  <2> QED BY <2>3, <2>4
<1>5. ASSUME NEW b \in at PROVE xors[CHOOSE i \in slice : p[i] = b] = row[b]
  <2> DEFINE j == CHOOSE i \in slice : p[i] = b
  <2>1. PICK k \in 1..Len(s) : s[k] = b
    BY DEF ListsAll
  <2>2. j \in slice /\ p[j] = b
    <3>1. o + k \in slice /\ p[o + k] = b
      BY <1>3, <2>1
    <3> QED BY <3>1
  <2> HIDE DEF j
  <2>3. PICK l \in 1..Len(s) : j = o + l
    BY <1>2, <2>2
  <2>4. xors[j] = row[s[l]] /\ s[l] = b
    BY <2>2, <2>3
  <2> QED BY <2>4 DEF j
<1> HIDE DEF found
<1>6. [b \in found |-> xors[CHOOSE i \in slice : p[i] = b]] = row
  BY <1>4, <1>5
<1> QED BY <1>4, <1>6 DEF found, slice, FoundAt, FoundXors

LEMMA AnswerReadExactly ==
    ASSUME NEW dec \in DecodingMessage, Faithful(dec), Exact(dec), NEW parsed,
           parsed = Wire!ParseDecoding(BchM, BchT, Len(dec), MessageBits(dec))
    PROVE  Understood(parsed, XorList(dec), SumList(dec)) = dec
<1> DEFINE n == Len(dec)
           groups == PositionLists(dec)
           c == parsed.counts
           xs == [g \in 1..n |-> [k \in 1..Cardinality(dec[g].at) |-> dec[g].xors[groups[g][k]]]]
           sums == [g \in 1..n |-> <<dec[g].sum>>]
           und == Understood(parsed, XorList(dec), SumList(dec))
<1>1. /\ n \in Nat /\ dec = [g \in 1..n |-> dec[g]]
      /\ \A g \in 1..n :
            /\ dec[g].ok \in BOOLEAN /\ dec[g].at \in SUBSET Position
            /\ dec[g].xors \in [dec[g].at -> Key] /\ dec[g].sum \in Key
            /\ dec[g] = [ok |-> dec[g].ok, at |-> dec[g].at, xors |-> dec[g].xors,
                         sum |-> dec[g].sum]
  <2>1. \A d \in GroupDecoding :
           /\ d.ok \in BOOLEAN /\ d.at \in SUBSET Position
           /\ d.xors \in [d.at -> Key] /\ d.sum \in Key
           /\ d = [ok |-> d.ok, at |-> d.at, xors |-> d.xors, sum |-> d.sum]
    BY DEF GroupDecoding
  <2>2. dec \in [1..n -> GroupDecoding] /\ n \in Nat
    BY DEF DecodingMessage
  <2>3. \A g \in 1..n : dec[g] \in GroupDecoding
    BY <2>2
  <2> QED BY <2>1, <2>2, <2>3
<1>2. BchN \in Nat /\ BchM \in Nat /\ BchT \in Nat /\ ByteBits \in Nat \ {0}
  BY SketchAssumption, ServiceAssumption
<1>3. /\ Msgs!AreOutcomes(groups, BchM, BchT) /\ Len(groups) = n
      /\ \A g \in 1..n : groups[g] = Msgs!Failed <=> ~dec[g].ok
      /\ parsed = [counts |-> Msgs!Counts(groups), positions |-> Msgs!Positions(groups)]
  BY AnswerParsed
<1>4. \A g \in 1..n : dec[g].ok => groups[g] = Ordered(dec[g].at) /\ ArePositions(groups[g], dec[g].at)
  BY <1>1, OrderedPositions DEF PositionLists, Positions
<1>5. /\ XorList(dec) = Msgs!OfDecoded(groups, xs)
      /\ SumList(dec) = Msgs!OfDecoded(groups, sums)
      /\ parsed.positions = Msgs!OfDecoded(groups, groups)
      /\ c = Msgs!Counts(groups)
  <2>1. [g \in 1..n |-> IF dec[g].ok
            THEN [k \in 1..Cardinality(dec[g].at) |-> dec[g].xors[Positions(dec, g)[k]]] ELSE << >>]
         = [g \in 1..n |-> IF groups[g] = Msgs!Failed THEN << >> ELSE xs[g]]
    <3>1. \A g \in 1..n : groups[g] = Positions(dec, g)
      BY DEF PositionLists
    <3> HIDE DEF groups
    <3> QED BY <1>3, <3>1
  <2>2. [g \in 1..n |-> IF dec[g].ok THEN <<dec[g].sum>> ELSE << >>]
         = [g \in 1..n |-> IF groups[g] = Msgs!Failed THEN << >> ELSE sums[g]]
    <3> HIDE DEF groups
    <3> QED BY <1>3
  <2> HIDE DEF groups, xs, sums
  <2>3. XorList(dec) = Msgs!OfDecoded(groups, xs)
    BY <1>3, <2>1, SameFlatten DEF XorList, Msgs!OfDecoded
  <2>4. SumList(dec) = Msgs!OfDecoded(groups, sums)
    BY <1>3, <2>2, SameFlatten DEF SumList, Msgs!OfDecoded
  <2> QED BY <1>3, <2>3, <2>4 DEF Msgs!Positions
<1>6. ASSUME NEW g \in 1..n
      PROVE  und[g] = IF c[g] < 0 THEN FailedGroup
                      ELSE [ok |-> TRUE,
                            at |-> FoundAt(parsed.positions, Wire!OffsetOf(c, g), c[g]),
                            xors |-> FoundXors(parsed.positions, XorList(dec),
                                               Wire!OffsetOf(c, g), c[g]),
                            sum |-> SumList(dec)[Wire!CidOf(c, g)]]
  <2>1. Len(c) = n
    BY <1>2, <1>3, <1>5, Msgs!CountsType
  <2> HIDE DEF c, n
  <2> QED BY <2>1 DEF Understood, c, Slice, FoundAt, FoundXors
<1>7. \A g \in 1..n : /\ c[g] = IF groups[g] = Msgs!Failed THEN -1 ELSE Len(groups[g])
                      /\ c[g] < 0 <=> groups[g] = Msgs!Failed
  BY <1>2, <1>3, <1>5, Msgs!CountsType
<1>8. Msgs!AreLists(groups, xs, Key) /\ Msgs!AreCounted(groups, xs)
  <2>1. ASSUME NEW g \in 1..n, groups[g] # Msgs!Failed
        PROVE  xs[g] \in Seq(Key) /\ Len(xs[g]) = Len(groups[g])
    <3>1. dec[g].ok /\ dec[g].xors \in [dec[g].at -> Key]
      BY <1>1, <1>3, <2>1
    <3>2. ArePositions(groups[g], dec[g].at)
      BY <1>4, <3>1
    <3> DEFINE l == Cardinality(dec[g].at)
    <3>3. xs[g] = [k \in 1..l |-> dec[g].xors[groups[g][k]]]
      OBVIOUS
    <3> HIDE DEF xs, groups, l
    <3>4. Len(groups[g]) = l /\ l \in Nat
      BY <3>2 DEF ArePositions, l
    <3>5. \A k \in 1..l : groups[g][k] \in dec[g].at
      BY <3>2, <3>4 DEF ArePositions
    <3>6. xs[g] \in [1..l -> Key]
      BY <3>1, <3>3, <3>5
    <3> QED BY <3>4, <3>6, FunctionIsSeq
  <2> QED BY <1>3, <2>1 DEF Msgs!AreLists, Msgs!AreCounted
<1>9. Msgs!AreLists(groups, sums, Key) /\ Msgs!AreSingle(groups, sums)
  <2>1. ASSUME NEW g \in 1..n PROVE sums[g] \in Seq(Key) /\ Len(sums[g]) = 1
    BY <1>1
  <2> HIDE DEF sums, groups
  <2> QED BY <1>3, <2>1 DEF Msgs!AreLists, Msgs!AreSingle
<1>10. Msgs!AreLists(groups, groups, Nat) /\ Msgs!AreCounted(groups, groups)
  BY <1>3 DEF Msgs!AreLists, Msgs!AreCounted, Msgs!AreOutcomes, Msgs!IsOutcome
<1>11. ASSUME NEW g \in 1..n PROVE und[g] = dec[g]
  <2>1. CASE ~dec[g].ok
    <3>1. und[g] = FailedGroup
      BY <1>3, <1>6, <1>7, <2>1
    <3>2. dec[g].at = {} /\ dec[g].sum = {}
      BY <2>1 DEF Exact, Blank
    <3>3. dec[g].xors = [b \in {} |-> {}]
      BY <1>1, <3>2
    <3>4. dec[g].ok = FALSE
      BY <1>1, <2>1
    <3> HIDE DEF und
    <3> QED BY <1>1, <3>1, <3>2, <3>3, <3>4 DEF FailedGroup
  <2>2. CASE dec[g].ok
    <3> DEFINE s == groups[g]
               o == Wire!OffsetOf(c, g)
               at == dec[g].at
               row == dec[g].xors
               p == parsed.positions
               x == XorList(dec)
               found == FoundAt(p, o, Len(s))
               foundXors == FoundXors(p, x, o, Len(s))
    <3>1. s # Msgs!Failed /\ c[g] = Len(s) /\ ~(c[g] < 0)
      BY <1>3, <1>7, <2>2
    <3>2. s = Ordered(at) /\ ArePositions(s, at)
      BY <1>4, <2>2
    <3>3. o = Msgs!OffsetOf(Msgs!Counts(groups), g)
      BY <1>5, SameSum DEF Wire!OffsetOf, Msgs!OffsetOf
    <3>4. g \in 1..Len(groups) /\ Len(xs[g]) = Len(s) /\ sums[g][1] = dec[g].sum
      <4>1. Len(xs[g]) = Len(groups[g])
        BY <1>3, <1>8, <3>1 DEF Msgs!AreCounted
      <4> QED BY <1>3, <4>1
    <3>5. xs[g] = [k \in 1..Cardinality(at) |-> row[s[k]]]
      OBVIOUS
    <3> HIDE DEF und, groups, xs, sums, c
    <3>6. o \in Nat /\ \A k \in 1..Len(s) : p[o + k] = s[k]
      BY <1>3, <1>5, <1>10, <3>1, <3>3, <3>4, ElementFound
    <3>7. \A k \in 1..Len(s) : x[o + k] = row[s[k]]
      <4>1. \A k \in 1..Len(xs[g]) : x[o + k] = xs[g][k]
        BY <1>3, <1>5, <1>8, <3>1, <3>3, <3>4, ElementFound
      <4>2. Len(s) = Cardinality(at)
        BY <3>2 DEF ArePositions
      <4> HIDE DEF o, x, s
      <4> QED BY <3>4, <3>5, <4>1, <4>2
    <3>8. SumList(dec)[Wire!CidOf(c, g)] = dec[g].sum
      <4>1. Wire!CidOf(c, g) = Msgs!CidOf(Msgs!Counts(groups), g)
        BY <1>5, SameCid
      <4> QED BY <1>3, <1>5, <1>9, <3>1, <3>4, <4>1, SumFound
    <3>9. ListsAll(s, at)
      <4>1. at \in SUBSET (1..BchN)
        BY <1>1 DEF Position
      <4> HIDE DEF at
      <4>2. at = {Ordered(at)[k] : k \in 1..Len(Ordered(at))}
        BY <1>2, <4>1, OrderedCovers
      <4> HIDE DEF s
      <4> QED BY <3>2, <4>2 DEF ListsAll
    <3>10. row \in [at -> Key]
      BY <1>1
    <3>11. und[g] = [ok |-> TRUE, at |-> found,
                     xors |-> foundXors, sum |-> dec[g].sum]
      BY <1>6, <3>1, <3>8
    <3>12. dec[g] = [ok |-> TRUE, at |-> at, xors |-> row, sum |-> dec[g].sum]
      BY <1>1, <2>2
    <3> HIDE DEF o, at, row, p, x, s
    <3>14. ReadsAt(p, x, o, s, row)
      BY <3>6, <3>7 DEF ReadsAt
    <3>13. found = at /\ foundXors = row
      BY <3>2, <3>6, <3>9, <3>10, <3>14, GroupRead
    <3> HIDE DEF found, foundXors
    <3> QED BY <3>11, <3>12, <3>13
  <2> QED BY <2>1, <2>2
<1>12. und = [g \in 1..n |-> und[g]]
  <2>1. Len(c) = n
    BY <1>2, <1>3, <1>5, Msgs!CountsType
  <2> HIDE DEF c, n
  <2> QED BY <2>1 DEF Understood, c
<1> HIDE DEF und
<1>13. [g \in 1..n |-> und[g]] = [g \in 1..n |-> dec[g]]
  BY <1>11
<1> QED BY <1>1, <1>12, <1>13 DEF und

-------------------------------------------------------------------------------
(* There is at most one such call.                                         *)
Alone == \A c, d \in Clients : fresh[c] /\ fresh[d] => c = d

LEMMA RunNow ==
    ASSUME Alone, NEW c \in Clients, fresh[c]
    PROVE  /\ Lone = c
           /\ RunSetA = initial[c][1] /\ RunSetB = initial[c][2] /\ RunAlice = client[c]
           /\ RunBob = BobOf(server, initial[c][2], hash) /\ RunPhase = Turn(phase[c])
           /\ RunEncoding = EncodingRead(phase[c], request[c])
           /\ RunHint = HintTaken(phase[c], client[c], request[c])
           /\ RunDecoding = DecodingRead(phase[c], reply[c])
<1>1. Lone = c
  BY DEF Alone, Lone
<1> QED BY <1>1 DEF RunSetA, RunSetB, RunAlice, RunBob, RunPhase, RunEncoding, RunHint, RunDecoding

LEMMA RunThen ==
    ASSUME NEW c \in Clients, \A d \in Clients : fresh'[d] <=> d = c
    PROVE  /\ Lone' = c
           /\ RunSetA' = initial'[c][1] /\ RunSetB' = initial'[c][2] /\ RunAlice' = client'[c]
           /\ RunBob' = BobOf(server', initial'[c][2], hash') /\ RunPhase' = Turn(phase'[c])
           /\ RunEncoding' = EncodingRead(phase'[c], request'[c])
           /\ RunHint' = HintTaken(phase'[c], client'[c], request'[c])
           /\ RunDecoding' = DecodingRead(phase'[c], reply'[c])
<1>1. Lone' = c
  BY DEF Lone
<1> QED BY <1>1 DEF RunSetA, RunSetB, RunAlice, RunBob, RunPhase, RunEncoding, RunHint, RunDecoding

(* What the maps differed by when the call began, what it has recovered,   *)
(* and how much of that has been exchanged: all but the last round, until  *)
(* the exchange of that round has succeeded.                               *)
Before(c) == initial[c][1] (+) initial[c][2]

RecoveredBy(c) == ParityOf(client[c].recovered)

Ended == {"completed", "syncCalled", "syncAnswered"}

Accounted(c) ==
    /\ phase[c] \in {"loop", "called", "encoded", "completed", "syncCalled"} =>
          clientData[c] (+) serverData = Before(c) (+) (RecoveredBy(c) (+) RowParity(res[c]))
    /\ phase[c] \in {"called", "encoded"} =>
          request[c].pushes = Pushes(c) /\ request[c].missing = Missing(c)
    /\ phase[c] = "syncCalled" =>
          request[c].pushes = Pushes(c) /\ request[c].pulls = Missing(c)
    /\ phase[c] = "answered" /\ reply[c].ok /\ Duplicates(clientData[c], reply[c].pushed) = {} =>
          (clientData[c] \union KeysOf(reply[c].pushed)) (+) serverData = Before(c) (+) RecoveredBy(c)
    /\ phase[c] = "syncAnswered" /\ reply[c].ok /\ synced[c] =>
          (clientData[c] \union KeysOf(reply[c].pushed)) (+) serverData = Before(c) (+) RecoveredBy(c)
    /\ phase[c] = "received" => clientData[c] (+) serverData = Before(c) (+) RecoveredBy(c)
    /\ phase[c] \in Ended => res[c] \in Seq(SUBSET Key)
    /\ IF phase[c] = "idle" THEN Agreement(c) ELSE result[c] = "none"

(* The call plays the run; if the server is left without a group, the      *)
(* request comes to nothing.  When the run has completed, nothing is        *)
(* pending.                                                                *)
Lost(c) == server # NoPbs /\ server.failed = << >> /\ request[c].hint = << >>

Complete(c) ==
    \A o \in GroupId :
        XorSum({k \in Before(c) (+) RecoveredBy(c) : getGroupId_(hash, k) = o}) = {}

Played(c) ==
    /\ phase[c] = "loop" => Run!RoundInv
    /\ phase[c] = "called" => Run!RoundInv \/ Lost(c)
    /\ phase[c] = "encoded" => Run!RoundInv \/ server.remaining = 0
    /\ phase[c] = "answered" /\ reply[c].ok =>
          Exact(reply[c].dec) /\ (Run!RoundInv \/ Len(reply[c].dec) = 0)
    /\ phase[c] = "received" /\ ~reply[c].throws => Run!RoundInv
    /\ phase[c] \in {"loop", "called"} /\ server = NoPbs => serverData = initial[c][2]
    /\ phase[c] \in Ended => Complete(c)

AgreementInv == Alone /\ \A c \in Clients : fresh[c] => Played(c) /\ Accounted(c)

LEMMA CallPlaysOn ==
    ASSUME FreshInv, AgreementInv, NEW c \in Clients, phase[c] # "idle", fresh' = fresh,
           fresh[c] => Played(c)' /\ Accounted(c)'
    PROVE  AgreementInv'
<1>1. Alone'
  BY DEF AgreementInv, Alone
<1>2. ASSUME NEW d \in Clients, fresh[d] PROVE d = c
  BY <1>2 DEF FreshInv, Undisturbed
<1> QED BY <1>1, <1>2 DEF AgreementInv

LEMMA RunStep ==
    ASSUME AgreementInv, NEW c \in Clients, fresh[c], fresh' = fresh
    PROVE  \A d \in Clients : fresh'[d] <=> d = c
BY DEF AgreementInv, Alone

(* A call that returns. *)
LEMMA ReturnAgrees ==
    ASSUME PerClient, FreshInv, AgreementInv, NEW c \in Clients, phase[c] # "idle", fresh' = fresh,
           NEW value, Return(c, value), Agreement(c)'
    PROVE  AgreementInv'
<1>1. phase'[c] = "idle"
  BY DEF PerClient, Return, Goto
<1>2. Played(c)' /\ Accounted(c)'
  BY <1>1 DEF Played, Accounted, Ended
<1> QED BY <1>2, CallPlaysOn

(* The client encodes, and Alice does. *)
LEMMA CallPlays ==
    ASSUME SessionInv, FreshInv, AgreementInv, NEW c \in Clients, Call(c) PROVE AgreementInv'
<1>1. PerClient /\ Functions /\ Sound(c)
  BY DEF SessionInv, InFlight
<1>2. /\ phase[c] = "loop" /\ phase'[c] = "called"
      /\ client[c].round < ClientRounds /\ ~encodeThrows(client[c])
      /\ client'[c] = encode(client[c], hash)
      /\ request'[c] = [sketches |-> client'[c].sketches, hint |-> HintBits(client[c]),
                        pushes |-> Pushes(c), missing |-> Missing(c)]
      /\ UNCHANGED <<hash, clientData, serverData, server, reply, res, result, initial, fresh>>
  BY <1>1 DEF PerClient, Functions, Call, Goto
<1>3. ClientObject(client[c])
  BY <1>1, <1>2 DEF Sound, Objects, Playing
<1>4. client'[c].hintRange = client[c].hintRange /\ client'[c].recovered = client[c].recovered
  BY <1>2, <1>3, EncodingObject DEF ClientObject
<1> SUFFICES ASSUME fresh[c] PROVE Played(c)' /\ Accounted(c)'
  BY <1>2, CallPlaysOn
<1>5. Alone /\ Played(c) /\ Accounted(c) /\ NextRound(c)
  BY <1>2 DEF AgreementInv, FreshInv, Undisturbed, InStep
<1>6. Run!RoundInv' \/ Lost(c)'
  <2>1. CASE client[c].exceptions # << >> /\ client[c].hintRange = 1
    <3>1. HintBits(client[c]) = << >>
      BY <1>3, <2>1, HintRead
    <3>2. server # NoPbs /\ server.failed = << >>
      BY <1>5, <2>1, NotObjects DEF NextRound, Bob
    <3> QED BY <1>2, <3>1, <3>2 DEF Lost
  <2>2. CASE client[c].exceptions = << >> \/ client[c].hintRange # 1
    <3>1. HintFor(client'[c], HintBits(client[c])) = client[c].exceptions
      BY <1>3, <1>4, <2>2, HintReadBack DEF HintFor
    <3>2. client[c].round < MaxRounds
      <4>1. client[c].round \in Nat
        BY <1>3 DEF ClientObject, Aligned, Pbs
      <4>2. ClientRounds \in Nat /\ Sessions \in Nat /\ Sessions >= 1 /\ MaxRounds \in Nat
            /\ Sessions * ClientRounds <= MaxRounds
        BY ServiceAssumption, SketchAssumption
      <4>3. ClientRounds <= Sessions * ClientRounds
        BY <4>2
      <4> DEFINE l == Sessions * ClientRounds
      <4>4. l \in Nat
        BY <4>2
      <4> HIDE DEF l
      <4> QED BY <1>2, <4>1, <4>2, <4>3, <4>4 DEF l
    <3>3. /\ RunSetA = initial[c][1] /\ RunSetB = initial[c][2] /\ RunAlice = client[c]
          /\ RunBob = BobOf(server, initial[c][2], hash) /\ RunPhase = "aliceEncode"
          /\ RunDecoding = << >>
      BY <1>2, <1>5, RunNow DEF Turn, DecodingRead
    <3>4. /\ RunSetA' = RunSetA /\ RunSetB' = RunSetB /\ RunAlice' = client'[c]
          /\ RunBob' = RunBob /\ RunPhase' = "bobEncode"
          /\ RunEncoding' = client'[c].sketches
          /\ RunHint' = HintFor(client'[c], HintBits(client[c])) /\ RunDecoding' = << >>
      <4>1. \A d \in Clients : fresh'[d] <=> d = c
        BY <1>2, RunStep
      <4> QED BY <1>2, <3>3, <4>1, RunThen
              DEF Turn, EncodingRead, HintTaken, DecodingRead, InRound
    <3>5. Run!AliceEncode
      BY <1>2, <3>1, <3>2, <3>3, <3>4, SameEncode, SameEncodeThrows DEF Run!AliceEncode
    <3> QED BY <1>2, <1>5, <3>5, RunGoesOn DEF Played
  <2> QED BY <2>1, <2>2
<1>7. Played(c)'
  BY <1>2, <1>5, <1>6 DEF Played, Ended
<1>8. Accounted(c)'
  <2>1. Pushes(c)' = Pushes(c) /\ Missing(c)' = Missing(c)
    BY <1>2 DEF Pushes, Missing
  <2>2. Before(c)' = Before(c) /\ RecoveredBy(c)' = RecoveredBy(c)
    BY <1>2, <1>4 DEF Before, RecoveredBy
  <2> QED BY <1>2, <1>5, <2>1, <2>2 DEF Accounted, Ended
<1> QED BY <1>7, <1>8

-------------------------------------------------------------------------------
(* A call begins. *)
Histories ==
    /\ result = [c \in Clients |-> result[c]]
    /\ synced = [c \in Clients |-> synced[c]]

LEMMA NothingRecovered == ParityOf(<< >>) = {} /\ RowParity(<< >>) = {}
<1>1. Len(<< >>) = 0 /\ 1..0 = {}
  OBVIOUS
<1>2. Cells(<< >>) = {}
  BY <1>1 DEF Cells
<1> QED BY <1>1, <1>2, ToggledOfNone DEF ParityOf, RowParity

LEMMA BeginPlays ==
    ASSUME SessionInv, Histories, NEW c \in Clients, Begin(c) PROVE AgreementInv'
<1>1. PerClient /\ Functions /\ Maps /\ hash \in Hashes
  BY DEF SessionInv, InFlight
<1>2. /\ client'[c] = Construct(clientData[c], hash) /\ phase'[c] = "loop" /\ res'[c] = << >>
      /\ result'[c] = "none" /\ initial'[c] = <<clientData[c], serverData, maps>>
      /\ fresh' = [d \in Clients |-> d = c /\ Idle /\ server = NoPbs]
      /\ UNCHANGED <<hash, clientData, serverData, server>>
  BY <1>1 DEF PerClient, Functions, Histories, Begin, Goto
<1>3. ASSUME NEW d \in Clients, fresh'[d] PROVE d = c /\ server = NoPbs
  BY <1>2, <1>3
<1>4. Alone'
  BY <1>3 DEF Alone
<1> SUFFICES ASSUME fresh'[c] PROVE Played(c)' /\ Accounted(c)'
  BY <1>3, <1>4 DEF AgreementInv
<1>5. \A d \in Clients : fresh'[d] <=> d = c
  BY <1>3
<1>6. /\ clientData[c] \in SUBSET Key /\ serverData \in SUBSET Key /\ server = NoPbs
      /\ initial'[c][1] = clientData[c] /\ initial'[c][2] = serverData
      /\ client'[c].recovered = << >>
  BY <1>1, <1>2, <1>3, NewObject DEF Maps
<1>7. Run!RoundInv'
  <2>1. /\ RunSetA' = clientData[c] /\ RunSetB' = serverData
        /\ RunAlice' = Construct(clientData[c], hash) /\ RunBob' = Construct(serverData, hash)
        /\ RunPhase' = "aliceEncode" /\ RunEncoding' = << >> /\ RunHint' = << >>
        /\ RunDecoding' = << >>
    BY <1>2, <1>5, <1>6, RunThen DEF Turn, BobOf, EncodingRead, HintTaken, DecodingRead, InRound
  <2>2. <<clientData[c], serverData>> \in (SUBSET Key) \X (SUBSET Key)
    BY <1>6
  <2>3. Run!Init'
    BY <1>1, <1>2, <2>1, <2>2, SameConstruct DEF Run!Init
  <2>4. Run!Init' => Run!RoundInv'
    BY RunStarts, PTL
  <2> QED BY <2>3, <2>4
<1>8. Played(c)'
  BY <1>2, <1>6, <1>7 DEF Played, Ended
<1>9. Accounted(c)'
  <2>1. /\ RecoveredBy(c)' = {} /\ RowParity(res[c])' = {}
        /\ Before(c)' = clientData'[c] (+) serverData'
    BY <1>2, <1>6, NothingRecovered DEF RecoveredBy, Before
  <2>2. (clientData[c] (+) serverData)' = Before(c)' (+) (RecoveredBy(c)' (+) RowParity(res[c])')
    BY <2>1, XorAlgebra
  <2> QED BY <1>2, <2>2 DEF Accounted, Ended
<1> QED BY <1>8, <1>9

-------------------------------------------------------------------------------
(* The server encodes, and Bob does. *)
LEMMA FirstEncodePlays ==
    ASSUME SessionInv, Alone, NEW c \in Clients, fresh[c], FirstEncode(c), HandleEncode(c),
           phase'[c] = "encoded", Requested(c), Run!RoundInv, serverData = initial[c][2]
    PROVE  Run!RoundInv'
<1>1. PerClient /\ Maps /\ hash \in Hashes
  BY DEF SessionInv, InFlight
<1>2. /\ phase[c] = "called" /\ server = NoPbs
      /\ UNCHANGED <<hash, client, request, initial, fresh>>
  BY DEF FirstEncode, HandleEncode
<1>3. request[c].hint = << >>
  BY <1>1 DEF FirstEncode, Goto, PerClient
<1> DEFINE p == Construct(serverData, hash)
<1>4. server' = encode(p, hash) /\ UNCHANGED reply
  BY <1>3 DEF FirstEncode
<1>5. Aligned(p) /\ p.role = "Undetermined"
  <2>1. p.role = "Undetermined"
    BY DEF Construct
  <2>2. ClientObject(p)
    BY <1>1, NewObject DEF Maps
  <2> QED BY <2>1, <2>2 DEF ClientObject
<1>6. server' # NoPbs
  <2> HIDE DEF p
  <2>1. encode(p, hash) \in Pbs
    BY <1>5, EncodingObject DEF Aligned
  <2> QED BY <1>4, <2>1, NotObjects
<1>7. /\ RunSetA = initial[c][1] /\ RunSetB = initial[c][2] /\ RunAlice = client[c]
      /\ RunBob = p /\ RunPhase = "bobEncode" /\ RunEncoding = request[c].sketches
      /\ RunHint = HintFor(client[c], request[c].hint) /\ RunDecoding = << >>
  BY <1>2, RunNow DEF Turn, BobOf, EncodingRead, HintTaken, DecodingRead, InRound
<1>8. \A d \in Clients : fresh'[d] <=> d = c
  BY <1>2 DEF Alone
<1>9. /\ RunSetA' = RunSetA /\ RunSetB' = RunSetB /\ RunAlice' = RunAlice
      /\ RunBob' = encode(p, hash) /\ RunPhase' = "bobDecode" /\ RunEncoding' = RunEncoding
      /\ RunHint' = RunHint /\ RunDecoding' = RunDecoding
  <2> HIDE DEF p
  <2> QED BY <1>2, <1>4, <1>6, <1>7, <1>8, RunThen
          DEF Turn, BobOf, EncodingRead, HintTaken, DecodingRead, InRound
<1> HIDE DEF p
<1>10. Run!BobEncode
  BY <1>2, <1>5, <1>7, <1>9, SameEncode DEF Run!BobEncode
<1> QED BY <1>10, RunGoesOn

LEMMA LaterEncodePlays ==
    ASSUME SessionInv, Alone, NEW c \in Clients, fresh[c], LaterEncode(c), HandleEncode(c),
           phase'[c] = "encoded", Requested(c), Run!RoundInv
    PROVE  Run!RoundInv'
<1>1. PerClient /\ Maps /\ hash \in Hashes
  BY DEF SessionInv, InFlight
<1>2. /\ phase[c] = "called" /\ server # NoPbs /\ server \notin Down
      /\ \A d \in Clients : phase[d] # "encoded"
      /\ UNCHANGED <<hash, client, request, initial, fresh>>
  BY DEF LaterEncode, HandleEncode, NoHandler
<1> DEFINE ids == HintFor(client[c], request[c].hint)
<1>3. /\ Bob(server) /\ ~encodeWithHintThrows(server, ids)
      /\ server' = encodeWithHint(server, hash, ids)
  <2>1. server # Crashed
    BY <1>2 DEF Down
  <2> QED BY <1>2, <2>1, LaterEncodeDoes
<1>4. server' # NoPbs /\ UNCHANGED reply
  <2>1. Encoded(server') \/ phase'[c] = "answered"
    <3>1. Answered(server) /\ request[c].hint \in Seq(Bits)
      BY <1>2 DEF SessionInv, ServerInv, Sound, Objects, Down
    <3> QED BY <1>1, <3>1, LaterEncodeServes
  <2>2. reply' = reply
    <3>1. Goto(c, "answered") \/ reply' = reply
      BY DEF LaterEncode
    <3> QED BY <1>1, <3>1 DEF Goto, PerClient
  <2> QED BY <2>1, <2>2, NotObjects DEF Encoded, Aligned
<1>5. /\ RunSetA = initial[c][1] /\ RunSetB = initial[c][2] /\ RunAlice = client[c]
      /\ RunBob = server /\ RunPhase = "bobEncode" /\ RunEncoding = request[c].sketches
      /\ RunHint = ids /\ RunDecoding = << >>
  BY <1>2, RunNow DEF Turn, BobOf, EncodingRead, HintTaken, DecodingRead, InRound
<1>6. \A d \in Clients : fresh'[d] <=> d = c
  BY <1>2 DEF Alone
<1>7. /\ RunSetA' = RunSetA /\ RunSetB' = RunSetB /\ RunAlice' = RunAlice
      /\ RunBob' = server' /\ RunPhase' = "bobDecode" /\ RunEncoding' = RunEncoding
      /\ RunHint' = RunHint /\ RunDecoding' = RunDecoding
  BY <1>2, <1>4, <1>5, <1>6, RunThen
     DEF Turn, BobOf, EncodingRead, HintTaken, DecodingRead, InRound
<1> HIDE DEF ids
<1>8. Run!BobEncodeWithHint
  BY <1>2, <1>3, <1>5, <1>7, SameEncodeWithHint DEF Run!BobEncodeWithHint, Bob
<1> QED BY <1>8, RunGoesOn

LEMMA HandleEncodePlays ==
    ASSUME SessionInv, FreshInv, AgreementInv, NEW c \in Clients, HandleEncode(c)
    PROVE  AgreementInv'
<1>1. PerClient /\ Maps /\ hash \in Hashes /\ ServerInv /\ Sound(c)
  BY DEF SessionInv, InFlight
<1>2. /\ phase[c] = "called" /\ (\A d \in Clients : phase[d] # "encoded")
      /\ server \notin Down /\ (FirstEncode(c) \/ LaterEncode(c))
      /\ UNCHANGED <<hash, clientData, serverData, client, request, res, result, initial, fresh>>
  BY DEF HandleEncode, NoHandler
<1> SUFFICES ASSUME fresh[c] PROVE Played(c)' /\ Accounted(c)'
  BY <1>2, CallPlaysOn
<1>3. \/ phase'[c] = "answered" /\ ~reply'[c].ok
      \/ phase'[c] = "encoded" /\ Encoded(server')
  <2>1. CASE FirstEncode(c)
    BY <1>1, <2>1, FirstEncodeServes
  <2>2. CASE LaterEncode(c)
    <3>0. server # NoPbs
      BY <2>2 DEF LaterEncode
    <3>1. Answered(server)
      BY <1>1, <1>2, <3>0 DEF ServerInv, Down
    <3>2. request[c].hint \in Seq(Bits)
      BY <1>1, <1>2 DEF Sound, Objects
    <3> QED BY <1>1, <2>2, <3>1, <3>2, LaterEncodeServes
  <2> QED BY <1>2, <2>1, <2>2
<1>4. Alone /\ Played(c) /\ Accounted(c) /\ Requested(c)
  BY <1>2 DEF AgreementInv, FreshInv, Undisturbed, InStep
<1>5. ASSUME phase'[c] = "encoded" PROVE Run!RoundInv' \/ server'.remaining = 0
  <2>1. CASE Lost(c)
    <3>1. LaterEncode(c) /\ request[c].hint = << >> /\ server.failed = << >>
      BY <1>2, <2>1 DEF Lost, FirstEncode
    <3>2. server'.remaining = 0
      <4> DEFINE ids == HintFor(client[c], request[c].hint)
      <4>1. /\ phase[c] = "called" /\ server # Crashed /\ \A d \in Clients : phase[d] # "encoded"
            /\ LaterEncode(c) /\ Requested(c) /\ phase'[c] = "encoded"
        BY <1>2, <1>4, <1>5, <3>1 DEF Down
      <4>2. /\ server'.remaining = PieceCount(server.failed) + Len(ids)
            /\ request[c].hint = << >> => Len(ids) = 0
            /\ server.failed = << >> => PieceCount(server.failed) = 0
        BY <4>1, LaterEncodeDoes
      <4> HIDE DEF ids
      <4> QED BY <3>1, <4>2
    <3> QED BY <3>2
  <2>2. CASE Run!RoundInv
    <3>1. CASE FirstEncode(c)
      <4>1. serverData = initial[c][2]
        BY <1>2, <1>4, <3>1 DEF FirstEncode, Played
      <4> QED BY <1>4, <1>5, <2>2, <3>1, <4>1, FirstEncodePlays
    <3>2. CASE LaterEncode(c)
      BY <1>4, <1>5, <2>2, <3>2, LaterEncodePlays
    <3> QED BY <1>2, <3>1, <3>2
  <2> QED BY <1>2, <1>4, <2>1, <2>2 DEF Played
<1>6. Played(c)'
  BY <1>3, <1>5 DEF Played, Ended
<1>7. Accounted(c)'
  <2>1. Pushes(c)' = Pushes(c) /\ Missing(c)' = Missing(c)
    BY <1>2 DEF Pushes, Missing
  <2>2. Before(c)' = Before(c) /\ RecoveredBy(c)' = RecoveredBy(c)
    BY <1>2 DEF Before, RecoveredBy
  <2> QED BY <1>2, <1>3, <1>4, <2>1, <2>2 DEF Accounted, Ended
<1> QED BY <1>6, <1>7

LEMMA HintCrashesServerPlays ==
    ASSUME SessionInv, FreshInv, AgreementInv, NEW c \in Clients, HintCrashesServer(c)
    PROVE  AgreementInv'
<1>1. /\ phase[c] = "called" /\ UNCHANGED <<phase, fresh>> /\ server' = Crashed
  BY DEF HintCrashesServer
<1>2. FreshInv'
  BY HintCrashesNoFreshServer
<1>3. ~fresh[c]
  BY <1>1, <1>2 DEF FreshInv, Undisturbed
<1> QED BY <1>1, <1>3, CallPlaysOn

-------------------------------------------------------------------------------
(* When the keys of a row have been brought to both sides, the maps differ *)
(* by it no more.                                                          *)
LEMMA RowBrought ==
    ASSUME NEW row \in Seq(SUBSET Key), NEW C, NEW S, NEW gets, NEW gives, NEW before, NEW rec,
           Brought(KeyList(row), C, S, gets, gives),
           C (+) S = before (+) (rec (+) RowParity(row))
    PROVE  (C \union KeysOf(gets)) (+) (S \union KeysOf(gives)) = before (+) rec
<1> DEFINE list == KeyList(row)
           r == RowParity(row)
<1>1. list \in Seq(Key)
  BY ListIsOfRow
<1>2. /\ NoDuplicate(list)
      /\ (C \union KeysOf(gets)) (+) (S \union KeysOf(gives)) = (C (+) S) (+) KeysOf(list)
  <2> HIDE DEF list
  <2>1. Brought(list, C, S, gets, gives)
    BY DEF list
  <2> QED BY <1>1, <2>1, ListBrought
<1>3. KeysOf(list) = r
  BY <1>2, ListIsOfRow
<1> HIDE DEF list, r
<1>4. (before (+) (rec (+) r)) (+) r = before (+) rec
  <2>1. (rec (+) r) (+) r = rec (+) (r (+) r)
    BY XorAlgebra
  <2>2. (rec (+) r) (+) r = rec
    BY <2>1, XorAlgebra
  <2>3. (before (+) (rec (+) r)) (+) r = before (+) ((rec (+) r) (+) r)
    BY XorAlgebra
  <2> QED BY <2>2, <2>3
<1> QED BY <1>2, <1>3, <1>4 DEF r

LEMMA SketchesArrive ==
    ASSUME NEW sketches \in Seq(SUBSET Bins), NEW other \in SketchesFor(Len(sketches), sketches)
    PROVE  other = sketches
<1> DEFINE n == Len(sketches)
<1>1. n \in Nat /\ ~Misplaced(n, sketches)
  BY DEF Misplaced
<1>2. ~(Wire!Bits2Bytes(SketchBits * n) > Wire!Bits2Bytes(SketchBits * n))
  <2>1. Wire!Bits2Bytes(SketchBits * n) \in Int
    <3>1. BchM \in Nat /\ BchT \in Nat /\ ByteBits \in Nat \ {0}
      BY SketchAssumption, ServiceAssumption
    <3>2. SketchBits * n \in Nat
      BY <1>1, <3>1 DEF SketchBits
    <3> QED BY <3>1, <3>2 DEF Wire!Bits2Bytes
  <2> QED BY <2>1
<1>3. other = [g \in 1..n |-> IF g <= n THEN sketches[g] ELSE {}]
  BY <1>1, <1>2 DEF SketchesFor
<1> QED BY <1>1, <1>3

(* The server decodes, and Bob does. *)
DecodeOutcome(c, other, dec) ==
    /\ other \in SketchesFor(server.remaining, request[c].sketches)
    /\ dec \in {decodeMessage(server, hash, other, e) :
                   e \in IF ReadsPastEnd(other) THEN Key ELSE {{}}}
    /\ server' = decode(server, hash, other)
    /\ reply'[c] = IF PushesFail(c) \/ LookupsFail(c) THEN [ok |-> FALSE]
                   ELSE [ok |-> TRUE, pushed |-> request[c].missing, dec |-> dec]

LEMMA BobDecodes ==
    ASSUME SessionInv, Alone, NEW c \in Clients, fresh[c], HandleDecode(c),
           NEW other, NEW dec, DecodeOutcome(c, other, dec), reply'[c].ok, Run!RoundInv
    PROVE  Run!RoundInv'
<1>1. PerClient /\ hash \in Hashes /\ ServerInv /\ Sound(c)
  BY DEF SessionInv, InFlight
<1>2. /\ phase[c] = "encoded" /\ phase'[c] = "answered"
      /\ UNCHANGED <<hash, client, request, initial, fresh>>
  BY <1>1 DEF HandleDecode, PerClient, Goto
<1>3. Encoded(server) /\ request[c].sketches \in Seq(SUBSET Bins)
  <2>1. Encoded(server)
    BY <1>1, <1>2 DEF ServerInv
  <2>2. request[c].sketches \in Seq(SUBSET Bins)
    BY <1>1, <1>2 DEF Sound, Objects
  <2> QED BY <2>1, <2>2
<1>4. server # NoPbs
  BY <1>3, NotObjects DEF Encoded, Aligned
<1>5. /\ RunSetA = initial[c][1] /\ RunSetB = initial[c][2] /\ RunAlice = client[c]
      /\ RunBob = server /\ RunPhase = "bobDecode" /\ RunEncoding = request[c].sketches
      /\ RunHint = HintFor(client[c], request[c].hint) /\ RunDecoding = << >>
  BY <1>2, <1>4, RunNow DEF Turn, BobOf, EncodingRead, HintTaken, DecodingRead, InRound
<1>6. Len(request[c].sketches) = server.remaining /\ server.role # "Alice"
  BY <1>5 DEF Run!RoundInv, Run!InStep, Run!Aligned, Run!Tables
<1>7. other = request[c].sketches
  BY <1>3, <1>6, SketchesArrive DEF DecodeOutcome
<1>8. /\ server' = decode(server, hash, other) /\ reply'[c].dec = dec
      /\ \E e \in IF ReadsPastEnd(other) THEN Key ELSE {{}} :
            dec = decodeMessage(server, hash, other, e)
  BY DEF DecodeOutcome
<1>9. server' # NoPbs
  <2>1. hash \in Hash
    BY <1>1, HashType
  <2>2. Answered(decode(server, hash, other))
    BY <1>3, <1>6, <1>7, <2>1, DecodingObject
  <2> QED BY <1>8, <2>2, NotObjects DEF Answered
<1>10. \A d \in Clients : fresh'[d] <=> d = c
  BY <1>2 DEF Alone
<1>11. /\ RunSetA' = RunSetA /\ RunSetB' = RunSetB /\ RunAlice' = RunAlice
       /\ RunBob' = decode(server, hash, other) /\ RunPhase' = "aliceCheck"
       /\ RunEncoding' = RunEncoding /\ RunHint' = RunHint /\ RunDecoding' = dec
  BY <1>2, <1>5, <1>8, <1>9, <1>10, RunThen
     DEF Turn, BobOf, EncodingRead, HintTaken, DecodingRead, InRound
<1>12. Run!ReadsPastEnd <=> ReadsPastEnd(other)
  BY <1>5, <1>7, SameDecode DEF Run!ReadsPastEnd, ReadsPastEnd
<1>13. Run!BobDecode
  <2>1. ~decodeThrows(server)
    BY <1>6 DEF decodeThrows
  <2>2. ~Run!decodeThrows(RunBob)
    BY <1>5, <2>1, SameDecode
  <2>3. RunBob' = Run!decode(RunBob, hash, RunEncoding)
    BY <1>5, <1>7, <1>11, SameDecode
  <2>4. \E e \in IF Run!ReadsPastEnd THEN Run!Key ELSE {{}} :
           RunDecoding' = Run!decodeMessage(RunBob, hash, RunEncoding, e)
    <3>1. PICK e \in IF ReadsPastEnd(other) THEN Key ELSE {{}} :
             dec = decodeMessage(server, hash, other, e)
      BY <1>8
    <3>2. RunDecoding' = Run!decodeMessage(RunBob, hash, RunEncoding, e)
      BY <1>5, <1>7, <1>11, <3>1, SameDecode
    <3>3. Run!Key = Key
      BY DEF Run!Key, Key
    <3> QED BY <1>12, <3>1, <3>2, <3>3
  <2>5. RunPhase = "bobDecode" /\ RunPhase' = "aliceCheck"
    BY <1>5, <1>11
  <2>6. UNCHANGED <<hash, RunSetA, RunSetB, RunAlice, RunEncoding, RunHint>>
    BY <1>2, <1>11
  <2> QED BY <2>2, <2>3, <2>4, <2>5, <2>6 DEF Run!BobDecode
<1> QED BY <1>13, RunGoesOn

LEMMA HandleDecodePlays ==
    ASSUME SessionInv, FreshInv, AgreementInv, NEW c \in Clients, HandleDecode(c)
    PROVE  AgreementInv'
<1>1. PerClient /\ hash \in Hashes /\ ServerInv /\ Sound(c)
  BY DEF SessionInv, InFlight
<1>2. /\ phase[c] = "encoded" /\ phase'[c] = "answered"
      /\ UNCHANGED <<hash, clientData, client, request, res, result, initial, fresh>>
      /\ serverData' = Inserted(serverData, request[c].pushes)
  BY <1>1 DEF HandleDecode, PerClient, Goto
<1> SUFFICES ASSUME fresh[c] PROVE Played(c)' /\ Accounted(c)'
  BY <1>2, CallPlaysOn
<1>3. Alone /\ Played(c) /\ Accounted(c)
  BY DEF AgreementInv
<1> SUFFICES ASSUME reply'[c].ok PROVE Played(c)' /\ Accounted(c)'
  BY <1>2, <1>3 DEF Played, Accounted, Ended
<1>0. PICK other \in SketchesFor(server.remaining, request[c].sketches) :
          /\ \E e \in IF ReadsPastEnd(other) THEN Key ELSE {{}} :
                Answer(c, IF PushesFail(c) \/ LookupsFail(c) THEN [ok |-> FALSE]
                          ELSE [ok |-> TRUE, pushed |-> request[c].missing,
                                dec |-> decodeMessage(server, hash, other, e)])
          /\ server' = decode(server, hash, other)
  BY DEF HandleDecode
<1>4. PICK e \in IF ReadsPastEnd(other) THEN Key ELSE {{}} :
          Answer(c, IF PushesFail(c) \/ LookupsFail(c) THEN [ok |-> FALSE]
                    ELSE [ok |-> TRUE, pushed |-> request[c].missing,
                          dec |-> decodeMessage(server, hash, other, e)])
  BY <1>0
<1> DEFINE dec == decodeMessage(server, hash, other, e)
<1>5. DecodeOutcome(c, other, dec)
  <2>1. reply'[c] = IF PushesFail(c) \/ LookupsFail(c) THEN [ok |-> FALSE]
                    ELSE [ok |-> TRUE, pushed |-> request[c].missing, dec |-> dec]
    BY <1>1, <1>4 DEF PerClient, Answer
  <2>2. server' = decode(server, hash, other)
    BY <1>0
  <2>3. dec \in {decodeMessage(server, hash, other, x) :
                    x \in IF ReadsPastEnd(other) THEN Key ELSE {{}}}
    BY <1>4
  <2> HIDE DEF dec
  <2> QED BY <1>0, <2>1, <2>2, <2>3 DEF DecodeOutcome
<1>6. Encoded(server) /\ e \in Key
  <2>1. {} \in Key
    BY DEF Key
  <2> QED BY <1>1, <1>2, <1>4, <2>1 DEF ServerInv
<1>7. other \in Seq(SUBSET Bins) /\ Len(other) = server.remaining
  <2>1. server.remaining \in Nat
    BY <1>6 DEF Encoded, Aligned, Pbs
  <2>2. request[c].sketches \in Seq(SUBSET Bins)
    BY <1>1, <1>2 DEF Sound, Objects
  <2> QED BY <1>0, <2>1, <2>2, SketchesForType
<1>8. Exact(dec) /\ Len(dec) = server.remaining
  <2>1. Exact(dec)
    BY <1>1, <1>6, <1>7, AnswerIsExact
  <2>2. Len(dec) = server.remaining
    BY <1>1, <1>6, <1>7, HashType, DecodingObject
  <2> QED BY <2>1, <2>2
<1> HIDE DEF dec
<1>9. /\ ~PushesFail(c) /\ ~LookupsFail(c)
      /\ reply'[c].dec = dec /\ reply'[c].pushed = request[c].missing
  BY <1>5 DEF DecodeOutcome
<1>10. Run!RoundInv' \/ Len(dec) = 0
  <2>1. CASE Run!RoundInv
    BY <1>3, <1>5, <2>1, BobDecodes
  <2>2. CASE server.remaining = 0
    BY <1>8, <2>2
  <2> QED BY <1>2, <1>3, <2>1, <2>2 DEF Played
<1>11. Played(c)'
  BY <1>2, <1>8, <1>9, <1>10 DEF Played, Ended
<1> DEFINE gets == request[c].missing
           gives == request[c].pushes
<1>12. /\ gets = Without(KeyList(res[c]), clientData[c])
       /\ gives = Without(KeyList(res[c]), KeysOf(gets))
       /\ clientData[c] (+) serverData = Before(c) (+) (RecoveredBy(c) (+) RowParity(res[c]))
  BY <1>2, <1>3 DEF Accounted, Missing, Pushes
<1>13. Duplicates(serverData, gives) = {} /\ serverData' = serverData \union KeysOf(gives)
  BY <1>2, <1>9, InsertedWhole DEF PushesFail
<1>14. KeysOf(gets) \subseteq serverData \union KeysOf(gives)
  BY <1>2, <1>9, <1>13 DEF LookupsFail
<1>15. ASSUME Duplicates(clientData[c], gets) = {}
       PROVE  (clientData[c] \union KeysOf(gets)) (+) serverData' = Before(c) (+) RecoveredBy(c)
  <2>1. res[c] \in Seq(SUBSET Key)
    BY <1>1, <1>2, RowsAreKeys DEF Sound, Objects, Playing
  <2>2. Brought(KeyList(res[c]), clientData[c], serverData, gets, gives)
    BY <1>12, <1>13, <1>14, <1>15 DEF Brought
  <2> HIDE DEF gets, gives
  <2> QED BY <1>12, <1>13, <2>1, <2>2, RowBrought
<1>16. Before(c)' = Before(c) /\ RecoveredBy(c)' = RecoveredBy(c)
  BY <1>2 DEF Before, RecoveredBy
<1>17. Accounted(c)'
  BY <1>2, <1>3, <1>9, <1>15, <1>16 DEF Accounted, Ended
<1> QED BY <1>11, <1>17

-------------------------------------------------------------------------------
(* The client understands what the server has decoded. *)
LEMMA AnswerUnderstoodExactly ==
    ASSUME NEW c \in Clients, ClientObject(client[c]), NEW dec \in DecodingMessage, Exact(dec),
           Len(dec) = 0 \/ (Told(c, dec) /\ Faithful(dec)), NEW parsed,
           parsed = Wire!ParseDecoding(BchM, BchT, client[c].remaining, MessageBits(dec)),
           ~Wire!CheckThrows(parsed, XorList(dec), SumList(dec))
    PROVE  Len(dec) # 0 /\ Understood(parsed, XorList(dec), SumList(dec)) = dec
<1> DEFINE n == client[c].remaining
<1>1. n \in Nat \ {0} /\ parsed = Wire!ParseDecoding(BchM, BchT, n, MessageBits(dec))
  BY DEF ClientObject, Aligned, Pbs
<1>2. Len(dec) # 0
  <2>1. SUFFICES ASSUME Len(dec) = 0 PROVE FALSE
    OBVIOUS
  <2> HIDE DEF n
  <2>2. Wire!CheckThrows(parsed, XorList(dec), SumList(dec))
    BY <1>1, <2>1, EmptyAnswerThrows
  <2> QED BY <2>2
<1>3. Faithful(dec) /\ Len(dec) = n
  BY <1>2 DEF Told
<1> HIDE DEF n
<1>4. parsed = Wire!ParseDecoding(BchM, BchT, Len(dec), MessageBits(dec))
  BY <1>1, <1>3
<1>5. Understood(parsed, XorList(dec), SumList(dec)) = dec
  BY <1>3, <1>4, AnswerReadExactly
<1> QED BY <1>2, <1>5

LEMMA ReceivePlays ==
    ASSUME SessionInv, FreshInv, AgreementInv, NEW c \in Clients, Receive(c)
    PROVE  AgreementInv'
<1>1. PerClient /\ Maps /\ Sound(c)
  BY DEF SessionInv, InFlight
<1> DEFINE dec == reply[c].dec
           parsed == Wire!ParseDecoding(BchM, BchT, client[c].remaining, MessageBits(dec))
           understood == Understood(parsed, XorList(dec), SumList(dec))
<1>2. /\ phase[c] = "answered" /\ phase'[c] = "received" /\ reply[c].ok
      /\ Duplicates(clientData[c], reply[c].pushed) = {}
      /\ clientData'[c] = Inserted(clientData[c], reply[c].pushed)
      /\ UNCHANGED <<hash, serverData, client, server, request, res, result, initial, fresh>>
  BY <1>1 DEF Receive, PerClient, Maps, Goto, Take
<1>3. reply'[c] = IF Wire!CheckThrows(parsed, XorList(dec), SumList(dec))
                  THEN [throws |-> TRUE, decoding |-> << >>]
                  ELSE [throws |-> FALSE, decoding |-> understood]
  <2>1. Answer(c, IF Wire!CheckThrows(parsed, XorList(dec), SumList(dec))
                  THEN [throws |-> TRUE, decoding |-> << >>]
                  ELSE [throws |-> FALSE, decoding |-> understood])
    BY DEF Receive
  <2> QED BY <1>1, <2>1 DEF PerClient, Answer
<1> SUFFICES ASSUME fresh[c] PROVE Played(c)' /\ Accounted(c)'
  BY <1>2, CallPlaysOn
<1>4. Alone /\ Played(c) /\ Accounted(c) /\ InStep(c)
  BY DEF AgreementInv, FreshInv, Undisturbed
<1>5. ClientObject(client[c]) /\ dec \in DecodingMessage
  BY <1>1, <1>2 DEF Sound, Objects, Playing
<1>6. /\ Exact(dec) /\ (Run!RoundInv \/ Len(dec) = 0)
      /\ Len(dec) = 0 \/ (Told(c, dec) /\ Faithful(dec))
  BY <1>2, <1>4 DEF Played, InStep
<1>7. ASSUME ~Wire!CheckThrows(parsed, XorList(dec), SumList(dec))
      PROVE  Len(dec) # 0 /\ understood = dec
  <2>1. \E x : x = parsed
    OBVIOUS
  <2>2. PICK x : x = parsed
    BY <2>1
  <2>3. x = Wire!ParseDecoding(BchM, BchT, client[c].remaining, MessageBits(dec))
    BY <2>2
  <2> HIDE DEF dec
  <2>4. Len(dec) # 0 /\ Understood(x, XorList(dec), SumList(dec)) = dec
    BY <1>5, <1>6, <1>7, <2>2, <2>3, AnswerUnderstoodExactly
  <2> QED BY <2>2, <2>4
<1> HIDE DEF dec, parsed, understood
<1>8. ASSUME ~reply'[c].throws PROVE Run!RoundInv'
  <2>1. Run!RoundInv /\ reply'[c].decoding = dec
    BY <1>3, <1>6, <1>7, <1>8
  <2>2. \A d \in Clients : fresh'[d] <=> d = c
    BY <1>2, <1>4 DEF Alone
  <2>3. UNCHANGED Run!vars
    BY <1>2, <1>4, <2>1, <2>2, RunNow, RunThen
       DEF Run!vars, Turn, BobOf, EncodingRead, HintTaken, DecodingRead, InRound, dec
  <2> QED BY <2>1, <2>3, RunGoesOn
<1>9. Played(c)'
  BY <1>2, <1>8 DEF Played, Ended
<1>10. clientData'[c] = clientData[c] \union KeysOf(reply[c].pushed)
  BY <1>2, InsertedWhole
<1>11. Before(c)' = Before(c) /\ RecoveredBy(c)' = RecoveredBy(c)
  BY <1>2 DEF Before, RecoveredBy
<1>12. Accounted(c)'
  BY <1>2, <1>4, <1>10, <1>11 DEF Accounted, Ended
<1> QED BY <1>9, <1>12

-------------------------------------------------------------------------------
(* When the run has completed, nothing is pending. *)
RunCompletes ==
    \A c \in Clients :
        /\ Alone /\ fresh[c] /\ Run!RoundInv
        /\ phase[c] = "completed" /\ client[c].remaining = 0
        => Complete(c)

LEMMA RunIsComplete == RunCompletes
<1> SUFFICES ASSUME NEW c \in Clients, Alone, fresh[c], Run!RoundInv,
                    phase[c] = "completed", client[c].remaining = 0,
                    NEW o \in GroupId
             PROVE  XorSum({k \in Before(c) (+) RecoveredBy(c) : getGroupId_(hash, k) = o}) = {}
  BY DEF RunCompletes, Complete
<1>1. /\ RunSetA = initial[c][1] /\ RunSetB = initial[c][2] /\ RunAlice = client[c]
      /\ RunPhase = "done"
  BY RunNow DEF Turn
<1>2. Run!Conserved
  BY DEF Run!RoundInv
<1>3. o \in Run!GroupId
  BY DEF Run!GroupId, GroupId
<1>4. Run!XorSum(Run!OfGroup(Run!(+)(Run!Difference, Run!RecoveredParity), o)) = {}
  BY <1>1, <1>2, <1>3, RunAssumed, SketchAssumption, Run!NothingPending
<1>5. Run!Difference = Before(c)
  BY <1>1, SameXor DEF Run!Difference, Before
<1>6. Run!RecoveredParity = RecoveredBy(c)
  <2> DEFINE s == client[c].recovered
  <2>1. Run!RecoveredParity =
           {k \in Key : IsOdd(Cardinality({x \in Cells(s) : k \in s[x[1]][x[2]]}))}
    BY <1>1 DEF Run!RecoveredParity, Cells, Run!Key, Key, Run!IsOdd, IsOdd,
                Run!Cardinality, Cardinality
  <2> HIDE DEF s
  <2>2. Run!RecoveredParity = ParityOf(s)
    BY <2>1, ParityIs
  <2> QED BY <2>2 DEF RecoveredBy, s
<1>7. \A S : Run!OfGroup(S, o) = {k \in S : getGroupId_(hash, k) = o}
  BY DEF Run!OfGroup, Run!getGroupId_, getGroupId_
<1> QED BY <1>4, <1>5, <1>6, <1>7, SameXor, SameXorSum

(* The client checks, and Alice does. *)
LEMMA CheckPlays ==
    ASSUME SessionInv, FreshInv, AgreementInv, NEW c \in Clients, Check(c)
    PROVE  AgreementInv'
<1>1. PerClient /\ Functions /\ Maps /\ Sound(c)
  BY DEF SessionInv, InFlight
<1> DEFINE p == client[c]
           dec == reply[c].decoding
           q == decodeCheck(p, hash, dec)
<1>2. /\ phase[c] = "received" /\ ~reply[c].throws
      /\ client' = [client EXCEPT ![c] = q]
      /\ res' = [res EXCEPT ![c] = client'[c].recovered[Len(client'[c].recovered)]]
      /\ Goto(c, IF decodeCheckCompletes(client'[c]) THEN "completed" ELSE "loop")
      /\ request' = [request EXCEPT ![c] = NoMessage] /\ Answer(c, NoMessage)
      /\ UNCHANGED <<hash, clientData, serverData, server, result, initial, fresh>>
  BY DEF Check
<1>3. /\ client'[c] = q /\ res'[c] = q.recovered[Len(q.recovered)]
      /\ phase'[c] = IF q.remaining = 0 THEN "completed" ELSE "loop"
  BY <1>1, <1>2 DEF Functions, PerClient, Goto, decodeCheckCompletes
<1> SUFFICES ASSUME fresh[c] PROVE Played(c)' /\ Accounted(c)'
  BY <1>2, CallPlaysOn
<1>4. Alone /\ Played(c) /\ Accounted(c) /\ Told(c, dec)
  BY <1>2 DEF AgreementInv, FreshInv, Undisturbed, InStep
<1>5. ClientObject(p) /\ dec \in DecodingMessage /\ Len(dec) = p.remaining
  BY <1>1, <1>2 DEF Sound, Objects, Playing, UnderstoodAs
<1>6. p.recovered \in Seq(Seq(SUBSET Key))
  BY <1>1, <1>2, <1>5, RowsAreKeys DEF Sound, Playing
<1>7. PICK row \in Seq(SUBSET Key) : q.recovered = Append(p.recovered, row)
  BY <1>5, CheckedObject DEF Extended
<1> HIDE DEF q
<1>8. \A d \in Clients : fresh'[d] <=> d = c
  BY <1>2, <1>4 DEF Alone
<1>9. Run!RoundInv'
  <2>1. /\ RunSetA = initial[c][1] /\ RunSetB = initial[c][2] /\ RunAlice = p
        /\ RunBob = BobOf(server, initial[c][2], hash) /\ RunPhase = "aliceCheck"
        /\ RunDecoding = dec
    BY <1>2, <1>4, RunNow DEF Turn, DecodingRead
  <2>2. /\ RunSetA' = RunSetA /\ RunSetB' = RunSetB /\ RunAlice' = q /\ RunBob' = RunBob
        /\ RunPhase' = IF q.remaining = 0 THEN "done" ELSE "aliceEncode"
        /\ RunEncoding' = << >> /\ RunHint' = << >> /\ RunDecoding' = << >>
    BY <1>2, <1>3, <1>8, <2>1, RunThen DEF Turn, EncodingRead, HintTaken, DecodingRead, InRound
  <2>3. Run!RoundInv
    BY <1>2, <1>4 DEF Played
  <2>4. ~Run!decodeCheckThrows(RunAlice)
    BY <2>3 DEF Run!RoundInv, Run!InStep, Run!Tables, Run!decodeCheckThrows
  <2>5. q = Run!decodeCheck(RunAlice, hash, RunDecoding)
    BY <2>1, SameCheck DEF q
  <2>6. Run!AliceCheck
    BY <1>2, <2>1, <2>2, <2>4, <2>5 DEF Run!AliceCheck, Run!decodeCheckCompletes
  <2> QED BY <2>3, <2>6, RunGoesOn
<1>10. phase'[c] = "completed" => Complete(c)'
  <2>1. RunCompletes'
    BY RunIsComplete, PTL
  <2>2. Alone' /\ fresh'[c]
    BY <1>2, <1>4 DEF Alone
  <2>3. phase'[c] = "completed" => client'[c].remaining = 0
    BY <1>3
  <2> QED BY <1>9, <2>1, <2>2, <2>3 DEF RunCompletes
<1>11. Played(c)'
  <2>1. server' # NoPbs
    BY <1>2, <1>4, NotObjects DEF Told, Bob
  <2> QED BY <1>3, <1>9, <1>10, <2>1 DEF Played, Ended
<1>12. res'[c] = row
  BY <1>3, <1>6, <1>7
<1>13. RecoveredBy(c)' (+) RowParity(row) = RecoveredBy(c)
  <2>1. RecoveredBy(c)' = RecoveredBy(c) (+) RowParity(row)
    BY <1>3, <1>6, <1>7, ParityGrows DEF RecoveredBy, RowParity
  <2> DEFINE r == RowParity(row)
             s == RecoveredBy(c)
  <2> HIDE DEF r, s
  <2>2. (s (+) r) (+) r = s (+) (r (+) r)
    BY XorAlgebra
  <2>3. (s (+) r) (+) r = s
    BY <2>2, XorAlgebra
  <2> QED BY <2>1, <2>3 DEF r, s
<1>14. Accounted(c)'
  <2>1. clientData[c] (+) serverData = Before(c) (+) RecoveredBy(c)
    BY <1>2, <1>4 DEF Accounted
  <2>2. Before(c)' = Before(c) /\ RowParity(res[c])' = RowParity(row)
    BY <1>2, <1>12 DEF Before
  <2>3. (clientData[c] (+) serverData)' = Before(c)' (+) (RecoveredBy(c)' (+) RowParity(res[c])')
    BY <1>2, <1>13, <2>1, <2>2
  <2>4. result'[c] = "none"
    BY <1>2, <1>4 DEF Accounted
  <2> QED BY <1>3, <1>12, <2>3, <2>4 DEF Accounted, Ended
<1> QED BY <1>11, <1>14

-------------------------------------------------------------------------------
(* The exchange of the last round. *)
LEMMA SynchronizePlays ==
    ASSUME SessionInv, FreshInv, AgreementInv, NEW c \in Clients, Synchronize(c)
    PROVE  AgreementInv'
<1>1. PerClient
  BY DEF SessionInv, InFlight
<1>2. /\ phase[c] = "completed" /\ phase'[c] = "syncCalled"
      /\ request'[c] = [pushes |-> Pushes(c), pulls |-> Missing(c)]
      /\ UNCHANGED <<hash, clientData, serverData, client, server, reply, res, result, initial, fresh>>
  BY <1>1 DEF PerClient, Synchronize, Goto
<1> SUFFICES ASSUME fresh[c] PROVE Played(c)' /\ Accounted(c)'
  BY <1>2, CallPlaysOn
<1>3. Played(c) /\ Accounted(c)
  BY DEF AgreementInv
<1>4. Played(c)'
  BY <1>2, <1>3 DEF Played, Complete, Before, RecoveredBy, Ended
<1>5. Accounted(c)'
  <2>1. Pushes(c)' = Pushes(c) /\ Missing(c)' = Missing(c)
    BY <1>2 DEF Pushes, Missing
  <2>2. Before(c)' = Before(c) /\ RecoveredBy(c)' = RecoveredBy(c)
    BY <1>2 DEF Before, RecoveredBy
  <2> QED BY <1>2, <1>3, <2>1, <2>2 DEF Accounted, Ended
<1> QED BY <1>4, <1>5

LEMMA HandleSynchronizePlays ==
    ASSUME SessionInv, FreshInv, AgreementInv, Histories, NEW c \in Clients, HandleSynchronize(c)
    PROVE  AgreementInv'
<1>1. PerClient
  BY DEF SessionInv, InFlight
<1> DEFINE gets == request[c].pulls
           gives == request[c].pushes
<1>2. /\ phase[c] = "syncCalled" /\ phase'[c] = "syncAnswered"
      /\ serverData' = serverData \union KeysOf(gives)
      /\ reply'[c] = IF KeysOf(gets) \subseteq serverData'
                     THEN [ok |-> TRUE, pushed |-> gets] ELSE [ok |-> FALSE]
      /\ synced'[c] = (Duplicates(serverData, gives) = {} /\ Duplicates(clientData[c], gets) = {})
      /\ UNCHANGED <<hash, clientData, client, server, request, res, result, initial, fresh>>
  BY <1>1 DEF PerClient, Histories, HandleSynchronize, Goto, Answer
<1> SUFFICES ASSUME fresh[c] PROVE Played(c)' /\ Accounted(c)'
  BY <1>2, CallPlaysOn
<1>3. Played(c) /\ Accounted(c)
  BY DEF AgreementInv
<1>4. Played(c)'
  BY <1>2, <1>3 DEF Played, Complete, Before, RecoveredBy, Ended
<1>5. /\ gets = Without(KeyList(res[c]), clientData[c])
      /\ gives = Without(KeyList(res[c]), KeysOf(gets)) /\ res[c] \in Seq(SUBSET Key)
      /\ clientData[c] (+) serverData = Before(c) (+) (RecoveredBy(c) (+) RowParity(res[c]))
  BY <1>2, <1>3 DEF Accounted, Missing, Pushes, Ended
<1>6. ASSUME reply'[c].ok, synced'[c]
      PROVE  /\ reply'[c].pushed = gets
             /\ (clientData[c] \union KeysOf(gets)) (+) serverData' = Before(c) (+) RecoveredBy(c)
  <2> HIDE DEF gets, gives
  <2>1. reply'[c].pushed = gets /\ KeysOf(gets) \subseteq serverData'
    BY <1>2, <1>6
  <2>2. Brought(KeyList(res[c]), clientData[c], serverData, gets, gives)
    BY <1>2, <1>5, <1>6, <2>1 DEF Brought
  <2> QED BY <1>2, <1>5, <2>1, <2>2, RowBrought
<1>7. Before(c)' = Before(c) /\ RecoveredBy(c)' = RecoveredBy(c)
  BY <1>2 DEF Before, RecoveredBy
<1> HIDE DEF gets, gives
<1>8. Accounted(c)'
  BY <1>2, <1>3, <1>5, <1>6, <1>7 DEF Accounted, Ended
<1> QED BY <1>4, <1>8

(* The returns. *)
LEMMA CompleteAgrees ==
    ASSUME NEW c, Complete(c), hash' = hash,
           clientData'[c] (+) serverData' = Before(c) (+) RecoveredBy(c)
    PROVE  Agreement(c)'
BY DEF Complete, Agreement

LEMMA ReturnsTrueAgree ==
    ASSUME SessionInv, FreshInv, AgreementInv, Histories, NEW c \in Clients,
           NothingToSynchronize(c) \/ ReceiveSynchronize(c) \/ SynchronizeFails(c)
    PROVE  AgreementInv'
<1>1. PerClient /\ Maps
  BY DEF SessionInv, InFlight
<1>2. /\ phase[c] \in Ended /\ Return(c, "true")
      /\ UNCHANGED <<hash, serverData, server, res, initial, fresh>>
  BY DEF NothingToSynchronize, ReceiveSynchronize, SynchronizeFails, Ended
<1>3. phase[c] # "idle"
  BY <1>2 DEF Ended
<1> SUFFICES ASSUME fresh[c] PROVE Agreement(c)'
  <2>1. CASE fresh[c]
    BY <1>1, <1>2, <1>3, <2>1, ReturnAgrees
  <2>2. CASE ~fresh[c]
    BY <1>2, <1>3, <2>2, CallPlaysOn
  <2> QED BY <2>1, <2>2
<1>4. Complete(c) /\ Accounted(c)
  BY <1>2 DEF AgreementInv, Played
<1>5. CASE NothingToSynchronize(c)
  <2>1. phase[c] = "completed" /\ KeyList(res[c]) = << >> /\ clientData' = clientData
    BY <1>5 DEF NothingToSynchronize
  <2>2. /\ res[c] \in Seq(SUBSET Key)
        /\ clientData[c] (+) serverData = Before(c) (+) (RecoveredBy(c) (+) RowParity(res[c]))
    BY <1>4, <2>1 DEF Accounted, Ended
  <2>3. RowParity(res[c]) = {}
    <3>1. KeysOf(KeyList(res[c])) = {} /\ NoDuplicate(KeyList(res[c]))
      BY <2>1 DEF KeysOf, NoDuplicate
    <3> QED BY <2>2, <3>1, ListIsOfRow
  <2>4. clientData[c] (+) serverData = Before(c) (+) RecoveredBy(c)
    BY <2>2, <2>3, XorAlgebra
  <2> QED BY <1>2, <1>4, <2>1, <2>4, CompleteAgrees
<1>6. CASE ReceiveSynchronize(c)
  <2>1. /\ phase[c] = "syncAnswered" /\ synced'[c] = (synced[c] /\ reply[c].ok)
        /\ reply[c].ok => clientData'[c] = clientData[c] \union KeysOf(reply[c].pushed)
    BY <1>1, <1>6 DEF ReceiveSynchronize, Histories, Maps
  <2>2. CASE reply[c].ok /\ synced[c]
    <3>1. clientData'[c] (+) serverData' = Before(c) (+) RecoveredBy(c)
      BY <1>2, <1>4, <2>1, <2>2 DEF Accounted
    <3> QED BY <1>2, <1>4, <3>1, CompleteAgrees
  <2>3. CASE ~(reply[c].ok /\ synced[c])
    BY <2>1, <2>3 DEF Agreement
  <2> QED BY <2>2, <2>3
<1>7. CASE SynchronizeFails(c)
  BY <1>7 DEF SynchronizeFails, Histories, Agreement
<1> QED BY <1>5, <1>6, <1>7

LEMMA ReturnsFalseAgree ==
    ASSUME SessionInv, FreshInv, AgreementInv, Histories, NEW c \in Clients,
           GiveUp(c) \/ CallFails(c) \/ ReceiveError(c) \/ CheckThrows(c)
    PROVE  AgreementInv'
<1>1. PerClient
  BY DEF SessionInv, InFlight
<1>2. phase[c] # "idle" /\ Return(c, "false") /\ fresh' = fresh
  BY DEF GiveUp, CallFails, ReceiveError, CheckThrows
<1>3. Agreement(c)'
  BY <1>2 DEF Return, Histories, Agreement
<1> QED BY <1>1, <1>2, <1>3, ReturnAgrees

(* A map is changed: no call has the server to itself any more. *)
LEMMA DisturbedAgree ==
    ASSUME \A c \in Clients : ~fresh'[c] PROVE AgreementInv'
BY DEF AgreementInv, Alone

LEMMA StutteringAgrees ==
    ASSUME AgreementInv, UNCHANGED vars PROVE AgreementInv'
<1>1. /\ UNCHANGED <<hash, clientData, serverData, client, server, phase, request, reply,
                     res, result, initial, fresh, synced>>
  BY DEF vars
<1>2. Lone' = Lone
  BY <1>1 DEF Lone
<1>3. UNCHANGED Run!vars
  BY <1>1, <1>2 DEF Run!vars, RunSetA, RunSetB, RunAlice, RunBob, RunPhase, RunEncoding,
                    RunHint, RunDecoding
<1>4. Run!RoundInv => Run!RoundInv'
  BY <1>3, RunGoesOn
<1>5. Alone'
  BY <1>1 DEF AgreementInv, Alone
<1>6. ASSUME NEW c \in Clients, fresh'[c] PROVE Played(c)' /\ Accounted(c)'
  <2>1. fresh[c] /\ Played(c) /\ Accounted(c)
    BY <1>1, <1>6 DEF AgreementInv
  <2>2. Before(c)' = Before(c) /\ RecoveredBy(c)' = RecoveredBy(c) /\ Lost(c)' = Lost(c)
        /\ Pushes(c)' = Pushes(c) /\ Missing(c)' = Missing(c) /\ Agreement(c)' = Agreement(c)
        /\ Complete(c)' = Complete(c)
    BY <1>1 DEF Before, RecoveredBy, Lost, Pushes, Missing, Agreement, Complete
  <2>3. Played(c)'
    BY <1>1, <1>4, <2>1, <2>2 DEF Played
  <2>4. Accounted(c)'
    BY <1>1, <2>1, <2>2 DEF Accounted
  <2> QED BY <2>3, <2>4
<1> QED BY <1>5, <1>6 DEF AgreementInv

-------------------------------------------------------------------------------
LEMMA HistoriesStep == Histories /\ [Next]_vars => Histories'
<1> SUFFICES ASSUME Histories, [Next]_vars PROVE Histories'
  OBVIOUS
<1>1. CASE UNCHANGED vars
  BY <1>1 DEF vars, Histories
<1>2. ASSUME Restart \/ \E c \in Clients : SetUp(c) \/ TearDown(c) PROVE Histories'
  BY <1>2 DEF Restart, SetUp, TearDown, Histories
<1>3. ASSUME NEW c \in Clients,
             \/ Begin(c) \/ Call(c) \/ HandleEncode(c) \/ HintCrashesServer(c)
             \/ HandleDecode(c) \/ Receive(c) \/ Check(c) \/ Synchronize(c)
             \/ HandleSynchronize(c)
      PROVE  Histories'
  BY <1>3 DEF Begin, Call, HandleEncode, HintCrashesServer, HandleDecode, Receive, Check,
              Synchronize, HandleSynchronize, Histories
<1>4. ASSUME NEW c \in Clients,
             \/ GiveUp(c) \/ CallFails(c) \/ ReceiveError(c) \/ CheckThrows(c)
             \/ NothingToSynchronize(c) \/ ReceiveSynchronize(c) \/ SynchronizeFails(c)
      PROVE  Histories'
  BY <1>4 DEF GiveUp, CallFails, ReceiveError, CheckThrows, NothingToSynchronize,
              ReceiveSynchronize, SynchronizeFails, Return, Histories
<1> QED BY <1>1, <1>2, <1>3, <1>4 DEF Next, Stopped

LEMMA AgreementStep ==
    SessionInv /\ FreshInv /\ Histories /\ AgreementInv /\ [Next]_vars => AgreementInv'
<1> SUFFICES ASSUME SessionInv, FreshInv, Histories, AgreementInv, [Next]_vars
             PROVE  AgreementInv'
  OBVIOUS
<1>1. CASE UNCHANGED vars
  BY <1>1, StutteringAgrees
<1>2. CASE Restart
  <2>1. \A c \in Clients : ~fresh[c]
    BY <1>2 DEF Restart, FreshInv, Undisturbed
  <2> QED BY <1>2, <2>1, DisturbedAgree DEF Restart
<1>3. ASSUME NEW c \in Clients, SetUp(c) \/ TearDown(c) PROVE AgreementInv'
  <2>1. \A d \in Clients : ~fresh'[d]
    BY <1>3 DEF SetUp, TearDown
  <2> QED BY <2>1, DisturbedAgree
<1>4. ASSUME NEW c \in Clients,
             \/ Begin(c) \/ Call(c) \/ HandleEncode(c) \/ HintCrashesServer(c)
             \/ HandleDecode(c)
      PROVE  AgreementInv'
  BY <1>4, BeginPlays, CallPlays, HandleEncodePlays, HintCrashesServerPlays, HandleDecodePlays
<1>5. ASSUME NEW c \in Clients,
             Receive(c) \/ Check(c) \/ Synchronize(c) \/ HandleSynchronize(c)
      PROVE  AgreementInv'
  BY <1>5, ReceivePlays, CheckPlays, SynchronizePlays, HandleSynchronizePlays
<1>6. ASSUME NEW c \in Clients,
             \/ GiveUp(c) \/ CallFails(c) \/ ReceiveError(c) \/ CheckThrows(c)
             \/ NothingToSynchronize(c) \/ ReceiveSynchronize(c) \/ SynchronizeFails(c)
      PROVE  AgreementInv'
  BY <1>6, ReturnsTrueAgree, ReturnsFalseAgree
<1> QED BY <1>1, <1>2, <1>3, <1>4, <1>5, <1>6 DEF Next, Stopped

(* If a call returns true that had the server, with no _pbs of an earlier  *)
(* call, to itself, and its last exchange has brought everything, once,    *)
(* what the maps still differ by cancels to zero under XOR in every        *)
(* original group: the call has played PbsProtocol, and what its rounds    *)
(* recovered is what has been exchanged.                                   *)
THEOREM TrueReturnsAgree == Spec => []TrueMeansAgreement
<1>1. Init => FreshInv /\ Histories /\ AgreementInv
  <2>1. Init => \A c \in Clients : ~fresh[c]
    BY DEF Init
  <2>2. Init => Histories
    BY DEF Init, Histories
  <2> QED BY <2>1, <2>2 DEF FreshInv, Undisturbed, AgreementInv, Alone
<1>2. AgreementInv => TrueMeansAgreement
  BY DEF AgreementInv, Accounted, TrueMeansAgreement, Agreement
<1> QED BY <1>1, <1>2, FreshStep, HistoriesStep, AgreementStep, ServiceInvariant, PTL DEF Spec
=============================================================================
