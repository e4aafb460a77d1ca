------------------------ MODULE SketchServicesProofs ------------------------
(***************************************************************************)
(* SketchServices implements KeyExchange, for all clients, maps, hash      *)
(* functions and estimates; and what true means, for a call that has the   *)
(* server to itself.                                                       *)
(***************************************************************************)
EXTENDS SketchServices, FiniteSetTheorems, TLAPS

Maps ==
    /\ clientKeys \in [Clients -> SUBSET Key]
    /\ serverKeys \in SUBSET Key

PerClient ==
    /\ phase = [c \in Clients |-> phase[c]]
    /\ method = [c \in Clients |-> method[c]]
    /\ scaled = [c \in Clients |-> scaled[c]]
    /\ toPush = [c \in Clients |-> toPush[c]]
    /\ result = [c \in Clients |-> result[c]]
    /\ initial = [c \in Clients |-> initial[c]]
    /\ alone = [c \in Clients |-> alone[c]]
    /\ failed = [c \in Clients |-> failed[c]]

Typed == Maps /\ PerClient

(* The clients that are in a call.                                         *)
Running == {c \in Clients : phase[c] # "idle"}

NoneOffered == [c \in Clients |-> {}]

-------------------------------------------------------------------------------
(* Steps of the abstract specification.                                    *)

(* A step that ends a call or not, and in which one side gains keys.       *)
Moves(c) == \E place : phase' = [phase EXCEPT ![c] = place]

LEMMA RunningAfter ==
    ASSUME Typed, NEW c \in Clients, phase[c] # "idle", Moves(c)
    PROVE  Running' \in {Running, Running \ {c}} /\ c \in Running
BY DEF Typed, PerClient, Running, Moves

LEMMA ClientGainsImplements ==
    ASSUME Typed, NEW c \in Clients, phase[c] # "idle", Moves(c), UNCHANGED <<serverKeys, maps>>,
           NEW gained \in SUBSET serverKeys,
           clientKeys' = [clientKeys EXCEPT ![c] = @ \union gained]
    PROVE  Maps' /\ Exchange!ClientGains(c)
<1>1. Running' \in {Running, Running \ {c}} /\ c \in Running
  BY RunningAfter
<1>2. clientKeys'[c] = clientKeys[c] \union gained
  BY DEF Typed, Maps
<1>3. Exchange!Grows(clientKeys[c], clientKeys'[c], serverKeys \union NoneOffered[c])
  BY <1>2 DEF Exchange!Grows
<1>4. clientKeys' = [clientKeys EXCEPT ![c] = clientKeys'[c]]
  BY <1>2
<1>5. NoneOffered' = [NoneOffered EXCEPT ![c] = {}]
  BY DEF NoneOffered
<1>6. Exchange!ClientGains(c)
  BY <1>1, <1>3, <1>4, <1>5 DEF Exchange!ClientGains, Running, NoneOffered
<1>7. Maps'
  BY DEF Typed, Maps
<1> QED
  BY <1>6, <1>7

LEMMA MapsUnchangedImplements ==
    ASSUME Typed, NEW c \in Clients, phase[c] # "idle", Moves(c),
           UNCHANGED <<clientKeys, serverKeys, maps>>
    PROVE  Maps' /\ Exchange!ClientGains(c)
<1>1. clientKeys' = [clientKeys EXCEPT ![c] = @ \union {}] /\ {} \in SUBSET serverKeys
  BY DEF Typed, Maps
<1> QED
  BY <1>1, ClientGainsImplements

(* A map is changed: a client that is in no call gets one, or the server, *)
(* or a crash takes the server's and ends a call.                          *)
LEMMA ProvideImplements ==
    ASSUME Typed, Maps', \A c \in Running : clientKeys'[c] = clientKeys[c],
           UNCHANGED <<serverKeys, maps>> \/ maps' = maps + 1,
           Running' \subseteq Running
    PROVE  Exchange!Provide
BY DEF Maps, Exchange!Provide, Running, NoneOffered

LEMMA UserImplements ==
    ASSUME Typed, UserStep
    PROVE  Maps' /\ Exchange!Provide
<1>1. Running' = Running
  BY DEF UserStep, Provide, Restart, End, SetUp, Running
<1>2. CASE Restart
  BY <1>1, <1>2, ProvideImplements DEF Restart, Typed, Maps
<1>3. ASSUME NEW c \in Clients, Provide(c) PROVE Maps' /\ Exchange!Provide
  <2>1. PICK input \in Inputs :
           clientKeys' = [clientKeys EXCEPT ![c] = input[1][c]] /\ serverKeys' = input[2]
    BY <1>3 DEF Provide
  <2>2. input[1][c] \in SUBSET Key /\ input[2] \in SUBSET Key
    BY ServicesAssumption
  <2>3. Maps'
    BY <2>1, <2>2 DEF Typed, Maps
  <2>4. \A d \in Running : clientKeys'[d] = clientKeys[d]
    BY <1>3, <2>1 DEF Provide, Running, Typed, Maps
  <2> QED
    BY <1>1, <1>3, <2>3, <2>4, ProvideImplements DEF Provide
<1>4. ASSUME NEW c \in Clients, End(c) PROVE Maps' /\ Exchange!Provide
  <2>1. Maps' /\ UNCHANGED clientKeys
    BY <1>4 DEF End, Typed, Maps
  <2> QED
    BY <1>1, <1>4, <2>1, ProvideImplements DEF End
<1>5. ASSUME NEW c \in Clients, NEW m \in Methods, SetUp(c, m)
      PROVE  Maps' /\ Exchange!Provide
  <2>1. PICK e \in Experiments :
          LET part == e[1] \ e[2]
              servers == IF m = "Graphene" THEN part ELSE e[1]
          IN  /\ clientKeys' = [clientKeys EXCEPT ![c] = IF m = "Graphene" THEN e[1] ELSE part]
              /\ \/ serverKeys' = servers /\ maps' = maps + 1
                 \/ UNCHANGED <<serverKeys, maps>>
    BY <1>5 DEF SetUp
  <2>2. e[1] \in SUBSET Key
    BY ServicesAssumption
  <2>3. Maps'
    BY <2>1, <2>2 DEF Typed, Maps
  <2>4. \A d \in Running : clientKeys'[d] = clientKeys[d]
    BY <1>5, <2>1 DEF SetUp, Running, Typed, Maps
  <2>5. UNCHANGED <<serverKeys, maps>> \/ maps' = maps + 1
    BY <2>1
  <2> QED
    BY <1>1, <2>3, <2>4, <2>5, ProvideImplements
<1> QED
  BY <1>2, <1>3, <1>4, <1>5 DEF UserStep

(* The server crashes: its map is lost, and the call returns.              *)
LEMMA CrashImplements ==
    ASSUME Typed, NEW c \in Clients, phase[c] # "idle", ServerCrashes(c)
    PROVE  Maps' /\ Exchange!Provide
<1>1. Maps' /\ UNCHANGED clientKeys /\ maps' = maps + 1
  BY DEF ServerCrashes, Typed, Maps
<1>2. Running' \subseteq Running
  BY DEF ServerCrashes, Return, Running, Typed, PerClient
<1> QED
  BY <1>1, <1>2, ProvideImplements

LEMMA BeginImplements ==
    ASSUME Typed, NEW c \in Clients, NEW m \in Methods, NEW d, Begin(c, m, d)
    PROVE  Maps' /\ Exchange!Start(c)
<1>1. Running' = Running \union {c}
  BY DEF Begin, Typed, PerClient, Running
<1> QED
  BY <1>1 DEF Begin, Typed, Maps, Running, serverVars, NoneOffered, Exchange!Start

(* What the client takes from a reply, if the server pushes keys it has.   *)
LEMMA TakesImplements ==
    ASSUME Typed, NEW c \in Clients, phase[c] # "idle",
           NEW pushed \in SUBSET serverKeys, NEW missing, Takes(c, pushed, missing)
    PROVE  Maps' /\ Exchange!ClientGains(c)
<1>1. Moves(c) /\ UNCHANGED <<serverKeys, maps>>
  BY DEF Takes, Return, ToPush, Moves, serverVars
<1>2. \E gained \in SUBSET serverKeys : clientKeys' = [clientKeys EXCEPT ![c] = @ \union gained]
  <2>1. CASE pushed \intersect clientKeys[c] = {}
    BY <2>1 DEF Takes
  <2>2. CASE pushed \intersect clientKeys[c] # {}
    <3>1. PICK some \in SUBSET (pushed \ clientKeys[c]) :
             clientKeys' = [clientKeys EXCEPT ![c] = @ \union some]
      BY <2>2 DEF Takes
    <3> QED
      BY <3>1
  <2> QED
    BY <2>1, <2>2
<1> QED
  BY <1>1, <1>2, ClientGainsImplements

LEMMA DDigestImplements ==
    ASSUME Typed, NEW c \in Clients, DDigest(c)
    PROVE  Maps' /\ (Exchange!ClientGains(c) \/ Exchange!Provide)
<1>0. phase[c] # "idle"
  BY DEF DDigest
<1>1. CASE \/ Return(c, "crashed") /\ UNCHANGED <<serverVars, clientKeys>>
           \/ Hangs(c)
           \/ Refuses(c)
  <2>1. Moves(c) /\ UNCHANGED <<clientKeys, serverKeys, maps>>
    BY <1>1 DEF Return, Hangs, Refuses, Moves, serverVars
  <2> QED
    BY <1>0, <2>1, MapsUnchangedImplements
<1>2. ASSUME NEW pushed \in SUBSET serverKeys, NEW missing, Takes(c, pushed, missing)
      PROVE  Maps' /\ Exchange!ClientGains(c)
  BY <1>0, <1>2, TakesImplements
<1>3. CASE ServerCrashes(c)
  BY <1>0, <1>3, CrashImplements
<1> QED
  BY <1>1, <1>2, <1>3 DEF DDigest, DDigestMatched, DDigestMismatched

LEMMA PinSketchImplements ==
    ASSUME Typed, NEW c \in Clients, PinSketch(c)
    PROVE  Maps' /\ (Exchange!ClientGains(c) \/ Exchange!Provide)
<1>0. phase[c] # "idle"
  BY DEF PinSketch
<1>1. CASE ServerCrashes(c)
  BY <1>0, <1>1, CrashImplements
<1>2. ASSUME NEW E, Decoded(c, E)
      PROVE  Maps' /\ Exchange!ClientGains(c)
  BY <1>0, <1>2, TakesImplements DEF Decoded
<1> QED
  BY <1>1, <1>2 DEF PinSketch

LEMMA PushImplements ==
    ASSUME Typed, NEW c \in Clients, Push(c)
    PROVE  Maps' /\ Exchange!ServerGains(c)
<1>1. phase[c] # "idle" /\ Moves(c) /\ UNCHANGED <<clientKeys, maps>>
  BY DEF Push, Pushed, Return, Moves
<1>2. Running' \in {Running, Running \ {c}} /\ c \in Running
  BY <1>1, RunningAfter
<1>3. toPush[c] \in SUBSET clientKeys[c] /\ serverKeys' = serverKeys \union toPush[c]
  BY DEF Push, HasAll
<1>4. Maps'
  BY <1>1, <1>3 DEF Typed, Maps
<1>5. Exchange!Grows(serverKeys, serverKeys', clientKeys[c])
  BY <1>3 DEF Exchange!Grows
<1>6. NoneOffered' = [NoneOffered EXCEPT ![c] = NoneOffered'[c]] /\ NoneOffered'[c] = {}
  BY DEF NoneOffered
<1> QED
  BY <1>1, <1>2, <1>4, <1>5, <1>6 DEF Exchange!ServerGains, Running, NoneOffered

(* The other steps of a call leave the maps alone.                         *)
LEMMA OtherStepsImplement ==
    ASSUME Typed, NEW c \in Clients,
           EstimateFails(c) \/ Estimate(c) \/ CallFails(c) \/ Graphene(c) \/ PushFails(c)
    PROVE  Maps' /\ Exchange!ClientGains(c)
<1>1. Moves(c) /\ UNCHANGED <<clientKeys, serverKeys, maps>> /\ phase[c] # "idle"
  BY DEF EstimateFails, Estimate, CallFails, Graphene, PushFails, NoAnswer, Refuses, Return,
         ToPush, Pushed, Moves, serverVars
<1> QED
  BY <1>1, MapsUnchangedImplements

LEMMA PerClientStep ==
    ASSUME PerClient, [Next]_vars
    PROVE  PerClient'
<1>1. CASE UserStep
  <2>1. ASSUME NEW c \in Clients, phase' = phase, toPush' = toPush, Forgotten(c)
        PROVE  PerClient'
    BY <2>1 DEF PerClient, Forgotten
  <2>2. CASE Restart
    BY <2>2 DEF Restart, PerClient, callVars
  <2> QED
    BY <1>1, <2>1, <2>2 DEF UserStep, Provide, End, SetUp
<1>2. ASSUME NEW c \in Clients, ClientStep(c) PROVE PerClient'
  <2>1. ASSUME NEW m \in Methods, NEW d, Begin(c, m, d) PROVE PerClient'
    BY <2>1 DEF PerClient, Begin
  <2>2. CASE EstimateFails(c) \/ Estimate(c) \/ CallFails(c)
    BY <2>2 DEF PerClient, EstimateFails, Estimate, CallFails, NoAnswer, Failed, Return, callVars
  <2>3. CASE DDigest(c)
    <3>1. UNCHANGED <<scaled, method, initial, alone>>
      BY <2>3 DEF DDigest, callVars
    <3>2. CASE \/ Return(c, "crashed") /\ UNCHANGED failed
               \/ ServerCrashes(c) \/ Hangs(c) \/ Refuses(c)
      BY <3>1, <3>2 DEF PerClient, Return, ServerCrashes, Hangs, Refuses
    <3>3. ASSUME NEW pushed, NEW missing, Takes(c, pushed, missing) PROVE PerClient'
      BY <3>1, <3>3 DEF PerClient, Return, Takes, ToPush
    <3> QED
      BY <2>3, <3>2, <3>3 DEF DDigest, DDigestMatched, DDigestMismatched
  <2>4. CASE PinSketch(c)
    <3>1. UNCHANGED <<scaled, method, initial, alone>>
      BY <2>4 DEF PinSketch, callVars
    <3>2. CASE ServerCrashes(c)
      BY <3>1, <3>2 DEF PerClient, Return, ServerCrashes
    <3>3. ASSUME NEW E, Decoded(c, E) PROVE PerClient'
      BY <3>1, <3>3 DEF PerClient, Return, Decoded, Takes, ToPush
    <3> QED
      BY <2>4, <3>2, <3>3 DEF PinSketch
  <2>5. CASE Graphene(c)
    BY <2>5 DEF PerClient, Graphene, Refuses, Return, ToPush, callVars
  <2>6. CASE PushFails(c) \/ Push(c)
    BY <2>6 DEF PerClient, PushFails, Push, Pushed, Return, Failed, callVars
  <2> QED
    BY <1>2, <2>1, <2>2, <2>3, <2>4, <2>5, <2>6 DEF ClientStep
<1>3. CASE UNCHANGED vars
  BY <1>3 DEF vars, callVars, PerClient
<1> QED
  BY <1>1, <1>2, <1>3 DEF Next, Stopped

LEMMA StepImplements ==
    ASSUME Typed, [Next]_vars
    PROVE  Typed' /\ [Exchange!Next]_(Exchange!vars)
<1>1. PerClient'
  BY PerClientStep DEF Typed
<1>2. CASE UNCHANGED vars
  BY <1>1, <1>2 DEF vars, serverVars, Typed, Maps, Exchange!vars
<1>3. CASE UserStep
  BY <1>1, <1>3, UserImplements DEF Typed, Exchange!Next
<1>4. ASSUME NEW c \in Clients, ClientStep(c)
      PROVE  Maps' /\ Exchange!Next
  <2>1. ASSUME NEW m \in Methods, NEW d, Begin(c, m, d) PROVE Maps' /\ Exchange!Next
    BY <2>1, BeginImplements DEF Exchange!Next
  <2> QED
    BY <1>4, <2>1, DDigestImplements, PinSketchImplements, PushImplements, OtherStepsImplement
    DEF ClientStep, Exchange!Next
<1> QED
  BY <1>1, <1>2, <1>3, <1>4 DEF Next, Stopped, Typed

LEMMA InitTyped == Init => Typed /\ Exchange!Init
BY DEF Init, Typed, Maps, PerClient, Exchange!Init

(* Reconciliation with any of the three sketches implements the exchange   *)
(* of keys, ExchangesKeys, whatever the estimates, the failures and the    *)
(* other clients: those that call, and those that give the server another  *)
(* map, clear it or bring the server down in the middle of a call.         *)
THEOREM SketchesExchangeKeys == Spec => ExchangesKeys
<1>1. Typed /\ [Next]_vars => Typed' /\ [Exchange!Next]_(Exchange!vars)
  BY StepImplements
<1> QED
  BY <1>1, InitTyped, PTL DEF Spec, ExchangesKeys, Exchange!Spec

-------------------------------------------------------------------------------
(* What a call that has the server to itself knows.                        *)

(* The maps are those the call began with.                                 *)
Same(c) == clientKeys[c] = initial[c][1] /\ serverKeys = initial[c][2]

Distance(c) == Cardinality(initial[c][1] (+) initial[c][2])

(* What PinSketch promises of two maps.                                    *)
Agree(mine, other) == mine = other \/ Cardinality(mine (+) other) > 2 * estimated

(* After the Push that is to come, the call has done what it should.       *)
Pushing(c) ==
    /\ up
    /\ method[c] \in {"DDigest", "Graphene"} =>
          toPush[c] \subseteq clientKeys[c] /\ serverKeys \union toPush[c] = All(c)
    /\ method[c] = "DDigest" => clientKeys[c] = All(c)
    /\ method[c] = "PinSketch" =>
          /\ toPush[c] \subseteq clientKeys[c] =>
                Agree(clientKeys[c], serverKeys \union toPush[c])
          /\ toPush[c] \subseteq clientKeys[c] \/ Distance(c) > scaled[c]

(* What the properties say of a call that has returned.                    *)
Outcome(c) ==
    /\ method[c] = "DDigest" /\ result[c] = "true" =>
          clientKeys[c] = All(c) /\ serverKeys = All(c)
    /\ method[c] = "PinSketch" /\ result[c] = "true" => Agree(clientKeys[c], serverKeys)
    /\ method[c] = "Graphene" /\ result[c] = "true" /\ ~failed[c] => serverKeys = All(c)
    /\ method[c] = "PinSketch" /\ result[c] = "false" => failed[c] \/ Distance(c) > scaled[c]
    /\ method[c] = "DDigest" /\ result[c] = "false" =>
          failed[c] \/ Distance(c) > 1 \/ scaled[c] = 0
    /\ method[c] = "Graphene" /\ result[c] = "false" => failed[c] \/ Distance(c) > 1
    /\ result[c] = "crashed" => failed[c] \/ scaled[c] = 0
    /\ result[c] = "false" /\ ~up => failed[c] \/ scaled[c] = 0

(* Nobody else is in a call.                                               *)
Lone(c) == \A d \in Clients : d # c => phase[d] = "idle"

Knows(c) ==
    /\ Lone(c)
    /\ method[c] \in Methods
    /\ phase[c] = "idle" => Outcome(c)
    /\ phase[c] # "idle" => result[c] = "none"
    /\ phase[c] \in {"estimate", "reconcile"} => Same(c)
    /\ phase[c] = "reconcile" /\ method[c] # "Graphene" => scaled[c] = estimated
    /\ phase[c] = "push" => Pushing(c)

AloneKnow == \A c \in Clients : alone[c] => Knows(c)

IInv == Typed /\ AloneKnow

(* A step of one client does not concern another one that is alone.        *)
LEMMA OnlyTheLoneOne ==
    ASSUME IInv, NEW c \in Clients, phase[c] # "idle", UNCHANGED alone,
           alone[c] => Knows(c)'
    PROVE  AloneKnow'
<1>1. \A d \in Clients : alone[d] => d = c
  BY DEF IInv, AloneKnow, Knows, Lone
<1> QED
  BY <1>1 DEF AloneKnow

(* A change of map, and Begin, forget who has been alone; and a restart    *)
(* comes when a lone call has returned.                                    *)
LEMMA RestartKeeps ==
    ASSUME IInv, Restart
    PROVE  AloneKnow'
<1>1. /\ ~up /\ UNCHANGED <<serverKeys, estimated, clientKeys, phase, scaled, toPush>>
      /\ UNCHANGED <<result, failed, method, initial, alone>>
  BY DEF Restart, callVars
<1>2. ASSUME NEW c \in Clients, Knows(c) PROVE Knows(c)'
  <2>1. phase[c] # "push"
    BY <1>1, <1>2 DEF Knows, Pushing
  <2>2. Lone(c)' /\ Same(c)' = Same(c)
    BY <1>1, <1>2 DEF Knows, Lone, Same
  <2>3. phase[c] = "idle" => Outcome(c)'
    BY <1>1, <1>2 DEF Knows, Outcome, All, Distance, Agree
  <2> QED
    BY <1>1, <1>2, <2>1, <2>2, <2>3 DEF Knows
<1> QED
  BY <1>1, <1>2 DEF IInv, AloneKnow

LEMMA UserKeeps ==
    ASSUME IInv, UserStep
    PROVE  AloneKnow'
<1>1. ASSUME NEW c \in Clients,
             Provide(c) \/ End(c) \/ \E m \in Methods : SetUp(c, m)
      PROVE  AloneKnow'
  <2>1. \A d \in Clients : ~alone'[d]
    BY <1>1 DEF Provide, End, SetUp, Forgotten
  <2> QED
    BY <2>1 DEF AloneKnow
<1> QED
  BY <1>1, RestartKeeps DEF UserStep

LEMMA BeginKeeps ==
    ASSUME IInv, NEW c \in Clients, NEW m \in Methods, NEW d, Begin(c, m, d)
    PROVE  AloneKnow'
<1>1. \A e \in Clients : alone'[e] => e = c /\ Idle /\ d \in {-1, estimated}
  BY DEF Begin
<1>2. ASSUME alone'[c] PROVE Knows(c)'
  <2>1. Lone(c)'
    BY <1>1, <1>2 DEF Begin, Idle, Lone, IInv, Typed, PerClient
  <2>2. /\ method'[c] = m /\ scaled'[c] = d /\ result'[c] = "none"
        /\ phase'[c] = (IF d = -1 /\ m # "Graphene" THEN "estimate" ELSE "reconcile")
        /\ initial'[c] = <<clientKeys[c], serverKeys>>
        /\ UNCHANGED <<clientKeys, serverKeys, estimated>>
    BY DEF Begin, IInv, Typed, PerClient, serverVars
  <2>3. Same(c)'
    BY <2>2 DEF Same
  <2>4. phase'[c] = "reconcile" /\ method'[c] # "Graphene" => scaled'[c] = estimated'
    BY <1>1, <1>2, <2>2
  <2>5. phase'[c] # "idle" /\ phase'[c] # "push"
    BY <2>2
  <2> QED
    BY <2>1, <2>2, <2>3, <2>4, <2>5 DEF Knows
<1> QED
  BY <1>1, <1>2 DEF AloneKnow

(* A call that returns, or goes on to push, with what it should have.      *)
LEMMA ReturnKnows ==
    ASSUME Typed, NEW c \in Clients, Knows(c), NEW value, Return(c, value),
           UNCHANGED method, Outcome(c)'
    PROVE  Knows(c)'
BY DEF Return, Knows, Lone, Typed, PerClient

LEMMA ToPushKnows ==
    ASSUME Typed, NEW c \in Clients, Knows(c), phase[c] # "idle", NEW keys, ToPush(c, keys),
           UNCHANGED method, Pushing(c)'
    PROVE  Knows(c)'
BY DEF ToPush, Knows, Lone, Typed, PerClient

(* A call that fails on the way does not return true, unless by Graphene.  *)
LEMMA FailureKnows ==
    ASSUME Typed, NEW c \in Clients, Knows(c), NEW value \in {"false", "crashed"},
           Return(c, value), Failed(c), UNCHANGED method
    PROVE  Knows(c)'
<1>1. result'[c] = value /\ failed'[c] = TRUE
  BY DEF Return, Failed, Typed, PerClient
<1>2. Outcome(c)'
  BY <1>1 DEF Outcome
<1> QED
  BY <1>2, ReturnKnows

LEMMA EstimateKnows ==
    ASSUME Typed, NEW c \in Clients, Knows(c), EstimateFails(c) \/ Estimate(c)
    PROVE  Knows(c)'
<1>1. CASE EstimateFails(c)
  BY <1>1, FailureKnows DEF EstimateFails, NoAnswer, callVars
<1>2. CASE Estimate(c)
  <2>1. UNCHANGED <<method, initial, clientKeys, serverKeys>> /\ phase[c] = "estimate"
    BY <1>2 DEF Estimate, callVars
  <2> DEFINE d == Scaled(sketches', Tow(clientKeys[c]))
  <2>2. CASE Failed(c) /\ Return(c, "crashed")
    BY <2>1, <2>2, FailureKnows
  <2>3. CASE /\ estimated' = d /\ scaled' = [scaled EXCEPT ![c] = d]
             /\ phase' = [phase EXCEPT ![c] = "reconcile"]
             /\ UNCHANGED <<toPush, result, failed>>
    <3> HIDE DEF d
    <3> QED
      BY <2>1, <2>3 DEF Knows, Lone, Same, Typed, PerClient
  <2> QED
    BY <1>2, <2>2, <2>3 DEF Estimate, NewEstimate
<1> QED
  BY <1>1, <1>2

(* What differs between maps of keys is a finite set.                      *)
LEMMA Differences ==
    ASSUME Typed, NEW c \in Clients, Same(c)
    PROVE  /\ initial[c][1] \in SUBSET Key /\ initial[c][2] \in SUBSET Key
           /\ IsFiniteSet(initial[c][1] (+) initial[c][2])
           /\ Distance(c) \in Nat
           /\ \A S \in SUBSET (initial[c][1] (+) initial[c][2]) :
                 IsFiniteSet(S) /\ Cardinality(S) \in Nat /\ Cardinality(S) <= Distance(c)
<1>1. initial[c][1] \in SUBSET Key /\ initial[c][2] \in SUBSET Key
  BY DEF Same, Typed, Maps
<1>2. (initial[c][1] (+) initial[c][2]) \in SUBSET Key
  BY <1>1 DEF (+)
<1>3. IsFiniteSet(initial[c][1] (+) initial[c][2])
  BY <1>2, FS_Subset, ServicesAssumption
<1> QED
  BY <1>1, <1>3, FS_Subset, FS_CardinalityType DEF Distance

(* A table that cannot be listed holds several keys.                       *)
LEMMA NotListed ==
    ASSUME NEW S, Cardinality(S) \in Nat, FALSE \in Listings(S)
    PROVE  Cardinality(S) > 1
<1>1. CASE Cardinality(S) <= 1
  <2>1. Listings(S) = {TRUE}
    BY <1>1 DEF Listings
  <2> QED
    BY <2>1
<1>2. CASE ~(Cardinality(S) <= 1)
  BY <1>2
<1> QED
  BY <1>1, <1>2

(* What a call still has when its handler answers.                         *)
LEMMA StillThere ==
    ASSUME Typed, NEW c \in Clients, Knows(c), phase[c] = "reconcile", UNCHANGED callVars
    PROVE  /\ Same(c)
           /\ All(c)' = clientKeys[c] \union serverKeys
           /\ Distance(c)' = Distance(c)
           /\ Distance(c) = Cardinality(clientKeys[c] (+) serverKeys)
           /\ UNCHANGED method
BY DEF Knows, Same, All, Distance, callVars

LEMMA RefusesKnows ==
    ASSUME Typed, NEW c \in Clients, Knows(c), Refuses(c), UNCHANGED <<scaled, callVars>>,
           up, method[c] # "PinSketch", Distance(c) > 1
    PROVE  Knows(c)'
<1>1. result'[c] = "false" /\ up' /\ UNCHANGED <<method, initial>>
  BY DEF Refuses, Return, Typed, PerClient, serverVars, callVars
<1>2. Distance(c)' = Distance(c)
  BY <1>1 DEF Distance
<1>3. Outcome(c)'
  BY <1>1, <1>2 DEF Outcome
<1> QED
  BY <1>1, <1>3, ReturnKnows DEF Refuses

LEMMA DDigestKnows ==
    ASSUME Typed, NEW c \in Clients, Knows(c), DDigest(c)
    PROVE  Knows(c)'
<1>1. /\ phase[c] = "reconcile" /\ method[c] = "DDigest"
      /\ scaled[c] = estimated /\ UNCHANGED <<scaled, callVars>>
  BY DEF DDigest, Knows
<1>2. /\ Same(c) /\ UNCHANGED method
      /\ All(c)' = clientKeys[c] \union serverKeys
      /\ Distance(c)' = Distance(c)
      /\ Distance(c) = Cardinality(clientKeys[c] (+) serverKeys)
  BY <1>1, StillThere
<1>3. CASE NoCells(c)
  <2>1. Return(c, "crashed") /\ scaled'[c] = 0
    BY <1>1, <1>3 DEF DDigest, NoCells
  <2>2. result'[c] = "crashed"
    BY <2>1 DEF Return, Typed, PerClient
  <2>3. Outcome(c)'
    BY <2>1, <2>2 DEF Outcome
  <2> QED
    BY <1>2, <2>1, <2>3, ReturnKnows
<1>4. CASE ~NoCells(c) /\ estimated = 0 /\ serverKeys # {}
  <2>1. Return(c, "false") /\ scaled'[c] = 0
    BY <1>1, <1>4 DEF DDigest, ServerCrashes
  <2>2. result'[c] = "false"
    BY <2>1 DEF Return, Typed, PerClient
  <2>3. Outcome(c)'
    BY <1>1, <1>2, <2>1, <2>2 DEF Outcome
  <2> QED
    BY <1>2, <2>1, <2>3, ReturnKnows
<1>5. CASE ~NoCells(c) /\ ~(estimated = 0 /\ serverKeys # {})
  <2>1. up /\ DDigestMatched(c)
    BY <1>1, <1>5 DEF DDigest
  <2>2. CASE Takes(c, serverKeys \ clientKeys[c], clientKeys[c] \ serverKeys)
    <3>1. /\ clientKeys' = [clientKeys EXCEPT ![c] = @ \union (serverKeys \ clientKeys[c])]
          /\ IF clientKeys[c] \ serverKeys = {} THEN Return(c, "true")
             ELSE ToPush(c, clientKeys[c] \ serverKeys)
          /\ UNCHANGED serverVars
      BY <2>2 DEF Takes
    <3>2. clientKeys'[c] = clientKeys[c] \union serverKeys
      BY <3>1 DEF Typed, Maps
    <3>3. CASE clientKeys[c] \ serverKeys = {}
      <4>1. Return(c, "true") /\ result'[c] = "true" /\ serverKeys' = All(c)'
        BY <1>2, <3>1, <3>3 DEF Return, Typed, PerClient, serverVars
      <4>2. Outcome(c)'
        BY <1>1, <1>2, <3>2, <4>1 DEF Outcome
      <4> QED
        BY <1>2, <4>1, <4>2, ReturnKnows
    <3>4. CASE clientKeys[c] \ serverKeys # {}
      <4>1. /\ ToPush(c, clientKeys[c] \ serverKeys)
            /\ toPush'[c] = clientKeys[c] \ serverKeys
            /\ serverKeys' = serverKeys /\ up'
        BY <2>1, <3>1, <3>4 DEF ToPush, Typed, PerClient, serverVars
      <4>2. Pushing(c)'
        BY <1>1, <1>2, <3>2, <4>1 DEF Pushing
      <4> QED
        BY <1>1, <1>2, <4>1, <4>2, ToPushKnows
    <3> QED
      BY <3>3, <3>4
  <2>3. ASSUME FALSE \in Listings(clientKeys[c] (+) serverKeys), Refuses(c)
        PROVE  Knows(c)'
    <3>1. Distance(c) > 1
      BY <1>2, <2>3, NotListed, Differences
    <3> QED
      BY <1>1, <2>1, <2>3, <3>1, RefusesKnows
  <2> QED
    BY <2>1, <2>2, <2>3 DEF DDigestMatched, Listings
<1> QED
  BY <1>3, <1>4, <1>5

LEMMA GrapheneKnows ==
    ASSUME Typed, NEW c \in Clients, Knows(c), Graphene(c)
    PROVE  Knows(c)'
<1>1. /\ phase[c] = "reconcile" /\ method[c] = "Graphene" /\ up
      /\ UNCHANGED <<scaled, callVars>>
  BY DEF Graphene
<1>2. /\ Same(c) /\ UNCHANGED method
      /\ All(c)' = clientKeys[c] \union serverKeys
  BY <1>1, StillThere
<1>3. PICK passed \in SUBSET (clientKeys[c] \ serverKeys) :
      \E correct \in Listings(passed \union (serverKeys \ clientKeys[c])) :
         IF correct
         THEN ToPush(c, NotOnServer(c, passed)) /\ UNCHANGED <<serverVars, clientKeys, failed>>
         ELSE Refuses(c)
  BY DEF Graphene
<1>4. CASE ToPush(c, NotOnServer(c, passed)) /\ UNCHANGED <<serverVars, clientKeys, failed>>
  <2>1. NotOnServer(c, passed) = clientKeys[c] \ serverKeys
    BY DEF NotOnServer
  <2>2. /\ toPush'[c] = clientKeys[c] \ serverKeys
        /\ up' /\ UNCHANGED <<clientKeys, serverKeys>>
    BY <1>1, <1>4, <2>1 DEF ToPush, Typed, PerClient, serverVars
  <2>3. Pushing(c)'
    BY <1>1, <1>2, <2>2 DEF Pushing
  <2> QED
    BY <1>1, <1>2, <1>4, <2>3, ToPushKnows
<1>5. ASSUME FALSE \in Listings(passed \union (serverKeys \ clientKeys[c])), Refuses(c)
      PROVE  Knows(c)'
  <2>1. (passed \union (serverKeys \ clientKeys[c])) \in SUBSET (initial[c][1] (+) initial[c][2])
    BY <1>2 DEF Same, (+)
  <2> DEFINE S == passed \union (serverKeys \ clientKeys[c])
  <2>2. Distance(c) \in Nat /\ Cardinality(S) \in Nat /\ Cardinality(S) <= Distance(c)
    BY <1>2, <2>1, Differences
  <2>3. Cardinality(S) > 1
    BY <1>5, <2>2, NotListed
  <2>4. Distance(c) > 1
    <3> HIDE DEF S
    <3> QED
      BY <2>2, <2>3
  <2> QED
    BY <1>1, <1>5, <2>4, RefusesKnows
<1> QED
  BY <1>3, <1>4, <1>5 DEF Listings

(* A decoded set, right or not, leaves maps that agree when it has been    *)
(* exchanged, or is too far from the differences.                          *)
LEMMA DecodedAgree ==
    ASSUME NEW mine, NEW other, NEW E, E \intersect other \intersect mine = {},
           E \ other \subseteq mine \union (E \intersect other),
           \/ E = mine (+) other
           \/ Cardinality(E (+) (mine (+) other)) > 2 * estimated
    PROVE  Agree(mine \union (E \intersect other), other \union (E \ other))
<1> DEFINE mine2 == mine \union (E \intersect other)
           other2 == other \union (E \ other)
<1>1. CASE E = mine (+) other
  <2>1. mine2 = other2
    BY <1>1 DEF (+)
  <2> QED
    BY <2>1 DEF Agree
<1>2. CASE Cardinality(E (+) (mine (+) other)) > 2 * estimated
  <2>1. mine2 (+) other2 = E (+) (mine (+) other)
    BY DEF (+)
  <2> QED
    BY <1>2, <2>1 DEF Agree
<1> QED
  BY <1>1, <1>2

LEMMA DecodedKnows ==
    ASSUME Typed, NEW c \in Clients, Knows(c), NEW E, Decoded(c, E),
           up, phase[c] = "reconcile", method[c] = "PinSketch", scaled[c] = estimated,
           UNCHANGED <<scaled, callVars>>,
           \/ E = clientKeys[c] (+) serverKeys
           \/ Distance(c) > estimated,
           \/ E \ serverKeys \subseteq clientKeys[c] \union (E \intersect serverKeys) =>
                 Agree(clientKeys[c] \union (E \intersect serverKeys),
                       serverKeys \union (E \ serverKeys))
           \/ E \intersect serverKeys \intersect clientKeys[c] # {}
    PROVE  Knows(c)'
<1>1. /\ Same(c) /\ UNCHANGED method
      /\ Distance(c)' = Distance(c)
      /\ Distance(c) = Cardinality(clientKeys[c] (+) serverKeys)
  BY StillThere
<1>2. UNCHANGED <<serverKeys, estimated, up>>
  BY DEF Decoded, Takes, serverVars
<1> DEFINE pushed == E \intersect serverKeys
           missing == E \ serverKeys
<1>3. CASE pushed \intersect clientKeys[c] = {}
  <2>1. /\ clientKeys' = [clientKeys EXCEPT ![c] = @ \union pushed]
        /\ IF missing = {} THEN Return(c, "true") ELSE ToPush(c, missing)
    BY <1>3 DEF Decoded, Takes
  <2>2. clientKeys'[c] = clientKeys[c] \union pushed
    BY <2>1 DEF Typed, Maps
  <2>3. missing \subseteq clientKeys'[c] => Agree(clientKeys'[c], serverKeys \union missing)
    BY <1>3, <2>2
  <2>4. CASE missing = {}
    <3>1. Return(c, "true") /\ result'[c] = "true"
      BY <2>1, <2>4 DEF Return, Typed, PerClient
    <3>2. Agree(clientKeys'[c], serverKeys)
      <4>1. serverKeys \union missing = serverKeys
        BY <2>4
      <4> QED
        BY <2>3, <2>4, <4>1
    <3>3. Agree(clientKeys[c], serverKeys)'
      BY <1>2, <3>2 DEF Agree
    <3>4. Outcome(c)'
      BY <1>1, <3>1, <3>3 DEF Outcome
    <3> QED
      BY <1>1, <3>1, <3>4, ReturnKnows
  <2>5. CASE missing # {}
    <3>1. ToPush(c, missing) /\ toPush'[c] = missing
      BY <2>1, <2>5 DEF ToPush, Typed, PerClient
    <3>2. toPush'[c] \subseteq clientKeys'[c] =>
             Agree(clientKeys[c], serverKeys \union toPush[c])'
      BY <1>2, <2>3, <3>1 DEF Agree
    <3>3. toPush'[c] \subseteq clientKeys'[c] \/ Distance(c)' > scaled'[c]
      <4>1. CASE E = clientKeys[c] (+) serverKeys
        BY <2>2, <3>1, <4>1 DEF (+)
      <4>2. CASE Distance(c) > estimated
        BY <1>1, <4>2
      <4> QED
        BY <4>1, <4>2
    <3>4. Pushing(c)'
      BY <1>1, <1>2, <3>2, <3>3 DEF Pushing
    <3> QED
      BY <1>1, <3>1, <3>4, ToPushKnows
  <2> QED
    BY <2>4, <2>5
<1>4. CASE pushed \intersect clientKeys[c] # {}
  <2>1. Return(c, "false") /\ result'[c] = "false"
    BY <1>4 DEF Decoded, Takes, Return, Typed, PerClient
  <2>2. Distance(c)' > scaled'[c]
    <3>1. E # clientKeys[c] (+) serverKeys
      BY <1>4 DEF (+)
    <3> QED
      BY <1>1, <3>1
  <2>3. Outcome(c)'
    BY <1>1, <1>2, <2>1, <2>2 DEF Outcome
  <2> QED
    BY <1>1, <2>1, <2>3, ReturnKnows
<1> QED
  BY <1>3, <1>4

LEMMA PinSketchKnows ==
    ASSUME Typed, NEW c \in Clients, Knows(c), PinSketch(c)
    PROVE  Knows(c)'
<1>1. /\ phase[c] = "reconcile" /\ method[c] = "PinSketch" /\ up
      /\ scaled[c] = estimated /\ UNCHANGED <<scaled, callVars>>
  BY DEF PinSketch, Knows
<1> DEFINE D == clientKeys[c] (+) serverKeys
<1>2. Same(c) /\ Distance(c) = Cardinality(D)
  BY <1>1, StillThere
<1>3. PICK E \in Decodings(D, estimated) : Decoded(c, E)
  BY <1>1 DEF PinSketch
<1>4. CASE E = D
  <2>1. Agree(clientKeys[c] \union (E \intersect serverKeys), serverKeys \union (E \ serverKeys))
    <3>1. E \intersect serverKeys \intersect clientKeys[c] = {}
      BY <1>4 DEF (+)
    <3>2. E \ serverKeys \subseteq clientKeys[c] \union (E \intersect serverKeys)
      BY <1>4 DEF (+)
    <3> QED
      BY <1>4, <3>1, <3>2, DecodedAgree
  <2> QED
    BY <1>1, <1>3, <1>4, <2>1, DecodedKnows
<1>5. CASE Cardinality(D) > estimated /\ E = Zeros(estimated)
  <2>1. CASE estimated = 0
    <3>1. E = {} /\ Cardinality(D) > 2 * estimated
      BY <1>5, <2>1 DEF Zeros
    <3>2. Agree(clientKeys[c], serverKeys)
      BY <3>1 DEF Agree
    <3>3. Agree(clientKeys[c] \union (E \intersect serverKeys),
                serverKeys \union (E \ serverKeys))
      <4>1. /\ clientKeys[c] \union (E \intersect serverKeys) = clientKeys[c]
            /\ serverKeys \union (E \ serverKeys) = serverKeys
        BY <3>1
      <4> QED
        BY <3>2, <4>1
    <3> QED
      BY <1>1, <1>2, <1>3, <1>5, <3>3, DecodedKnows
  <2>2. CASE estimated # 0
    <3>1. E = {0} /\ 0 \notin clientKeys[c] /\ 0 \notin serverKeys
      BY <1>5, <2>2, ServicesAssumption DEF Zeros, Typed, Maps
    <3>2. ~(E \ serverKeys \subseteq clientKeys[c] \union (E \intersect serverKeys))
      BY <3>1
    <3> QED
      BY <1>1, <1>2, <1>3, <1>5, <3>2, DecodedKnows
  <2> QED
    BY <2>1, <2>2
<1>6. CASE Cardinality(D) > estimated /\ Cardinality(E (+) D) > 2 * estimated
  <2>1. \/ E \ serverKeys \subseteq clientKeys[c] \union (E \intersect serverKeys) =>
              Agree(clientKeys[c] \union (E \intersect serverKeys),
                    serverKeys \union (E \ serverKeys))
        \/ E \intersect serverKeys \intersect clientKeys[c] # {}
    BY <1>6, DecodedAgree
  <2> QED
    BY <1>1, <1>2, <1>3, <1>6, <2>1, DecodedKnows
<1> QED
  BY <1>3, <1>4, <1>5, <1>6 DEF Decodings

LEMMA PushKnows ==
    ASSUME Typed, NEW c \in Clients, Knows(c), PushFails(c) \/ Push(c)
    PROVE  Knows(c)'
<1>1. /\ phase[c] = "push" /\ Pushing(c) /\ method[c] \in Methods
      /\ UNCHANGED <<clientKeys, up, estimated, scaled, method, initial>>
  BY DEF Push, PushFails, Knows, serverVars, callVars
<1>2. All(c)' = All(c) /\ Distance(c)' = Distance(c)
  BY <1>1 DEF All, Distance
<1>3. ASSUME Pushed(c, FALSE), Failed(c) PROVE Knows(c)'
  <2>1. CASE method[c] = "Graphene"
    <3>1. Return(c, "true") /\ result'[c] = "true" /\ failed'[c] = TRUE
      BY <1>3, <2>1 DEF Pushed, Return, Failed, Typed, PerClient
    <3>2. Outcome(c)'
      BY <1>1, <2>1, <3>1 DEF Outcome
    <3> QED
      BY <1>1, <3>1, <3>2, ReturnKnows
  <2>2. CASE method[c] # "Graphene"
    <3>1. Return(c, "false")
      BY <1>3, <2>2 DEF Pushed
    <3> QED
      BY <1>1, <1>3, <3>1, FailureKnows
  <2> QED
    BY <2>1, <2>2
<1>4. ASSUME Pushed(c, FALSE), ~HasAll(c) PROVE Knows(c)'
  <2>1. method[c] = "PinSketch" /\ Distance(c) > scaled[c]
    BY <1>1, <1>4 DEF Pushing, HasAll, Methods
  <2>2. Return(c, "false") /\ result'[c] = "false"
    BY <1>4, <2>1 DEF Pushed, Return, Typed, PerClient
  <2>3. up'
    BY <1>1 DEF Pushing
  <2>4. Outcome(c)'
    BY <1>1, <1>2, <2>1, <2>2, <2>3 DEF Outcome
  <2> QED
    BY <1>1, <2>2, <2>4, ReturnKnows
<1>5. ASSUME Push(c), Pushed(c, TRUE) PROVE Knows(c)'
  <2>1. /\ Return(c, "true") /\ result'[c] = "true"
        /\ toPush[c] \subseteq clientKeys[c]
        /\ serverKeys' = serverKeys \union toPush[c]
    BY <1>5 DEF Push, HasAll, Pushed, Return, Typed, PerClient
  <2>2. method[c] \in {"DDigest", "Graphene"} => serverKeys' = All(c)'
    BY <1>1, <1>2, <2>1 DEF Pushing
  <2>3. method[c] = "DDigest" => clientKeys'[c] = All(c)'
    BY <1>1, <1>2 DEF Pushing
  <2>4. method[c] = "PinSketch" => Agree(clientKeys[c], serverKeys)'
    BY <1>1, <2>1 DEF Pushing, Agree
  <2>5. Outcome(c)'
    BY <1>1, <2>1, <2>2, <2>3, <2>4 DEF Outcome
  <2> QED
    BY <1>1, <2>1, <2>5, ReturnKnows
<1> QED
  BY <1>3, <1>4, <1>5 DEF Push, PushFails

LEMMA ClientStepKnows ==
    ASSUME IInv, NEW c \in Clients,
           \/ EstimateFails(c) \/ Estimate(c) \/ CallFails(c)
           \/ DDigest(c) \/ PinSketch(c) \/ Graphene(c)
           \/ PushFails(c) \/ Push(c)
    PROVE  AloneKnow'
<1>1. phase[c] # "idle" /\ UNCHANGED alone
  BY DEF EstimateFails, Estimate, CallFails, DDigest, PinSketch, Graphene, PushFails, Push,
         callVars
<1>2. ASSUME alone[c] PROVE Knows(c)'
  <2>1. Typed /\ Knows(c)
    BY <1>2 DEF IInv, AloneKnow
  <2>2. CASE CallFails(c)
    BY <2>1, <2>2, FailureKnows DEF CallFails, NoAnswer, callVars
  <2> QED
    BY <2>1, <2>2, EstimateKnows, DDigestKnows, PinSketchKnows, GrapheneKnows, PushKnows
<1> QED
  BY <1>1, <1>2, OnlyTheLoneOne

LEMMA UnchangedKnows ==
    ASSUME AloneKnow, UNCHANGED vars
    PROVE  AloneKnow'
<1>1. /\ UNCHANGED <<serverKeys, estimated, up, clientKeys, phase, scaled, toPush, result, failed>>
      /\ UNCHANGED <<method, initial, alone>>
  BY DEF vars, serverVars, callVars
<1>2. ASSUME NEW c \in Clients, Knows(c) PROVE Knows(c)'
  <2>1. Lone(c)' /\ Outcome(c)' = Outcome(c)
    BY <1>1, <1>2 DEF Knows, Lone, Outcome, All, Distance, Agree
  <2>2. Same(c)' = Same(c) /\ Pushing(c)' = Pushing(c)
    BY <1>1 DEF Same, Pushing, All, Distance, Agree
  <2> QED
    BY <1>1, <1>2, <2>1, <2>2 DEF Knows
<1> QED
  BY <1>1, <1>2 DEF AloneKnow

LEMMA StepKeeps ==
    ASSUME IInv, [Next]_vars
    PROVE  IInv'
<1>1. Typed'
  BY StepImplements DEF IInv
<1>2. ASSUME UserStep PROVE AloneKnow'
  BY <1>2, UserKeeps
<1>3. ASSUME NEW c \in Clients, ClientStep(c) PROVE AloneKnow'
  <2>1. ASSUME NEW m \in Methods, NEW d, Begin(c, m, d) PROVE AloneKnow'
    BY <2>1, BeginKeeps
  <2> QED
    BY <1>3, <2>1, ClientStepKnows DEF ClientStep
<1>4. ASSUME UNCHANGED vars PROVE AloneKnow'
  BY <1>4, UnchangedKnows DEF IInv
<1> QED
  BY <1>1, <1>2, <1>3, <1>4 DEF IInv, Next, Stopped

LEMMA InitKnows == Init => IInv
<1>1. Init => AloneKnow
  BY DEF Init, AloneKnow
<1> QED
  BY <1>1, InitTyped DEF IInv

LEMMA Invariance == Spec => []IInv
BY InitKnows, StepKeeps, PTL DEF Spec

(* A call that has returned what a property asks about.                    *)
LEMMA ReturnedOutcome ==
    ASSUME IInv, NEW c \in Clients, alone[c], result[c] \in {"true", "false", "crashed"}
    PROVE  Outcome(c)
BY DEF IInv, AloneKnow, Knows

(* True from DDigest means that both sides have all keys.                  *)
THEOREM DDigestAll == Spec => []DDigestTrueMeansAll
<1>1. IInv => DDigestTrueMeansAll
  BY ReturnedOutcome DEF DDigestTrueMeansAll, Returned, Outcome
<1> QED
  BY <1>1, Invariance, PTL

(* True from PinSketch means that the maps agree, or are too far apart for *)
(* the sketches to tell.                                                   *)
THEOREM PinSketchAgrees == Spec => []PinSketchTrueMeansAgreement
<1>1. IInv => PinSketchTrueMeansAgreement
  BY ReturnedOutcome DEF PinSketchTrueMeansAgreement, Returned, Outcome, Agree
<1> QED
  BY <1>1, Invariance, PTL

(* True from Graphene, if no call has failed, means that the server has    *)
(* all keys, whatever has passed the filter by mistake.                    *)
THEOREM GraphenePushes == Spec => []GrapheneTrueMeansPushed
<1>1. IInv => GrapheneTrueMeansPushed
  BY ReturnedOutcome DEF GrapheneTrueMeansPushed, Returned, Outcome
<1> QED
  BY <1>1, Invariance, PTL

(* What is within the capacity of the sketch is reconciled.                *)
THEOREM SmallReconciled == Spec => []SmallDifferencesReconciled
<1>1. IInv => SmallDifferencesReconciled
  BY ReturnedOutcome DEF SmallDifferencesReconciled, Returned, Outcome, Distance
<1> QED
  BY <1>1, Invariance, PTL

(* Only an estimate of 0, or one that has not come, crashes either side.   *)
THEOREM ZeroCrashes == Spec => []OnlyZeroCrashes
<1>1. IInv => OnlyZeroCrashes
  BY ReturnedOutcome DEF OnlyZeroCrashes, Outcome
<1> QED
  BY <1>1, Invariance, PTL
=============================================================================
