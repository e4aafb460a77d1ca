----------------------------- MODULE KeyExchange -----------------------------
(***************************************************************************)
(* What any reconciliation between clients and the server may do to their  *)
(* key-value maps, whatever sketch it uses: while a call of a client runs, *)
(* the client gains keys the server has handed out to it, or the server    *)
(* keys of the client, one side at a time, and nobody loses a key.  Users  *)
(* provide other maps at any moment: a client that is not in a call gets   *)
(* another map, and the server gets one, or loses it, in the middle of the *)
(* calls of others.  The server's maps are counted, so that nothing else   *)
(* can pass for such a change.  A key stands for its key-value pair.       *)
(***************************************************************************)
EXTENDS Integers

CONSTANTS Key, Clients

VARIABLES
    clientKeys,   \* the keys of each client's map
    serverKeys,   \* the keys of the server's map
    serverMaps,   \* how many maps the server has been given, or robbed of
    offered,      \* the keys the server has handed out to each client, on their way
    running       \* the clients that are in a reconciliation

vars == <<clientKeys, serverKeys, serverMaps, offered, running>>

Init ==
    /\ clientKeys = [c \in Clients |-> {}]
    /\ serverKeys = {}
    /\ serverMaps = 0
    /\ offered = [c \in Clients |-> {}]
    /\ running = {}

(* Users provide maps of their choice to clients that are not in a call,   *)
(* or to the server, or a crash takes its map and ends a call.             *)
Provide ==
    /\ clientKeys' \in [Clients -> SUBSET Key]
    /\ \A c \in running : clientKeys'[c] = clientKeys[c]
    /\ \/ UNCHANGED <<serverKeys, serverMaps>>
       \/ serverKeys' \in SUBSET Key /\ serverMaps' = serverMaps + 1
    /\ running' \subseteq running
    /\ UNCHANGED offered

Start(c) ==
    /\ running' = running \union {c}
    /\ UNCHANGED <<clientKeys, serverKeys, serverMaps, offered>>

(* Some keys of a source are added to a map, and none is lost. *)
Grows(before, after, source) ==
    before \subseteq after /\ after \subseteq before \union source

(* A client takes over keys the server has, or had when it handed them     *)
(* out, and what else was on its way to it is dropped; its call may return *)
(* with this.                                                              *)
ClientGains(c) ==
    /\ c \in running
    /\ clientKeys' = [clientKeys EXCEPT ![c] = clientKeys'[c]]
    /\ Grows(clientKeys[c], clientKeys'[c], serverKeys \union offered[c])
    /\ offered' = [offered EXCEPT ![c] = {}]
    /\ UNCHANGED <<serverKeys, serverMaps>>
    /\ running' \in {running, running \ {c}}

(* The server takes over keys of a client and hands out keys it has; the   *)
(* call may return with this.                                              *)
ServerGains(c) ==
    /\ c \in running
    /\ Grows(serverKeys, serverKeys', clientKeys[c])
    /\ offered' = [offered EXCEPT ![c] = offered'[c]]
    /\ offered'[c] \subseteq serverKeys'
    /\ UNCHANGED <<clientKeys, serverMaps>>
    /\ running' \in {running, running \ {c}}

Next == Provide \/ \E c \in Clients : Start(c) \/ ClientGains(c) \/ ServerGains(c)

Spec == Init /\ [][Next]_vars
==============================================================================
