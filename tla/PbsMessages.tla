----------------------------- MODULE PbsMessages -----------------------------
(***************************************************************************)
(* Every message of PBS that the other modules say can be sent, written    *)
(* once and parsed once, in the formats of PbsWire.                        *)
(***************************************************************************)
EXTENDS PbsWire

CONSTANTS
    Codes,       \* pairs <<m, t>>: field size and capacity of the BCH code
    MaxGroups,   \* most groups of a message
    MaxRange     \* largest hint_max_range_

ASSUME MessagesAssumption ==
    /\ Codes \subseteq (Nat \ {0}) \X (Nat \ {0})
    /\ MaxGroups \in Nat \ {0}
    /\ MaxRange \in Nat \ {0}

VARIABLES
    message,    \* the message and the lists that go with it
    buffer,     \* what is sent
    received    \* what the receiver makes of it

vars == <<message, buffer, received>>

-------------------------------------------------------------------------------
(* The messages.  The ids of a hint are increasing (HintReadable, in       *)
(* PbsProtocol): of the numbers below n.  The positions of a decoded group *)
(* differ from one another and come in any order.                          *)
IncreasingSeqs(n) ==
    LET Below[k \in 0..n] ==
            IF k = 0 THEN {<< >>}
            ELSE Below[k - 1] \union {Append(s, k - 1) : s \in Below[k - 1]}
    IN  Below[n]

Hints ==
    UNION {{[kind |-> "hint", range |-> r, ids |-> s] :
                s \in IncreasingSeqs(r) \ {<< >>}} : r \in 1..MaxRange}

Outcomes(m, t) ==
    {Failed} \union {s \in BoundedSeq(1..(2^m - 1), t) : IsInjective(s)}

Decodings ==
    UNION {{[kind |-> "decoding", code |-> c, groups |-> s] :
                s \in BoundedSeq(Outcomes(c[1], c[2]), MaxGroups) \ {<< >>}} : c \in Codes}

Encodings ==
    UNION {{[kind |-> "encoding", code |-> c, sketches |-> s] :
                s \in BoundedSeq([1..(c[1] * c[2]) -> {0, 1}], MaxGroups) \ {<< >>}} : c \in Codes}

Nothing == [kind |-> "nothing"]

Init ==
    /\ message \in Hints \union Decodings \union Encodings
    /\ buffer = Nothing
    /\ received = Nothing

WriteMessage ==
    /\ buffer = Nothing
    /\ buffer' = [kind |-> "bits", bits |->
          CASE message.kind = "hint"     -> WriteHint(message.range, message.ids)
            [] message.kind = "decoding" ->
                  WriteDecoding(message.code[1], message.code[2], message.groups)
            [] message.kind = "encoding" ->
                  WriteEncoding(message.code[1], message.code[2], message.sketches)]
    /\ UNCHANGED <<message, received>>

ReceiveHint ==
    /\ message.kind = "hint" /\ buffer # Nothing /\ received = Nothing
    /\ received' = [kind |-> "hint", got |-> ParseHint(message.range, buffer.bits)]
    /\ UNCHANGED <<message, buffer>>

(* Alice parses the decoding message and walks along the lists.            *)
ReceiveDecoding ==
    /\ message.kind = "decoding" /\ buffer # Nothing /\ received = Nothing
    /\ LET dec == ParseDecoding(message.code[1], message.code[2],
                                Len(message.groups), buffer.bits)
           xors == Xors(message.groups)
           sums == Checksums(message.groups)
       IN  received' = [kind |-> "decoding", threw |-> CheckThrows(dec, xors, sums),
                        got |-> IF CheckThrows(dec, xors, sums) THEN << >>
                                ELSE GroupsChecked(dec, xors, sums)]
    /\ UNCHANGED <<message, buffer>>

ReceiveEncoding ==
    /\ message.kind = "encoding" /\ buffer # Nothing /\ received = Nothing
    /\ received' = [kind |-> "encoding",
                    got |-> ParseEncoding(message.code[1], message.code[2],
                                          Len(message.sketches), buffer.bits)]
    /\ UNCHANGED <<message, buffer>>

Next == WriteMessage \/ ReceiveHint \/ ReceiveDecoding \/ ReceiveEncoding

Spec == Init /\ [][Next]_vars

-------------------------------------------------------------------------------
(* Bob understands the hint of Alice, if there was more than one group:    *)
(* the ids are read back, and the padding is not taken for a group.  With  *)
(* one group the id takes no bits, the hint is empty, and Bob takes it to  *)
(* name no group.                                                          *)
HintArrives ==
    received.kind = "hint" =>
        received.got = [threw |-> FALSE,
                        ids |-> IF message.range = 1 THEN << >> ELSE message.ids]

(* The hint as its comment has it: "we shift gid by 1 so whenever we       *)
(* encounter a zero, it means termination".  Then every hint would arrive. *)
EveryHintArrives ==
    received.kind = "hint" => received.got = [threw |-> FALSE, ids |-> message.ids]

(* Alice checks every group with the positions, the XORs and the checksum  *)
(* that Bob had for this group, whichever of the groups before it failed;  *)
(* no count is taken for the failure flag, nor the flag for a count.       *)
DecodingArrives ==
    received.kind = "decoding" =>
        /\ ~received.threw
        /\ received.got = [g \in 1..Len(message.groups) |->
              IF message.groups[g] = Failed THEN Skipped
              ELSE [positions |-> message.groups[g],
                    xors |-> [k \in 1..Len(message.groups[g]) |-> <<g, message.groups[g][k]>>],
                    checksum |-> g]]

(* Bob gets the sketches of Alice, whether or not a sketch is a whole      *)
(* number of bytes.                                                        *)
EncodingArrives ==
    received.kind = "encoding" => received.got = message.sketches
===============================================================================
