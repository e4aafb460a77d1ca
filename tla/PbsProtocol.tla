----------------------------- MODULE PbsProtocol -----------------------------
(***************************************************************************)
(* Two ParityBitmapSketch objects, Alice and Bob, reconcile the sets setA  *)
(* and setB: the loop every user of the class runs, in one process in      *)
(* src/test/test_pbs.cpp and split over an RPC in                          *)
(* src/src/reconciliation_client.h and reconciliation_server.h.  Messages  *)
(* are handed over as objects; their wire format is in PbsMessages.        *)
(*                                                                         *)
(* One action per call on an object.  The hash functions are arbitrary but *)
(* fixed, chosen in the initial state.                                     *)
(***************************************************************************)
EXTENDS ParityBitmapSketch

CONSTANTS
    Inputs,   \* the pairs of sets <<setA, setB>> to reconcile
    Hashes    \* the hash functions

ASSUME ProtocolAssumption ==
    /\ Inputs \subseteq (SUBSET Key) \X (SUBSET Key)
    /\ \A h \in Hashes : IsHash(h)

VARIABLES
    hash,         \* the hash functions of this run
    setA, setB,   \* what Alice and Bob started with
    alice, bob,   \* the two objects
    phase,        \* whose turn it is
    encoding,     \* Alice's encoding message: a sketch per group
    hint,         \* and the hint that goes with it
    decoding      \* Bob's decoding message, with XORs and checksums

vars == <<hash, setA, setB, alice, bob, phase, encoding, hint, decoding>>

Phase == {"aliceEncode", "bobEncode", "bobDecode", "aliceCheck", "done", "aborted"}

Init ==
    /\ hash \in Hashes
    /\ \E input \in Inputs : setA = input[1] /\ setB = input[2]
    /\ alice = Construct(setA, hash)
    /\ bob = Construct(setB, hash)
    /\ phase = "aliceEncode"
    /\ encoding = << >>
    /\ hint = << >>
    /\ decoding = << >>

(* Alice encodes her remaining groups.  The loop of the client gives up    *)
(* after PBS_MAX_ROUNDS rounds.                                            *)
AliceEncode ==
    /\ phase = "aliceEncode"
    /\ alice.round < MaxRounds
    /\ alice' = encode(alice, hash)
    /\ IF encodeThrows(alice)
       THEN phase' = "aborted" /\ UNCHANGED <<encoding, hint>>
       ELSE /\ phase' = "bobEncode"
            /\ encoding' = alice'.sketches
            /\ hint' = alice.exceptions
    /\ UNCHANGED <<hash, setA, setB, bob, decoding>>

(* Bob encodes his groups: plainly in the first round, following the hint  *)
(* (an absent one names no group) in the later ones.                       *)
BobEncode ==
    /\ phase = "bobEncode"
    /\ bob.role = "Undetermined"
    /\ bob' = encode(bob, hash)
    /\ phase' = "bobDecode"
    /\ UNCHANGED <<hash, setA, setB, alice, encoding, hint, decoding>>

BobEncodeWithHint ==
    /\ phase = "bobEncode"
    /\ bob.role # "Undetermined"
    /\ IF encodeWithHintThrows(bob, hint)
       THEN phase' = "aborted" /\ UNCHANGED bob
       ELSE phase' = "bobDecode" /\ bob' = encodeWithHint(bob, hash, hint)
    /\ UNCHANGED <<hash, setA, setB, alice, encoding, hint, decoding>>

(* Bob decodes the difference of the bitmaps of every group.  What he      *)
(* reads past the end of his XORs is arbitrary; but if a group has been    *)
(* split, the vector has grown behind the last group of the round.         *)
ReadsPastEnd ==
    /\ bob.remaining > 0
    /\ FailedIds(bob, hash, encoding) = << >>
    /\ BchN \in DecodeOf(bob, hash, encoding, bob.remaining).at

BobDecode ==
    /\ phase = "bobDecode"
    /\ ~decodeThrows(bob)
    /\ \E pastEnd \in IF ReadsPastEnd THEN Key ELSE {{}} :
          decoding' = decodeMessage(bob, hash, encoding, pastEnd)
    /\ bob' = decode(bob, hash, encoding)
    /\ phase' = "aliceCheck"
    /\ UNCHANGED <<hash, setA, setB, alice, encoding, hint>>

(* Alice recovers what she can and sees whether a group is left.  The       *)
(* messages of a round end with it.                                        *)
AliceCheck ==
    /\ phase = "aliceCheck"
    /\ ~decodeCheckThrows(alice)
    /\ alice' = decodeCheck(alice, hash, decoding)
    /\ phase' = IF decodeCheckCompletes(alice') THEN "done" ELSE "aliceEncode"
    /\ encoding' = << >> /\ hint' = << >> /\ decoding' = << >>
    /\ UNCHANGED <<hash, setA, setB, bob>>

(* The loop has ended. *)
Stopped ==
    /\ \/ phase \in {"done", "aborted"}
       \/ phase = "aliceEncode" /\ alice.round = MaxRounds
    /\ UNCHANGED vars

Next ==
    \/ AliceEncode
    \/ BobEncode
    \/ BobEncodeWithHint
    \/ BobDecode
    \/ AliceCheck
    \/ Stopped

Spec == Init /\ [][Next]_vars

-------------------------------------------------------------------------------
(* Types of the variables. *)
TypeOK ==
    /\ hash \in Hashes
    /\ setA \in SUBSET Key
    /\ setB \in SUBSET Key
    /\ alice \in Pbs
    /\ bob \in Pbs
    /\ phase \in Phase
    /\ encoding \in Seq(SUBSET Bins)
    /\ hint \in Seq(Nat)
    /\ decoding \in DecodingMessage

(* When Bob decodes, the two group tables correspond position by position: *)
(* Alice's sketch g and Bob's sketch g are of the same part of the same    *)
(* original group, and both were made in the same round, that is, with the *)
(* same hash function.  Nothing in the messages names a group: the two     *)
(* sides rely on having split and moved groups in the same order ("to make *)
(* sure groups of Alice and Bob will have the same order", pbs.h).         *)
Aligned ==
    phase = "bobDecode" =>
        /\ Len(encoding) = bob.remaining
        /\ alice.remaining = bob.remaining
        /\ alice.origin = bob.origin
        /\ alice.round = bob.round

(* A key both sides have and that was never recovered sits at the same     *)
(* position of both group tables, or at none, so that it cancels.          *)
EverRecovered(p) ==
    UNION {UNION {p.recovered[r][g] : g \in 1..Len(p.recovered[r])} :
               r \in 1..Len(p.recovered)}

CommonKeysCancel ==
    phase = "bobDecode" =>
        \A k \in (setA \intersect setB) \ EverRecovered(alice) :
            {g \in 1..alice.remaining : k \in alice.groups[g]} =
            {g \in 1..bob.remaining : k \in bob.groups[g]}

(* A piece of an original group holds only keys of that group, on both     *)
(* sides and whatever was split, recovered and inserted since: otherwise   *)
(* doDecodeCheck_ would refuse a true difference for its group id.         *)
PiecesOfOriginalGroup == InOriginalGroup(alice, hash) /\ InOriginalGroup(bob, hash)

(* What Bob decodes with, and what Alice will check with, is exactly the   *)
(* XOR of the keys the group holds in this round: rows and checksums are   *)
(* never cleared, so this needs every group to be encoded once, in a row   *)
(* that was fresh.                                                         *)
FreshlyEncoded(p) ==
    \A g \in 1..p.remaining :
        /\ p.checksums[g] = XorSum(p.groups[g])
        /\ \A b \in Bins : p.xors[g][b] = XorSum(KeysInBin(p, hash, g, b))

AccumulatorsFresh ==
    phase = "bobDecode" => FreshlyEncoded(alice) /\ FreshlyEncoded(bob)

(* No call throws: the hint Alice builds names groups Bob has, and the     *)
(* groups he keeps are exactly the ones she expects.                       *)
NeverAborts == phase # "aborted"

(* The ids of a hint are increasing and within the range both sides agree  *)
(* on before the hint is read: PbsEncodingHintMessage relies on both.      *)
HintReadable ==
    phase = "bobEncode" =>
        /\ \A i, j \in 1..Len(hint) : i < j => hint[i] < hint[j]
        /\ \A i \in 1..Len(hint) : hint[i] \in 1..bob.hintRange

(* When Alice is done, both sides have counted the same rounds (the        *)
(* EXPECT_EQ of every test in test_pbs.cpp) and no group of Bob waits for  *)
(* her.                                                                    *)
CompletesTogether ==
    phase = "done" =>
        /\ alice.round = bob.round
        /\ bob.failed = << >>
        /\ Len(bob.groups) = bob.remaining

-------------------------------------------------------------------------------
(* The inductive invariant behind the ones above.  At any moment one side  *)
(* is ahead of the other by the calls of a round already made; each phase  *)
(* says what the other side's table will be once it has made its own.      *)
Tables ==
    /\ Parallel(alice) /\ Parallel(bob)
    /\ Len(alice.groups) = alice.remaining
    /\ alice.role # "Bob" /\ bob.role # "Alice"
    /\ PiecesOfOriginalGroup

(* No message has been decoded yet: the tables are those of the            *)
(* constructors.                                                           *)
FirstRound ==
    phase \in {"aliceEncode", "bobEncode"} /\ bob.role = "Undetermined" =>
        /\ alice.role = "Undetermined"
        /\ alice.origin = bob.origin
        /\ alice.remaining = bob.remaining
        /\ alice.round = bob.round
        /\ Len(bob.groups) = bob.remaining
        /\ bob.hintRange = bob.remaining
        /\ bob.failed = << >> /\ alice.exceptions = << >> /\ hint = << >>

(* Alice has checked and Bob has not heard of her exceptions.              *)
Exceptions == IF phase = "aliceEncode" THEN alice.exceptions ELSE hint

BobBehind ==
    phase \in {"aliceEncode", "bobEncode"} /\ bob.role = "Bob" =>
        /\ IdList(Exceptions, bob.remaining)
        /\ bob.hintRange = bob.remaining
        /\ phase = "aliceEncode" => alice.hintRange = bob.remaining
        /\ alice.round = bob.round
        /\ Len(bob.groups) = bob.remaining + PieceCount(bob.failed)
        /\ alice.remaining = PieceCount(bob.failed) + Len(Exceptions)
        /\ alice.origin = AfterMoves(bob.origin, Exceptions, bob.remaining)

BothEncoded ==
    /\ phase = "bobEncode" => Len(encoding) = alice.remaining
    /\ phase = "bobDecode" =>
          /\ Len(bob.groups) = bob.remaining
          /\ Len(bob.sketches) = bob.remaining
          /\ bob.failed = << >>

(* Bob has split what could not be decoded and Alice has not.              *)
AliceBehind ==
    phase = "aliceCheck" =>
        /\ bob.role = "Bob"
        /\ bob.round = alice.round + 1
        /\ bob.remaining = alice.remaining
        /\ bob.hintRange = bob.remaining
        /\ Len(decoding) = alice.remaining
        /\ bob.failed = FailedGroups(alice.remaining, decoding)
        /\ bob.origin = alice.origin \o PieceOrigins(alice, bob.failed)
        /\ Len(bob.groups) = bob.remaining + PieceCount(bob.failed)

InStep == /\ TypeOK /\ Tables /\ FirstRound /\ BobBehind /\ BothEncoded
          /\ Aligned /\ AliceBehind /\ CompletesTogether /\ NeverAborts

-------------------------------------------------------------------------------
(* What is being reconciled, what was recovered (a key recovered twice     *)
(* cancels: the tests count it as not recovered), and what the groups of   *)
(* the two sides still differ by, each restricted to an original group.    *)
Difference == setA (+) setB

RecoveredParity ==
    LET Cell == UNION {{r} \X (1..Len(alice.recovered[r])) : r \in 1..Len(alice.recovered)}
    IN  {k \in Key :
            IsOdd(Cardinality({c \in Cell : k \in alice.recovered[c[1]][c[2]]}))}

OfGroup(S, o) == {k \in S : getGroupId_(hash, k) = o}

Pending(o) ==
    {k \in Key :
        IsOdd(Cardinality({g \in 1..alice.remaining :
                              /\ alice.origin[g] = o
                              /\ k \in alice.groups[g] (+) bob.groups[g]}))}

(* Conservation: in every original group, the differences that are neither *)
(* recovered nor pending cancel to zero under XOR.  This is all that the   *)
(* checksum can guarantee, and it holds across splits, moves, insertions   *)
(* of recovered keys, fake keys and wrong answers of the BCH decoder.      *)
Conservation ==
    phase = "bobDecode" =>
        \A o \in GroupId :
            XorSum(OfGroup(Difference (+) RecoveredParity, o)) = XorSum(Pending(o))

(* At the end nothing is pending, so per original group what was recovered *)
(* is the difference up to a set of keys whose XOR is zero.                *)
CompletedUpToZeroXor ==
    phase = "done" =>
        \A o \in GroupId : XorSum(OfGroup(Difference (+) RecoveredParity, o)) = {}

(* A round in which the code's good case happens in every group (few       *)
(* enough differences, each alone in its bin) is the last one, and it      *)
(* recovers precisely what was left.                                       *)
LeftIn(g) == alice.groups[g] (+) bob.groups[g]

CleanRound ==
    \A g \in 1..alice.remaining :
        /\ Cardinality(LeftIn(g)) <= BchT
        /\ \A k, l \in LeftIn(g) :
              k # l => getBinId_(alice, hash, k) # getBinId_(alice, hash, l)

CleanRoundCompletes ==
    [][(phase = "aliceCheck" /\ CleanRound) =>
          /\ phase' = "done"
          /\ \A g \in 1..alice.remaining :
                alice'.recovered[Len(alice'.recovered)][g] = LeftIn(g)]_vars
===============================================================================
