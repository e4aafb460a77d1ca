--------------------------- MODULE PbsProtocolProofs ---------------------------
(***************************************************************************)
(* PbsProtocol keeps its types, and the two sides stay in step, for every  *)
(* key width, number of groups, BCH code, split, number of rounds, pair of *)
(* inputs and hash functions, and for whatever the BCH decoder answers.    *)
(*                                                                         *)
(* With them in step, InStep, the group tables hold what they should when  *)
(* Bob decodes:                                                            *)
(*  - the rows of XORs and the checksums are never cleared, and yet hold   *)
(*    nothing but the keys of their group, because every group is encoded  *)
(*    once in a row that was fresh;                                        *)
(*  - a key that both sides have and Alice has not recovered is in the     *)
(*    same groups of both tables, because both sides split and move alike; *)
(*  - the messages of a round tell what the tables hold, so that a round   *)
(*    with the code's good case in every group is the last one.            *)
(*                                                                         *)
(* The last part of the module shows that no difference is lost.           *)
(***************************************************************************)
EXTENDS PbsProtocol, ParityBitmapSketchProofs, TLAPS

USE DEF Phase

LEMMA HashIsHash == hash \in Hashes => hash \in Hash
BY ProtocolAssumption DEF IsHash

(* The lengths and counters of the two objects are natural numbers.        *)
LEMMA Counters ==
    ASSUME NEW p \in Pbs
    PROVE  /\ p.remaining \in Nat /\ p.round \in Nat /\ p.hintRange \in Nat
           /\ Len(p.groups) \in Nat /\ Len(p.failed) \in Nat
           /\ Len(p.exceptions) \in Nat
           /\ PieceCount(p.failed) \in Nat
BY PieceCountIsNat DEF Pbs

-------------------------------------------------------------------------------
(* The constructors give equal tables.                                     *)
LEMMA InitInStep == Init => InStep
<1> SUFFICES ASSUME Init PROVE InStep
  OBVIOUS
<1>1. setA \in SUBSET Key /\ setB \in SUBSET Key /\ hash \in Hashes
  BY ProtocolAssumption DEF Init
<1>2. hash \in Hash
  BY <1>1, HashIsHash
<1>3. /\ alice \in Pbs /\ Parallel(alice) /\ InOriginalGroup(alice, hash)
      /\ Len(alice.groups) = NumGroups
  BY <1>1, <1>2, ConstructProperties DEF Init
<1>4. /\ bob \in Pbs /\ Parallel(bob) /\ InOriginalGroup(bob, hash)
      /\ Len(bob.groups) = NumGroups
  BY <1>1, <1>2, ConstructProperties DEF Init
<1>5. \A S : /\ Construct(S, hash).role = "Undetermined"
             /\ Construct(S, hash).remaining = NumGroups
             /\ Construct(S, hash).hintRange = NumGroups
             /\ Construct(S, hash).round = 0
             /\ Construct(S, hash).origin = [g \in GroupId |-> g]
             /\ Construct(S, hash).failed = << >>
             /\ Construct(S, hash).exceptions = << >>
  BY DEF Construct
<1>6. phase = "aliceEncode" /\ encoding = << >> /\ hint = << >> /\ decoding = << >>
  BY DEF Init
<1>7. TypeOK
  <2>1. << >> \in Seq(SUBSET Bins) /\ << >> \in Seq(Nat) /\ << >> \in Seq(GroupDecoding)
    BY EmptySeq
  <2> QED BY <1>1, <1>3, <1>4, <1>6, <2>1 DEF TypeOK, DecodingMessage
<1>8. Tables
  BY <1>3, <1>4, <1>5 DEF Init, Tables, PiecesOfOriginalGroup
<1>9. FirstRound
  BY <1>4, <1>5 DEF Init, FirstRound
<1>10. BobBehind
  BY <1>5 DEF Init, BobBehind
<1>11. BothEncoded /\ Aligned /\ AliceBehind /\ CompletesTogether /\ NeverAborts
  BY <1>6 DEF BothEncoded, Aligned, AliceBehind, CompletesTogether, NeverAborts
<1> QED BY <1>7, <1>8, <1>9, <1>10, <1>11 DEF InStep

-------------------------------------------------------------------------------
(* The range Alice gives her hint covers the ids she puts in it.           *)
LEMMA AliceEncodeInStep == InStep /\ AliceEncode => InStep'
<1> SUFFICES ASSUME InStep, AliceEncode PROVE InStep'
  OBVIOUS
<1>1. /\ TypeOK /\ Tables /\ FirstRound /\ BobBehind
      /\ phase = "aliceEncode"
      /\ alice' = encode(alice, hash)
      /\ UNCHANGED <<hash, setA, setB, bob, decoding>>
  BY DEF InStep, AliceEncode
<1>2. /\ alice \in Pbs /\ Parallel(alice) /\ InOriginalGroup(alice, hash)
      /\ Len(alice.groups) = alice.remaining
  BY <1>1 DEF TypeOK, Tables, PiecesOfOriginalGroup
<1>3. bob.role = "Undetermined" \/ bob.role = "Bob"
  BY <1>1 DEF TypeOK, Tables, Pbs
<1>4. ~encodeThrows(alice)
  <2>1. CASE bob.role = "Undetermined"
    BY <1>1, <2>1 DEF FirstRound, encodeThrows
  <2>2. CASE bob.role = "Bob"
    <3>1. IdList(alice.exceptions, bob.remaining) /\ alice.hintRange = bob.remaining
      BY <1>1, <2>2 DEF BobBehind, Exceptions
    <3>2. bob.remaining \in Nat /\ Len(alice.exceptions) \in Nat
      BY <1>1, Counters DEF TypeOK
    <3>3. \A i \in 1..Len(alice.exceptions) : alice.exceptions[i] \in 1..bob.remaining
      BY <3>1 DEF IdList
    <3> QED BY <3>1, <3>2, <3>3 DEF encodeThrows
  <2> QED BY <1>3, <2>1, <2>2
<1>5. phase' = "bobEncode" /\ encoding' = alice'.sketches /\ hint' = alice.exceptions
  BY <1>4 DEF AliceEncode
<1> DEFINE q == doEncode_(alice, hash)
<1>6. /\ q \in Pbs /\ Parallel(q) /\ InOriginalGroup(q, hash)
      /\ q.groups = alice.groups /\ q.origin = alice.origin
      /\ Len(q.sketches) = alice.remaining /\ q.remaining = alice.remaining
      /\ q.round = alice.round /\ q.role = alice.role
  BY <1>2, EncodeProperties
<1>7. alice' = [q EXCEPT !.exceptions = << >>]
  BY <1>1 DEF encode
<1> HIDE DEF q
<1>8. /\ alice' \in Pbs
      /\ alice'.groups = q.groups /\ alice'.origin = q.origin /\ alice'.xors = q.xors
      /\ alice'.checksums = q.checksums /\ alice'.sketches = q.sketches
      /\ alice'.remaining = q.remaining /\ alice'.round = q.round /\ alice'.role = q.role
      /\ alice'.exceptions = << >>
  <2>1. << >> \in Seq(Nat)
    BY EmptySeq
  <2> QED BY <1>6, <1>7, <2>1 DEF Pbs
<1>9. TypeOK'
  <2>1. encoding' \in Seq(SUBSET Bins) /\ hint' \in Seq(Nat)
    BY <1>2, <1>5, <1>8 DEF Pbs
  <2> QED BY <1>1, <1>5, <1>8, <2>1 DEF TypeOK
<1>10. Tables'
  <2>1. Parallel(alice)' /\ InOriginalGroup(alice, hash)'
    BY <1>1, <1>6, <1>8 DEF Parallel, InOriginalGroup
  <2>2. Parallel(bob)' /\ InOriginalGroup(bob, hash)' /\ bob'.role # "Alice"
    BY <1>1 DEF Tables, PiecesOfOriginalGroup
  <2>3. alice'.role # "Bob" /\ Len(alice'.groups) = alice'.remaining
    BY <1>1, <1>2, <1>6, <1>8 DEF Tables
  <2> QED BY <2>1, <2>2, <2>3 DEF Tables, PiecesOfOriginalGroup
<1>11. FirstRound'
  BY <1>1, <1>5, <1>6, <1>8 DEF FirstRound
<1>12. BobBehind'
  BY <1>1, <1>5, <1>6, <1>8 DEF BobBehind, Exceptions
<1>13. BothEncoded'
  BY <1>5, <1>6, <1>8 DEF BothEncoded
<1>14. Aligned' /\ AliceBehind' /\ CompletesTogether' /\ NeverAborts'
  BY <1>5 DEF Aligned, AliceBehind, CompletesTogether, NeverAborts
<1> QED BY <1>9, <1>10, <1>11, <1>12, <1>13, <1>14 DEF InStep

(* In the first round Bob encodes the table of the constructor.            *)
LEMMA BobEncodeInStep == InStep /\ BobEncode => InStep'
<1> SUFFICES ASSUME InStep, BobEncode PROVE InStep'
  OBVIOUS
<1>1. /\ TypeOK /\ Tables /\ FirstRound /\ BothEncoded
      /\ phase = "bobEncode" /\ bob.role = "Undetermined"
      /\ bob' = encode(bob, hash)
      /\ phase' = "bobDecode"
      /\ UNCHANGED <<hash, setA, setB, alice, encoding, hint, decoding>>
  BY DEF InStep, BobEncode
<1>2. /\ bob \in Pbs /\ Parallel(bob) /\ InOriginalGroup(bob, hash)
  BY <1>1 DEF TypeOK, Tables, PiecesOfOriginalGroup
<1> DEFINE q == doEncode_(bob, hash)
<1>3. /\ q \in Pbs /\ Parallel(q) /\ InOriginalGroup(q, hash)
      /\ q.groups = bob.groups /\ q.origin = bob.origin
      /\ Len(q.sketches) = bob.remaining /\ q.remaining = bob.remaining
      /\ q.round = bob.round /\ q.role = bob.role /\ q.failed = bob.failed
  BY <1>2, EncodeProperties
<1>4. bob' = [q EXCEPT !.exceptions = << >>]
  BY <1>1 DEF encode
<1> HIDE DEF q
<1>5. /\ bob' \in Pbs
      /\ bob'.groups = q.groups /\ bob'.origin = q.origin /\ bob'.xors = q.xors
      /\ bob'.checksums = q.checksums /\ bob'.sketches = q.sketches
      /\ bob'.remaining = q.remaining /\ bob'.round = q.round /\ bob'.role = q.role
      /\ bob'.failed = q.failed
  <2>1. << >> \in Seq(Nat)
    BY EmptySeq
  <2> QED BY <1>3, <1>4, <2>1 DEF Pbs
<1>6. TypeOK'
  BY <1>1, <1>5 DEF TypeOK
<1>7. Tables'
  <2>1. Parallel(bob)' /\ InOriginalGroup(bob, hash)'
    BY <1>1, <1>3, <1>5 DEF Parallel, InOriginalGroup
  <2>2. /\ Parallel(alice)' /\ InOriginalGroup(alice, hash)'
        /\ alice'.role # "Bob" /\ Len(alice'.groups) = alice'.remaining
    BY <1>1 DEF Tables, PiecesOfOriginalGroup
  <2>3. bob'.role # "Alice"
    BY <1>1, <1>3, <1>5
  <2> QED BY <2>1, <2>2, <2>3 DEF Tables, PiecesOfOriginalGroup
<1>8. Aligned'
  BY <1>1, <1>3, <1>5 DEF Aligned, FirstRound, BothEncoded
<1>9. BothEncoded'
  BY <1>1, <1>3, <1>5 DEF FirstRound, BothEncoded
<1>10. /\ FirstRound' /\ BobBehind' /\ AliceBehind' /\ CompletesTogether' /\ NeverAborts'
  BY <1>1 DEF FirstRound, BobBehind, AliceBehind, CompletesTogether, NeverAborts
<1> QED BY <1>6, <1>7, <1>8, <1>9, <1>10 DEF InStep

(* In a later round Bob moves the groups of the hint behind the pieces he  *)
(* has split off, and finds as many groups as he expects.                  *)
LEMMA BobEncodeWithHintInStep == InStep /\ BobEncodeWithHint => InStep'
<1> SUFFICES ASSUME InStep, BobEncodeWithHint PROVE InStep'
  OBVIOUS
<1>1. /\ TypeOK /\ Tables /\ BobBehind /\ BothEncoded
      /\ phase = "bobEncode" /\ bob.role # "Undetermined"
      /\ UNCHANGED <<hash, setA, setB, alice, encoding, hint, decoding>>
  BY DEF InStep, BobEncodeWithHint
<1>2. bob.role = "Bob"
  BY <1>1 DEF TypeOK, Tables, Pbs
<1>3. /\ bob \in Pbs /\ Parallel(bob) /\ InOriginalGroup(bob, hash)
  BY <1>1 DEF TypeOK, Tables, PiecesOfOriginalGroup
<1> DEFINE m == Len(hint)
           n == bob.remaining
           f == PieceCount(bob.failed)
<1>4. /\ IdList(hint, n) /\ alice.round = bob.round
      /\ Len(bob.groups) = n + f
      /\ alice.remaining = f + m
      /\ alice.origin = AfterMoves(bob.origin, hint, n)
  BY <1>1, <1>2 DEF BobBehind, Exceptions
<1>5. m \in Nat /\ n \in Nat /\ f \in Nat
  BY <1>3, <1>4, Counters DEF IdList
<1>6. hint \in [1..m -> 1..Len(bob.groups)] /\ n <= Len(bob.groups)
  <2>1. hint \in [1..m -> 1..n]
    BY <1>4 DEF IdList
  <2> HIDE DEF m, n, f
  <2>2. \A i \in 1..m : hint[i] \in 1..Len(bob.groups)
    BY <1>4, <1>5, <2>1
  <2> QED BY <1>4, <1>5, <2>1, <2>2
<1> DEFINE r == WithHint(bob, hint)
<1> HIDE DEF m
<1>7. /\ r \in Pbs /\ Parallel(r) /\ InOriginalGroup(r, hash)
      /\ r.origin = Behind(bob.origin \o MovedOrigins(bob, hint), n)
      /\ r.remaining = Len(bob.groups) + m - n
      /\ Len(r.groups) = r.remaining
      /\ r.round = bob.round /\ r.role = bob.role /\ r.failed = << >>
  BY <1>3, <1>5, <1>6, WithHintProperties
<1> HIDE DEF n, f, r
<1>8. r.remaining = alice.remaining
  BY <1>4, <1>5, <1>7
<1>9. r.origin = alice.origin
  BY <1>4, <1>7 DEF AfterMoves, MovedOrigins, m
<1>10. ~encodeWithHintThrows(bob, hint)
  <2>1. \A i \in 1..Len(hint) : hint[i] \in 1..Len(bob.groups)
    BY <1>6 DEF m
  <2>2. Len(hint) + Splits * Len(bob.failed) = WithHint(bob, hint).remaining
    BY <1>4, <1>5, <1>8 DEF m, f, r, PieceCount
  <2> QED BY <1>2, <2>1, <2>2 DEF encodeWithHintThrows
<1>11. phase' = "bobDecode" /\ bob' = doEncode_(r, hash)
  BY <1>10 DEF BobEncodeWithHint, encodeWithHint, r
<1>12. /\ bob' \in Pbs /\ Parallel(bob') /\ InOriginalGroup(bob', hash)
       /\ bob'.groups = r.groups /\ bob'.origin = r.origin
       /\ Len(bob'.sketches) = r.remaining /\ bob'.remaining = r.remaining
       /\ bob'.round = r.round /\ bob'.role = r.role /\ bob'.failed = r.failed
  BY <1>7, <1>11, EncodeProperties
<1>13. TypeOK'
  BY <1>1, <1>11, <1>12 DEF TypeOK
<1>14. Tables'
  <2>1. /\ Parallel(alice)' /\ InOriginalGroup(alice, hash)'
        /\ alice'.role # "Bob" /\ Len(alice'.groups) = alice'.remaining
    BY <1>1 DEF Tables, PiecesOfOriginalGroup
  <2>2. InOriginalGroup(bob, hash)' /\ bob'.role # "Alice"
    BY <1>1, <1>2, <1>7, <1>12
  <2> QED BY <1>12, <2>1, <2>2 DEF Tables, PiecesOfOriginalGroup
<1>15. Aligned'
  BY <1>1, <1>4, <1>7, <1>8, <1>9, <1>12 DEF Aligned, BothEncoded
<1>16. BothEncoded'
  BY <1>7, <1>11, <1>12 DEF BothEncoded
<1>17. /\ FirstRound' /\ BobBehind' /\ AliceBehind' /\ CompletesTogether' /\ NeverAborts'
  BY <1>11 DEF FirstRound, BobBehind, AliceBehind, CompletesTogether, NeverAborts
<1> QED BY <1>13, <1>14, <1>15, <1>16, <1>17 DEF InStep

(* Bob splits the groups he tells Alice that he could not decode.          *)
LEMMA BobDecodeInStep == InStep /\ BobDecode => InStep'
<1> SUFFICES ASSUME InStep, BobDecode PROVE InStep'
  OBVIOUS
<1>1. /\ TypeOK /\ Tables /\ BothEncoded /\ Aligned
      /\ phase = "bobDecode" /\ phase' = "aliceCheck"
      /\ bob' = decode(bob, hash, encoding)
      /\ UNCHANGED <<hash, setA, setB, alice, encoding, hint>>
  BY DEF InStep, BobDecode
<1>2. PICK e \in Key : decoding' = decodeMessage(bob, hash, encoding, e)
  <2>1. {} \in Key
    BY DEF Key
  <2> QED BY <2>1 DEF BobDecode
<1>3. /\ bob \in Pbs /\ Parallel(bob) /\ InOriginalGroup(bob, hash)
      /\ encoding \in Seq(SUBSET Bins) /\ hash \in Hash
      /\ Len(bob.groups) = bob.remaining /\ Len(bob.sketches) = bob.remaining
      /\ Len(encoding) = bob.remaining /\ bob.failed = << >>
      /\ alice.remaining = bob.remaining /\ alice.origin = bob.origin
      /\ alice.round = bob.round
  BY <1>1, HashIsHash DEF TypeOK, Tables, PiecesOfOriginalGroup, BothEncoded, Aligned
<1>4. /\ decoding' \in DecodingMessage /\ Len(decoding') = bob.remaining
      /\ FailedGroups(bob.remaining, decoding') = FailedIds(bob, hash, encoding)
  BY <1>2, <1>3, DecodeMessageProperties
<1> DEFINE ids == FailedIds(bob, hash, encoding)
<1>5. /\ bob' \in Pbs /\ Parallel(bob') /\ InOriginalGroup(bob', hash)
      /\ bob'.origin = bob.origin \o PieceOrigins(bob, ids)
      /\ Len(bob'.groups) = bob.remaining + PieceCount(ids)
      /\ bob'.remaining = bob.remaining /\ bob'.hintRange = bob.remaining
      /\ bob'.role = "Bob" /\ bob'.round = bob.round + 1 /\ bob'.failed = ids
  BY <1>1, <1>3, DecodeProperties
<1> HIDE DEF ids
<1>6. TypeOK'
  BY <1>1, <1>4, <1>5 DEF TypeOK
<1>7. Tables'
  <2>1. /\ Parallel(alice)' /\ InOriginalGroup(alice, hash)'
        /\ alice'.role # "Bob" /\ Len(alice'.groups) = alice'.remaining
    BY <1>1 DEF Tables, PiecesOfOriginalGroup
  <2>2. InOriginalGroup(bob, hash)' /\ bob'.role # "Alice"
    BY <1>1, <1>5
  <2> QED BY <1>5, <2>1, <2>2 DEF Tables, PiecesOfOriginalGroup
<1>8. AliceBehind'
  <2>1. PieceOrigins(bob, ids) = PieceOrigins(alice, ids)
    BY <1>3 DEF PieceOrigins
  <2>2. bob'.failed = FailedGroups(alice.remaining, decoding')
    BY <1>3, <1>4, <1>5 DEF ids
  <2> QED BY <1>1, <1>3, <1>4, <1>5, <2>1, <2>2 DEF AliceBehind
<1>9. /\ FirstRound' /\ BobBehind' /\ BothEncoded' /\ Aligned'
      /\ CompletesTogether' /\ NeverAborts'
  BY <1>1 DEF FirstRound, BobBehind, BothEncoded, Aligned, CompletesTogether, NeverAborts
<1> QED BY <1>6, <1>7, <1>8, <1>9 DEF InStep

(* Alice splits the same groups in the same order, and what she moves is   *)
(* what her hint will name.                                                *)
LEMMA AliceCheckInStep == InStep /\ AliceCheck => InStep'
<1> SUFFICES ASSUME InStep, AliceCheck PROVE InStep'
  OBVIOUS
<1>1. /\ TypeOK /\ Tables /\ AliceBehind
      /\ phase = "aliceCheck"
      /\ alice' = decodeCheck(alice, hash, decoding)
      /\ phase' = IF decodeCheckCompletes(alice') THEN "done" ELSE "aliceEncode"
      /\ encoding' = << >> /\ hint' = << >> /\ decoding' = << >>
      /\ UNCHANGED <<hash, setA, setB, bob>>
  BY DEF InStep, AliceCheck
<1>2. /\ alice \in Pbs /\ Parallel(alice) /\ InOriginalGroup(alice, hash)
      /\ Len(alice.groups) = alice.remaining /\ decoding \in DecodingMessage
      /\ Len(decoding) = alice.remaining
  BY <1>1 DEF TypeOK, Tables, PiecesOfOriginalGroup, AliceBehind
<1> DEFINE ids == FailedGroups(alice.remaining, decoding)
           n == alice.remaining
<1>3. /\ bob.role = "Bob" /\ bob.round = alice.round + 1
      /\ bob.remaining = n /\ bob.hintRange = n /\ bob.failed = ids
      /\ bob.origin = alice.origin \o PieceOrigins(alice, ids)
      /\ Len(bob.groups) = n + PieceCount(ids)
  BY <1>1 DEF AliceBehind
<1>4. /\ alice' \in Pbs /\ Parallel(alice') /\ InOriginalGroup(alice', hash)
      /\ alice'.role = "Alice" /\ alice'.round = alice.round + 1
      /\ IdList(alice'.exceptions, n) /\ alice'.hintRange = n
      /\ alice'.origin = AfterMoves(alice.origin \o PieceOrigins(alice, ids), alice'.exceptions, n)
      /\ Len(alice'.groups) = alice'.remaining
      /\ alice'.remaining = PieceCount(ids) + Len(alice'.exceptions)
  BY <1>1, <1>2, CheckProperties
<1>5. IdList(ids, n)
  BY <1>2, Counters, FailedGroupsIsIdList
<1> HIDE DEF ids, n
<1>6. TypeOK'
  <2>1. << >> \in Seq(SUBSET Bins) /\ << >> \in Seq(Nat) /\ << >> \in DecodingMessage
    BY DEF DecodingMessage
  <2> QED BY <1>1, <1>4, <2>1 DEF TypeOK, decodeCheckCompletes
<1>7. Tables'
  <2>1. Parallel(bob)' /\ InOriginalGroup(bob, hash)' /\ bob'.role # "Alice"
    BY <1>1 DEF Tables, PiecesOfOriginalGroup
  <2>2. InOriginalGroup(alice, hash)' /\ alice'.role # "Bob"
    BY <1>1, <1>4
  <2> QED BY <1>4, <2>1, <2>2 DEF Tables, PiecesOfOriginalGroup
<1>8. BobBehind'
  <2> SUFFICES ASSUME phase' = "aliceEncode"
               PROVE  BobBehind'
    BY <1>1 DEF BobBehind
  <2>1. Exceptions' = alice'.exceptions
    BY DEF Exceptions
  <2> QED BY <1>1, <1>3, <1>4, <2>1 DEF BobBehind
<1>9. FirstRound'
  BY <1>1, <1>3 DEF FirstRound
<1>10. CompletesTogether'
  <2> SUFFICES ASSUME phase' = "done"
               PROVE  CompletesTogether'
    BY DEF CompletesTogether
  <2>1. alice'.remaining = 0
    BY <1>1 DEF decodeCheckCompletes
  <2>2. /\ PieceCount(ids) \in Nat /\ Len(alice'.exceptions) \in Nat /\ n \in Nat
        /\ Len(ids) = 0 <=> PieceCount(ids) = 0
    BY <1>2, <1>4, <1>5, Counters, PieceCountIsNat DEF IdList, n
  <2>3. PieceCount(ids) = 0 /\ Len(ids) = 0
    BY <1>4, <2>1, <2>2
  <2>4. ids = << >>
    <3>1. ids \in Seq(Nat)
      BY <1>2, Counters, FailedGroupsIsIdList DEF ids
    <3> QED BY <2>3, <3>1, EmptySeq
  <2> QED BY <1>1, <1>3, <1>4, <2>2, <2>3, <2>4 DEF CompletesTogether
<1>11. BothEncoded' /\ Aligned' /\ AliceBehind' /\ NeverAborts'
  BY <1>1 DEF BothEncoded, Aligned, AliceBehind, NeverAborts, decodeCheckCompletes
<1> QED BY <1>6, <1>7, <1>8, <1>9, <1>10, <1>11 DEF InStep

LEMMA StutteringInStep == InStep /\ UNCHANGED vars => InStep'
BY DEF vars, InStep, TypeOK, Tables, PiecesOfOriginalGroup, FirstRound, BobBehind,
       Exceptions, BothEncoded, Aligned, AliceBehind, CompletesTogether, NeverAborts

(* The two sides stay in step: every phase of a round finds the tables,    *)
(* the messages and the hint it relies on.                                 *)
THEOREM StaysInStep == Spec => []InStep
<1>1. InStep /\ [Next]_vars => InStep'
  <2> SUFFICES ASSUME InStep, [Next]_vars PROVE InStep'
    OBVIOUS
  <2>1. CASE AliceEncode
    BY <2>1, AliceEncodeInStep
  <2>2. CASE BobEncode
    BY <2>2, BobEncodeInStep
  <2>3. CASE BobEncodeWithHint
    BY <2>3, BobEncodeWithHintInStep
  <2>4. CASE BobDecode
    BY <2>4, BobDecodeInStep
  <2>5. CASE AliceCheck
    BY <2>5, AliceCheckInStep
  <2>6. CASE Stopped
    BY <2>6, StutteringInStep DEF Stopped
  <2>7. CASE UNCHANGED vars
    BY <2>7, StutteringInStep
  <2> QED BY <2>1, <2>2, <2>3, <2>4, <2>5, <2>6, <2>7 DEF Next
<1> QED BY InitInStep, <1>1, PTL DEF Spec

(* The variables keep their types. *)
THEOREM TypeCorrect == Spec => []TypeOK
<1>1. InStep => TypeOK
  BY DEF InStep
<1> QED BY <1>1, StaysInStep, PTL

(* When Bob decodes, the two group tables correspond position by position. *)
THEOREM AlwaysAligned == Spec => []Aligned
<1>1. InStep => Aligned
  BY DEF InStep
<1> QED BY <1>1, StaysInStep, PTL

(* Every key stays in a piece of the group it hashes to. *)
THEOREM KeysStayInTheirGroup == Spec => []PiecesOfOriginalGroup
<1>1. InStep => PiecesOfOriginalGroup
  BY DEF InStep, Tables
<1> QED BY <1>1, StaysInStep, PTL

(* None of the calls throws. *)
THEOREM NoCallThrows == Spec => []NeverAborts
<1>1. InStep => NeverAborts
  BY DEF InStep
<1> QED BY <1>1, StaysInStep, PTL

(* The ids of a hint are increasing and within the range Bob reads it by.  *)
THEOREM HintsAreReadable == Spec => []HintReadable
<1>1. InStep => HintReadable
  <2> SUFFICES ASSUME InStep, phase = "bobEncode" PROVE HintReadable
    BY DEF HintReadable
  <2>1. bob.role = "Undetermined" \/ bob.role = "Bob"
    BY DEF InStep, TypeOK, Tables, Pbs
  <2>2. CASE bob.role = "Undetermined"
    <3>1. hint = << >>
      BY <2>2 DEF InStep, FirstRound
    <3> QED BY <3>1 DEF HintReadable
  <2>3. CASE bob.role = "Bob"
    BY <2>3 DEF InStep, BobBehind, Exceptions, IdList, HintReadable
  <2> QED BY <2>1, <2>2, <2>3
<1> QED BY <1>1, StaysInStep, PTL

(* When Alice is done, no group of Bob waits for her. *)
THEOREM BothComplete == Spec => []CompletesTogether
<1>1. InStep => CompletesTogether
  BY DEF InStep
<1> QED BY <1>1, StaysInStep, PTL

-------------------------------------------------------------------------------
(***************************************************************************)
(* What the group tables hold.                                             *)
(***************************************************************************)
(* The rows behind the first n are those AppendGroups pushes.              *)
FreshBehind(p, n) ==
    \A g \in (n + 1)..Len(p.groups) : p.xors[g] = EmptyRow /\ p.checksums[g] = {}

(* No group has been encoded.                                              *)
Unencoded(p) == FreshBehind(p, 0)

-------------------------------------------------------------------------------
(* Encoding fills fresh rows with what the groups hold.                    *)
LEMMA EncodingFills ==
    ASSUME NEW p \in Pbs, Parallel(p), Len(p.groups) = p.remaining, Unencoded(p)
    PROVE  FreshlyEncoded(doEncode_(p, hash))
<1> DEFINE q == doEncode_(p, hash)
           n == p.remaining
           x == [g \in 1..Len(p.xors) |->
                    IF g > n THEN p.xors[g]
                    ELSE [b \in Bins |-> p.xors[g][b] (+) XorSum(KeysInBin(p, hash, g, b))]]
           s == [g \in 1..Len(p.checksums) |->
                    IF g > n THEN p.checksums[g] ELSE p.checksums[g] (+) XorSum(p.groups[g])]
<1>1. /\ n \in Nat /\ Len(p.xors) = n /\ Len(p.checksums) = n
  BY DEF Pbs, Parallel
<1>2. q.groups = p.groups /\ q.remaining = n /\ q.round = p.round
  BY EncodeProperties
<1>3. q.xors = x /\ q.checksums = s
  BY DEF doEncode_, Pbs
<1> HIDE DEF q
<1>4. ASSUME NEW g \in 1..n
      PROVE  /\ q.checksums[g] = XorSum(q.groups[g])
             /\ \A b \in Bins : q.xors[g][b] = XorSum(KeysInBin(q, hash, g, b))
  <2>1. p.xors[g] = EmptyRow /\ p.checksums[g] = {} /\ ~(g > n)
    BY <1>1, <1>4 DEF Unencoded, FreshBehind
  <2>2. x[g] = [b \in Bins |-> {} (+) XorSum(KeysInBin(p, hash, g, b))]
    BY <1>1, <2>1 DEF EmptyRow
  <2>3. s[g] = {} (+) XorSum(p.groups[g])
    BY <1>1, <2>1
  <2>4. \A b \in Bins : KeysInBin(q, hash, g, b) = KeysInBin(p, hash, g, b)
    BY <1>2 DEF KeysInBin, getBinId_
  <2>5. \A y : {} (+) y = y
    BY DEF (+)
  <2> HIDE DEF x, s
  <2> QED
    BY <1>2, <1>3, <2>2, <2>3, <2>4, <2>5
<1> QED
  BY <1>2, <1>4 DEF FreshlyEncoded, q

(* Groups that are appended have fresh rows.                               *)
LEMMA AppendingIsFresh ==
    ASSUME NEW p \in Pbs, Parallel(p), NEW n \in Nat, n <= Len(p.groups), FreshBehind(p, n),
           NEW c \in Seq(SUBSET Key), NEW o
    PROVE  FreshBehind(AppendGroups(p, c, o), n)
<1> DEFINE x == [i \in 1..Len(c) |-> EmptyRow]
           s == [i \in 1..Len(c) |-> {}]
           q == AppendGroups(p, c, o)
           l == Len(p.groups)
<1>1. q.groups = p.groups \o c /\ q.xors = p.xors \o x /\ q.checksums = p.checksums \o s
  BY DEF AppendGroups, Pbs
<1>2. /\ p.groups \in Seq(SUBSET Key) /\ p.xors \in Seq([Bins -> Key])
      /\ p.checksums \in Seq(Key) /\ l \in Nat /\ Len(c) \in Nat
      /\ Len(p.xors) = l /\ Len(p.checksums) = l
  BY DEF Pbs, Parallel
<1>3. x \in Seq([Bins -> Key]) /\ Len(x) = Len(c) /\ s \in Seq(Key) /\ Len(s) = Len(c)
  BY EmptyRowType DEF Key
<1>4. \A i \in 1..Len(c) : x[i] = EmptyRow /\ s[i] = {}
  OBVIOUS
<1> HIDE DEF x, s, q, l
<1>5. Len(q.groups) = l + Len(c)
  BY <1>1, <1>2, ConcatProperties DEF l
<1>6. ASSUME NEW g \in (n + 1)..(l + Len(c))
      PROVE  q.xors[g] = EmptyRow /\ q.checksums[g] = {}
  <2>1. CASE g <= l
    <3>1. g \in 1..l /\ g \in (n + 1)..l
      BY <1>2, <2>1
    <3>2. q.xors[g] = p.xors[g] /\ q.checksums[g] = p.checksums[g]
      BY <1>1, <1>2, <1>3, <3>1, ConcatProperties
    <3> QED
      BY <3>1, <3>2 DEF FreshBehind, l
  <2>2. CASE ~(g <= l)
    <3>1. g - l \in 1..Len(c) /\ g \in 1..(l + Len(c)) /\ ~(g <= l)
      BY <1>2, <2>2
    <3>2. ASSUME NEW S, NEW u \in Seq(S), NEW v \in Seq(S), Len(u) = l, Len(v) = Len(c)
          PROVE  (u \o v)[g] = v[g - l]
      <4>1. g \in 1..(Len(u) + Len(v)) /\ ~(g <= Len(u))
        BY <3>1, <3>2
      <4>2. (u \o v)[g] = v[g - Len(u)]
        BY <3>2, <4>1, ConcatProperties
      <4> QED
        BY <3>2, <4>2
    <3>3. q.xors[g] = x[g - l]
      BY <1>1, <1>2, <1>3, <3>2
    <3>4. q.checksums[g] = s[g - l]
      BY <1>1, <1>2, <1>3, <3>2
    <3> QED
      BY <1>4, <3>1, <3>3, <3>4
  <2> QED
    BY <2>1, <2>2
<1> QED
  BY <1>5, <1>6 DEF FreshBehind, q

LEMMA SplittingIsFresh ==
    ASSUME NEW p \in Pbs, Parallel(p), NEW n \in Nat, n <= Len(p.groups), FreshBehind(p, n),
           NEW h, NEW ids, Len(ids) \in Nat, ids \in [1..Len(ids) -> 1..n]
    PROVE  FreshBehind(threeWaySplit_(p, h, ids), n)
<1> DEFINE m == Len(ids)
<1>1. m \in Nat /\ ids \in [1..m -> 1..n]
  OBVIOUS
<1> HIDE DEF m
<1>2. Splits * m \in Nat /\ Pieces(p, h, ids) \in [1..(Splits * m) -> SUBSET Key]
  BY <1>1, PiecesType
<1>3. Pieces(p, h, ids) \in Seq(SUBSET Key)
  BY <1>2, FunctionIsSeq
<1> QED
  BY <1>3, AppendingIsFresh DEF threeWaySplit_

LEMMA MovingIsFresh ==
    ASSUME NEW p \in Pbs, Parallel(p), NEW n \in Nat, n <= Len(p.groups), FreshBehind(p, n),
           NEW m \in Nat, NEW ids \in [1..m -> 1..Len(p.groups)]
    PROVE  FreshBehind(MoveGroups(p, ids), n)
<1>1. MovedGroups(p, ids) \in [1..m -> SUBSET Key]
  BY MovedType
<1>2. MovedGroups(p, ids) \in Seq(SUBSET Key)
  BY <1>1, FunctionIsSeq
<1> QED
  BY <1>2, AppendingIsFresh DEF MoveGroups

(* When the groups of the round are dropped, only fresh rows are left.     *)
LEMMA RemovingLeavesFresh ==
    ASSUME NEW p \in Pbs, Parallel(p), p.remaining <= Len(p.groups),
           FreshBehind(p, p.remaining)
    PROVE  Unencoded(removeCompletedGroups_(p))
<1> DEFINE q == removeCompletedGroups_(p)
           n == p.remaining
           l == Len(p.groups)
<1>1. /\ p.xors \in Seq([Bins -> Key]) /\ p.checksums \in Seq(Key)
      /\ n \in Nat /\ l \in Nat /\ n <= l
      /\ Len(p.xors) = l /\ Len(p.checksums) = l
  BY DEF Pbs, Parallel
<1>2. q.xors = Behind(p.xors, n) /\ q.checksums = Behind(p.checksums, n)
  BY DEF removeCompletedGroups_, Pbs
<1>3. Len(q.groups) = l - n
  BY RemoveProperties
<1> HIDE DEF q, n, l
<1>4. ASSUME NEW g \in 1..(l - n)
      PROVE  q.xors[g] = EmptyRow /\ q.checksums[g] = {}
  <2>1. n + g \in (n + 1)..l
    BY <1>1
  <2>2. q.xors[g] = p.xors[n + g] /\ q.checksums[g] = p.checksums[n + g]
    <3>1. ASSUME NEW S, NEW s \in Seq(S), Len(s) = l
          PROVE  Behind(s, n)[g] = s[n + g]
      <4>1. n \in Nat /\ n <= Len(s) /\ g \in 1..(Len(s) - n)
        BY <1>1, <3>1
      <4> QED
        BY <3>1, <4>1, BehindProperties
    <3> QED
      BY <1>1, <1>2, <3>1
  <2> QED
    BY <2>1, <2>2 DEF FreshBehind, n, l
<1>5. \A g \in (0 + 1)..Len(q.groups) : g \in 1..(l - n)
  BY <1>1, <1>3
<1> QED
  BY <1>4, <1>5 DEF Unencoded, FreshBehind, q

(* The rows of an object of which other fields are changed.                *)
LEMMA SameRows ==
    ASSUME NEW p, NEW q, NEW n, FreshBehind(p, n),
           Len(q.groups) = Len(p.groups), q.xors = p.xors, q.checksums = p.checksums
    PROVE  FreshBehind(q, n)
BY DEF FreshBehind

-------------------------------------------------------------------------------
(* Bob splits.                                                             *)
LEMMA DecodeIsFresh ==
    ASSUME NEW p \in Pbs, Parallel(p), NEW h, NEW other, Len(p.groups) = p.remaining
    PROVE  FreshBehind(decode(p, h, other), p.remaining)
<1> DEFINE ids == FailedIds(p, h, other)
           n == p.remaining
           r == threeWaySplit_(p, h, ids)
           q == decode(p, h, other)
<1>1. n \in Nat /\ n <= Len(p.groups) /\ Len(ids) \in Nat /\ ids \in [1..Len(ids) -> 1..n]
  <2>1. p.remaining \in Nat
    BY DEF Pbs
  <2> QED
    BY <2>1, FailedIdsType
<1>2. FreshBehind(p, n)
  BY <1>1 DEF FreshBehind
<1> HIDE DEF ids, n, q
<1>3. FreshBehind(r, n)
  BY <1>1, <1>2, SplittingIsFresh
<1>4. r \in Pbs
  <2> DEFINE m == Len(ids)
  <2>1. m \in Nat /\ ids \in [1..m -> 1..n]
    BY <1>1
  <2> HIDE DEF m
  <2> QED
    BY <1>1, <2>1, SplitProperties
<1> HIDE DEF r
<1>5. q.groups = r.groups /\ q.xors = r.xors /\ q.checksums = r.checksums
  BY <1>4 DEF decode, Pbs, q, r, ids
<1> QED
  BY <1>3, <1>5, SameRows DEF q, n

(* Bob moves the groups of the hint and drops those of the last round.     *)
LEMMA WithHintIsFresh ==
    ASSUME NEW p \in Pbs, Parallel(p), p.remaining <= Len(p.groups),
           FreshBehind(p, p.remaining),
           NEW m \in Nat, NEW ids \in [1..m -> 1..Len(p.groups)]
    PROVE  Unencoded(WithHint(p, ids))
<1> DEFINE r == MoveGroups(p, ids)
           s == [r EXCEPT !.failed = << >>]
<1>1. p.remaining \in Nat /\ Len(p.groups) \in Nat
  BY DEF Pbs
<1>2. /\ r \in Pbs /\ Parallel(r) /\ SameBesideTable(p, r)
      /\ Len(r.groups) = Len(p.groups) + m
  BY MoveProperties
<1>3. FreshBehind(r, p.remaining)
  BY <1>1, MovingIsFresh
<1> HIDE DEF r
<1>4. /\ s \in Pbs /\ s.groups = r.groups /\ s.origin = r.origin /\ s.xors = r.xors
      /\ s.checksums = r.checksums /\ s.remaining = p.remaining
  <2>1. << >> \in Seq(Nat)
    BY EmptySeq
  <2> QED
    BY <1>2, <2>1 DEF Pbs, SameBesideTable
<1>5. WithHint(p, ids) = removeCompletedGroups_(s)
  BY DEF WithHint, r
<1> HIDE DEF s
<1>6. Parallel(s) /\ s.remaining <= Len(s.groups)
  BY <1>1, <1>2, <1>4 DEF Parallel
<1>7. FreshBehind(s, s.remaining)
  BY <1>3, <1>4, SameRows
<1> QED
  BY <1>4, <1>5, <1>6, <1>7, RemovingLeavesFresh

(* Alice splits, moves and drops.                                          *)
LEMMA CheckIsFresh ==
    ASSUME NEW p \in Pbs, Parallel(p), Len(p.groups) = p.remaining, NEW h,
           NEW dec \in DecodingMessage, Len(dec) = p.remaining
    PROVE  Unencoded(decodeCheck(p, h, dec))
<1> DEFINE ids == FailedGroups(p.remaining, dec)
           exc == Ordered(ExceptionGroups(p, h, dec))
           n == p.remaining
           a == InsertRecovered(p, h, dec)
           b == threeWaySplit_(a, h, ids)
           c == MoveGroups(b, exc)
           d == [c EXCEPT !.role = "Alice"]
           e == removeCompletedGroups_(d)
           q == decodeCheck(p, h, dec)
<1>1. n \in Nat /\ IdList(ids, n) /\ IdList(exc, n)
  BY FailedGroupsIsIdList, OrderedIsIdList DEF Pbs, ExceptionGroups
<1>2. a \in Pbs /\ Parallel(a) /\ Len(a.groups) = n /\ SameBesideTable(p, a)
  BY <1>1, InsertProperties
<1>3. q = [e EXCEPT !.failed = ids, !.exceptions = exc,
                    !.recovered = Append(e.recovered, [g \in 1..p.remaining |-> Accepted(p, h, dec, g)]),
                    !.round = e.round + 1]
  BY DEF decodeCheck
<1> HIDE DEF a, ids, exc, q
<1>4. FreshBehind(a, n)
  BY <1>1, <1>2 DEF FreshBehind
<1>5. Len(ids) \in Nat /\ ids \in [1..Len(ids) -> 1..n]
  BY <1>1 DEF IdList
<1>6. /\ b \in Pbs /\ Parallel(b) /\ SameBesideTable(a, b)
      /\ Len(b.groups) = n + PieceCount(ids) /\ FreshBehind(b, n)
  <2> DEFINE m == Len(ids)
  <2>1. n <= Len(a.groups) /\ m \in Nat /\ ids \in [1..m -> 1..n]
    BY <1>1, <1>2, <1>5
  <2>2. FreshBehind(b, n)
    BY <1>1, <1>2, <1>4, <1>5, <2>1, SplittingIsFresh
  <2> HIDE DEF m, n
  <2>3. b \in Pbs /\ Parallel(b)
    BY <1>1, <1>2, <2>1, SplitProperties
  <2>4. SameBesideTable(a, b)
    BY <1>1, <1>2, <2>1, SplitProperties
  <2>5. Len(b.groups) = Len(a.groups) + PieceCount(ids)
    BY <1>1, <1>2, <2>1, SplitProperties
  <2> QED
    BY <1>2, <2>2, <2>3, <2>4, <2>5
<1> HIDE DEF b
<1>7. PieceCount(ids) \in Nat /\ n <= Len(b.groups) /\ Len(b.groups) \in Nat
  <2>1. PieceCount(ids) \in Nat
    BY <1>5, PieceCountIsNat
  <2> QED
    BY <1>1, <1>6, <2>1
<1>8. /\ c \in Pbs /\ Parallel(c) /\ SameBesideTable(b, c)
      /\ Len(c.groups) = Len(b.groups) + Len(exc) /\ FreshBehind(c, n)
  <2> DEFINE m == Len(exc)
  <2>1. m \in Nat /\ exc \in [1..m -> 1..Len(b.groups)]
    BY <1>1, <1>7 DEF IdList
  <2> HIDE DEF m, n
  <2>2. FreshBehind(c, n)
    BY <1>1, <1>6, <1>7, <2>1, MovingIsFresh
  <2>3. c \in Pbs /\ Parallel(c)
    BY <1>6, <2>1, MoveProperties
  <2>4. SameBesideTable(b, c)
    BY <1>6, <2>1, MoveProperties
  <2>5. Len(c.groups) = Len(b.groups) + m
    BY <1>6, <2>1, MoveProperties
  <2> QED
    BY <2>2, <2>3, <2>4, <2>5 DEF m
<1> HIDE DEF c
<1>9. /\ d \in Pbs /\ d.groups = c.groups /\ d.origin = c.origin /\ d.xors = c.xors
      /\ d.checksums = c.checksums /\ d.remaining = c.remaining
  BY <1>8 DEF Pbs
<1> HIDE DEF d
<1>10. d.remaining = n
  BY <1>2, <1>6, <1>8, <1>9 DEF SameBesideTable
<1>11. Parallel(d) /\ d.remaining <= Len(d.groups)
  <2>1. Len(exc) \in Nat
    BY <1>1 DEF IdList
  <2> QED
    BY <1>1, <1>7, <1>8, <1>9, <1>10, <2>1 DEF Parallel
<1>12. FreshBehind(d, d.remaining)
  BY <1>8, <1>9, <1>10, SameRows
<1>13. Unencoded(e) /\ e \in Pbs
  BY <1>9, <1>11, <1>12, RemovingLeavesFresh, RemoveProperties
<1> HIDE DEF e
<1>14. q.groups = e.groups /\ q.xors = e.xors /\ q.checksums = e.checksums
  BY <1>3, <1>13 DEF Pbs
<1> QED
  BY <1>13, <1>14, SameRows DEF Unencoded, q

LEMMA ConstructIsFresh ==
    ASSUME NEW S \in SUBSET Key, NEW h
    PROVE  Unencoded(Construct(S, h))
<1>1. NumGroups \in Nat
  BY SketchAssumption
<1>2. Len(Construct(S, h).groups) = NumGroups
  BY <1>1 DEF Construct, GroupId
<1> QED
  BY <1>1, <1>2 DEF Unencoded, FreshBehind, Construct, GroupId

-------------------------------------------------------------------------------
(* Where fresh rows are, in every phase of a round.                        *)
FreshRows ==
    /\ phase = "aliceEncode" => Unencoded(alice)
    /\ phase \in {"bobEncode", "bobDecode"} => FreshlyEncoded(alice)
    /\ phase \in {"aliceEncode", "bobEncode"} /\ bob.role = "Undetermined" => Unencoded(bob)
    /\ phase \in {"aliceEncode", "bobEncode", "aliceCheck"} /\ bob.role = "Bob" =>
          FreshBehind(bob, bob.remaining)
    /\ phase = "bobDecode" => FreshlyEncoded(bob)

LEMMA InitFresh == Init => FreshRows
<1> SUFFICES ASSUME Init PROVE FreshRows
  OBVIOUS
<1>1. setA \in SUBSET Key /\ setB \in SUBSET Key
  BY ProtocolAssumption DEF Init
<1>2. Unencoded(alice) /\ Unencoded(bob)
  BY <1>1, ConstructIsFresh DEF Init
<1>3. bob.role = "Undetermined" /\ phase = "aliceEncode"
  BY DEF Init, Construct
<1> QED
  BY <1>2, <1>3 DEF FreshRows

LEMMA AliceEncodeFresh ==
    ASSUME InStep, FreshRows, AliceEncode
    PROVE  FreshRows'
<1>1. /\ alice \in Pbs /\ Parallel(alice) /\ Len(alice.groups) = alice.remaining
      /\ Unencoded(alice) /\ phase = "aliceEncode"
      /\ alice' = [doEncode_(alice, hash) EXCEPT !.exceptions = << >>]
      /\ UNCHANGED <<hash, bob>> /\ phase' \in {"bobEncode", "aborted"}
  BY DEF InStep, TypeOK, Tables, FreshRows, AliceEncode, encode
<1> DEFINE q == doEncode_(alice, hash)
<1>2. q \in Pbs /\ FreshlyEncoded(q)
  BY <1>1, EncodingFills, EncodeProperties
<1> HIDE DEF q
<1>3. /\ alice'.groups = q.groups /\ alice'.xors = q.xors /\ alice'.checksums = q.checksums
      /\ alice'.remaining = q.remaining /\ alice'.round = q.round
  BY <1>1, <1>2 DEF Pbs, q
<1>4. FreshlyEncoded(alice)'
  BY <1>1, <1>2, <1>3 DEF FreshlyEncoded, KeysInBin, getBinId_
<1> QED
  BY <1>1, <1>4 DEF FreshRows, Unencoded, FreshBehind

LEMMA BobEncodeFresh ==
    ASSUME InStep, FreshRows, BobEncode
    PROVE  FreshRows'
<1>1. /\ bob \in Pbs /\ Parallel(bob) /\ Len(bob.groups) = bob.remaining
      /\ Unencoded(bob) /\ FreshlyEncoded(alice)
      /\ bob' = [doEncode_(bob, hash) EXCEPT !.exceptions = << >>]
      /\ UNCHANGED <<hash, alice>> /\ phase' = "bobDecode"
  BY DEF InStep, TypeOK, Tables, FirstRound, FreshRows, BobEncode, encode
<1> DEFINE q == doEncode_(bob, hash)
<1>2. q \in Pbs /\ FreshlyEncoded(q)
  BY <1>1, EncodingFills, EncodeProperties
<1> HIDE DEF q
<1>3. /\ bob'.groups = q.groups /\ bob'.xors = q.xors /\ bob'.checksums = q.checksums
      /\ bob'.remaining = q.remaining /\ bob'.round = q.round
  BY <1>1, <1>2 DEF Pbs, q
<1>4. FreshlyEncoded(bob)' /\ FreshlyEncoded(alice)'
  BY <1>1, <1>2, <1>3 DEF FreshlyEncoded, KeysInBin, getBinId_
<1> QED
  BY <1>1, <1>4 DEF FreshRows

LEMMA BobEncodeWithHintFresh ==
    ASSUME InStep, FreshRows, BobEncodeWithHint
    PROVE  FreshRows'
<1>1. /\ bob \in Pbs /\ Parallel(bob) /\ bob.role = "Bob" /\ phase = "bobEncode"
      /\ FreshBehind(bob, bob.remaining) /\ FreshlyEncoded(alice)
      /\ Len(bob.groups) = bob.remaining + PieceCount(bob.failed)
      /\ IdList(hint, bob.remaining)
      /\ UNCHANGED <<hash, alice>>
  BY DEF InStep, TypeOK, Tables, BobBehind, Exceptions, FreshRows, BobEncodeWithHint, Pbs
<1>2. phase' \in {"aborted", "bobDecode"}
  BY DEF BobEncodeWithHint
<1> SUFFICES ASSUME phase' = "bobDecode" PROVE FreshRows'
  BY <1>2 DEF FreshRows
<1>3. bob' = doEncode_(WithHint(bob, hint), hash)
  BY DEF BobEncodeWithHint, encodeWithHint
<1> DEFINE m == Len(hint)
           n == bob.remaining
           f == PieceCount(bob.failed)
<1>4. m \in Nat /\ n \in Nat /\ f \in Nat
  BY <1>1, Counters DEF IdList
<1>5. hint \in [1..m -> 1..Len(bob.groups)] /\ n <= Len(bob.groups)
  <2>1. hint \in [1..m -> 1..n] /\ Len(bob.groups) = n + f
    BY <1>1 DEF IdList
  <2> HIDE DEF m, n, f
  <2>2. \A i \in 1..m : hint[i] \in 1..Len(bob.groups)
    BY <1>4, <2>1
  <2> QED
    BY <1>4, <2>1, <2>2
<1> DEFINE r == WithHint(bob, hint)
<1> HIDE DEF m, f
<1>6. r \in Pbs /\ Parallel(r) /\ Len(r.groups) = r.remaining
  BY <1>1, <1>4, <1>5, WithHintProperties
<1>7. Unencoded(r)
  BY <1>1, <1>4, <1>5, WithHintIsFresh
<1> HIDE DEF r
<1>8. FreshlyEncoded(doEncode_(r, hash))
  BY <1>6, <1>7, EncodingFills
<1>9. FreshlyEncoded(bob)' /\ FreshlyEncoded(alice)'
  BY <1>1, <1>3, <1>8 DEF FreshlyEncoded, KeysInBin, getBinId_, r
<1> QED
  BY <1>9 DEF FreshRows

LEMMA BobDecodeFresh ==
    ASSUME InStep, FreshRows, BobDecode
    PROVE  FreshRows'
<1>1. /\ bob \in Pbs /\ Parallel(bob) /\ Len(bob.groups) = bob.remaining
      /\ bob' = decode(bob, hash, encoding) /\ phase' = "aliceCheck"
  BY DEF InStep, TypeOK, Tables, BothEncoded, BobDecode
<1>2. FreshBehind(bob', bob.remaining)
  BY <1>1, DecodeIsFresh
<1>3. bob'.remaining = bob.remaining
  BY <1>1 DEF decode, threeWaySplit_, AppendGroups, Pbs
<1> QED
  BY <1>1, <1>2, <1>3 DEF FreshRows, FreshBehind

LEMMA AliceCheckFresh ==
    ASSUME InStep, FreshRows, AliceCheck
    PROVE  FreshRows'
<1>1. /\ alice \in Pbs /\ Parallel(alice) /\ Len(alice.groups) = alice.remaining
      /\ decoding \in DecodingMessage /\ Len(decoding) = alice.remaining
      /\ bob.role = "Bob" /\ FreshBehind(bob, bob.remaining)
      /\ alice' = decodeCheck(alice, hash, decoding)
      /\ UNCHANGED bob /\ phase' \in {"done", "aliceEncode"}
  BY DEF InStep, TypeOK, Tables, AliceBehind, FreshRows, AliceCheck
<1>2. Unencoded(alice')
  BY <1>1, CheckIsFresh
<1> QED
  BY <1>1, <1>2 DEF FreshRows, Unencoded, FreshBehind

LEMMA StutteringFresh ==
    ASSUME FreshRows, UNCHANGED vars
    PROVE  FreshRows'
BY DEF vars, FreshRows, Unencoded, FreshBehind, FreshlyEncoded, KeysInBin, getBinId_

LEMMA FreshRowsHold == Spec => []FreshRows
<1>1. InStep /\ FreshRows /\ [Next]_vars => FreshRows'
  BY AliceEncodeFresh, BobEncodeFresh, BobEncodeWithHintFresh, BobDecodeFresh,
     AliceCheckFresh, StutteringFresh DEF Next, Stopped
<1> QED
  BY <1>1, InitFresh, StaysInStep, PTL DEF Spec

(* What Bob decodes with, and what Alice will check with, is exactly the   *)
(* XOR of the keys the group holds: no row or checksum keeps anything of   *)
(* an earlier round.                                                       *)
THEOREM RowsAreFresh == Spec => []AccumulatorsFresh
<1>1. FreshRows => AccumulatorsFresh
  BY DEF FreshRows, AccumulatorsFresh
<1> QED
  BY <1>1, FreshRowsHold, PTL

-------------------------------------------------------------------------------
(* Two tables that hold the key k in the same groups.                      *)
SameAt(k, s, t) ==
    /\ Len(s) = Len(t)
    /\ \A g \in 1..Len(s) : k \in s[g] <=> k \in t[g]

LEMMA SameAtConcat ==
    ASSUME NEW k, NEW s \in Seq(SUBSET Key), NEW t \in Seq(SUBSET Key),
           NEW u \in Seq(SUBSET Key), NEW v \in Seq(SUBSET Key),
           SameAt(k, s, t), SameAt(k, u, v)
    PROVE  SameAt(k, s \o u, t \o v)
<1>1. /\ Len(s \o u) = Len(s) + Len(u) /\ Len(t \o v) = Len(t) + Len(v)
      /\ Len(s) = Len(t) /\ Len(u) = Len(v) /\ Len(s) \in Nat /\ Len(u) \in Nat
  <2>1. Len(s \o u) = Len(s) + Len(u)
    BY ConcatProperties
  <2>2. Len(t \o v) = Len(t) + Len(v)
    BY ConcatProperties
  <2> QED
    BY <2>1, <2>2 DEF SameAt
<1>2. ASSUME NEW g \in 1..(Len(s) + Len(u))
      PROVE  k \in (s \o u)[g] <=> k \in (t \o v)[g]
  <2>1. CASE g <= Len(s)
    <3>1. g \in 1..Len(s) /\ g <= Len(t)
      BY <1>1, <2>1
    <3>2. (s \o u)[g] = s[g]
      BY <2>1, ConcatProperties
    <3>3. (t \o v)[g] = t[g]
      BY <1>1, <3>1, ConcatProperties
    <3> QED
      BY <3>1, <3>2, <3>3 DEF SameAt
  <2>2. CASE ~(g <= Len(s))
    <3>1. g - Len(s) \in 1..Len(u) /\ ~(g <= Len(t))
      BY <1>1, <2>2
    <3>2. (s \o u)[g] = u[g - Len(s)]
      BY <2>2, ConcatProperties
    <3>3. (t \o v)[g] = v[g - Len(t)]
      BY <1>1, <3>1, ConcatProperties
    <3>4. g - Len(t) = g - Len(s)
      BY <1>1
    <3> QED
      BY <3>1, <3>2, <3>3, <3>4 DEF SameAt
  <2> QED
    BY <2>1, <2>2
<1> QED
  BY <1>1, <1>2 DEF SameAt

LEMMA SameAtBehind ==
    ASSUME NEW k, NEW s \in Seq(SUBSET Key), NEW t \in Seq(SUBSET Key), SameAt(k, s, t),
           NEW n \in Nat, n <= Len(s)
    PROVE  SameAt(k, Behind(s, n), Behind(t, n))
<1>1. /\ Len(s) = Len(t) /\ Len(s) \in Nat
      /\ Len(Behind(s, n)) = Len(s) - n /\ Len(Behind(t, n)) = Len(s) - n
  BY BehindProperties DEF SameAt
<1>2. ASSUME NEW g \in 1..(Len(s) - n)
      PROVE  k \in Behind(s, n)[g] <=> k \in Behind(t, n)[g]
  <2>1. n + g \in 1..Len(s)
    BY <1>1
  <2>2. Behind(s, n)[g] = s[n + g]
    BY BehindProperties
  <2>3. Behind(t, n)[g] = t[n + g]
    <3>1. n <= Len(t) /\ g \in 1..(Len(t) - n)
      BY <1>1
    <3> QED
      BY <3>1, BehindProperties
  <2> QED
    BY <2>1, <2>2, <2>3 DEF SameAt
<1> QED
  BY <1>1, <1>2 DEF SameAt

(* The same groups of both are moved, or split with the same hash function.*)
LEMMA SameAtMoved ==
    ASSUME NEW k, NEW p, NEW q, SameAt(k, p.groups, q.groups),
           NEW m \in Nat, NEW ids \in [1..m -> 1..Len(p.groups)]
    PROVE  SameAt(k, MovedGroups(p, ids), MovedGroups(q, ids))
<1>1. Len(ids) = m
  OBVIOUS
<1>2. /\ Len(MovedGroups(p, ids)) = m /\ Len(MovedGroups(q, ids)) = m
      /\ \A i \in 1..m : \/ /\ MovedGroups(p, ids)[i] = p.groups[ids[i]]
                            /\ MovedGroups(q, ids)[i] = q.groups[ids[i]]
                         \/ MovedGroups(p, ids)[i] = {} /\ MovedGroups(q, ids)[i] = {}
  BY <1>1 DEF MovedGroups
<1>3. \A i \in 1..m : ids[i] \in 1..Len(p.groups)
  OBVIOUS
<1> QED
  BY <1>2, <1>3 DEF SameAt

LEMMA SameAtPieces ==
    ASSUME NEW k, NEW p, NEW q, SameAt(k, p.groups, q.groups), p.round = q.round, NEW h,
           NEW n \in Nat, n <= Len(p.groups), Len(p.groups) \in Nat,
           NEW m \in Nat, NEW ids \in [1..m -> 1..n]
    PROVE  SameAt(k, Pieces(p, h, ids), Pieces(q, h, ids))
<1> DEFINE w == Splits * m
<1>1. Len(ids) = m /\ w \in Nat /\ \A i \in 1..w : ((i - 1) \div Splits) + 1 \in 1..m
  BY SplitIndexing
<1>2. \A i \in 1..w : SplitSource(ids, i) \in 1..Len(p.groups)
  <2> HIDE DEF w
  <2>1. \A j \in 1..m : ids[j] \in 1..Len(p.groups)
    OBVIOUS
  <2> QED
    BY <1>1, <2>1 DEF SplitSource
<1>3. /\ Pieces(p, h, ids) = [i \in 1..w |->
             {x \in p.groups[SplitSource(ids, i)] : h.split[p.round][x] = SplitIndex(i)}]
      /\ Pieces(q, h, ids) = [i \in 1..w |->
             {x \in q.groups[SplitSource(ids, i)] : h.split[p.round][x] = SplitIndex(i)}]
  BY <1>1 DEF Pieces
<1> HIDE DEF w
<1>4. Len(Pieces(p, h, ids)) = w /\ Len(Pieces(q, h, ids)) = w
  BY <1>1, <1>3
<1>5. \A i \in 1..w : k \in Pieces(p, h, ids)[i] <=> k \in Pieces(q, h, ids)[i]
  BY <1>2, <1>3 DEF SameAt
<1> QED
  BY <1>4, <1>5 DEF SameAt

LEMMA SameAtEquivalence ==
    ASSUME NEW k, NEW s, NEW t, SameAt(k, s, t)
    PROVE  /\ SameAt(k, t, s)
           /\ \A u : SameAt(k, t, u) => SameAt(k, s, u)
BY DEF SameAt

-------------------------------------------------------------------------------
(* A table after a split of the groups ids, and after a hint.              *)
AfterSplit(p, ids) == p.groups \o Pieces(p, hash, ids)
AfterHint(p, ids) == Behind(p.groups \o MovedGroups(p, ids), p.remaining)

LEMMA WithHintGroups ==
    ASSUME NEW p \in Pbs, Parallel(p), p.remaining <= Len(p.groups),
           NEW m \in Nat, NEW ids \in [1..m -> 1..Len(p.groups)]
    PROVE  WithHint(p, ids).groups = AfterHint(p, ids)
<1> DEFINE r == MoveGroups(p, ids)
           s == [r EXCEPT !.failed = << >>]
<1>1. /\ r \in Pbs /\ r.groups = p.groups \o MovedGroups(p, ids) /\ r.remaining = p.remaining
  BY MoveProperties DEF SameBesideTable
<1>2. WithHint(p, ids) = removeCompletedGroups_(s)
  BY DEF WithHint
<1> HIDE DEF r
<1>3. s \in Pbs /\ s.groups = r.groups /\ s.remaining = p.remaining
  <2>1. << >> \in Seq(Nat)
    BY EmptySeq
  <2> QED
    BY <1>1, <2>1 DEF Pbs
<1> HIDE DEF s
<1>4. removeCompletedGroups_(s).groups = Behind(s.groups, s.remaining)
  BY <1>3 DEF removeCompletedGroups_, Pbs
<1> QED
  BY <1>1, <1>2, <1>3, <1>4 DEF AfterHint

(* What a split makes of the groups. *)
LEMMA SplitGroups ==
    \A p \in Pbs : \A h, ids : threeWaySplit_(p, h, ids).groups = p.groups \o Pieces(p, h, ids)
BY DEF threeWaySplit_, AppendGroups, Pbs

LEMMA DecodeGroups ==
    ASSUME NEW p \in Pbs, NEW other
    PROVE  decode(p, hash, other).groups = AfterSplit(p, FailedIds(p, hash, other))
<1> DEFINE r == threeWaySplit_(p, hash, FailedIds(p, hash, other))
<1>1. r.groups = AfterSplit(p, FailedIds(p, hash, other))
  BY DEF threeWaySplit_, AppendGroups, AfterSplit, Pbs
<1>2. DOMAIN r = DOMAIN p
  BY DEF threeWaySplit_, AppendGroups
<1> HIDE DEF r
<1>3. decode(p, hash, other).groups = r.groups
  BY <1>2 DEF decode, Pbs, r
<1> QED
  BY <1>1, <1>3

(* Alice's check, for a key she does not recover: what was inserted is not *)
(* that key, and her table is what Bob's will be after her hint.           *)
LEMMA CheckGroups ==
    ASSUME NEW p \in Pbs, Parallel(p), Len(p.groups) = p.remaining,
           NEW dec \in DecodingMessage, Len(dec) = p.remaining,
           NEW k, \A g \in 1..p.remaining : k \notin Accepted(p, hash, dec, g),
           NEW other \in Pbs, other.remaining = p.remaining,
           SameAt(k, other.groups, AfterSplit(p, FailedGroups(p.remaining, dec)))
    PROVE  LET q == decodeCheck(p, hash, dec)
           IN  SameAt(k, q.groups, AfterHint(other, q.exceptions))
<1> DEFINE ids == FailedGroups(p.remaining, dec)
           exc == Ordered(ExceptionGroups(p, hash, dec))
           n == p.remaining
           a == InsertRecovered(p, hash, dec)
           b == threeWaySplit_(a, hash, ids)
           c == MoveGroups(b, exc)
           d == [c EXCEPT !.role = "Alice"]
           e == removeCompletedGroups_(d)
           q == decodeCheck(p, hash, dec)
<1>1. n \in Nat /\ IdList(ids, n) /\ IdList(exc, n)
  BY FailedGroupsIsIdList, OrderedIsIdList DEF Pbs, ExceptionGroups
<1>2. a \in Pbs /\ Parallel(a) /\ Len(a.groups) = n /\ SameBesideTable(p, a)
  BY <1>1, InsertProperties
<1>3. SameAt(k, a.groups, p.groups)
  <2>1. a.groups = [g \in 1..Len(p.groups) |->
                      IF g \in ExceptionGroups(p, hash, dec)
                      THEN p.groups[g] (+) Accepted(p, hash, dec, g) ELSE p.groups[g]]
    BY DEF InsertRecovered, Pbs
  <2>2. \A g \in 1..n : k \in a.groups[g] <=> k \in p.groups[g]
    BY <2>1 DEF (+)
  <2> QED
    BY <1>2, <2>2 DEF SameAt
<1>4. q = [e EXCEPT !.failed = ids, !.exceptions = exc,
                    !.recovered = Append(e.recovered, [g \in 1..p.remaining |-> Accepted(p, hash, dec, g)]),
                    !.round = e.round + 1]
  BY DEF decodeCheck
<1> HIDE DEF a, ids, exc, q
<1>5. /\ b \in Pbs /\ Parallel(b) /\ SameBesideTable(a, b)
      /\ b.groups = a.groups \o Pieces(a, hash, ids)
      /\ Len(b.groups) = n + PieceCount(ids)
      /\ SameAt(k, b.groups, other.groups)
  <2> DEFINE m == Len(ids)
  <2>1. n <= Len(a.groups) /\ m \in Nat /\ ids \in [1..m -> 1..n] /\ Len(a.groups) \in Nat
    BY <1>1, <1>2 DEF IdList
  <2>0. n \in Nat
    BY <1>1
  <2>2. a.round = p.round
    BY <1>2 DEF SameBesideTable
  <2> HIDE DEF m, n
  <2>3. b \in Pbs /\ Parallel(b)
    BY <1>2, <2>0, <2>1, SplitProperties
  <2>4. SameBesideTable(a, b)
    BY <1>2, <2>0, <2>1, SplitProperties
  <2>6. b.groups = a.groups \o Pieces(a, hash, ids)
    BY <1>2, SplitGroups
  <2>7. SameAt(k, Pieces(a, hash, ids), Pieces(p, hash, ids))
    BY <1>1, <1>3, <2>1, <2>2, SameAtPieces
  <2>8. /\ Pieces(a, hash, ids) \in Seq(SUBSET Key) /\ Pieces(p, hash, ids) \in Seq(SUBSET Key)
        /\ a.groups \in Seq(SUBSET Key) /\ p.groups \in Seq(SUBSET Key)
    <3>1. Splits * m \in Nat
      BY <2>1, SplitIndexing
    <3>2. Pieces(a, hash, ids) \in [1..(Splits * m) -> SUBSET Key]
      BY <1>1, <1>2, <2>1, PiecesType
    <3>3. n <= Len(p.groups)
      BY <1>1 DEF n
    <3>4. Pieces(p, hash, ids) \in [1..(Splits * m) -> SUBSET Key]
      BY <1>1, <2>1, <3>3, PiecesType
    <3> QED
      BY <1>2, <3>1, <3>2, <3>4, FunctionIsSeq DEF Pbs
  <2>5. Len(b.groups) = Len(a.groups) + PieceCount(ids)
    <3>1. Len(Pieces(a, hash, ids)) = PieceCount(ids)
      <4>1. PieceCount(ids) \in Nat
        BY <2>1, PieceCountIsNat DEF m
      <4> QED BY <4>1 DEF Pieces, PieceCount
    <3>2. \A s, t \in Seq(SUBSET Key) : Len(s \o t) = Len(s) + Len(t)
      BY ConcatProperties
    <3> HIDE DEF b
    <3> QED BY <2>6, <2>8, <3>1, <3>2
  <2>9. SameAt(k, b.groups, AfterSplit(p, ids))
    BY <1>3, <2>6, <2>7, <2>8, SameAtConcat DEF AfterSplit
  <2>10. SameAt(k, b.groups, other.groups)
    <3>1. SameAt(k, AfterSplit(p, ids), other.groups)
      BY SameAtEquivalence DEF ids
    <3> QED
      BY <2>9, <3>1, SameAtEquivalence
  <2> QED
    BY <1>2, <2>3, <2>4, <2>5, <2>6, <2>10
<1> HIDE DEF b
<1>6. PieceCount(ids) \in Nat /\ n <= Len(b.groups) /\ Len(b.groups) \in Nat
  <2>1. PieceCount(ids) \in Nat
    BY <1>1, PieceCountIsNat DEF IdList
  <2> QED
    BY <1>1, <1>5, <2>1
<1> DEFINE m == Len(exc)
<1>7. m \in Nat /\ exc \in [1..m -> 1..Len(b.groups)] /\ exc \in [1..m -> 1..Len(other.groups)]
  <2>1. Len(other.groups) = Len(b.groups)
    BY <1>5 DEF SameAt
  <2> QED
    BY <1>1, <1>6, <2>1 DEF IdList
<1> HIDE DEF m
<1>8. /\ c \in Pbs /\ c.groups = b.groups \o MovedGroups(b, exc) /\ SameBesideTable(b, c)
  BY <1>5, <1>7, MoveProperties
<1>9. SameAt(k, c.groups, other.groups \o MovedGroups(other, exc))
  <2>1. SameAt(k, MovedGroups(b, exc), MovedGroups(other, exc))
    BY <1>5, <1>7, SameAtMoved
  <2>2. MovedGroups(b, exc) \in Seq(SUBSET Key) /\ MovedGroups(other, exc) \in Seq(SUBSET Key)
    <3>1. MovedGroups(b, exc) \in [1..m -> SUBSET Key]
      BY <1>5, <1>7, MovedType
    <3>2. MovedGroups(other, exc) \in [1..m -> SUBSET Key]
      <4>1. other.groups \in Seq(SUBSET Key) /\ Len(exc) = m
        BY DEF Pbs, m
      <4>2. \A i \in 1..m : other.groups[exc[i]] \in SUBSET Key
        BY <1>7, <4>1, ElementOfSeq
      <4> QED
        BY <4>1, <4>2 DEF MovedGroups
    <3> QED
      BY <1>7, <3>1, <3>2, FunctionIsSeq
  <2>3. b.groups \in Seq(SUBSET Key) /\ other.groups \in Seq(SUBSET Key)
    BY <1>5 DEF Pbs
  <2>4. SameAt(k, b.groups \o MovedGroups(b, exc), other.groups \o MovedGroups(other, exc))
    BY <1>5, <2>1, <2>2, <2>3, SameAtConcat
  <2> QED
    BY <1>8, <2>4
<1> HIDE DEF c
<1>10. d \in Pbs /\ d.groups = c.groups /\ d.remaining = n
  <2>1. c.remaining = n
    BY <1>2, <1>5, <1>8 DEF SameBesideTable
  <2> QED
    BY <1>8, <2>1 DEF Pbs
<1> HIDE DEF d
<1>11. e.groups = Behind(c.groups, n) /\ DOMAIN e = DOMAIN d
  BY <1>10 DEF removeCompletedGroups_, Pbs
<1> HIDE DEF e
<1>12. q.groups = e.groups /\ q.exceptions = exc
  BY <1>4, <1>10, <1>11 DEF Pbs
<1>13. SameAt(k, Behind(c.groups, n), Behind(other.groups \o MovedGroups(other, exc), n))
  <2>1. c.groups \in Seq(SUBSET Key) /\ other.groups \o MovedGroups(other, exc) \in Seq(SUBSET Key)
    <3>1. other.groups \in Seq(SUBSET Key) /\ Len(exc) = m
      BY DEF Pbs, m
    <3>2. \A i \in 1..m : other.groups[exc[i]] \in SUBSET Key
      BY <1>7, <3>1, ElementOfSeq
    <3>3. MovedGroups(other, exc) \in [1..m -> SUBSET Key]
      BY <3>1, <3>2 DEF MovedGroups
    <3>4. MovedGroups(other, exc) \in Seq(SUBSET Key)
      BY <1>7, <3>3, FunctionIsSeq
    <3> QED
      BY <1>8, <3>1, <3>4, ConcatProperties DEF Pbs
  <2>2. n <= Len(c.groups)
    <3>1. Len(c.groups) = Len(b.groups) + m
      BY <1>5, <1>7, <1>9, <1>8, MoveProperties DEF c
    <3> QED
      BY <1>1, <1>6, <1>7, <3>1
  <2> HIDE DEF n
  <2> QED
    BY <1>1, <1>9, <2>1, <2>2, SameAtBehind
<1> QED
  BY <1>11, <1>12, <1>13 DEF AfterHint, q

-------------------------------------------------------------------------------
(* What a round adds to what has been recovered, key by key.               *)
LEMMA RecoveredGrows ==
    ASSUME NEW p \in Pbs, NEW q, NEW rec \in Seq(SUBSET Key),
           q.recovered = Append(p.recovered, rec), NEW k, k \notin EverRecovered(q)
    PROVE  /\ k \notin EverRecovered(p)
           /\ \A g \in 1..Len(rec) : k \notin rec[g]
<1> DEFINE old == p.recovered
           l == Len(old)
<1>1. old \in Seq(Seq(SUBSET Key)) /\ l \in Nat
  BY DEF Pbs
<1> HIDE DEF old, l
<1>2. /\ Len(Append(old, rec)) = l + 1
      /\ Append(old, rec)[l + 1] = rec
      /\ \A r \in 1..l : Append(old, rec)[r] = old[r]
  BY <1>1, AppendProperties DEF l
<1>3. q.recovered = Append(old, rec)
  BY DEF old
<1>4. \A r \in 1..(l + 1) : \A g \in 1..Len(q.recovered[r]) : k \notin q.recovered[r][g]
  BY <1>2, <1>3 DEF EverRecovered
<1>5. ASSUME NEW r \in 1..l
      PROVE  \A g \in 1..Len(old[r]) : k \notin old[r][g]
  <2>1. r \in 1..(l + 1) /\ q.recovered[r] = old[r]
    BY <1>1, <1>2, <1>3
  <2> QED
    BY <1>4, <2>1
<1>6. \A g \in 1..Len(rec) : k \notin rec[g]
  BY <1>1, <1>2, <1>3, <1>4
<1> QED
  BY <1>5, <1>6 DEF EverRecovered, old, l

(* The keys both have and Alice has not recovered, and where they are in   *)
(* the two tables, one side being ahead of the other by calls of the round.*)
CommonKeys == (setA \intersect setB) \ EverRecovered(alice)

CommonKeysMeet ==
    \A k \in CommonKeys :
        /\ phase \in {"aliceEncode", "bobEncode"} /\ bob.role = "Undetermined" =>
              SameAt(k, alice.groups, bob.groups)
        /\ phase \in {"aliceEncode", "bobEncode"} /\ bob.role = "Bob" =>
              SameAt(k, alice.groups, AfterHint(bob, Exceptions))
        /\ phase = "bobDecode" => SameAt(k, alice.groups, bob.groups)
        /\ phase = "aliceCheck" => SameAt(k, bob.groups, AfterSplit(alice, bob.failed))

LEMMA InitMeets == Init => CommonKeysMeet
<1> SUFFICES ASSUME Init, NEW k \in CommonKeys
             PROVE  SameAt(k, alice.groups, bob.groups)
  BY DEF Init, Construct, CommonKeysMeet
<1>1. NumGroups \in Nat
  BY SketchAssumption
<1>2. /\ alice.groups = [g \in 1..NumGroups |-> {x \in setA : getGroupId_(hash, x) = g}]
      /\ bob.groups = [g \in 1..NumGroups |-> {x \in setB : getGroupId_(hash, x) = g}]
  BY DEF Init, Construct, GroupId
<1> QED
  BY <1>1, <1>2 DEF SameAt, CommonKeys

LEMMA AliceEncodeMeets ==
    ASSUME InStep, CommonKeysMeet, AliceEncode
    PROVE  CommonKeysMeet'
<1>1. /\ alice \in Pbs /\ Parallel(alice) /\ phase = "aliceEncode"
      /\ alice' = [doEncode_(alice, hash) EXCEPT !.exceptions = << >>]
      /\ UNCHANGED <<setA, setB, hash, bob>> /\ phase' \in {"bobEncode", "aborted"}
      /\ phase' = "bobEncode" => hint' = alice.exceptions
  BY DEF InStep, TypeOK, Tables, AliceEncode, encode
<1> DEFINE q == doEncode_(alice, hash)
<1>2. q \in Pbs /\ q.groups = alice.groups /\ q.recovered = alice.recovered
  BY <1>1, EncodeProperties
<1> HIDE DEF q
<1>3. alice'.groups = alice.groups /\ alice'.recovered = alice.recovered
  BY <1>1, <1>2 DEF Pbs, q
<1>4. CommonKeys' = CommonKeys
  BY <1>1, <1>3 DEF CommonKeys, EverRecovered
<1>5. phase' = "bobEncode" => Exceptions' = Exceptions
  BY <1>1 DEF Exceptions
<1>6. phase' = "bobEncode" => AfterHint(bob, Exceptions)' = AfterHint(bob, Exceptions)
  BY <1>1, <1>5
<1> QED
  BY <1>1, <1>3, <1>4, <1>6 DEF CommonKeysMeet, SameAt

LEMMA BobEncodeMeets ==
    ASSUME InStep, CommonKeysMeet, BobEncode
    PROVE  CommonKeysMeet'
<1>1. /\ bob \in Pbs /\ Parallel(bob) /\ phase = "bobEncode" /\ bob.role = "Undetermined"
      /\ bob' = [doEncode_(bob, hash) EXCEPT !.exceptions = << >>]
      /\ UNCHANGED <<setA, setB, hash, alice>> /\ phase' = "bobDecode"
  BY DEF InStep, TypeOK, Tables, BobEncode, encode
<1> DEFINE q == doEncode_(bob, hash)
<1>2. q \in Pbs /\ q.groups = bob.groups
  BY <1>1, EncodeProperties
<1> HIDE DEF q
<1>3. bob'.groups = bob.groups
  BY <1>1, <1>2 DEF Pbs, q
<1>4. CommonKeys' = CommonKeys
  BY <1>1 DEF CommonKeys, EverRecovered
<1> QED
  BY <1>1, <1>3, <1>4 DEF CommonKeysMeet, SameAt

LEMMA BobEncodeWithHintMeets ==
    ASSUME InStep, CommonKeysMeet, BobEncodeWithHint
    PROVE  CommonKeysMeet'
<1>1. /\ bob \in Pbs /\ Parallel(bob) /\ bob.role = "Bob" /\ phase = "bobEncode"
      /\ Len(bob.groups) = bob.remaining + PieceCount(bob.failed)
      /\ IdList(hint, bob.remaining)
      /\ UNCHANGED <<setA, setB, hash, alice>>
  BY DEF InStep, TypeOK, Tables, BobBehind, Exceptions, BobEncodeWithHint, Pbs
<1>2. phase' \in {"aborted", "bobDecode"}
  BY DEF BobEncodeWithHint
<1> SUFFICES ASSUME phase' = "bobDecode" PROVE CommonKeysMeet'
  BY <1>2 DEF CommonKeysMeet
<1>3. bob' = doEncode_(WithHint(bob, hint), hash)
  BY DEF BobEncodeWithHint, encodeWithHint
<1> DEFINE m == Len(hint)
           n == bob.remaining
           f == PieceCount(bob.failed)
<1>4. m \in Nat /\ n \in Nat /\ f \in Nat
  BY <1>1, Counters DEF IdList
<1>5. hint \in [1..m -> 1..Len(bob.groups)] /\ n <= Len(bob.groups)
  <2>1. hint \in [1..m -> 1..n] /\ Len(bob.groups) = n + f
    BY <1>1 DEF IdList
  <2> HIDE DEF m, n, f
  <2>2. \A i \in 1..m : hint[i] \in 1..Len(bob.groups)
    BY <1>4, <2>1
  <2> QED
    BY <1>4, <2>1, <2>2
<1> DEFINE r == WithHint(bob, hint)
<1> HIDE DEF m, f
<1>6. r \in Pbs /\ Parallel(r)
  BY <1>1, <1>4, <1>5, WithHintProperties
<1>7. r.groups = AfterHint(bob, hint)
  BY <1>1, <1>4, <1>5, WithHintGroups
<1> HIDE DEF r
<1>8. bob'.groups = AfterHint(bob, hint)
  BY <1>3, <1>6, <1>7, EncodeProperties DEF r
<1>9. CommonKeys' = CommonKeys /\ Exceptions = hint
  BY <1>1 DEF CommonKeys, EverRecovered, Exceptions
<1> QED
  BY <1>1, <1>8, <1>9 DEF CommonKeysMeet

LEMMA BobDecodeMeets ==
    ASSUME InStep, CommonKeysMeet, BobDecode
    PROVE  CommonKeysMeet'
<1>1. /\ alice \in Pbs /\ Parallel(alice) /\ bob \in Pbs /\ Parallel(bob) /\ phase = "bobDecode"
      /\ Len(bob.groups) = bob.remaining /\ Len(alice.groups) = alice.remaining
      /\ alice.remaining = bob.remaining
      /\ Len(bob.sketches) = bob.remaining /\ Len(encoding) = bob.remaining
      /\ encoding \in Seq(SUBSET Bins) /\ bob.failed = << >> /\ alice.round = bob.round
      /\ bob' = decode(bob, hash, encoding) /\ phase' = "aliceCheck"
      /\ UNCHANGED <<setA, setB, hash, alice>>
  BY DEF InStep, TypeOK, Tables, BothEncoded, Aligned, BobDecode
<1> DEFINE ids == FailedIds(bob, hash, encoding)
           n == bob.remaining
           m == Len(ids)
<1>2. m \in Nat /\ n \in Nat /\ ids \in [1..m -> 1..n]
  <2>1. bob.remaining \in Nat
    BY <1>1 DEF Pbs
  <2> QED
    BY <1>1, <2>1, FailedIdsType
<1>3. bob'.failed = ids
  BY <1>1, DecodeProperties
<1>4. bob'.groups = bob.groups \o Pieces(bob, hash, ids)
  BY <1>1, DecodeGroups DEF AfterSplit
<1>5. CommonKeys' = CommonKeys
  BY <1>1 DEF CommonKeys, EverRecovered
<1> HIDE DEF ids, n, m
<1>6. ASSUME NEW k \in CommonKeys
      PROVE  SameAt(k, bob.groups \o Pieces(bob, hash, ids), AfterSplit(alice, ids))
  <2>1. SameAt(k, bob.groups, alice.groups)
    BY <1>1, <1>6, SameAtEquivalence DEF CommonKeysMeet
  <2>2. n <= Len(bob.groups) /\ n <= Len(alice.groups) /\ Len(bob.groups) \in Nat
    BY <1>1, <1>2 DEF n
  <2>3. SameAt(k, Pieces(bob, hash, ids), Pieces(alice, hash, ids))
    BY <1>1, <1>2, <2>1, <2>2, SameAtPieces
  <2>4. Splits * m \in Nat
    BY <1>2, SplitIndexing
  <2>5. Pieces(bob, hash, ids) \in [1..(Splits * m) -> SUBSET Key]
    BY <1>1, <1>2, <2>2, PiecesType
  <2>6. Pieces(alice, hash, ids) \in [1..(Splits * m) -> SUBSET Key]
    BY <1>1, <1>2, <2>2, PiecesType
  <2>7. Pieces(bob, hash, ids) \in Seq(SUBSET Key) /\ Pieces(alice, hash, ids) \in Seq(SUBSET Key)
    BY <2>4, <2>5, <2>6, FunctionIsSeq
  <2>8. bob.groups \in Seq(SUBSET Key) /\ alice.groups \in Seq(SUBSET Key)
    BY <1>1 DEF Pbs
  <2> QED
    BY <2>1, <2>3, <2>7, <2>8, SameAtConcat DEF AfterSplit
<1>7. AfterSplit(alice, bob.failed)' = AfterSplit(alice, ids)
  BY <1>1, <1>3 DEF AfterSplit, Pieces
<1>8. \A k \in CommonKeys' : SameAt(k, bob'.groups, AfterSplit(alice, bob.failed)')
  BY <1>4, <1>5, <1>6, <1>7
<1>9. ASSUME NEW k \in CommonKeys'
      PROVE  SameAt(k, bob.groups, AfterSplit(alice, bob.failed))'
  BY <1>8 DEF SameAt
<1> QED
  BY <1>1, <1>9 DEF CommonKeysMeet

LEMMA AliceCheckMeets ==
    ASSUME InStep, CommonKeysMeet, AliceCheck
    PROVE  CommonKeysMeet'
<1>1. /\ alice \in Pbs /\ Parallel(alice) /\ Len(alice.groups) = alice.remaining
      /\ decoding \in DecodingMessage /\ Len(decoding) = alice.remaining
      /\ bob \in Pbs /\ bob.role = "Bob" /\ bob.remaining = alice.remaining
      /\ bob.failed = FailedGroups(alice.remaining, decoding)
      /\ alice' = decodeCheck(alice, hash, decoding) /\ phase = "aliceCheck"
      /\ UNCHANGED <<setA, setB, hash, bob>> /\ phase' \in {"done", "aliceEncode"}
  BY DEF InStep, TypeOK, Tables, AliceBehind, AliceCheck
<1> DEFINE n == alice.remaining
           rec == [g \in 1..n |-> Accepted(alice, hash, decoding, g)]
<1>2. n \in Nat /\ rec \in Seq(SUBSET Key) /\ Len(rec) = n
  <2>1. n \in Nat
    BY <1>1 DEF Pbs
  <2>2. \A g \in 1..n : Accepted(alice, hash, decoding, g) \in SUBSET Key
    BY <1>1, <2>1, AcceptedProperties
  <2>3. rec \in [1..n -> SUBSET Key]
    BY <2>2
  <2> HIDE DEF rec, n
  <2> QED
    BY <2>1, <2>3, FunctionIsSeq
<1>3. alice'.recovered = Append(alice.recovered, rec)
  BY <1>1, CheckRecovers
<1>4. ASSUME NEW k \in CommonKeys'
      PROVE  k \in CommonKeys /\ SameAt(k, alice'.groups, AfterHint(bob, alice'.exceptions))
  <2>1. k \notin EverRecovered(alice')
    BY <1>4 DEF CommonKeys
  <2> HIDE DEF rec
  <2>2. k \notin EverRecovered(alice) /\ \A g \in 1..Len(rec) : k \notin rec[g]
    BY <1>1, <1>2, <1>3, <2>1, RecoveredGrows
  <2>3. k \in CommonKeys
    BY <1>1, <1>4, <2>2 DEF CommonKeys
  <2>4. \A g \in 1..n : k \notin Accepted(alice, hash, decoding, g)
    BY <1>2, <2>2 DEF rec
  <2>5. SameAt(k, bob.groups, AfterSplit(alice, FailedGroups(alice.remaining, decoding)))
    BY <1>1, <2>3 DEF CommonKeysMeet
  <2> QED
    BY <1>1, <2>3, <2>4, <2>5, CheckGroups
<1>5. phase' = "aliceEncode" => Exceptions' = alice'.exceptions
  BY DEF Exceptions
<1> QED
  BY <1>1, <1>4, <1>5 DEF CommonKeysMeet, AfterHint, MovedGroups

LEMMA StutteringMeets ==
    ASSUME CommonKeysMeet, UNCHANGED vars
    PROVE  CommonKeysMeet'
<1>1. UNCHANGED <<setA, setB, alice, bob, phase, hint, hash>>
  BY DEF vars
<1>2. CommonKeys' = CommonKeys /\ Exceptions' = Exceptions
  BY <1>1 DEF CommonKeys, EverRecovered, Exceptions
<1> QED
  BY <1>1, <1>2 DEF CommonKeysMeet, AfterHint, AfterSplit, MovedGroups, Pieces

(* A key both sides have and Alice has not recovered is in the same groups *)
(* of both tables, so that it cancels from what Bob decodes.               *)
THEOREM CommonKeysAlwaysCancel == Spec => []CommonKeysCancel
<1>1. InStep /\ CommonKeysMeet => CommonKeysCancel
  BY DEF InStep, Tables, BothEncoded, Aligned, CommonKeysMeet, CommonKeysCancel, CommonKeys,
         SameAt
<1>2. InStep /\ CommonKeysMeet /\ [Next]_vars => CommonKeysMeet'
  BY AliceEncodeMeets, BobEncodeMeets, BobEncodeWithHintMeets, BobDecodeMeets,
     AliceCheckMeets, StutteringMeets DEF Next, Stopped
<1> QED
  BY <1>1, <1>2, InitMeets, StaysInStep, PTL DEF Spec

-------------------------------------------------------------------------------
(* The keys of S in bin b of round r, and the bitmap of S in round r.      *)
Binned(r, S, b) == {k \in S : hash.bin[r][k] = b}
OddBins(r, S) == {b \in Bins : IsOdd(Cardinality(Binned(r, S, b)))}

LEMMA XorFacts ==
    /\ \A x, y : x (+) y = y (+) x
    /\ \A x, y : x (+) (x (+) y) = y
    /\ \A x, y, z : z \in x (+) y => z \in x \/ z \in y
<1>1. \A x, y : x (+) y = y (+) x
  BY Zenon DEF (+)
<1>2. \A x, y : x (+) (x (+) y) = y
  BY DEF (+)
<1>3. \A x, y, z : z \in x (+) y => z \in x \/ z \in y
  BY DEF (+)
<1> QED
  BY <1>1, <1>2, <1>3

(* The bitmap, and the XOR of a bin, of the keys that two groups differ by *)
(* are the differences of the bitmaps and of the XORs.                     *)
LEMMA BinnedDifference ==
    ASSUME NEW r, NEW S \in SUBSET Key, NEW T \in SUBSET Key
    PROVE  /\ OddBins(r, S (+) T) = OddBins(r, S) (+) OddBins(r, T)
           /\ \A b : XorSum(Binned(r, S (+) T, b)) =
                        XorSum(Binned(r, S, b)) (+) XorSum(Binned(r, T, b))
<1>1. ASSUME NEW b
      PROVE  /\ Binned(r, S (+) T, b) = Binned(r, S, b) (+) Binned(r, T, b)
             /\ IsFiniteSet(Binned(r, S, b)) /\ IsFiniteSet(Binned(r, T, b))
  <2>1. Binned(r, S (+) T, b) = Binned(r, S, b) (+) Binned(r, T, b)
    BY Zenon DEF Binned, (+)
  <2>2. Binned(r, S, b) \in SUBSET Key /\ Binned(r, T, b) \in SUBSET Key
    BY DEF Binned
  <2> QED
    BY <2>1, <2>2, KeysAreFinite
<1>2. \A b : XorSum(Binned(r, S (+) T, b)) =
                XorSum(Binned(r, S, b)) (+) XorSum(Binned(r, T, b))
  BY <1>1, XorSumOfDifference
<1>3. \A b : IsOdd(Cardinality(Binned(r, S (+) T, b))) <=>
                ~(IsOdd(Cardinality(Binned(r, S, b))) <=> IsOdd(Cardinality(Binned(r, T, b))))
  BY <1>1, OddDifference
<1>4. OddBins(r, S (+) T) = OddBins(r, S) (+) OddBins(r, T)
  BY <1>3, Zenon DEF OddBins, (+)
<1> QED
  BY <1>2, <1>4

(* Keys that are each alone in their bin are found by the bits that are    *)
(* set, of which there are no more than keys.                              *)
LEMMA AloneInTheirBins ==
    ASSUME hash \in Hash, NEW r \in Rounds, NEW D \in SUBSET Key,
           \A k, l \in D : k # l => hash.bin[r][k] # hash.bin[r][l]
    PROVE  /\ OddBins(r, D) = {hash.bin[r][k] : k \in D}
           /\ \A k \in D : Binned(r, D, hash.bin[r][k]) = {k}
           /\ Cardinality(OddBins(r, D)) <= Cardinality(D)
<1>1. \A k \in D : hash.bin[r][k] \in Bins
  BY DEF Hash
<1>2. \A k \in D : Binned(r, D, hash.bin[r][k]) = {k}
  BY DEF Binned
<1>3. ASSUME NEW b \in Bins
      PROVE  b \in OddBins(r, D) <=> \E k \in D : hash.bin[r][k] = b
  <2>1. CASE \E k \in D : hash.bin[r][k] = b
    <3>1. PICK k \in D : hash.bin[r][k] = b
      BY <2>1
    <3>2. Cardinality(Binned(r, D, b)) = 1
      BY <1>2, <3>1, FS_Singleton
    <3> QED
      BY <3>1, <3>2 DEF OddBins, IsOdd
  <2>2. CASE ~ \E k \in D : hash.bin[r][k] = b
    <3>1. Binned(r, D, b) = {}
      BY <2>2 DEF Binned
    <3>2. Cardinality(Binned(r, D, b)) = 0
      BY <3>1, FS_EmptySet
    <3> QED
      BY <2>2, <3>2 DEF OddBins, IsOdd
  <2> QED
    BY <2>1, <2>2
<1>4. OddBins(r, D) = {hash.bin[r][k] : k \in D}
  <2>1. OddBins(r, D) \subseteq Bins
    BY DEF OddBins
  <2> QED
    BY <1>1, <1>3, <2>1
<1>5. Cardinality(OddBins(r, D)) <= Cardinality(D)
  <2> DEFINE f == [k \in D |-> hash.bin[r][k]]
  <2>1. f \in Surjection(D, OddBins(r, D))
    BY <1>4 DEF Surjection
  <2>2. IsFiniteSet(D)
    BY KeysAreFinite
  <2> QED
    BY <2>1, <2>2, FS_Surjection
<1> QED
  BY <1>2, <1>4, <1>5

(* A sketch of this round is the bitmap of its group.                      *)
Sketched(p) == \A g \in 1..p.remaining : p.sketches[g] = OddBins(p.round, p.groups[g])

(* What Bob's message says of group g is what it holds on both sides.      *)
Outcomes(g) ==
    hash.decode[OddBins(alice.round, bob.groups[g]) (+) OddBins(alice.round, alice.groups[g])]

Told(g) ==
    /\ decoding[g].ok = Outcomes(g).ok
    /\ decoding[g].at = Outcomes(g).at
    /\ Outcomes(g).ok => decoding[g].sum = XorSum(bob.groups[g])
    /\ \A b \in Outcomes(g).at \intersect Bins :
          decoding[g].xors[b] = XorSum(Binned(alice.round, bob.groups[g], b))

MessagesTell ==
    /\ phase \in {"bobEncode", "bobDecode"} => encoding = alice.sketches /\ Sketched(alice)
    /\ phase = "bobDecode" => Sketched(bob)
    /\ phase = "aliceCheck" => FreshlyEncoded(alice) /\ \A g \in 1..alice.remaining : Told(g)
    /\ phase \in {"bobEncode", "bobDecode", "aliceCheck"} => alice.round \in Rounds

LEMMA EncodingSketches ==
    ASSUME NEW p \in Pbs, Parallel(p)
    PROVE  Sketched(doEncode_(p, hash))
<1> DEFINE q == doEncode_(p, hash)
<1>1. q.groups = p.groups /\ q.remaining = p.remaining /\ q.round = p.round
  BY EncodeProperties
<1>2. q.sketches = [g \in 1..p.remaining |->
                       {b \in Bins : IsOdd(Cardinality(KeysInBin(p, hash, g, b)))}]
  BY DEF doEncode_, Pbs
<1> HIDE DEF q
<1>3. \A g, b : KeysInBin(p, hash, g, b) = Binned(p.round, p.groups[g], b)
  BY DEF KeysInBin, Binned, getBinId_
<1> QED
  BY <1>1, <1>2, <1>3 DEF Sketched, OddBins, q

(* Where the code's good case happens, Alice recovers the difference of a  *)
(* group and its checksums agree.                                          *)
LEMMA CleanGroup ==
    ASSUME InStep, MessagesTell, phase = "aliceCheck",
           NEW g \in 1..alice.remaining,
           Cardinality(LeftIn(g)) <= BchT,
           \A k, l \in LeftIn(g) :
              k # l => getBinId_(alice, hash, k) # getBinId_(alice, hash, l)
    PROVE  /\ decoding[g].ok
           /\ Accepted(alice, hash, decoding, g) = LeftIn(g)
           /\ ~ChecksumFails(alice, hash, decoding, g)
<1> DEFINE r == alice.round
           A == alice.groups[g]
           B == bob.groups[g]
           D == LeftIn(g)
           s == OddBins(r, D)
<1>1. /\ alice \in Pbs /\ bob \in Pbs /\ hash \in Hashes /\ IsHash(hash) /\ hash \in Hash
      /\ r \in Rounds /\ Told(g) /\ FreshlyEncoded(alice)
      /\ InOriginalGroup(alice, hash) /\ InOriginalGroup(bob, hash)
      /\ Len(alice.groups) = alice.remaining /\ bob.remaining = alice.remaining
      /\ Len(bob.groups) = bob.remaining + PieceCount(bob.failed)
      /\ bob.origin = alice.origin \o PieceOrigins(alice, bob.failed)
      /\ Len(alice.origin) = alice.remaining
      /\ bob.failed = FailedGroups(alice.remaining, decoding)
  BY ProtocolAssumption, HashIsHash
     DEF InStep, TypeOK, Tables, Parallel, PiecesOfOriginalGroup, AliceBehind, MessagesTell
<1>2. /\ alice.remaining \in Nat /\ PieceCount(bob.failed) \in Nat
      /\ g \in 1..Len(alice.groups) /\ g \in 1..Len(bob.groups)
  <2>1. alice.remaining \in Nat /\ PieceCount(bob.failed) \in Nat
    BY <1>1, Counters
  <2> QED
    BY <1>1, <2>1
<1>3. A \in SUBSET Key /\ B \in SUBSET Key /\ D \in SUBSET Key
  <2>1. alice.groups \in Seq(SUBSET Key) /\ bob.groups \in Seq(SUBSET Key)
    BY <1>1 DEF Pbs
  <2>2. A \in SUBSET Key /\ B \in SUBSET Key
    BY <1>2, <2>1, ElementOfSeq
  <2> QED
    BY <2>2 DEF LeftIn, (+)
<1>4. D = A (+) B
  BY DEF LeftIn
<1>5. \A k, l \in D : k # l => hash.bin[r][k] # hash.bin[r][l]
  BY DEF getBinId_
<1> HIDE DEF D, r
<1>6. /\ s = {hash.bin[r][k] : k \in D}
      /\ \A k \in D : Binned(r, D, hash.bin[r][k]) = {k}
      /\ Cardinality(s) <= Cardinality(D)
  BY <1>1, <1>3, <1>5, AloneInTheirBins
<1>7. Outcomes(g) = [ok |-> TRUE, at |-> s]
  <2>1. OddBins(r, B) (+) OddBins(r, A) = s
    BY <1>3, <1>4, BinnedDifference, XorFacts
  <2>2. s \in SUBSET Bins
    BY DEF OddBins
  <2>3. Cardinality(s) <= BchT
    <3>1. Cardinality(s) \in Nat /\ Cardinality(D) \in Nat
      <4>1. IsFiniteSet(D)
        BY <1>3, KeysAreFinite
      <4>2. IsFiniteSet(Bins)
        BY SketchAssumption, FS_Interval DEF Bins
      <4>3. IsFiniteSet(s)
        BY <2>2, <4>2, FS_Subset
      <4> QED
        BY <4>1, <4>3, FS_CardinalityType
    <3>2. Cardinality(D) <= BchT
      BY DEF D
    <3> QED
      BY <1>6, <3>1, <3>2, SketchAssumption
  <2>4. hash.decode[s] \in {[ok |-> TRUE, at |-> s]}
    BY <1>1, <2>2, <2>3 DEF IsHash, DecodeOutcomes
  <2> QED
    BY <2>1, <2>4 DEF Outcomes, r
<1>8. /\ decoding[g].ok /\ decoding[g].at = s /\ decoding[g].sum = XorSum(B)
      /\ \A b \in s : decoding[g].xors[b] = XorSum(Binned(r, B, b))
  <2>1. s \subseteq Bins
    BY DEF OddBins
  <2> QED
    BY <1>1, <1>7, <2>1 DEF Told, r
<1> HIDE DEF s
<1>9. \A b \in s : Candidate(alice, decoding, g, b) = XorSum(Binned(r, D, b))
  <2> TAKE b \in s
  <2>1. b \in Bins
    BY DEF s, OddBins
  <2>2. XorAt(alice, g, b, {}) = XorSum(Binned(r, A, b))
    BY <1>1, <2>1 DEF XorAt, FreshlyEncoded, KeysInBin, Binned, getBinId_, r
  <2>3. XorSum(Binned(r, A (+) B, b)) = XorSum(Binned(r, A, b)) (+) XorSum(Binned(r, B, b))
    <3>1. \A c : XorSum(Binned(r, A (+) B, c)) = XorSum(Binned(r, A, c)) (+) XorSum(Binned(r, B, c))
      BY <1>3, BinnedDifference
    <3> QED
      BY <3>1
  <2> QED
    BY <1>4, <1>8, <2>2, <2>3, XorFacts DEF Candidate
<1>10. \A k \in D : /\ hash.bin[r][k] \in s
                    /\ Candidate(alice, decoding, g, hash.bin[r][k]) = k
                    /\ Accepts(alice, hash, decoding, g, hash.bin[r][k])
  <2> TAKE k \in D
  <2>1. hash.bin[r][k] \in s
    BY <1>6
  <2>2. Candidate(alice, decoding, g, hash.bin[r][k]) = k
    BY <1>3, <1>6, <1>9, <2>1, XorSumOfOne
  <2>3. getGroupId_(hash, k) = alice.origin[g]
    <3>1. k \in A \/ k \in B
      BY <1>4, XorFacts
    <3>2. CASE k \in A
      BY <1>1, <1>2, <3>2 DEF InOriginalGroup
    <3>3. CASE k \in B
      <4>1. getGroupId_(hash, k) = bob.origin[g]
        BY <1>1, <1>2, <3>3 DEF InOriginalGroup
      <4>2. bob.origin[g] = alice.origin[g]
        <5>1. alice.origin \in Seq(GroupId) /\ g \in 1..Len(alice.origin)
          BY <1>1, <1>2 DEF Pbs
        <5>2. PieceOrigins(alice, bob.failed) \in Seq(GroupId)
          <6> DEFINE m == Len(bob.failed)
                     ids == bob.failed
          <6>1. IdList(ids, alice.remaining)
            BY <1>1, <1>2, FailedGroupsIsIdList
          <6>2. m \in Nat /\ ids \in [1..m -> 1..alice.remaining]
            BY <6>1 DEF IdList
          <6>3. Parallel(alice) /\ alice.remaining <= Len(alice.groups)
            BY <1>1, <1>2 DEF InStep, Tables
          <6> HIDE DEF m, ids
          <6>4. Splits * m \in Nat /\ PieceOrigins(alice, ids) \in [1..(Splits * m) -> GroupId]
            BY <1>1, <1>2, <6>2, <6>3, PiecesType
          <6> QED
            BY <6>4, FunctionIsSeq DEF ids
        <5>3. (alice.origin \o PieceOrigins(alice, bob.failed))[g] = alice.origin[g]
          <6>1. ASSUME NEW S, NEW u \in Seq(S), NEW v \in Seq(S), g \in 1..Len(u)
                PROVE  (u \o v)[g] = u[g]
            <7>1. g \in 1..(Len(u) + Len(v)) /\ g <= Len(u)
              BY <6>1
            <7> QED
              BY <6>1, <7>1, ConcatProperties
          <6> QED
            BY <5>1, <5>2, <6>1
        <5> QED
          BY <1>1, <5>3
      <4> QED
        BY <4>1, <4>2
    <3> QED
      BY <3>1, <3>2, <3>3
  <2> QED
    BY <2>1, <2>2, <2>3 DEF Accepts, getBinId_, r
<1>11. Accepted(alice, hash, decoding, g) = D
  <2>1. \A b \in s : \E k \in D : hash.bin[r][k] = b
    BY <1>6
  <2> QED
    BY <1>8, <1>10, <2>1 DEF Accepted
<1>12. ~ChecksumFails(alice, hash, decoding, g)
  <2>1. alice.checksums[g] = XorSum(A)
    BY <1>1 DEF FreshlyEncoded
  <2>2. XorSum(D) = XorSum(A) (+) XorSum(B)
    BY <1>3, <1>4, KeysAreFinite, XorSumOfDifference
  <2>3. XorSum(A) (+) XorSum(D) = XorSum(B)
    BY <2>2, XorFacts
  <2> QED
    BY <1>8, <1>11, <2>1, <2>3 DEF ChecksumFails
<1> QED
  BY <1>8, <1>11, <1>12 DEF D

(* Then no group is left, and the last round of what is recovered is the   *)
(* difference of every group.                                              *)
LEMMA CleanCheck ==
    ASSUME InStep, MessagesTell, AliceCheck, CleanRound
    PROVE  /\ phase' = "done"
           /\ \A g \in 1..alice.remaining :
                 alice'.recovered[Len(alice'.recovered)][g] = LeftIn(g)
<1> DEFINE n == alice.remaining
           rec == [g \in 1..n |-> Accepted(alice, hash, decoding, g)]
<1>1. /\ alice \in Pbs /\ Parallel(alice) /\ Len(alice.groups) = n
      /\ decoding \in DecodingMessage /\ Len(decoding) = n /\ phase = "aliceCheck"
      /\ alice' = decodeCheck(alice, hash, decoding)
      /\ phase' = IF alice'.remaining = 0 THEN "done" ELSE "aliceEncode"
  BY DEF InStep, TypeOK, Tables, AliceBehind, AliceCheck, decodeCheckCompletes
<1>2. \A g \in 1..n : /\ decoding[g].ok
                      /\ Accepted(alice, hash, decoding, g) = LeftIn(g)
                      /\ ~ChecksumFails(alice, hash, decoding, g)
  BY <1>1, CleanGroup DEF CleanRound
<1>3. phase' = "done"
  <2>1. FailedGroups(n, decoding) = Ordered({}) /\ ExceptionGroups(alice, hash, decoding) = {}
    BY <1>2 DEF FailedGroups, ExceptionGroups
  <2>2. Len(Ordered({})) = 0
    BY FS_EmptySet DEF Ordered
  <2>3. /\ alice'.remaining = PieceCount(FailedGroups(n, decoding)) + Len(alice'.exceptions)
        /\ alice'.exceptions = Ordered(ExceptionGroups(alice, hash, decoding))
    <3> DEFINE q == decodeCheck(alice, hash, decoding)
    <3>1. q.remaining = PieceCount(FailedGroups(n, decoding)) + Len(q.exceptions)
      BY <1>1, CheckProperties
    <3>2. q.exceptions = Ordered(ExceptionGroups(alice, hash, decoding))
      BY <1>1, CheckRecovers
    <3> HIDE DEF q
    <3> QED
      BY <1>1, <3>1, <3>2 DEF q
  <2>4. PieceCount(Ordered({})) = 0
    BY <2>2, PieceCountIsNat
  <2> QED
    BY <1>1, <2>1, <2>2, <2>3, <2>4
<1>4. alice'.recovered = Append(alice.recovered, rec)
  BY <1>1, CheckRecovers
<1>5. alice'.recovered[Len(alice'.recovered)] = rec
  <2>1. n \in Nat /\ \A g \in 1..n : Accepted(alice, hash, decoding, g) \in SUBSET Key
    <3>1. n \in Nat
      BY <1>1 DEF Pbs
    <3> QED
      BY <1>1, <3>1, AcceptedProperties
  <2>2. rec \in [1..n -> SUBSET Key]
    BY <2>1
  <2> HIDE DEF rec, n
  <2>3. rec \in Seq(SUBSET Key) /\ alice.recovered \in Seq(Seq(SUBSET Key))
    BY <1>1, <2>1, <2>2, FunctionIsSeq DEF Pbs
  <2> QED
    BY <1>4, <2>3, AppendProperties
<1> QED
  BY <1>2, <1>3, <1>5

-------------------------------------------------------------------------------
(* The messages of a round tell what the tables hold.                      *)
LEMMA AliceEncodeTells ==
    ASSUME InStep, AliceEncode
    PROVE  MessagesTell'
<1>1. /\ alice \in Pbs /\ Parallel(alice) /\ alice.round \in Nat /\ alice.round < MaxRounds
      /\ alice' = [doEncode_(alice, hash) EXCEPT !.exceptions = << >>]
      /\ UNCHANGED hash /\ phase' \in {"bobEncode", "aborted"}
      /\ phase' = "bobEncode" => encoding' = alice'.sketches
  BY DEF InStep, TypeOK, Tables, AliceEncode, encode, Pbs
<1> DEFINE q == doEncode_(alice, hash)
<1>2. q \in Pbs /\ q.round = alice.round /\ Sketched(q)
  BY <1>1, EncodeProperties, EncodingSketches
<1> HIDE DEF q
<1>3. /\ alice'.groups = q.groups /\ alice'.remaining = q.remaining
      /\ alice'.round = q.round /\ alice'.sketches = q.sketches
  BY <1>1, <1>2 DEF Pbs, q
<1>4. Sketched(alice)'
  BY <1>1, <1>2, <1>3 DEF Sketched, OddBins, Binned
<1>5. alice'.round \in Rounds
  BY <1>1, <1>2, <1>3, SketchAssumption DEF Rounds
<1> QED
  BY <1>1, <1>4, <1>5 DEF MessagesTell

LEMMA BobEncodeTells ==
    ASSUME InStep, MessagesTell, BobEncode
    PROVE  MessagesTell'
<1>1. /\ bob \in Pbs /\ Parallel(bob) /\ phase = "bobEncode"
      /\ bob' = [doEncode_(bob, hash) EXCEPT !.exceptions = << >>]
      /\ UNCHANGED <<hash, alice, encoding>> /\ phase' = "bobDecode"
  BY DEF InStep, TypeOK, Tables, BobEncode, encode
<1> DEFINE q == doEncode_(bob, hash)
<1>2. q \in Pbs /\ Sketched(q)
  BY <1>1, EncodeProperties, EncodingSketches
<1> HIDE DEF q
<1>3. /\ bob'.groups = q.groups /\ bob'.remaining = q.remaining
      /\ bob'.round = q.round /\ bob'.sketches = q.sketches
  BY <1>1, <1>2 DEF Pbs, q
<1>4. Sketched(bob)' /\ (Sketched(alice) => Sketched(alice)')
  BY <1>1, <1>2, <1>3 DEF Sketched, OddBins, Binned
<1> QED
  BY <1>1, <1>4 DEF MessagesTell

LEMMA BobEncodeWithHintTells ==
    ASSUME InStep, MessagesTell, BobEncodeWithHint
    PROVE  MessagesTell'
<1>1. /\ bob \in Pbs /\ Parallel(bob) /\ bob.role = "Bob" /\ phase = "bobEncode"
      /\ Len(bob.groups) = bob.remaining + PieceCount(bob.failed)
      /\ IdList(hint, bob.remaining)
      /\ UNCHANGED <<hash, alice, encoding>>
  BY DEF InStep, TypeOK, Tables, BobBehind, Exceptions, BobEncodeWithHint, Pbs
<1>2. phase' \in {"aborted", "bobDecode"}
  BY DEF BobEncodeWithHint
<1> SUFFICES ASSUME phase' = "bobDecode" PROVE MessagesTell'
  BY <1>2 DEF MessagesTell
<1>3. bob' = doEncode_(WithHint(bob, hint), hash)
  BY DEF BobEncodeWithHint, encodeWithHint
<1> DEFINE m == Len(hint)
           n == bob.remaining
           f == PieceCount(bob.failed)
<1>4. m \in Nat /\ n \in Nat /\ f \in Nat
  BY <1>1, Counters DEF IdList
<1>5. hint \in [1..m -> 1..Len(bob.groups)] /\ n <= Len(bob.groups)
  <2>1. hint \in [1..m -> 1..n] /\ Len(bob.groups) = n + f
    BY <1>1 DEF IdList
  <2> HIDE DEF m, n, f
  <2>2. \A i \in 1..m : hint[i] \in 1..Len(bob.groups)
    BY <1>4, <2>1
  <2> QED
    BY <1>4, <2>1, <2>2
<1> DEFINE r == WithHint(bob, hint)
<1> HIDE DEF m, f
<1>6. r \in Pbs /\ Parallel(r)
  BY <1>1, <1>4, <1>5, WithHintProperties
<1> HIDE DEF r
<1>7. Sketched(doEncode_(r, hash))
  BY <1>6, EncodingSketches
<1>8. Sketched(bob)' /\ (Sketched(alice) => Sketched(alice)')
  BY <1>1, <1>3, <1>7 DEF Sketched, OddBins, Binned, r
<1> QED
  BY <1>1, <1>8 DEF MessagesTell

LEMMA BobDecodeTells ==
    ASSUME InStep, FreshRows, MessagesTell, BobDecode
    PROVE  MessagesTell'
<1> DEFINE n == bob.remaining
<1>1. /\ bob \in Pbs /\ phase = "bobDecode" /\ phase' = "aliceCheck"
      /\ Len(bob.groups) = n /\ alice.remaining = n /\ alice.round = bob.round
      /\ encoding = alice.sketches /\ Sketched(alice) /\ Sketched(bob)
      /\ FreshlyEncoded(alice) /\ FreshlyEncoded(bob) /\ alice.round \in Rounds
      /\ bob' = decode(bob, hash, encoding)
      /\ UNCHANGED <<hash, alice>>
  BY DEF InStep, TypeOK, Tables, BothEncoded, Aligned, FreshRows, MessagesTell, BobDecode
<1>2. PICK e \in Key : decoding' = decodeMessage(bob, hash, encoding, e)
  <2>1. {} \in Key
    BY DEF Key
  <2> QED
    BY <2>1 DEF BobDecode
<1>3. \A g \in 1..n : bob'.groups[g] = bob.groups[g]
  <2> DEFINE ids == FailedIds(bob, hash, encoding)
             m == Len(ids)
  <2>1. bob'.groups = bob.groups \o Pieces(bob, hash, ids)
    BY <1>1, DecodeGroups DEF AfterSplit
  <2>2. n \in Nat /\ m \in Nat /\ ids \in [1..m -> 1..n]
    <3>1. n \in Nat
      BY <1>1 DEF Pbs
    <3> QED
      BY <1>1, <3>1, FailedIdsType
  <2>3. Parallel(bob) /\ n <= Len(bob.groups)
    BY <1>1, <2>2 DEF InStep, Tables
  <2> HIDE DEF ids, m
  <2>4. Splits * m \in Nat /\ Pieces(bob, hash, ids) \in [1..(Splits * m) -> SUBSET Key]
    BY <1>1, <2>2, <2>3, PiecesType
  <2>5. Pieces(bob, hash, ids) \in Seq(SUBSET Key) /\ bob.groups \in Seq(SUBSET Key)
    BY <1>1, <2>4, FunctionIsSeq DEF Pbs
  <2>6. Len(Pieces(bob, hash, ids)) \in Nat
    BY <2>5
  <2>7. \A g \in 1..n : g \in 1..(Len(bob.groups) + Len(Pieces(bob, hash, ids))) /\ g <= Len(bob.groups)
    BY <1>1, <2>2, <2>6
  <2> QED
    BY <2>1, <2>5, <2>7, ConcatProperties
<1>4. ASSUME NEW g \in 1..n
      PROVE  Told(g)'
  <2> DEFINE out == DecodeOf(bob, hash, encoding, g)
  <2>1. out = Outcomes(g)
    BY <1>1 DEF DecodeOf, Outcomes, Sketched
  <2>2. Outcomes(g)' = Outcomes(g)
    BY <1>1, <1>3 DEF Outcomes, OddBins, Binned
  <2>3. /\ decoding'[g].ok = out.ok /\ decoding'[g].at = out.at
        /\ out.ok => decoding'[g].sum = bob.checksums[g]
        /\ \A b \in out.at : decoding'[g].xors[b] = XorAt(bob, g, b, e)
    BY <1>2 DEF decodeMessage
  <2> HIDE DEF out
  <2>4. bob.checksums[g] = XorSum(bob'.groups[g])
    BY <1>1, <1>3 DEF FreshlyEncoded
  <2>5. \A b \in Bins : XorAt(bob, g, b, e) = XorSum(Binned(alice.round, bob.groups[g], b))'
    BY <1>1, <1>3 DEF XorAt, FreshlyEncoded, KeysInBin, getBinId_, Binned
  <2>6. \A b \in Outcomes(g).at \intersect Bins :
           decoding'[g].xors[b] = XorSum(Binned(alice.round, bob.groups[g], b))'
    BY <2>1, <2>3, <2>5
  <2> QED
    BY <2>1, <2>2, <2>3, <2>4, <2>6 DEF Told
<1>5. FreshlyEncoded(alice)'
  BY <1>1 DEF FreshlyEncoded, KeysInBin, getBinId_
<1> QED
  BY <1>1, <1>4, <1>5 DEF MessagesTell

LEMMA StutteringTells ==
    ASSUME MessagesTell, UNCHANGED vars
    PROVE  MessagesTell'
<1>1. UNCHANGED <<hash, alice, bob, phase, encoding, decoding>>
  BY DEF vars
<1>2. Sketched(alice)' = Sketched(alice) /\ Sketched(bob)' = Sketched(bob)
  BY <1>1 DEF Sketched, OddBins, Binned
<1>3. FreshlyEncoded(alice)' = FreshlyEncoded(alice)
  BY <1>1 DEF FreshlyEncoded, KeysInBin, getBinId_
<1>4. ASSUME NEW g PROVE Told(g)' = Told(g)
  BY <1>1 DEF Told, Outcomes, OddBins, Binned
<1> QED
  BY <1>1, <1>2, <1>3, <1>4 DEF MessagesTell

(* MessagesTell is an invariant: a message tells what the tables hold.     *)
LEMMA MessagesTellHold == Spec => []MessagesTell
<1>1. Init => MessagesTell
  BY DEF Init, MessagesTell
<1>2. InStep /\ FreshRows /\ MessagesTell /\ [Next]_vars => MessagesTell'
  <2>1. ASSUME AliceCheck PROVE MessagesTell'
    BY <2>1 DEF AliceCheck, MessagesTell, decodeCheckCompletes
  <2> QED
    BY <2>1, AliceEncodeTells, BobEncodeTells, BobEncodeWithHintTells, BobDecodeTells,
       StutteringTells DEF Next, Stopped
<1> QED
  BY <1>1, <1>2, StaysInStep, FreshRowsHold, PTL DEF Spec

(* A round in which every group has few enough differences, each alone in  *)
(* its bin, is the last one: doDecodeCheck_ then accepts exactly the keys  *)
(* that were left in every group, and finds no exception.                  *)
THEOREM CleanRoundsComplete == Spec => CleanRoundCompletes
<1>1. InStep /\ MessagesTell /\ [Next]_vars =>
        [(phase = "aliceCheck" /\ CleanRound) =>
            /\ phase' = "done"
            /\ \A g \in 1..alice.remaining :
                  alice'.recovered[Len(alice'.recovered)][g] = LeftIn(g)]_vars
  <2>1. ASSUME InStep, MessagesTell, Next, phase = "aliceCheck", CleanRound, vars' # vars
        PROVE  AliceCheck
    BY <2>1 DEF Next, AliceEncode, BobEncode, BobEncodeWithHint, BobDecode, Stopped
  <2> QED
    BY <2>1, CleanCheck
<1> QED
  BY <1>1, MessagesTellHold, StaysInStep, PTL DEF Spec, CleanRoundCompletes

-------------------------------------------------------------------------------
(***************************************************************************)
(* Nothing is lost on the way of a reconciliation: in every original group *)
(* of PbsProtocol, the keys on one side only, the keys recovered an odd    *)
(* number of times and the keys the groups still differ by cancel under    *)
(* XOR, whatever is split, moved, inserted or wrongly decoded.             *)
(*                                                                         *)
(* Parities are Toggled(I, F), the keys in an odd number of the sets F[i], *)
(* i in I.  A split gives every key of a group to one piece, a             *)
(* move passes a group on, and an accepted group changes by what it is     *)
(* accepted for; Bob's table lags behind Alice's by the split and the      *)
(* moves he has not heard of, and BobTable is the table he will have.      *)
(***************************************************************************)

(* Lists of ids, and the pieces of a split.                                *)

(* The piece of group j that takes the keys of sub-group c. *)
LEMMA PiecePosition ==
    ASSUME NEW m \in Nat, NEW j \in 1..m, NEW c \in 0..(Splits - 1)
    PROVE  LET i == Splits * (j - 1) + c + 1
           IN  i \in 1..(Splits * m) /\ ((i - 1) \div Splits) + 1 = j /\ (i - 1) % Splits = c
<1> DEFINE t == Splits * (j - 1)
<1>1. Splits \in Nat /\ Splits > 0
  BY SketchAssumption
<1>2. t \in Nat
  BY <1>1
<1>3. t + Splits <= Splits * m
  <2>1. \E d \in Nat : m = j + d
    <3>1. m - j \in Nat /\ m = j + (m - j)
      OBVIOUS
    <3> QED BY <3>1
  <2>2. PICK d \in Nat : m = j + d
    BY <2>1
  <2>3. Splits * m = Splits * (j - 1) + Splits + Splits * d
    BY <1>1, <2>2
  <2>4. Splits * d \in Nat
    BY <1>1
  <2> QED BY <1>1, <1>2, <2>3, <2>4
<1>4. Splits * m \in Nat
  BY <1>1
<1>5. (t + c) \div Splits = j - 1 /\ (t + c) % Splits = c
  BY <1>1
<1> HIDE DEF t
<1>6. (t + c + 1) - 1 = t + c /\ t + c + 1 \in 1..(Splits * m)
  BY <1>1, <1>2, <1>3, <1>4
<1> QED BY <1>5, <1>6 DEF t

(* Pieces of the same group that take the same sub-group are the same.     *)
LEMMA PieceUnique ==
    ASSUME NEW w \in Nat, NEW i \in 1..w, NEW j \in 1..w,
           (i - 1) \div Splits = (j - 1) \div Splits, SplitIndex(i) = SplitIndex(j)
    PROVE  i = j
<1>1. Splits \in Nat /\ Splits > 0
  BY SketchAssumption
<1>2. \A x \in Nat : x = Splits * (x \div Splits) + (x % Splits)
  BY <1>1
<1>3. i - 1 \in Nat /\ j - 1 \in Nat
  OBVIOUS
<1>4. i - 1 = j - 1
  BY <1>2, <1>3 DEF SplitIndex
<1> QED BY <1>4

-------------------------------------------------------------------------------
(* The elements of the tables that decodeCheck leaves.                     *)

(* What a table of n groups of the round and w behind them becomes when    *)
(* the groups ids are moved and the round is over.                         *)
MovedElements(s, ids, n) ==
    /\ \A i \in 1..(Len(s) - n) : AfterMoves(s, ids, n)[i] = s[n + i]
    /\ \A j \in 1..Len(ids) : AfterMoves(s, ids, n)[(Len(s) - n) + j] = s[ids[j]]

LEMMA AfterMovesElements ==
    ASSUME NEW S, NEW s \in Seq(S), NEW n \in Nat, n <= Len(s),
           NEW ids, IdList(ids, n)
    PROVE  /\ AfterMoves(s, ids, n) \in Seq(S)
           /\ Len(AfterMoves(s, ids, n)) = Len(s) - n + Len(ids)
           /\ MovedElements(s, ids, n)
<1> DEFINE w == Len(s) - n
           e == Len(ids)
<1>0. w \in Nat /\ Len(s) = n + w /\ e \in Nat /\ ids \in [1..e -> 1..n]
  BY DEF IdList
<1> HIDE DEF w, e
<1> DEFINE t == [i \in 1..Len(ids) |-> s[ids[i]]]
<1>1. t \in Seq(S) /\ Len(t) = e /\ \A j \in 1..e : t[j] = s[ids[j]]
  <2>1. Len(ids) = e
    BY DEF e
  <2>2. \A j \in 1..e : ids[j] \in 1..Len(s)
    BY <1>0
  <2>3. \A j \in 1..e : s[ids[j]] \in S
    BY <2>2, ElementOfSeq
  <2>4. t \in [1..e -> S]
    BY <2>1, <2>3
  <2>5. \A j \in 1..e : t[j] = s[ids[j]]
    BY <2>1
  <2> HIDE DEF t
  <2> QED BY <1>0, <2>4, <2>5, FunctionIsSeq
<1> DEFINE u == s \o t
<1> HIDE DEF t
<1>2. /\ u \in Seq(S) /\ Len(u) = n + w + e
      /\ \A i \in 1..(n + w) : u[i] = s[i]
      /\ \A j \in 1..e : u[(n + w) + j] = t[j]
  <2>1. /\ u \in Seq(S) /\ Len(u) = Len(s) + Len(t)
        /\ \A i \in 1..Len(s) : u[i] = s[i]
        /\ \A j \in 1..Len(t) : u[Len(s) + j] = t[j]
    <3>1. t \in Seq(S)
      BY <1>1
    <3> QED BY <3>1
  <2> HIDE DEF u
  <2> QED BY <1>0, <1>1, <2>1
<1> HIDE DEF u
<1>3. /\ Behind(u, n) \in Seq(S) /\ Len(Behind(u, n)) = w + e
      /\ \A i \in 1..(w + e) : Behind(u, n)[i] = u[n + i]
  <2>1. n <= Len(u) /\ Len(u) - n = w + e /\ u \in Seq(S)
    BY <1>0, <1>2
  <2>2. /\ Behind(u, n) \in Seq(S) /\ Len(Behind(u, n)) = Len(u) - n
        /\ \A i \in 1..(Len(u) - n) : Behind(u, n)[i] = u[n + i]
    BY <2>1, BehindProperties
  <2> QED BY <2>1, <2>2
<1>4. AfterMoves(s, ids, n) = Behind(u, n)
  BY DEF AfterMoves, u, t
<1>5. ASSUME NEW i \in 1..w PROVE Behind(u, n)[i] = s[n + i]
  <2>1. i \in 1..(w + e) /\ n + i \in 1..(n + w)
    BY <1>0
  <2> QED BY <1>2, <1>3, <2>1
<1>6. ASSUME NEW j \in 1..e PROVE Behind(u, n)[w + j] = s[ids[j]]
  <2>1. w + j \in 1..(w + e) /\ n + (w + j) = (n + w) + j
    BY <1>0
  <2>2. Behind(u, n)[w + j] = u[(n + w) + j]
    BY <1>3, <2>1
  <2>3. u[(n + w) + j] = t[j] /\ t[j] = s[ids[j]]
    BY <1>1, <1>2
  <2> QED BY <2>2, <2>3
<1> QED BY <1>3, <1>4, <1>5, <1>6 DEF w, e, MovedElements

(* The groups after decodeCheck. *)
LEMMA CheckTable ==
    ASSUME NEW p \in Pbs, Parallel(p), Len(p.groups) = p.remaining, NEW h,
           NEW dec \in DecodingMessage, Len(dec) = p.remaining
    PROVE  LET a   == InsertRecovered(p, h, dec)
               ids == FailedGroups(p.remaining, dec)
               exc == Ordered(ExceptionGroups(p, h, dec))
           IN  decodeCheck(p, h, dec).groups =
                   AfterMoves(a.groups \o Pieces(a, h, ids), exc, p.remaining)
<1> DEFINE ids == FailedGroups(p.remaining, dec)
           exc == Ordered(ExceptionGroups(p, h, dec))
           n == p.remaining
           a == InsertRecovered(p, h, dec)
           b == threeWaySplit_(a, h, ids)
           c == MoveGroups(b, exc)
           d == [c EXCEPT !.role = "Alice"]
           e == removeCompletedGroups_(d)
           q == decodeCheck(p, h, dec)
<1>1. n \in Nat /\ IdList(ids, n) /\ IdList(exc, n)
  BY FailedGroupsIsIdList, OrderedIsIdList DEF Pbs, ExceptionGroups
<1>2. a \in Pbs /\ Parallel(a) /\ Len(a.groups) = n /\ a.remaining = n
  <2>1. SameBesideTable(p, a)
    BY <1>1, InsertProperties
  <2> QED BY <1>1, <2>1, InsertProperties DEF SameBesideTable
<1>3. q = [e EXCEPT !.failed = ids, !.exceptions = exc,
                    !.recovered = Append(e.recovered, [g \in 1..p.remaining |-> Accepted(p, h, dec, g)]),
                    !.round = e.round + 1]
  BY DEF decodeCheck
<1> HIDE DEF a, ids, exc, q
<1>4. b.groups = a.groups \o Pieces(a, h, ids) /\ b.remaining = n /\ DOMAIN b = DOMAIN a
  BY <1>2 DEF threeWaySplit_, AppendGroups, Pbs
<1>5. DOMAIN a = {"groups", "origin", "xors", "checksums", "sketches", "remaining", "round",
                  "role", "hintRange", "exceptions", "failed", "recovered"}
  BY <1>2 DEF Pbs
<1> HIDE DEF b
<1>6. c.groups = b.groups \o MovedGroups(b, exc) /\ c.remaining = n /\ DOMAIN c = DOMAIN a
  BY <1>4, <1>5 DEF MoveGroups, AppendGroups
<1> HIDE DEF c
<1>7. d.groups = c.groups /\ d.remaining = n /\ DOMAIN d = DOMAIN a
  BY <1>5, <1>6
<1> HIDE DEF d
<1>8. e.groups = Behind(d.groups, n) /\ DOMAIN e = DOMAIN a
  BY <1>5, <1>7 DEF removeCompletedGroups_
<1> HIDE DEF e
<1>9. q.groups = Behind(b.groups \o MovedGroups(b, exc), n)
  BY <1>3, <1>5, <1>6, <1>7, <1>8
<1>10. MovedGroups(b, exc) = [i \in 1..Len(exc) |-> b.groups[exc[i]]]
  BY <1>1, MovedOnce
<1> QED
  BY <1>4, <1>9, <1>10 DEF AfterMoves, a, ids, exc, q

(* Piece by piece, exception by exception.                                 *)
LEMMA CheckElements ==
    ASSUME NEW p \in Pbs, Parallel(p), Len(p.groups) = p.remaining, NEW h,
           NEW dec \in DecodingMessage, Len(dec) = p.remaining,
           NEW ids, ids = FailedGroups(p.remaining, dec),
           NEW exc, exc = Ordered(ExceptionGroups(p, h, dec)),
           NEW q, q = decodeCheck(p, h, dec)
    PROVE  /\ q.remaining = PieceCount(ids) + Len(exc)
           /\ \A i \in 1..PieceCount(ids) :
                 /\ q.groups[i] = Pieces(p, h, ids)[i]
                 /\ q.origin[i] = p.origin[SplitSource(ids, i)]
           /\ \A j \in 1..Len(exc) :
                 /\ q.groups[PieceCount(ids) + j] =
                        p.groups[exc[j]] (+) Accepted(p, h, dec, exc[j])
                 /\ q.origin[PieceCount(ids) + j] = p.origin[exc[j]]
<1> DEFINE n == p.remaining
           a == InsertRecovered(p, h, dec)
           w == PieceCount(ids)
           e == Len(exc)
<1>1. /\ n \in Nat /\ IdList(ids, n) /\ IdList(exc, n)
      /\ Len(ids) \in Nat /\ ids \in [1..Len(ids) -> 1..n]
      /\ e \in Nat /\ exc \in [1..e -> 1..n]
  BY FailedGroupsIsIdList, OrderedIsIdList DEF Pbs, ExceptionGroups, IdList
<1>2. a \in Pbs /\ Parallel(a) /\ Len(a.groups) = n /\ a.round = p.round
  <2>1. SameBesideTable(p, a)
    BY <1>1, InsertProperties
  <2> QED BY <1>1, <2>1, InsertProperties DEF SameBesideTable
<1>3. q.exceptions = exc
  BY CheckRecovers
<1>4. q.remaining = w + e
  BY <1>3, CheckProperties
<1>5. w \in Nat /\ \A i \in 1..w : SplitSource(ids, i) \in 1..n /\ ~dec[SplitSource(ids, i)].ok
  <2> DEFINE m == Len(ids)
             F == {g \in 1..n : ~dec[g].ok}
  <2>1. m \in Nat /\ w = Splits * m
    BY <1>1 DEF PieceCount
  <2>2. w \in Nat /\ \A i \in 1..w : ((i - 1) \div Splits) + 1 \in 1..m
    BY <2>1, SplitIndexing
  <2>3. F = {ids[j] : j \in 1..m}
    <3>1. F \in SUBSET (1..n) /\ ids = Ordered(F)
      BY DEF FailedGroups
    <3> HIDE DEF F, m
    <3>2. F = {Ordered(F)[j] : j \in 1..Len(Ordered(F))}
      BY <1>1, <3>1, OrderedCovers
    <3> QED BY <3>1, <3>2 DEF m
  <2>4. ASSUME NEW j \in 1..m PROVE ids[j] \in 1..n /\ ~dec[ids[j]].ok
    BY <2>3
  <2> HIDE DEF m, w
  <2> QED BY <2>2, <2>4 DEF SplitSource
<1>6. \A g \in 1..n : a.groups[g] = IF g \in ExceptionGroups(p, h, dec)
                                    THEN p.groups[g] (+) Accepted(p, h, dec, g) ELSE p.groups[g]
  BY DEF InsertRecovered, Pbs
<1>7. /\ Pieces(a, h, ids) \in Seq(SUBSET Key) /\ Len(Pieces(a, h, ids)) = w
      /\ \A i \in 1..w : Pieces(a, h, ids)[i] = Pieces(p, h, ids)[i]
  <2>1. w = Splits * Len(ids)
    BY DEF PieceCount
  <2>2. Pieces(a, h, ids) \in [1..w -> SUBSET Key]
    <3> DEFINE m == Len(ids)
    <3>1. m \in Nat /\ ids \in [1..m -> 1..n] /\ n <= Len(a.groups) /\ w = Splits * m
      BY <1>1, <1>2, <2>1
    <3> HIDE DEF m, a, w
    <3>2. Pieces(a, h, ids) \in [1..(Splits * m) -> SUBSET Key]
      BY <1>1, <1>2, <3>1, PiecesType
    <3> QED BY <3>1, <3>2
  <2>3. ASSUME NEW i \in 1..w PROVE Pieces(a, h, ids)[i] = Pieces(p, h, ids)[i]
    <3>1. SplitSource(ids, i) \in 1..n /\ SplitSource(ids, i) \notin ExceptionGroups(p, h, dec)
      BY <1>5 DEF ExceptionGroups
    <3>2. a.groups[SplitSource(ids, i)] = p.groups[SplitSource(ids, i)]
      BY <1>6, <3>1
    <3> QED BY <1>2, <2>1, <3>2 DEF Pieces
  <2> HIDE DEF w
  <2> QED BY <1>5, <2>2, <2>3, FunctionIsSeq
<1> DEFINE s == a.groups \o Pieces(a, h, ids)
<1>8. /\ s \in Seq(SUBSET Key) /\ Len(s) = n + w
      /\ \A g \in 1..n : s[g] = a.groups[g]
      /\ \A i \in 1..w : s[n + i] = Pieces(a, h, ids)[i]
  <2>1. a.groups \in Seq(SUBSET Key)
    BY <1>2 DEF Pbs
  <2> DEFINE c == Pieces(a, h, ids)
             o == a.groups
  <2>2. o \in Seq(SUBSET Key) /\ c \in Seq(SUBSET Key) /\ Len(c) = w /\ Len(o) = n
    BY <1>2, <1>7, <2>1
  <2> HIDE DEF c, o
  <2>3. /\ o \o c \in Seq(SUBSET Key) /\ Len(o \o c) = Len(o) + Len(c)
        /\ \A i \in 1..Len(o) : (o \o c)[i] = o[i]
        /\ \A i \in 1..Len(c) : (o \o c)[Len(o) + i] = c[i]
    BY <2>2
  <2> QED BY <2>2, <2>3 DEF c, o
<1>9. q.groups = AfterMoves(s, exc, n)
  BY CheckTable
<1> DEFINE t == p.origin \o PieceOrigins(p, ids)
<1>10. /\ t \in Seq(GroupId) /\ Len(t) = n + w
       /\ \A g \in 1..n : t[g] = p.origin[g]
       /\ \A i \in 1..w : t[n + i] = p.origin[SplitSource(ids, i)]
  <2>1. w = Splits * Len(ids)
    BY DEF PieceCount
  <2>2. PieceOrigins(p, ids) \in [1..w -> GroupId]
    <3> DEFINE m == Len(ids)
    <3>1. m \in Nat /\ ids \in [1..m -> 1..n] /\ n <= Len(p.groups) /\ w = Splits * m
      BY <1>1, <2>1
    <3> HIDE DEF m, w
    <3>2. PieceOrigins(p, ids) \in [1..(Splits * m) -> GroupId]
      BY <1>1, <3>1, PiecesType
    <3> QED BY <3>1, <3>2
  <2>3. \A i \in 1..w : PieceOrigins(p, ids)[i] = p.origin[SplitSource(ids, i)]
    BY <2>1 DEF PieceOrigins
  <2>4. p.origin \in Seq(GroupId) /\ Len(p.origin) = n
    BY DEF Pbs, Parallel
  <2> HIDE DEF w
  <2>5. PieceOrigins(p, ids) \in Seq(GroupId) /\ Len(PieceOrigins(p, ids)) = w
    BY <1>5, <2>2, FunctionIsSeq
  <2> DEFINE c == PieceOrigins(p, ids)
             o == p.origin
  <2> HIDE DEF c, o
  <2>7. o \in Seq(GroupId) /\ c \in Seq(GroupId)
    BY <2>4, <2>5 DEF c, o
  <2>6. /\ o \o c \in Seq(GroupId) /\ Len(o \o c) = Len(o) + Len(c)
        /\ \A i \in 1..Len(o) : (o \o c)[i] = o[i]
        /\ \A i \in 1..Len(c) : (o \o c)[Len(o) + i] = c[i]
    BY <2>7
  <2> QED BY <2>3, <2>4, <2>5, <2>6 DEF c, o
<1>11. q.origin = AfterMoves(t, exc, n)
  BY <1>3, CheckProperties
<1> HIDE DEF s, t, w, e
<1> HIDE DEF n
<1>12. /\ \A i \in 1..w : q.groups[i] = s[n + i]
       /\ \A j \in 1..e : q.groups[w + j] = s[exc[j]]
  <2>1. n \in Nat /\ w \in Nat /\ e \in Nat /\ exc \in [1..e -> 1..n]
    BY <1>1, <1>5 DEF e
  <2>3. n <= Len(s) /\ Len(s) - n = w
    BY <1>8, <2>1
  <2>4. s \in Seq(SUBSET Key) /\ n \in Nat /\ n <= Len(s) /\ IdList(exc, n)
    BY <1>1, <1>8, <2>1, <2>3
  <2>8. MovedElements(s, exc, n)
    BY <2>4, AfterMovesElements
  <2>2. \A i \in 1..(Len(s) - n) : AfterMoves(s, exc, n)[i] = s[n + i]
    BY <2>8 DEF MovedElements
  <2>5. \A j \in 1..Len(exc) : AfterMoves(s, exc, n)[(Len(s) - n) + j] = s[exc[j]]
    BY <2>8 DEF MovedElements
  <2>6. \A i \in 1..w : q.groups[i] = s[n + i]
    BY <1>9, <2>2, <2>3
  <2>7. \A j \in 1..e : q.groups[w + j] = s[exc[j]]
    BY <1>9, <2>3, <2>5 DEF e
  <2> QED BY <2>6, <2>7
<1>13. /\ \A i \in 1..w : q.origin[i] = t[n + i]
       /\ \A j \in 1..e : q.origin[w + j] = t[exc[j]]
  <2>1. n \in Nat /\ w \in Nat /\ e \in Nat /\ exc \in [1..e -> 1..n]
    BY <1>1, <1>5 DEF e
  <2>3. n <= Len(t) /\ Len(t) - n = w
    BY <1>10, <2>1
  <2>4. t \in Seq(GroupId) /\ n \in Nat /\ n <= Len(t) /\ IdList(exc, n)
    BY <1>1, <1>10, <2>1, <2>3
  <2>8. MovedElements(t, exc, n)
    BY <2>4, AfterMovesElements
  <2>2. \A i \in 1..(Len(t) - n) : AfterMoves(t, exc, n)[i] = t[n + i]
    BY <2>8 DEF MovedElements
  <2>5. \A j \in 1..Len(exc) : AfterMoves(t, exc, n)[(Len(t) - n) + j] = t[exc[j]]
    BY <2>8 DEF MovedElements
  <2> QED BY <1>11, <2>2, <2>3, <2>5 DEF n, t, e
<1>14. \A j \in 1..e : exc[j] \in ExceptionGroups(p, h, dec) /\ exc[j] \in 1..n
  <2>1. ExceptionGroups(p, h, dec) \in SUBSET (1..n)
    BY DEF ExceptionGroups, n
  <2> DEFINE E == ExceptionGroups(p, h, dec)
  <2> HIDE DEF E
  <2>3. E = {Ordered(E)[j] : j \in 1..Len(Ordered(E))}
    BY <1>1, <2>1, OrderedCovers DEF E
  <2>2. ExceptionGroups(p, h, dec) = {exc[j] : j \in 1..e}
    BY <2>3 DEF e, E
  <2> QED BY <2>1, <2>2
<1>15. ASSUME NEW i \in 1..w
       PROVE  q.groups[i] = Pieces(p, h, ids)[i] /\ q.origin[i] = p.origin[SplitSource(ids, i)]
  BY <1>7, <1>8, <1>10, <1>12, <1>13
<1>16. ASSUME NEW j \in 1..e
       PROVE  /\ q.groups[w + j] = p.groups[exc[j]] (+) Accepted(p, h, dec, exc[j])
              /\ q.origin[w + j] = p.origin[exc[j]]
  BY <1>6, <1>8, <1>10, <1>12, <1>13, <1>14
<1> QED
  BY <1>4, <1>15, <1>16 DEF w, e

-------------------------------------------------------------------------------
(* What is pending in an original group, before and after a check.         *)

(* The groups of original group o, where two tables differ, and the keys   *)
(* that the groups of o still differ by.                                   *)
InGroup(p, o) == {g \in 1..p.remaining : p.origin[g] = o}
Apart(s, t) == [g \in 1..Len(s) |-> s[g] (+) t[g]]
PendingWith(p, t, o) == Toggled(InGroup(p, o), Apart(p.groups, t))

Undecoded(n, dec) == {g \in 1..n : ~dec[g].ok}
AcceptedRow(p, h, dec) == [g \in 1..p.remaining |-> Accepted(p, h, dec, g)]

(* Empty groups toggle nothing. *)
LEMMA ToggledOfEmpty ==
    ASSUME NEW I, NEW F, \A i \in I : F[i] = {}
    PROVE  Toggled(I, F) = {}
<1> SUFFICES ASSUME NEW k \in Key PROVE k \notin Toggled(I, F)
  BY DEF Toggled
<1>1. {i \in I : k \in F[i]} = {}
  OBVIOUS
<1> QED
  BY <1>1, FS_EmptySet DEF Toggled, IsOdd

(* The ids of a list; the pieces of the groups ids, and the moved groups   *)
(* exc behind w others, that come from a group of G; piece i of table L.   *)
Listed(ids) == {ids[j] : j \in 1..Len(ids)}
PiecesOf(ids, G) == {i \in 1..(Splits * Len(ids)) : SplitSource(ids, i) \in G}
MovesOf(exc, w, G) == {i \in (w + 1)..(w + Len(exc)) : exc[i - w] \in G}
Follows(M, w, L, exc) == \A j \in 1..Len(exc) : M[w + j] = L[exc[j]]
PieceOf(L, ids, s, i) == {k \in L[SplitSource(ids, i)] : s[k] = SplitIndex(i)}

(* Behind n groups, table t has the pieces of its groups ids. *)
SplitAlike(t, n, ids, s) ==
    \A i \in 1..PieceCount(ids) : t[n + i] = PieceOf(t, ids, s, i)

HasSplit(t, n, ids, s) ==
    /\ Len(t) = n + PieceCount(ids)
    /\ s \in [Key -> 0..(Splits - 1)]
    /\ SplitAlike(t, n, ids, s)

(* A split passes every key of a group to exactly one of its pieces.       *)
LEMMA SplitListKeepsToggled ==
    ASSUME NEW n \in Nat, NEW ids, IdList(ids, n),
           NEW s \in [Key -> 0..(Splits - 1)], NEW L, NEW M,
           \A i \in 1..(Splits * Len(ids)) : M[i] = PieceOf(L, ids, s, i),
           NEW G
    PROVE  Toggled(PiecesOf(ids, G), M) = Toggled(Listed(ids) \cap G, L)
<1> DEFINE m == Len(ids)
<1>1. m \in Nat /\ ids \in [1..m -> 1..n] /\ \A i, j \in 1..m : i < j => ids[i] < ids[j]
  BY DEF IdList
<1>2. \A i \in 1..(Splits * m) : M[i] = PieceOf(L, ids, s, i)
  OBVIOUS
<1> DEFINE w == Splits * m
           I == {i \in 1..w : SplitSource(ids, i) \in G}
           J == {ids[j] : j \in 1..m} \cap G
<1>3. I = PiecesOf(ids, G) /\ J = Listed(ids) \cap G
  BY DEF PiecesOf, Listed
<1> HIDE DEF m
<1>4. w \in Nat /\ \A i \in 1..w : ((i - 1) \div Splits) + 1 \in 1..m
  BY <1>1, SplitIndexing
<1>5. IsFiniteSet(I)
  <2>1. IsFiniteSet(1..w)
    BY <1>4, FS_Interval
  <2> HIDE DEF w
  <2> QED BY <2>1, FS_Subset
<1>6. ASSUME NEW k \in Key
      PROVE  ExistsBijection({i \in I : k \in M[i]}, {g \in J : k \in L[g]})
  <2> DEFINE X == {i \in I : k \in M[i]}
             Y == {g \in J : k \in L[g]}
             f == [i \in X |-> SplitSource(ids, i)]
  <2>1. \A i \in X : /\ i \in 1..w /\ SplitSource(ids, i) \in G
                     /\ k \in L[SplitSource(ids, i)] /\ s[k] = SplitIndex(i)
    BY <1>2 DEF PieceOf
  <2>2. f \in [X -> Y]
    <3> SUFFICES ASSUME NEW i \in X PROVE SplitSource(ids, i) \in Y
      OBVIOUS
    <3> QED BY <1>1, <1>4, <2>1 DEF SplitSource
  <2>3. ASSUME NEW i \in X, NEW j \in X, f[i] = f[j]
        PROVE  i = j
    <3> DEFINE a == ((i - 1) \div Splits) + 1
               b == ((j - 1) \div Splits) + 1
    <3>1. a \in 1..m /\ b \in 1..m /\ ids[a] = ids[b]
      BY <1>4, <2>1, <2>3 DEF SplitSource
    <3>2. a = b
      <4> HIDE DEF a, b
      <4>1. \A x \in 1..m : ids[x] \in Int
        BY <1>1
      <4>2. a < b \/ b < a \/ a = b
        BY <3>1
      <4> QED BY <1>1, <3>1, <4>1, <4>2
    <3>3. (i - 1) \div Splits = (j - 1) \div Splits
      <4>1. (i - 1) \div Splits \in Int /\ (j - 1) \div Splits \in Int
        BY SketchAssumption, <1>4, <2>1
      <4> QED BY <3>2, <4>1
    <3>4. SplitIndex(i) = SplitIndex(j) /\ i \in 1..w /\ j \in 1..w
      BY <2>1
    <3> HIDE DEF w
    <3> QED BY <1>4, <3>3, <3>4, PieceUnique
  <2>4. ASSUME NEW g \in Y
        PROVE  \E i \in X : f[i] = g
    <3>1. PICK j \in 1..m : ids[j] = g
      OBVIOUS
    <3> DEFINE i == Splits * (j - 1) + s[k] + 1
    <3>2. s[k] \in 0..(Splits - 1)
      OBVIOUS
    <3>3. i \in 1..w /\ ((i - 1) \div Splits) + 1 = j /\ (i - 1) % Splits = s[k]
      BY <1>1, <3>2, PiecePosition
    <3> HIDE DEF i
    <3>4. SplitSource(ids, i) = g /\ SplitIndex(i) = s[k]
      BY <3>1, <3>3 DEF SplitSource, SplitIndex
    <3>5. i \in X
      BY <1>2, <3>1, <3>3, <3>4 DEF PieceOf
    <3> QED BY <3>4, <3>5
  <2>5. f \in Bijection(X, Y)
    <3> HIDE DEF f, X, Y
    <3> QED BY <2>2, <2>3, <2>4, Fun_IsBij
  <2> QED BY <2>5 DEF ExistsBijection
<1> HIDE DEF I, J
<1>7. Toggled(I, M) = Toggled(J, L)
  BY <1>5, <1>6, ToggledAlike
<1> QED BY <1>3, <1>7 DEF I, J

(* A move passes on the groups themselves.                                *)
LEMMA MoveListKeepsToggled ==
    ASSUME NEW n \in Nat, NEW exc, IdList(exc, n), NEW w \in Nat, NEW L, NEW M,
           Follows(M, w, L, exc),
           NEW G
    PROVE  Toggled(MovesOf(exc, w, G), M) = Toggled(Listed(exc) \cap G, L)
<1> DEFINE e == Len(exc)
<1>1. e \in Nat /\ exc \in [1..e -> 1..n] /\ \A i, j \in 1..e : i < j => exc[i] < exc[j]
  BY DEF IdList
<1>2. \A j \in 1..e : M[w + j] = L[exc[j]]
  BY DEF Follows
<1> DEFINE I == {i \in (w + 1)..(w + e) : exc[i - w] \in G}
           J == {exc[j] : j \in 1..e} \cap G
<1>3. I = MovesOf(exc, w, G) /\ J = Listed(exc) \cap G
  BY DEF MovesOf, Listed
<1> HIDE DEF e
<1>4. \A i \in (w + 1)..(w + e) : i - w \in 1..e /\ w + (i - w) = i
  BY <1>1
<1>5. IsFiniteSet(I)
  <2>1. IsFiniteSet((w + 1)..(w + e))
    BY <1>1, FS_Interval
  <2> QED BY <2>1, FS_Subset
<1>6. ASSUME NEW k \in Key
      PROVE  ExistsBijection({i \in I : k \in M[i]}, {g \in J : k \in L[g]})
  <2> DEFINE X == {i \in I : k \in M[i]}
             Y == {g \in J : k \in L[g]}
             f == [i \in X |-> exc[i - w]]
  <2>1. \A i \in X : /\ i - w \in 1..e /\ exc[i - w] \in G /\ k \in L[exc[i - w]]
                     /\ i \in Int
    BY <1>2, <1>4
  <2>2. f \in [X -> Y]
    BY <2>1
  <2>3. ASSUME NEW i \in X, NEW j \in X, f[i] = f[j]
        PROVE  i = j
    <3>1. i - w \in 1..e /\ j - w \in 1..e /\ exc[i - w] = exc[j - w] /\ i \in Int /\ j \in Int
      BY <2>1, <2>3
    <3>2. \A x \in 1..e : exc[x] \in Int
      BY <1>1
    <3>3. i - w < j - w \/ j - w < i - w \/ i = j
      BY <3>1
    <3> HIDE DEF X
    <3> QED BY <1>1, <3>1, <3>2, <3>3
  <2>4. ASSUME NEW g \in Y
        PROVE  \E i \in X : f[i] = g
    <3>1. PICK j \in 1..e : exc[j] = g
      OBVIOUS
    <3>2. w + j \in (w + 1)..(w + e) /\ (w + j) - w = j
      BY <1>1
    <3>3. w + j \in X
      BY <1>2, <3>1, <3>2
    <3> QED BY <3>1, <3>2, <3>3
  <2>5. f \in Bijection(X, Y)
    <3> HIDE DEF f, X, Y
    <3> QED BY <2>2, <2>3, <2>4, Fun_IsBij
  <2> QED BY <2>5 DEF ExistsBijection
<1> HIDE DEF I, J
<1>7. Toggled(I, M) = Toggled(J, L)
  BY <1>5, <1>6, ToggledAlike
<1> QED BY <1>3, <1>7 DEF I, J

(* What Bob and Alice's check start from. *)
CheckReady(p, h, dec, other) ==
    /\ p \in Pbs /\ Parallel(p) /\ Len(p.groups) = p.remaining
    /\ dec \in DecodingMessage /\ Len(dec) = p.remaining
    /\ other \in Pbs /\ other.remaining = p.remaining
    /\ HasSplit(other.groups, p.remaining, FailedGroups(p.remaining, dec), h.split[p.round])

(* What is pending after a round: the differences of the groups that were  *)
(* split, and those of the exceptions with what was recovered from them.   *)
PendingLeft(p, h, dec, other, o) ==
    LET G == InGroup(p, o)
        E == ExceptionGroups(p, h, dec)
        F == Undecoded(p.remaining, dec)
        L == Apart(p.groups, other.groups)
    IN  Toggled(F \cap G, L)
          (+) (Toggled(E \cap G, L) (+) Toggled(E \cap G, AcceptedRow(p, h, dec)))

(* What a check leaves pending, with what Bob is told to move.             *)
LEMMA PendingAfterCheck ==
    ASSUME NEW p, NEW h, NEW dec, NEW other, NEW o, CheckReady(p, h, dec, other)
    PROVE  PendingWith(decodeCheck(p, h, dec),
                       AfterHint(other, Ordered(ExceptionGroups(p, h, dec))), o) =
               PendingLeft(p, h, dec, other, o)
<1> DEFINE n == p.remaining
           q == decodeCheck(p, h, dec)
           ids == FailedGroups(n, dec)
           exc == Ordered(ExceptionGroups(p, h, dec))
           s == h.split[p.round]
           m == Len(ids)
           w == PieceCount(ids)
           e == Len(exc)
           G == InGroup(p, o)
           E == ExceptionGroups(p, h, dec)
           F == Undecoded(n, dec)
           L == Apart(p.groups, other.groups)
           R == AcceptedRow(p, h, dec)
           LR == [g \in 1..n |-> L[g] (+) R[g]]
           t == AfterHint(other, exc)
           M == Apart(q.groups, t)
           I1 == PiecesOf(ids, G)
           I2 == MovesOf(exc, w, G)
<1>19. /\ p \in Pbs /\ Parallel(p) /\ Len(p.groups) = n
       /\ dec \in DecodingMessage /\ Len(dec) = n
       /\ other \in Pbs /\ other.remaining = n
       /\ HasSplit(other.groups, n, ids, s)
  BY DEF CheckReady
<1>20. ids = FailedGroups(n, dec) /\ q = decodeCheck(p, h, dec) /\ n = p.remaining
  OBVIOUS
<1>21. exc = Ordered(ExceptionGroups(p, h, dec)) /\ s = h.split[p.round]
  OBVIOUS
<1> HIDE DEF q, ids, exc, s
<1> USE <1>19, <1>20, <1>21
<1>1. /\ n \in Nat /\ IdList(ids, n) /\ IdList(exc, n)
      /\ m \in Nat /\ ids \in [1..m -> 1..n]
      /\ \A i, j \in 1..m : i < j => ids[i] < ids[j]
      /\ e \in Nat /\ exc \in [1..e -> 1..n]
      /\ \A i, j \in 1..e : i < j => exc[i] < exc[j]
  BY FailedGroupsIsIdList, OrderedIsIdList DEF Pbs, ExceptionGroups, IdList
<1>0. /\ Len(other.groups) = n + w
      /\ s \in [Key -> 0..(Splits - 1)]
      /\ SplitAlike(other.groups, n, ids, s)
  BY DEF HasSplit
<1>2. w \in Nat /\ w = Splits * m /\ \A i \in 1..w : SplitSource(ids, i) \in 1..n
  <2>1. w = Splits * m
    BY DEF PieceCount
  <2>2. Splits * m \in Nat /\ \A i \in 1..(Splits * m) : ((i - 1) \div Splits) + 1 \in 1..m
    BY <1>1, SplitIndexing
  <2> HIDE DEF w, m
  <2> QED BY <1>1, <2>1, <2>2 DEF SplitSource
<1>3. F = Listed(ids) /\ E = Listed(exc)
  <2>1. F \in SUBSET (1..n) /\ E \in SUBSET (1..n) /\ ids = Ordered(F) /\ exc = Ordered(E)
    BY DEF FailedGroups, ExceptionGroups, Undecoded
  <2> HIDE DEF F, E, m, e
  <2>2. /\ F = {Ordered(F)[j] : j \in 1..Len(Ordered(F))}
        /\ E = {Ordered(E)[j] : j \in 1..Len(Ordered(E))}
    BY <1>1, <2>1, OrderedCovers
  <2> QED BY <2>1, <2>2 DEF Listed
<1>4. /\ q.remaining = w + e
      /\ \A i \in 1..w : q.groups[i] = Pieces(p, h, ids)[i] /\ q.origin[i] = p.origin[SplitSource(ids, i)]
      /\ \A j \in 1..e : /\ q.groups[w + j] = p.groups[exc[j]] (+) Accepted(p, h, dec, exc[j])
                         /\ q.origin[w + j] = p.origin[exc[j]]
  BY CheckElements
<1>5. Len(q.groups) = w + e
  BY <1>4, CheckProperties
<1>6. /\ \A i \in 1..w : t[i] = other.groups[n + i]
      /\ \A j \in 1..e : t[w + j] = other.groups[exc[j]]
  <2> DEFINE u == other.groups
  <2>1. u \in Seq(SUBSET Key) /\ Len(u) = n + w
    BY <1>0 DEF Pbs
  <2>2. t = AfterMoves(u, exc, n)
    BY <1>1, MovedOnce DEF AfterHint, AfterMoves
  <2> HIDE DEF u, t, w, n
  <2> HIDE <1>19, <1>20, <1>21
  <2>3. n <= Len(u) /\ Len(u) - n = w
    BY <1>1, <1>2, <2>1
  <2>4. u \in Seq(SUBSET Key) /\ n \in Nat /\ n <= Len(u) /\ IdList(exc, n)
    BY <1>1, <2>1, <2>3
  <2>8. MovedElements(u, exc, n)
    BY <2>4, AfterMovesElements
  <2>5. \A i \in 1..(Len(u) - n) : AfterMoves(u, exc, n)[i] = u[n + i]
    BY <2>8 DEF MovedElements
  <2>6. \A j \in 1..Len(exc) : AfterMoves(u, exc, n)[(Len(u) - n) + j] = u[exc[j]]
    BY <2>8 DEF MovedElements
  <2> QED BY <2>2, <2>3, <2>5, <2>6 DEF u, e
<1>7. \A g \in 1..n : L[g] = p.groups[g] (+) other.groups[g] /\ R[g] = Accepted(p, h, dec, g)
  BY DEF Apart, AcceptedRow
<1>8. \A i \in 1..w : M[i] = {k \in L[SplitSource(ids, i)] : s[k] = SplitIndex(i)}
  <2> SUFFICES ASSUME NEW i \in 1..w
               PROVE  M[i] = {k \in L[SplitSource(ids, i)] : s[k] = SplitIndex(i)}
    OBVIOUS
  <2>1. i \in 1..(w + e)
    BY <1>1, <1>2
  <2>2. M[i] = Pieces(p, h, ids)[i] (+) other.groups[n + i]
    BY <1>4, <1>5, <1>6, <2>1 DEF Apart
  <2>3. Pieces(p, h, ids)[i] = {k \in p.groups[SplitSource(ids, i)] : s[k] = SplitIndex(i)}
    BY <1>2 DEF Pieces
  <2>4. other.groups[n + i] = {k \in other.groups[SplitSource(ids, i)] : s[k] = SplitIndex(i)}
    BY <1>0 DEF PieceOf, SplitAlike
  <2>5. L[SplitSource(ids, i)] = p.groups[SplitSource(ids, i)] (+) other.groups[SplitSource(ids, i)]
    BY <1>2, <1>7
  <2> HIDE DEF M, L
  <2>6. \A x, y : {k \in x : s[k] = SplitIndex(i)} (+) {k \in y : s[k] = SplitIndex(i)} =
                  {k \in x (+) y : s[k] = SplitIndex(i)}
    BY DEF (+)
  <2> QED BY <2>2, <2>3, <2>4, <2>5, <2>6
<1>9. \A j \in 1..e : M[w + j] = LR[exc[j]]
  <2> SUFFICES ASSUME NEW j \in 1..e PROVE M[w + j] = LR[exc[j]]
    OBVIOUS
  <2>1. w + j \in 1..(w + e) /\ exc[j] \in 1..n
    <3>1. exc[j] \in 1..n
      BY <1>1
    <3> QED BY <1>1, <1>2, <3>1
  <2>2. M[w + j] = (p.groups[exc[j]] (+) Accepted(p, h, dec, exc[j])) (+) other.groups[exc[j]]
    BY <1>4, <1>5, <1>6, <2>1 DEF Apart
  <2>3. LR[exc[j]] = (p.groups[exc[j]] (+) other.groups[exc[j]]) (+) Accepted(p, h, dec, exc[j])
    BY <1>7, <2>1
  <2> HIDE DEF M, LR
  <2> QED BY <2>2, <2>3, XorAlgebra
<1>18. /\ I1 = {i \in 1..w : SplitSource(ids, i) \in G}
       /\ I2 = {i \in (w + 1)..(w + e) : exc[i - w] \in G}
  BY DEF PiecesOf, MovesOf, PieceCount
<1>10. InGroup(q, o) = I1 \union I2 /\ I1 \cap I2 = {}
  <2>1. \A i \in 1..w : q.origin[i] = o <=> SplitSource(ids, i) \in G
    BY <1>2, <1>4 DEF InGroup
  <2>2. \A i \in (w + 1)..(w + e) : q.origin[i] = o <=> exc[i - w] \in G
    <3> SUFFICES ASSUME NEW i \in (w + 1)..(w + e)
                 PROVE  q.origin[i] = o <=> exc[i - w] \in G
      OBVIOUS
    <3>1. i - w \in 1..e /\ w + (i - w) = i
      BY <1>1, <1>2
    <3>2. exc[i - w] \in 1..n /\ q.origin[i] = p.origin[exc[i - w]]
      BY <1>1, <1>4, <3>1
    <3> QED BY <3>2 DEF InGroup
  <2>3. \A i : i \in 1..(w + e) <=> i \in 1..w \/ i \in (w + 1)..(w + e)
    BY <1>1, <1>2
  <2>4. \A i : ~(i \in 1..w /\ i \in (w + 1)..(w + e))
    BY <1>1, <1>2
  <2>5. InGroup(q, o) = {i \in 1..(w + e) : q.origin[i] = o}
    BY <1>4 DEF InGroup
  <2> HIDE DEF G, w, e, I1, I2
  <2> QED BY <1>18, <2>1, <2>2, <2>3, <2>4, <2>5
<1>11. Toggled(I1, M) = Toggled(F \cap G, L)
  <2>1. \A i \in 1..(Splits * Len(ids)) : M[i] = PieceOf(L, ids, s, i)
    BY <1>2, <1>8 DEF PieceOf
  <2> HIDE DEF L, M, G, F, n
  <2> HIDE <1>19, <1>20, <1>21
  <2>3. IdList(ids, n) /\ n \in Nat
    BY <1>1
  <2>4. s \in [Key -> 0..(Splits - 1)]
    BY <1>0
  <2>2. Toggled(PiecesOf(ids, G), M) = Toggled(Listed(ids) \cap G, L)
    BY <2>1, <2>3, <2>4, SplitListKeepsToggled
  <2> QED BY <1>3, <2>2
<1>12. Toggled(I2, M) = Toggled(E \cap G, LR)
  <2>1. Follows(M, w, LR, exc)
    BY <1>9 DEF Follows
  <2> HIDE DEF LR, M, G, E, n, w
  <2> HIDE <1>19, <1>20, <1>21
  <2>3. IdList(exc, n) /\ n \in Nat /\ w \in Nat
    BY <1>1, <1>2
  <2>2. Toggled(MovesOf(exc, w, G), M) = Toggled(Listed(exc) \cap G, LR)
    BY <2>1, <2>3, MoveListKeepsToggled
  <2> QED BY <1>3, <2>2
<1>13. Toggled(E \cap G, LR) = Toggled(E \cap G, L) (+) Toggled(E \cap G, R)
  <2>1. \A g \in E \cap G : LR[g] = L[g] (+) R[g]
    BY DEF ExceptionGroups
  <2>2. IsFiniteSet(E \cap G)
    <3>1. IsFiniteSet(1..n)
      <4>1. n \in Int /\ 1 \in Int
        BY <1>1
      <4> HIDE DEF n
      <4> QED BY <4>1, FS_Interval
    <3>2. E \cap G \in SUBSET (1..n)
      BY DEF ExceptionGroups
    <3> QED BY <3>1, <3>2, FS_Subset
  <2> HIDE DEF E, G, L, R, LR
  <2> QED BY <2>1, <2>2, ToggledOfXor
<1>14. IsFiniteSet(I1) /\ IsFiniteSet(I2)
  <2>1. IsFiniteSet(1..w) /\ IsFiniteSet((w + 1)..(w + e))
    BY <1>1, <1>2, FS_Interval
  <2>2. I1 \in SUBSET (1..w) /\ I2 \in SUBSET ((w + 1)..(w + e))
    BY <1>18
  <2> HIDE DEF I1, I2
  <2> QED BY <2>1, <2>2, FS_Subset
<1>15. PendingWith(q, t, o) = Toggled(InGroup(q, o), M)
  BY DEF PendingWith
<1> HIDE DEF I1, I2, M, L, LR, R, E, F, G, t, n, w, e
<1>16. Toggled(I1 \union I2, M) = Toggled(I1, M) (+) Toggled(I2, M)
  BY <1>10, <1>14, ToggledOfUnion
<1>17. PendingWith(q, t, o) = Toggled(F \cap G, L) (+) (Toggled(E \cap G, L) (+) Toggled(E \cap G, R))
  BY <1>10, <1>11, <1>12, <1>13, <1>15, <1>16
<1> QED BY <1>17 DEF PendingLeft, t, F, G, E, L, R, n, exc, q

-------------------------------------------------------------------------------
(* What has been recovered, as a parity over all the rounds.               *)

Within(S, n) == n \in Nat /\ S \in SUBSET (1..n)

(* Of the groups G, those of F give nothing and stay pending, those of E   *)
(* stay pending with what they gave, and the others have given keys whose  *)
(* XOR is that of the keys they held.                                      *)
LEMMA WhatIsGivenIsTaken ==
    ASSUME NEW n, NEW F, Within(F, n), NEW E, Within(E, n), NEW G, Within(G, n),
           F \cap E = {}, NEW L, NEW R,
           \A g \in F : R[g] = {},
           \A g \in G \ (F \union E) : /\ L[g] \in SUBSET Key /\ R[g] \in SUBSET Key
                                       /\ XorSum(L[g]) = XorSum(R[g])
    PROVE  XorSum(Toggled(F \cap G, L) (+) (Toggled(E \cap G, L) (+) Toggled(E \cap G, R)))
             = XorSum(Toggled(G, L)) (+) XorSum(Toggled(G, R))
<1> DEFINE K == G \ (F \union E)
           FG == F \cap G
           EG == E \cap G
<1>0. /\ n \in Nat /\ F \in SUBSET (1..n) /\ E \in SUBSET (1..n)
      /\ G \in SUBSET (1..n)
  BY DEF Within
<1>1. \A S \in SUBSET (1..n) : IsFiniteSet(S)
  <2>1. IsFiniteSet(1..n)
    BY <1>0, FS_Interval
  <2> QED BY <2>1, FS_Subset
<1>2. /\ FG \in SUBSET (1..n) /\ EG \in SUBSET (1..n) /\ K \in SUBSET (1..n)
      /\ EG \union K \in SUBSET (1..n)
      /\ G = FG \union (EG \union K) /\ FG \cap (EG \union K) = {} /\ EG \cap K = {}
  BY <1>0
<1>3. XorSum(Toggled(K, L)) = XorSum(Toggled(K, R))
  BY <1>0, <1>2, SameXorSums
<1>4. Toggled(FG, R) = {}
  BY ToggledOfEmpty
<1> HIDE DEF K, FG, EG
<1>5. ASSUME NEW M
      PROVE  Toggled(G, M) = Toggled(FG, M) (+) (Toggled(EG, M) (+) Toggled(K, M))
  <2> DEFINE EK == EG \union K
  <2>1. IsFiniteSet(FG) /\ IsFiniteSet(EK) /\ FG \cap EK = {}
    BY <1>1, <1>2
  <2>2. IsFiniteSet(EG) /\ IsFiniteSet(K) /\ EG \cap K = {}
    BY <1>1, <1>2
  <2>3. Toggled(EK, M) = Toggled(EG, M) (+) Toggled(K, M)
    BY <2>2, ToggledOfUnion
  <2>4. G = FG \union EK
    BY <1>2
  <2> HIDE DEF EK
  <2>5. Toggled(FG \union EK, M) = Toggled(FG, M) (+) Toggled(EK, M)
    BY <2>1, ToggledOfUnion
  <2> QED BY <2>3, <2>4, <2>5
<1>6. \A S, T \in SUBSET Key : /\ XorSum(S (+) T) = XorSum(S) (+) XorSum(T)
                               /\ S (+) T \in SUBSET Key
  <2>1. \A S, T \in SUBSET Key : S (+) T \in SUBSET Key
    BY DEF (+)
  <2> QED BY <2>1, KeysAreFinite, XorSumOfDifference
<1>7. Toggled(G, R) = Toggled(EG, R) (+) Toggled(K, R)
  <2>1. Toggled(G, R) = {} (+) (Toggled(EG, R) (+) Toggled(K, R))
    BY <1>4, <1>5
  <2> QED BY <2>1 DEF (+)
<1> DEFINE a == Toggled(FG, L)
           b == Toggled(EG, L)
           c == Toggled(EG, R)
           d == Toggled(K, L)
           e == Toggled(K, R)
<1>8. /\ a \in SUBSET Key /\ b \in SUBSET Key /\ c \in SUBSET Key /\ d \in SUBSET Key
      /\ e \in SUBSET Key
  BY ToggledIsKeys
<1>9. Toggled(G, L) = a (+) (b (+) d) /\ Toggled(G, R) = c (+) e /\ XorSum(d) = XorSum(e)
  BY <1>3, <1>5, <1>7
<1> HIDE DEF a, b, c, d, e
<1>10. /\ XorSum(a (+) (b (+) c)) = XorSum(a) (+) (XorSum(b) (+) XorSum(c))
       /\ XorSum(a (+) (b (+) d)) = XorSum(a) (+) (XorSum(b) (+) XorSum(d))
       /\ XorSum(c (+) e) = XorSum(c) (+) XorSum(d)
  BY <1>6, <1>8, <1>9
<1>11. \A x, y, z, u : x (+) (y (+) z) = (x (+) (y (+) u)) (+) (z (+) u)
  BY DEF (+)
<1>12. XorSum(a (+) (b (+) c)) = XorSum(Toggled(G, L)) (+) XorSum(Toggled(G, R))
  BY <1>9, <1>10, <1>11
<1> QED BY <1>12 DEF a, b, c, FG, EG

-------------------------------------------------------------------------------
(* What the groups of original group o give is of that group.              *)
LEMMA GivenOfGroup ==
    ASSUME NEW n \in Nat, NEW R, NEW origin, NEW o,
           \A g \in 1..n : \A k \in R[g] : getGroupId_(hash, k) = origin[g]
    PROVE  OfGroup(Toggled(1..n, R), o) = Toggled({g \in 1..n : origin[g] = o}, R)
<1> DEFINE G == {g \in 1..n : origin[g] = o}
<1>1. ASSUME NEW k \in Key, getGroupId_(hash, k) = o
      PROVE  {g \in 1..n : k \in R[g]} = {g \in G : k \in R[g]}
  BY <1>1
<1>2. ASSUME NEW k \in Key, getGroupId_(hash, k) # o
      PROVE  k \notin Toggled(G, R)
  <2>1. {g \in G : k \in R[g]} = {}
    BY <1>2
  <2> QED BY <2>1, FS_EmptySet DEF Toggled, IsOdd
<1> HIDE DEF G
<1>3. ASSUME NEW k \in Key
      PROVE  k \in OfGroup(Toggled(1..n, R), o) <=> k \in Toggled(G, R)
  <2>1. CASE getGroupId_(hash, k) = o
    <3>1. Cardinality({g \in 1..n : k \in R[g]}) = Cardinality({g \in G : k \in R[g]})
      BY <1>1, <2>1
    <3> QED BY <2>1, <3>1 DEF OfGroup, Toggled
  <2>2. CASE getGroupId_(hash, k) # o
    BY <1>2, <2>2 DEF OfGroup
  <2> QED BY <2>1, <2>2
<1>4. OfGroup(Toggled(1..n, R), o) \in SUBSET Key /\ Toggled(G, R) \in SUBSET Key
  BY ToggledIsKeys DEF OfGroup
<1>5. OfGroup(Toggled(1..n, R), o) = Toggled(G, R)
  BY <1>3, <1>4
<1> QED BY <1>5 DEF G

-------------------------------------------------------------------------------
(* The inductive invariant, and the steps that recover nothing.            *)

(* Bob's table once he has heard all that Alice knows. *)
BobTable ==
    CASE bob.role = "Bob" /\ phase \in {"aliceEncode", "done"} -> AfterHint(bob, alice.exceptions)
      [] bob.role = "Bob" /\ phase = "bobEncode" -> AfterHint(bob, hint)
      [] OTHER -> bob.groups

(* What Bob has split is split as Alice will split it. *)
BobHasSplit ==
    phase = "aliceCheck" =>
        SplitAlike(bob.groups, alice.remaining, bob.failed, hash.split[alice.round])

Conserved ==
    phase # "aborted" =>
        \A o \in GroupId :
            XorSum(OfGroup(Difference (+) RecoveredParity, o)) =
            XorSum(PendingWith(alice, BobTable, o))

(* What is pending depends on the groups only.                             *)
LEMMA PendingSame ==
    ASSUME NEW p, NEW q, NEW t, NEW u, NEW o,
           q.groups = p.groups, q.origin = p.origin, q.remaining = p.remaining,
           Len(p.groups) = p.remaining, \A g \in 1..p.remaining : u[g] = t[g]
    PROVE  PendingWith(q, u, o) = PendingWith(p, t, o)
<1>1. InGroup(q, o) = InGroup(p, o)
  BY DEF InGroup
<1>2. \A g \in InGroup(p, o) : Apart(q.groups, u)[g] = Apart(p.groups, t)[g]
  BY DEF Apart, InGroup
<1> DEFINE L == Apart(q.groups, u)
           M == Apart(p.groups, t)
           I == InGroup(p, o)
<1> HIDE DEF L, M, I
<1>3. Toggled(I, L) = Toggled(I, M)
  BY <1>2, ToggledSame DEF L, M, I
<1> QED BY <1>1, <1>3 DEF PendingWith, L, M, I

(* A step that changes no group and recovers nothing conserves.            *)
LEMMA NothingMoves ==
    ASSUME Conserved, phase # "aborted", Len(alice.groups) = alice.remaining,
           UNCHANGED <<hash, setA, setB>>,
           alice'.groups = alice.groups, alice'.origin = alice.origin,
           alice'.remaining = alice.remaining, alice'.recovered = alice.recovered,
           \A g \in 1..alice.remaining : BobTable'[g] = BobTable[g]
    PROVE  Conserved'
<1>1. \A o : PendingWith(alice', BobTable', o) = PendingWith(alice, BobTable, o)
  BY PendingSame
<1>2. \A o : PendingWith(alice, BobTable, o)' = PendingWith(alice', BobTable', o)
  BY DEF PendingWith, InGroup, Apart
<1>3. RecoveredParity' = RecoveredParity /\ Difference' = Difference
  BY DEF RecoveredParity, Difference
<1>4. \A S, o : OfGroup(S, o)' = OfGroup(S', o)
  BY DEF OfGroup, getGroupId_
<1>5. \A o : OfGroup(Difference (+) RecoveredParity, o)' = OfGroup(Difference (+) RecoveredParity, o)
  BY <1>3 DEF OfGroup, getGroupId_
<1> QED BY <1>1, <1>2, <1>5 DEF Conserved

(* Every step conserves: Alice hands her exceptions over as the hint.      *)
LEMMA AliceEncodeConserves ==
    ASSUME InStep, Conserved, AliceEncode
    PROVE  Conserved' /\ BobHasSplit'
<1>1. /\ alice \in Pbs /\ Parallel(alice) /\ phase = "aliceEncode"
      /\ Len(alice.groups) = alice.remaining
      /\ alice' = [doEncode_(alice, hash) EXCEPT !.exceptions = << >>]
      /\ UNCHANGED <<setA, setB, hash, bob>> /\ phase' \in {"bobEncode", "aborted"}
      /\ phase' = "bobEncode" => hint' = alice.exceptions
  BY DEF InStep, TypeOK, Tables, AliceEncode, encode
<1> SUFFICES ASSUME phase' = "bobEncode" PROVE Conserved' /\ BobHasSplit'
  BY <1>1 DEF Conserved, BobHasSplit
<1> DEFINE q == doEncode_(alice, hash)
<1>2. /\ q \in Pbs /\ q.groups = alice.groups /\ q.recovered = alice.recovered
      /\ q.origin = alice.origin /\ q.remaining = alice.remaining
  BY <1>1, EncodeProperties
<1> HIDE DEF q
<1>3. /\ alice'.groups = alice.groups /\ alice'.recovered = alice.recovered
      /\ alice'.origin = alice.origin /\ alice'.remaining = alice.remaining
  BY <1>1, <1>2 DEF Pbs, q
<1>4. BobTable' = BobTable
  BY <1>1 DEF BobTable, AfterHint, MovedGroups
<1> QED BY <1>1, <1>3, <1>4, NothingMoves DEF BobHasSplit

LEMMA BobEncodeConserves ==
    ASSUME InStep, Conserved, BobEncode
    PROVE  Conserved' /\ BobHasSplit'
<1>1. /\ bob \in Pbs /\ Parallel(bob) /\ phase = "bobEncode" /\ bob.role = "Undetermined"
      /\ bob' = [doEncode_(bob, hash) EXCEPT !.exceptions = << >>]
      /\ Len(alice.groups) = alice.remaining
      /\ UNCHANGED <<setA, setB, hash, alice>> /\ phase' = "bobDecode"
  BY DEF InStep, TypeOK, Tables, BobEncode, encode
<1> DEFINE q == doEncode_(bob, hash)
<1>2. q \in Pbs /\ q.groups = bob.groups
  BY <1>1, EncodeProperties
<1> HIDE DEF q
<1>3. bob'.groups = bob.groups
  BY <1>1, <1>2 DEF Pbs, q
<1>4. BobTable' = BobTable
  BY <1>1, <1>3 DEF BobTable
<1> QED BY <1>1, <1>4, NothingMoves DEF BobHasSplit

(* Bob moves the groups that BobTable already counted as moved.            *)
LEMMA BobEncodeWithHintConserves ==
    ASSUME InStep, Conserved, BobEncodeWithHint
    PROVE  Conserved' /\ BobHasSplit'
<1>1. /\ bob \in Pbs /\ Parallel(bob) /\ bob.role = "Bob" /\ phase = "bobEncode"
      /\ Len(bob.groups) = bob.remaining + PieceCount(bob.failed)
      /\ IdList(hint, bob.remaining) /\ Len(alice.groups) = alice.remaining
      /\ UNCHANGED <<setA, setB, hash, alice>>
  BY DEF InStep, TypeOK, Tables, BobBehind, Exceptions, BobEncodeWithHint, Pbs
<1>2. phase' \in {"aborted", "bobDecode"}
  BY DEF BobEncodeWithHint
<1> SUFFICES ASSUME phase' = "bobDecode" PROVE Conserved' /\ BobHasSplit'
  BY <1>2 DEF Conserved, BobHasSplit
<1>3. bob' = doEncode_(WithHint(bob, hint), hash)
  BY DEF BobEncodeWithHint, encodeWithHint
<1> DEFINE m == Len(hint)
           n == bob.remaining
           f == PieceCount(bob.failed)
<1>4. m \in Nat /\ n \in Nat /\ f \in Nat
  BY <1>1, Counters DEF IdList
<1>5. hint \in [1..m -> 1..Len(bob.groups)] /\ n <= Len(bob.groups)
  <2>1. hint \in [1..m -> 1..n] /\ Len(bob.groups) = n + f
    BY <1>1 DEF IdList
  <2> HIDE DEF m, n, f
  <2>2. \A i \in 1..m : hint[i] \in 1..Len(bob.groups)
    BY <1>4, <2>1
  <2> QED
    BY <1>4, <2>1, <2>2
<1> DEFINE r == WithHint(bob, hint)
<1> HIDE DEF m, f
<1>6. r \in Pbs /\ Parallel(r)
  BY <1>1, <1>4, <1>5, WithHintProperties
<1>7. r.groups = AfterHint(bob, hint)
  BY <1>1, <1>4, <1>5, WithHintGroups
<1> HIDE DEF r
<1>8. bob'.groups = AfterHint(bob, hint)
  BY <1>3, <1>6, <1>7, EncodeProperties DEF r
<1>9. BobTable = AfterHint(bob, hint)
  BY <1>1 DEF BobTable
<1>10. BobTable' = bob'.groups
  BY DEF BobTable
<1> QED BY <1>1, <1>8, <1>9, <1>10, NothingMoves DEF BobHasSplit

(* Bob splits the groups he failed to decode; Alice is yet to do the same. *)
LEMMA BobDecodeConserves ==
    ASSUME InStep, Conserved, BobDecode
    PROVE  Conserved' /\ BobHasSplit'
<1>1. /\ bob \in Pbs /\ Parallel(bob) /\ phase = "bobDecode"
      /\ Len(bob.groups) = bob.remaining /\ Len(alice.groups) = alice.remaining
      /\ alice.remaining = bob.remaining
      /\ Len(bob.sketches) = bob.remaining /\ Len(encoding) = bob.remaining
      /\ encoding \in Seq(SUBSET Bins) /\ bob.failed = << >> /\ alice.round = bob.round
      /\ bob' = decode(bob, hash, encoding) /\ phase' = "aliceCheck"
      /\ UNCHANGED <<setA, setB, hash, alice>>
  BY DEF InStep, TypeOK, Tables, BothEncoded, Aligned, BobDecode
<1> DEFINE ids == FailedIds(bob, hash, encoding)
           n == bob.remaining
           m == Len(ids)
           c == Pieces(bob, hash, ids)
<1>2. m \in Nat /\ n \in Nat /\ ids \in [1..m -> 1..n]
  <2>1. bob.remaining \in Nat
    BY <1>1 DEF Pbs
  <2> QED
    BY <1>1, <2>1, FailedIdsType
<1>3. bob'.failed = ids
  BY <1>1, DecodeProperties
<1>4. bob'.groups = bob.groups \o c
  BY <1>1, DecodeGroups DEF AfterSplit
<1>5. PieceCount(ids) = Splits * m
  BY DEF PieceCount
<1> HIDE DEF ids, n, m
<1>6. Splits * m \in Nat /\ c \in [1..(Splits * m) -> SUBSET Key]
  <2>1. n <= Len(bob.groups)
    BY <1>1, <1>2 DEF n
  <2> QED BY <1>1, <1>2, <2>1, PiecesType
<1> DEFINE w == Splits * m
<1> HIDE DEF w
<1>7. c \in Seq(SUBSET Key) /\ Len(c) = w /\ bob.groups \in Seq(SUBSET Key) /\ Len(bob.groups) = n
  BY <1>1, <1>6, FunctionIsSeq DEF Pbs, w, n
<1> HIDE DEF c
<1>8. /\ \A g \in 1..n : bob'.groups[g] = bob.groups[g]
      /\ \A i \in 1..w : bob'.groups[n + i] = c[i]
  <2> DEFINE s == bob.groups
  <2>1. s \in Seq(SUBSET Key) /\ c \in Seq(SUBSET Key)
    BY <1>7
  <2>2. bob'.groups = s \o c /\ Len(s) = n /\ Len(c) = w
    BY <1>4, <1>7
  <2> HIDE DEF s
  <2>3. /\ \A g \in 1..Len(s) : (s \o c)[g] = s[g]
        /\ \A i \in 1..Len(c) : (s \o c)[Len(s) + i] = c[i]
    BY <2>1
  <2> QED BY <2>2, <2>3 DEF s
<1>9. BobTable = bob.groups /\ BobTable' = bob'.groups
  BY <1>1 DEF BobTable
<1>10. Conserved'
  BY <1>1, <1>8, <1>9, NothingMoves DEF n
<1>11. ASSUME NEW i \in 1..w
       PROVE  bob'.groups[n + i] = PieceOf(bob'.groups, ids, hash.split[alice.round], i)
  <2>1. SplitSource(ids, i) \in 1..n
    BY <1>2, <1>6, SplitIndexing DEF w, SplitSource
  <2>2. c[i] = {k \in bob.groups[SplitSource(ids, i)] : hash.split[bob.round][k] = SplitIndex(i)}
    BY DEF c, Pieces, m, w
  <2> QED BY <1>1, <1>8, <2>1, <2>2 DEF PieceOf
<1>12. PieceCount(bob.failed)' = w /\ alice'.remaining = n
  BY <1>1, <1>3, <1>5 DEF PieceCount, w, n
<1>13. \A i : PieceOf(bob.groups, bob.failed, hash.split[alice.round], i)'
                = PieceOf(bob'.groups, ids, hash.split[alice.round], i)
  BY <1>1, <1>3 DEF PieceOf, SplitSource, SplitIndex
<1>14. BobHasSplit'
  BY <1>11, <1>12, <1>13 DEF BobHasSplit, SplitAlike
<1> QED BY <1>10, <1>14

-------------------------------------------------------------------------------
(* The check of Alice. *)

(* A key of the XOR of two sets restricted to an original group.           *)
LEMMA OfGroupOfXor ==
    ASSUME NEW S, NEW T, NEW o
    PROVE  OfGroup(S (+) T, o) = OfGroup(S, o) (+) OfGroup(T, o)
BY Zenon DEF OfGroup, (+)

(* What Alice's check does to what is pending.                             *)
LEMMA CheckPending ==
    ASSUME InStep, MessagesTell, BobHasSplit, phase = "aliceCheck", NEW o \in GroupId,
           NEW q, q = decodeCheck(alice, hash, decoding)
    PROVE  XorSum(PendingWith(q, AfterHint(bob, q.exceptions), o)) =
               XorSum(PendingWith(alice, bob.groups, o))
                 (+) XorSum(Toggled(InGroup(alice, o), AcceptedRow(alice, hash, decoding)))
<1> DEFINE n == alice.remaining
           ids == FailedGroups(n, decoding)
           exc == Ordered(ExceptionGroups(alice, hash, decoding))
           E == ExceptionGroups(alice, hash, decoding)
           F == Undecoded(n, decoding)
           G == InGroup(alice, o)
           L == Apart(alice.groups, bob.groups)
           R == AcceptedRow(alice, hash, decoding)
           s == hash.split[alice.round]
<1>1. /\ alice \in Pbs /\ Parallel(alice) /\ Len(alice.groups) = n
      /\ decoding \in DecodingMessage /\ Len(decoding) = n
      /\ bob \in Pbs /\ bob.remaining = n /\ bob.failed = ids
      /\ Len(bob.groups) = bob.remaining + PieceCount(bob.failed)
      /\ hash \in Hashes /\ IsHash(hash) /\ alice.round \in Rounds
      /\ FreshlyEncoded(alice) /\ \A g \in 1..n : Told(g)
  BY ProtocolAssumption DEF InStep, TypeOK, Tables, AliceBehind, MessagesTell
<1>2. n \in Nat /\ PieceCount(ids) \in Nat
  BY <1>1, Counters
<1>3. s \in [Key -> 0..(Splits - 1)]
  BY <1>1 DEF IsHash, Hash
<1>4. q.exceptions = exc
  BY <1>1, CheckRecovers
<1>5. PendingWith(q, AfterHint(bob, exc), o) =
          Toggled(F \cap G, L) (+) (Toggled(E \cap G, L) (+) Toggled(E \cap G, R))
  <2>1. SplitAlike(bob.groups, n, ids, s)
    BY <1>1 DEF BobHasSplit
  <2>2. Len(bob.groups) = bob.remaining + PieceCount(ids)
    BY <1>1
  <2>3. CheckReady(alice, hash, decoding, bob)
    BY <1>1, <1>3, <2>1, <2>2 DEF CheckReady, HasSplit
  <2>4. PendingWith(q, AfterHint(bob, exc), o) = PendingLeft(alice, hash, decoding, bob, o)
    BY <2>3, PendingAfterCheck
  <2> QED BY <2>4 DEF PendingLeft
<1>6. \A g \in 1..n : R[g] = Accepted(alice, hash, decoding, g) /\ R[g] \in SUBSET Key
  BY <1>1, <1>2, AcceptedProperties DEF AcceptedRow
<1>7. ASSUME NEW g \in 1..n
      PROVE  /\ alice.groups[g] \in SUBSET Key /\ bob.groups[g] \in SUBSET Key
             /\ L[g] = alice.groups[g] (+) bob.groups[g]
             /\ L[g] \in SUBSET Key
             /\ XorSum(L[g]) = XorSum(alice.groups[g]) (+) XorSum(bob.groups[g])
  <2>1. alice.groups \in Seq(SUBSET Key) /\ bob.groups \in Seq(SUBSET Key)
    BY <1>1 DEF Pbs
  <2>2. g \in 1..Len(alice.groups) /\ g \in 1..Len(bob.groups)
    BY <1>1, <1>2
  <2>3. alice.groups[g] \in SUBSET Key /\ bob.groups[g] \in SUBSET Key
    BY <2>1, <2>2, ElementOfSeq
  <2>4. L[g] = alice.groups[g] (+) bob.groups[g]
    BY <2>2 DEF Apart
  <2> DEFINE x == alice.groups[g]
             y == bob.groups[g]
  <2> HIDE DEF x, y, L
  <2>5. x \in SUBSET Key /\ y \in SUBSET Key /\ L[g] = x (+) y
    BY <2>3, <2>4 DEF x, y
  <2>6. XorSum(x (+) y) = XorSum(x) (+) XorSum(y) /\ x (+) y \in SUBSET Key
    <3>1. x (+) y \in SUBSET Key
      BY <2>5 DEF (+)
    <3> QED BY <2>5, <3>1, KeysAreFinite, XorSumOfDifference
  <2> QED BY <2>5, <2>6 DEF x, y
<1>8. ASSUME NEW g \in F PROVE R[g] = {}
  <2>1. g \in 1..n /\ ~decoding[g].ok
    BY DEF Undecoded
  <2>2. decoding[g].at = {}
    <3>1. /\ Told(g) /\ ~Outcomes(g).ok
      BY <1>1, <2>1 DEF Told
    <3> DEFINE b == OddBins(alice.round, bob.groups[g]) (+) OddBins(alice.round, alice.groups[g])
    <3>2. b \in SUBSET Bins
      BY DEF OddBins, (+)
    <3>3. Outcomes(g) = hash.decode[b]
      BY DEF Outcomes
    <3> HIDE DEF b
    <3>4. hash.decode[b] \in DecodeOutcomes(b)
      BY <1>1, <3>2 DEF IsHash
    <3>5. Outcomes(g).at = {}
      BY <3>1, <3>3, <3>4 DEF DecodeOutcomes
    <3> QED BY <3>1, <3>5 DEF Told
  <2> QED BY <1>6, <2>1, <2>2 DEF Accepted
<1>9. ASSUME NEW g \in 1..n, g \notin F, g \notin E
      PROVE  XorSum(L[g]) = XorSum(R[g])
  <2>1. decoding[g].ok /\ ~ChecksumFails(alice, hash, decoding, g)
    BY <1>9 DEF ExceptionGroups, Undecoded
  <2>2. decoding[g].sum = XorSum(bob.groups[g])
    BY <1>1, <2>1 DEF Told
  <2>3. alice.checksums[g] = XorSum(alice.groups[g])
    BY <1>1 DEF FreshlyEncoded
  <2>4. XorSum(bob.groups[g]) = XorSum(alice.groups[g]) (+) XorSum(R[g])
    BY <1>6, <2>1, <2>2, <2>3 DEF ChecksumFails
  <2> HIDE DEF L, R
  <2> QED BY <1>7, <2>4, XorFacts
<1>10. PendingWith(alice, bob.groups, o) = Toggled(G, L)
  BY DEF PendingWith
<1>11. XorSum(Toggled(F \cap G, L) (+) (Toggled(E \cap G, L) (+) Toggled(E \cap G, R)))
         = XorSum(Toggled(G, L)) (+) XorSum(Toggled(G, R))
  <2>1. F \in SUBSET (1..n) /\ E \in SUBSET (1..n) /\ G \in SUBSET (1..n) /\ F \cap E = {}
    BY DEF ExceptionGroups, InGroup, Undecoded
  <2> HIDE DEF F, E, G, L, R, n
  <2>2. \A g \in G \ (F \union E) : /\ L[g] \in SUBSET Key /\ R[g] \in SUBSET Key
                                    /\ XorSum(L[g]) = XorSum(R[g])
    BY <1>6, <1>7, <1>9, <2>1
  <2>3. \A g \in F : R[g] = {}
    BY <1>8
  <2>4. Within(F, n) /\ Within(E, n) /\ Within(G, n) /\ F \cap E = {}
    BY <1>2, <2>1 DEF Within
  <2> QED BY <2>2, <2>3, <2>4, WhatIsGivenIsTaken
<1> HIDE DEF F, E, G, L, R, exc
<1> QED BY <1>4, <1>5, <1>10, <1>11 DEF G, R

(* Alice splits alike, and what she recovers leaves what is pending.       *)
LEMMA AliceCheckConserves ==
    ASSUME InStep, MessagesTell, Conserved, BobHasSplit, AliceCheck
    PROVE  Conserved' /\ BobHasSplit'
<1> DEFINE n == alice.remaining
           R == AcceptedRow(alice, hash, decoding)
           T == Toggled(1..n, R)
<1>1. /\ alice \in Pbs /\ Parallel(alice) /\ Len(alice.groups) = n
      /\ decoding \in DecodingMessage /\ Len(decoding) = n
      /\ bob.role = "Bob" /\ phase = "aliceCheck"
      /\ setA \in SUBSET Key /\ setB \in SUBSET Key
      /\ alice' = decodeCheck(alice, hash, decoding)
      /\ UNCHANGED <<setA, setB, hash, bob>> /\ phase' \in {"done", "aliceEncode"}
  BY DEF InStep, TypeOK, Tables, AliceBehind, AliceCheck
<1>2. /\ BobTable = bob.groups
      /\ BobTable' = AfterHint(bob, alice'.exceptions)
  BY <1>1 DEF BobTable, AfterHint, MovedGroups
<1>3. n \in Nat /\ R \in Seq(SUBSET Key) /\ Len(R) = n
  <2>1. n \in Nat
    BY <1>1 DEF Pbs
  <2>2. \A g \in 1..n : Accepted(alice, hash, decoding, g) \in SUBSET Key
    BY <1>1, <2>1, AcceptedProperties
  <2>3. R \in [1..n -> SUBSET Key]
    BY <2>2 DEF AcceptedRow
  <2> HIDE DEF R, n
  <2> QED BY <2>1, <2>3, FunctionIsSeq
<1>4. alice'.recovered = Append(alice.recovered, R) /\ alice.recovered \in Seq(Seq(SUBSET Key))
  BY <1>1, CheckRecovers DEF AcceptedRow, Pbs
<1>5. RecoveredParity' = RecoveredParity (+) T
  <2>1. RecoveredParity' = ParityOf(alice'.recovered)
    BY ParityIs DEF RecoveredParity, Cells
  <2>3. RecoveredParity = ParityOf(alice.recovered)
    BY ParityIs DEF RecoveredParity, Cells
  <2> HIDE DEF R, n
  <2>2. ParityOf(Append(alice.recovered, R)) = ParityOf(alice.recovered) (+) Toggled(1..Len(R), R)
    BY <1>3, <1>4, ParityGrows
  <2> QED BY <1>3, <1>4, <2>1, <2>2, <2>3
<1>6. ASSUME NEW o \in GroupId
      PROVE  XorSum(OfGroup(Difference (+) RecoveredParity, o)') =
             XorSum(PendingWith(alice, BobTable, o)')
  <2> DEFINE X == Difference (+) RecoveredParity
  <2>1. OfGroup(Difference (+) RecoveredParity, o)' = OfGroup(X (+) T, o)
    <3>1. Difference' = Difference
      BY <1>1 DEF Difference
    <3>2. (Difference (+) RecoveredParity)' = X (+) T
      BY <1>5, <3>1, XorAlgebra
    <3> HIDE DEF X, T
    <3> QED BY <1>1, <3>2 DEF OfGroup, getGroupId_
  <2>2. OfGroup(T, o) = Toggled(InGroup(alice, o), R)
    <3>1. \A g \in 1..n : \A k \in R[g] : getGroupId_(hash, k) = alice.origin[g]
      BY <1>1, <1>3, AcceptedProperties DEF AcceptedRow
    <3> HIDE DEF R
    <3>2. OfGroup(Toggled(1..n, R), o) = Toggled({g \in 1..n : alice.origin[g] = o}, R)
      BY <1>3, <3>1, GivenOfGroup
    <3> QED BY <3>2 DEF InGroup
  <2>3. XorSum(PendingWith(alice', BobTable', o)) =
            XorSum(PendingWith(alice, BobTable, o)) (+) XorSum(Toggled(InGroup(alice, o), R))
    BY <1>1, <1>2, CheckPending
  <2>4. PendingWith(alice, BobTable, o)' = PendingWith(alice', BobTable', o)
    BY DEF PendingWith, InGroup, Apart
  <2>5. OfGroup(X, o) \in SUBSET Key /\ OfGroup(T, o) \in SUBSET Key
    BY <1>1, ToggledIsKeys DEF OfGroup, Difference, RecoveredParity, (+)
  <2> HIDE DEF X, T, R
  <2>6. XorSum(OfGroup(X (+) T, o)) = XorSum(OfGroup(X, o)) (+) XorSum(OfGroup(T, o))
    <3>1. IsFiniteSet(OfGroup(X, o)) /\ IsFiniteSet(OfGroup(T, o))
      BY <2>5, KeysAreFinite
    <3> QED BY <3>1, OfGroupOfXor, XorSumOfDifference
  <2>7. XorSum(OfGroup(X, o)) = XorSum(PendingWith(alice, BobTable, o))
    BY <1>1 DEF Conserved, X
  <2> QED BY <2>1, <2>2, <2>3, <2>4, <2>6, <2>7
<1>7. Conserved'
  BY <1>6 DEF Conserved, GroupId
<1> QED BY <1>1, <1>7 DEF BobHasSplit

LEMMA StutteringConserves ==
    ASSUME Conserved, BobHasSplit, UNCHANGED vars
    PROVE  Conserved' /\ BobHasSplit'
<1>1. UNCHANGED <<setA, setB, alice, bob, phase, hint, hash>>
  BY DEF vars
<1>2. BobTable' = BobTable /\ RecoveredParity' = RecoveredParity /\ Difference' = Difference
  BY <1>1 DEF BobTable, AfterHint, MovedGroups, RecoveredParity, Difference
<1>3. \A o : PendingWith(alice, BobTable, o)' = PendingWith(alice, BobTable, o)
  BY <1>1, <1>2 DEF PendingWith, InGroup, Apart
<1>4. \A o : OfGroup(Difference (+) RecoveredParity, o)' = OfGroup(Difference (+) RecoveredParity, o)
  BY <1>1, <1>2 DEF OfGroup, getGroupId_
<1>5. \A i : PieceOf(bob.groups, bob.failed, hash.split[alice.round], i)' =
                PieceOf(bob.groups, bob.failed, hash.split[alice.round], i)
  BY <1>1 DEF PieceOf, SplitSource, SplitIndex
<1> QED BY <1>1, <1>3, <1>4, <1>5 DEF Conserved, BobHasSplit, SplitAlike, PieceCount

(* At first everything the two sets differ by is pending, each key in the  *)
(* group it hashes to.                                                     *)
LEMMA InitConserves == Init => Conserved /\ BobHasSplit
<1> SUFFICES ASSUME Init PROVE Conserved /\ BobHasSplit
  OBVIOUS
<1>1. /\ setA \in SUBSET Key /\ setB \in SUBSET Key /\ hash \in Hash
      /\ phase = "aliceEncode" /\ bob.role = "Undetermined"
      /\ alice.recovered = << >>
      /\ alice.groups = [g \in GroupId |-> {k \in setA : getGroupId_(hash, k) = g}]
      /\ bob.groups = [g \in GroupId |-> {k \in setB : getGroupId_(hash, k) = g}]
      /\ alice.origin = [g \in GroupId |-> g] /\ alice.remaining = NumGroups
  BY ProtocolAssumption, HashIsHash DEF Init, Construct
<1>2. RecoveredParity = {}
  <2>1. Len(alice.recovered) = 0
    BY <1>1
  <2>2. 1..Len(alice.recovered) = {}
    BY <2>1
  <2>3. Cells(alice.recovered) = {}
    BY <2>2 DEF Cells
  <2>4. RecoveredParity = ParityOf(alice.recovered)
    BY ParityIs DEF RecoveredParity, Cells
  <2> QED BY <2>3, <2>4, ToggledOfNone DEF ParityOf
<1>3. ASSUME NEW o \in GroupId
      PROVE  PendingWith(alice, bob.groups, o) = OfGroup(Difference (+) RecoveredParity, o)
  <2>1. InGroup(alice, o) = {o}
    BY <1>1 DEF InGroup, GroupId
  <2> DEFINE L == Apart(alice.groups, bob.groups)
             D == OfGroup(Difference (+) RecoveredParity, o)
  <2>2. L[o] = alice.groups[o] (+) bob.groups[o]
    <3>1. Len(alice.groups) = NumGroups
      BY <1>1, SketchAssumption DEF GroupId
    <3> QED BY <3>1 DEF Apart, GroupId
  <2>3. D = OfGroup(Difference, o)
    BY <1>2, XorAlgebra
  <2>4. L[o] = D
    BY <1>1, <2>2, <2>3, Zenon DEF OfGroup, Difference, (+)
  <2>5. D \in SUBSET Key
    BY <1>1, <2>3 DEF OfGroup, Difference, (+)
  <2> HIDE DEF L, D
  <2>6. Toggled({o}, L) = L[o]
    BY <2>4, <2>5, ToggledOfOne
  <2> QED BY <2>1, <2>4, <2>6 DEF PendingWith, L, D
<1>4. BobTable = bob.groups
  BY <1>1 DEF BobTable
<1> QED BY <1>1, <1>3, <1>4 DEF Conserved, BobHasSplit

-------------------------------------------------------------------------------
(* The theorems. *)

(* The inductive invariant.                                                *)
RoundInv == InStep /\ FreshRows /\ MessagesTell /\ Conserved /\ BobHasSplit

LEMMA RoundStarts == Init => RoundInv
<1>1. Init => MessagesTell
  BY DEF Init, MessagesTell
<1> QED BY <1>1, InitInStep, InitFresh, InitConserves DEF RoundInv

LEMMA AliceEncodeRound == RoundInv /\ AliceEncode => RoundInv'
BY AliceEncodeInStep, AliceEncodeFresh, AliceEncodeTells, AliceEncodeConserves DEF RoundInv

LEMMA BobEncodeRound == RoundInv /\ BobEncode => RoundInv'
BY BobEncodeInStep, BobEncodeFresh, BobEncodeTells, BobEncodeConserves DEF RoundInv

LEMMA BobEncodeWithHintRound == RoundInv /\ BobEncodeWithHint => RoundInv'
BY BobEncodeWithHintInStep, BobEncodeWithHintFresh, BobEncodeWithHintTells,
   BobEncodeWithHintConserves DEF RoundInv

LEMMA BobDecodeRound == RoundInv /\ BobDecode => RoundInv'
BY BobDecodeInStep, BobDecodeFresh, BobDecodeTells, BobDecodeConserves DEF RoundInv

LEMMA AliceCheckRound == RoundInv /\ AliceCheck => RoundInv'
<1>1. AliceCheck => MessagesTell'
  BY DEF AliceCheck, MessagesTell
<1> QED BY <1>1, AliceCheckInStep, AliceCheckFresh, AliceCheckConserves DEF RoundInv

LEMMA StutteringRound == RoundInv /\ UNCHANGED vars => RoundInv'
BY StutteringInStep, StutteringFresh, StutteringTells, StutteringConserves DEF RoundInv

LEMMA RoundInvHolds == Spec => []RoundInv
<1>1. RoundInv /\ [Next]_vars => RoundInv'
  BY AliceEncodeRound, BobEncodeRound, BobEncodeWithHintRound, BobDecodeRound,
     AliceCheckRound, StutteringRound DEF Next, Stopped
<1> QED BY <1>1, RoundStarts, PTL DEF Spec

(* Conservation: in every original group, what is neither recovered nor    *)
(* pending cancels under XOR, whatever was split, moved, inserted or       *)
(* wrongly decoded.                                                        *)
THEOREM DifferencesAreConserved == Spec => []Conservation
<1>1. InStep /\ Conserved => Conservation
  <2> SUFFICES ASSUME InStep, Conserved, phase = "bobDecode", NEW o \in GroupId
               PROVE  XorSum(OfGroup(Difference (+) RecoveredParity, o)) = XorSum(Pending(o))
    BY DEF Conservation
  <2>1. BobTable = bob.groups /\ Len(alice.groups) = alice.remaining
    BY DEF BobTable, InStep, Tables
  <2>2. ASSUME NEW k
        PROVE  {g \in InGroup(alice, o) : k \in Apart(alice.groups, bob.groups)[g]} =
               {g \in 1..alice.remaining : /\ alice.origin[g] = o
                                           /\ k \in alice.groups[g] (+) bob.groups[g]}
    BY <2>1 DEF InGroup, Apart
  <2>3. PendingWith(alice, bob.groups, o) = Pending(o)
    BY <2>2 DEF PendingWith, Toggled, Pending
  <2> QED
    BY <2>1, <2>3 DEF Conserved
<1> QED
  BY <1>1, RoundInvHolds, PTL DEF RoundInv

LEMMA DoneIsEmpty == Spec => [](phase = "done" => alice.remaining = 0)
<1>1. Init => (phase = "done" => alice.remaining = 0)
  BY DEF Init
<1>2. (phase = "done" => alice.remaining = 0) /\ [Next]_vars
        => (phase = "done" => alice.remaining = 0)'
  BY DEF Next, AliceEncode, BobEncode, BobEncodeWithHint, BobDecode, AliceCheck,
         decodeCheckCompletes, Stopped, vars
<1> QED
  BY <1>1, <1>2, PTL DEF Spec

(* When no group is left, nothing is pending.                              *)
LEMMA NothingPending ==
    ASSUME Conserved, phase = "done", alice.remaining = 0, NEW o \in GroupId
    PROVE  XorSum(OfGroup(Difference (+) RecoveredParity, o)) = {}
<1>1. InGroup(alice, o) = {}
  BY DEF InGroup
<1>2. PendingWith(alice, BobTable, o) = {}
  BY <1>1, ToggledOfNone DEF PendingWith
<1> QED BY <1>2, XorSumOfNone DEF Conserved

(* When Alice is done, what she recovered is the difference, up to a set   *)
(* of keys of each original group whose XOR is zero.                       *)
THEOREM CompletesUpToZeroXor == Spec => []CompletedUpToZeroXor
<1>1. (phase = "done" => alice.remaining = 0) /\ Conserved => CompletedUpToZeroXor
  BY NothingPending DEF CompletedUpToZeroXor
<1> QED
  BY <1>1, DoneIsEmpty, RoundInvHolds, PTL DEF RoundInv
===============================================================================
