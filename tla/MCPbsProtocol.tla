---------------------------- MODULE MCPbsProtocol ----------------------------
(***************************************************************************)
(* Small instances of PbsProtocol.  Keys have three bits.  The keys that   *)
(* matter are the three one-bit keys and their XOR, 111: with an odd       *)
(* number of them in one bin the protocol recovers either a difference or  *)
(* a fake.                                                                 *)
(***************************************************************************)
EXTENDS PbsProtocol

One   == {{b} : b \in Bit}
Basis == One \union {Bit}

(* A two-valued hash is given by the keys it sends to its first value; it  *)
(* is arbitrary on Basis.                                                  *)
TwoValued(first, second) ==
    {[k \in Key |-> IF k \in S THEN first ELSE second] : S \in SUBSET Basis}

(* Splitting by the number of one-bits, by the first bit, or not at all. *)
SplitFunctions ==
    {[k \in Key |-> Cardinality(k) % Splits],
     [k \in Key |-> IF 1 \in k THEN 1 ELSE 0],
     [k \in Key |-> 0]}

(* The decoder fails on a bitmap with too many bits, or answers another    *)
(* set of positions with the same syndromes.                               *)
Decoders ==
    {f \in [SUBSET Bins -> UNION {DecodeOutcomes(s) : s \in SUBSET Bins}] :
        \A s \in SUBSET Bins : f[s] \in DecodeOutcomes(s)}

(* A split in a round of even number, and the one in a round of odd number. *)
Splitters == {[r \in Rounds |-> IF r % 2 = 0 THEN f ELSE [k \in Key |-> (f[k] + 1) % Splits]] :
                 f \in SplitFunctions}

(* The last round puts every key in one bin, or the keys with bit 1 apart. *)
LastBins == {[k \in Key |-> 1], [k \in Key |-> IF 1 \in k THEN 1 ELSE 2]}

(* All keys in one group; the bins of the first two rounds are arbitrary. *)
OneGroupHashes ==
    [group : {[k \in Key |-> 1]},
     bin : {[r \in Rounds |-> IF r = 0 THEN f ELSE IF r = 1 THEN g ELSE l] :
               f \in TwoValued(1, 2), g \in TwoValued(1, 2), l \in LastBins},
     split : Splitters, decode : Decoders]

(* Two groups, divided arbitrarily; the bins of the first round are too. *)
TwoGroupHashes ==
    [group : TwoValued(1, 2),
     bin : {[r \in Rounds |-> IF r = 0 THEN f ELSE l] :
               f \in TwoValued(1, 2), l \in LastBins},
     split : Splitters, decode : Decoders]

ProtocolHashes == OneGroupHashes \union TwoGroupHashes

(* Alice has the differences, Bob has them, each has some; with and        *)
(* without common keys; a common key that is the XOR of the differences;   *)
(* five differences, so that a bin of three of them comes with an          *)
(* exception.                                                              *)
ProtocolInputs ==
    {<<One, {}>>, <<{}, Basis>>, <<{{1}, {2}, Bit}, {{3}, Bit}>>,
     <<{{1}, {1, 2}}, {{2}, {1, 2}}>>, <<One \union {{1, 2}, {1, 3}}, {}>>,
     <<Basis, Basis>>}
===============================================================================
