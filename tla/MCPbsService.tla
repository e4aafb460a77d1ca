---------------------------- MODULE MCPbsService ----------------------------
(* Small instances of PbsService, with the keys of MCPbsProtocol. *)
EXTENDS PbsService

One   == {{b} : b \in Bit}
Basis == One \union {Bit}

TwoValued(first, second) ==
    {[k \in Key |-> IF k \in S THEN first ELSE second] : S \in SUBSET Basis}

(* The decoder fails where it may, or never. *)
Decoders ==
    {f \in [SUBSET Bins -> UNION {DecodeOutcomes(s) : s \in SUBSET Bins}] :
        \A s \in SUBSET Bins : f[s] \in DecodeOutcomes(s)}

(* Rounds after the second put the keys with bit 1 apart. *)
LaterBins == [k \in Key |-> IF 1 \in k THEN 1 ELSE 2]

(* Splitting by the number of one-bits, or not at all. *)
Splitters ==
    {[r \in Rounds |-> [k \in Key |-> Cardinality(k) % Splits]],
     [r \in Rounds |-> [k \in Key |-> 0]]}

(* One group; the bins of the first two rounds are arbitrary; or the basis  *)
(* is in one bin after two rounds that put its ones apart from its other    *)
(* key, which then is recovered twice.                                      *)
ServiceHashes ==
    [group : {[k \in Key |-> 1]},
     bin : {[r \in Rounds |-> IF r = 0 THEN f ELSE IF r = 1 THEN g ELSE LaterBins] :
               f \in TwoValued(1, 2), g \in TwoValued(1, 2)}
           \union {[r \in Rounds |-> [k \in Key |-> IF k \in One \/ r > 1 THEN 1 ELSE 2]]},
     split : Splitters, decode : Decoders]

(* Fewer of them, in one bin or two. *)
FewHashes ==
    [group : {[k \in Key |-> 1]},
     bin : {[r \in Rounds |-> f] : f \in {LaterBins, [k \in Key |-> 1]}},
     split : Splitters, decode : Decoders]

(* Fewer of them: the basis is in one bin for two rounds, or its ones are    *)
(* apart from its other key.                                                *)
SharedHashes ==
    [group : {[k \in Key |-> 1]},
     bin : {[r \in Rounds |-> IF r < 2 THEN f ELSE LaterBins] :
               f \in {[k \in Key |-> IF k \in Basis THEN 1 ELSE 2],
                      [k \in Key |-> IF k \in One THEN 1 ELSE 2]}},
     split : Splitters, decode : Decoders]

(* Every client has the keys S, the server the keys T. *)
Maps(S, T) == <<[c \in Clients |-> S], T>>

ServiceInputs ==
    {Maps(One, {}), Maps({}, Basis), Maps({{1}, {2}, Bit}, {{3}, Bit}),
     Maps({{1}, {1, 2}}, {{2}, {1, 2}}), Maps(One \union {{1, 2}, {1, 3}}, {}),
     Maps({}, Basis \union {{1, 2}, {1, 3}}), Maps(Basis, Basis)}

(* One difference, which is always found. *)
SingleDifferences ==
    {Maps({{1}, {2}}, {{2}}), Maps({{2}}, {{1}, {2}}), Maps({}, {{1}})}

(* Clients with the same keys or with others, of which the server has some, *)
(* or none, or which it should give them.                                  *)
SharedInputs ==
    {<<[c \in Clients |-> IF c = d THEN {{1}, {2}} ELSE One], {{2}, Bit}>> : d \in Clients}
        \union {Maps(One \union {{1, 2}, {1, 3}}, {}), Maps({}, Basis),
                Maps({{1}, {1, 2}}, {})}

(* For the run under fairness: only the server has keys, or only the        *)
(* clients do, and the basis is in two bins for two rounds.                 *)
OneSideHasKeys == {Maps({}, Basis), Maps({{1}}, {})}

ApartHashes ==
    {h \in SharedHashes : \A k \in Key : h.bin[0][k] = IF k \in One THEN 1 ELSE 2}
=============================================================================
