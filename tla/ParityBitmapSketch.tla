-------------------------- MODULE ParityBitmapSketch --------------------------
(***************************************************************************)
(* The class libpbs::ParityBitmapSketch of src/src/pbs.h as operators on   *)
(* a record, one operator per member function.  A member function that     *)
(* updates the object maps the record to the updated record; what it       *)
(* returns to its caller is an operator of its own.  The modules that      *)
(* hold such objects as variables (PbsProtocol, PbsService) say when each  *)
(* is called.                                                              *)
(*                                                                         *)
(* Group ids, which the code counts from 0, are sequence indices from 1.   *)
(* The hash functions are a parameter h of the operators:                  *)
(*   h.group[k]      getGroupId_ (the seed never changes)                  *)
(*   h.bin[r][k]     getBinId_ when round_count_ = r                       *)
(*   h.split[r][k]   the sub-group of threeWaySplit_ when round_count_ = r *)
(*   h.decode[s]     what minisketch_decode answers for a merged sketch    *)
(*                   of the bitmap s                                       *)
(***************************************************************************)
EXTENDS XorKeys, Sequences

CONSTANTS
    NumGroups,   \* num_groups_: the groups of the first round
    BchN,        \* bch_n_ = 2^m - 1: the block length of the BCH code
    BchT,        \* bch_t_: how many bit errors it corrects
    Splits,      \* num_groups_when_bch_fail_
    MaxRounds    \* rounds played at most (PBS_MAX_ROUNDS of the client)

ASSUME SketchAssumption ==
    /\ NumGroups \in Nat \ {0}
    /\ BchN \in Nat /\ BchN > 2
    /\ BchT \in Nat \ {0}
    /\ Splits \in Nat \ {0}
    /\ MaxRounds \in Nat \ {0}

GroupId  == 1..NumGroups
Bins     == 1..(BchN - 1)   \* bin 0 is never used, see getBinId_
Position == 1..BchN         \* the non-zero elements of the field GF(2^m)
Rounds   == 0..(MaxRounds - 1)
EmptyRow == [b \in Bins |-> {}]

-------------------------------------------------------------------------------
(* minisketch.  A sketch holds the syndromes of a set of bins, so merging  *)
(* two of them is the sketch of the symmetric difference.  A set of at     *)
(* most BchT bins decodes to itself; for a larger one the decoder fails or *)
(* answers another set with the same syndromes, that is, one whose         *)
(* distance from it is at least that of the code.                          *)
Outcome == [ok : BOOLEAN, at : SUBSET Position]

DecodeOutcomes(s) ==
    IF Cardinality(s) <= BchT
    THEN {[ok |-> TRUE, at |-> s]}
    ELSE {[ok |-> FALSE, at |-> {}]} \union
         {[ok |-> TRUE, at |-> f] :
             f \in {f \in SUBSET Position : /\ Cardinality(f) <= BchT
                                            /\ Cardinality(s (+) f) > 2 * BchT}}

Hash == [group  : [Key -> GroupId],
         bin    : [Rounds -> [Key -> Bins]],
         split  : [Rounds -> [Key -> 0..(Splits - 1)]],
         decode : [SUBSET Bins -> Outcome]]

IsHash(h) == /\ h \in Hash
             /\ \A s \in SUBSET Bins : h.decode[s] \in DecodeOutcomes(s)

getGroupId_(h, k) == h.group[k]

getBinId_(p, h, k) == h.bin[p.round][k]

-------------------------------------------------------------------------------
(* The object.  groups[g] is the parity set of the list groups_[g];        *)
(* recovered[r][g] is what round r recovered from its group g.             *)
Pbs == [groups     : Seq(SUBSET Key),
        origin     : Seq(GroupId),            \* to_original_group_id_
        xors       : Seq([Bins -> Key]),
        checksums  : Seq(Key),
        sketches   : Seq(SUBSET Bins),        \* pbs_encoding_
        remaining  : Nat,                     \* num_groups_remaining_
        round      : Nat,                     \* round_count_
        role       : {"Alice", "Bob", "Undetermined"},
        hintRange  : Nat,                     \* hint_max_range_
        exceptions : Seq(Nat),                \* groups_exp_I_or_II_
        failed     : Seq(Nat),                \* groups_bch_failed_
        recovered  : Seq(Seq(SUBSET Key))]

(* The vectors that describe the groups are parallel. *)
Parallel(p) == /\ Len(p.origin) = Len(p.groups)
               /\ Len(p.xors) = Len(p.groups)
               /\ Len(p.checksums) = Len(p.groups)

(* Every key is in a piece of the group it hashes to. *)
InOriginalGroup(p, h) ==
    \A g \in 1..Len(p.groups) : \A k \in p.groups[g] :
        getGroupId_(h, k) = p.origin[g]

(* The constructor followed by add() of every key of S. *)
Construct(S, h) ==
    [groups     |-> [g \in GroupId |-> {k \in S : getGroupId_(h, k) = g}],
     origin     |-> [g \in GroupId |-> g],
     xors       |-> [g \in GroupId |-> EmptyRow],
     checksums  |-> [g \in GroupId |-> {}],
     sketches   |-> << >>,
     remaining  |-> NumGroups,
     round      |-> 0,
     role       |-> "Undetermined",
     hintRange  |-> NumGroups,
     exceptions |-> << >>,
     failed     |-> << >>,
     recovered  |-> << >>]

(* Every growth of the group table pushes one entry on each of the four    *)
(* parallel vectors: the keys, the original group, a zero row of XORs and  *)
(* a zero checksum.                                                        *)
AppendGroups(p, contents, origins) ==
    [p EXCEPT !.groups    = @ \o contents,
              !.origin    = @ \o origins,
              !.xors      = @ \o [i \in 1..Len(contents) |-> EmptyRow],
              !.checksums = @ \o [i \in 1..Len(contents) |-> {}]]

(* The groups ids[1], ids[2], ... are moved, in this order, to the end; one *)
(* that is named twice (in a misread hint) has no keys left the second time.*)
MovedGroups(p, ids)  ==
    [i \in 1..Len(ids) |->
        IF \E j \in 1..(i - 1) : ids[j] = ids[i] THEN {} ELSE p.groups[ids[i]]]
MovedOrigins(p, ids) == [i \in 1..Len(ids) |-> p.origin[ids[i]]]

(* Mutant of MoveGroups: the checksum moves along with the keys. *)
MoveWithChecksums(p, ids) ==
    [AppendGroups(p, MovedGroups(p, ids), MovedOrigins(p, ids)) EXCEPT
        !.checksums = p.checksums \o [i \in 1..Len(ids) |-> p.checksums[ids[i]]]]

MoveGroups(p, ids) == AppendGroups(p, MovedGroups(p, ids), MovedOrigins(p, ids))

(* Each of the groups ids[1], ids[2], ... is split in Splits pieces, which *)
(* go to the end.  The split of round r is seeded with r.                  *)
SplitSource(ids, i) == ids[((i - 1) \div Splits) + 1]
SplitIndex(i) == (i - 1) % Splits

Pieces(p, h, ids) ==
    [i \in 1..(Splits * Len(ids)) |->
        {k \in p.groups[SplitSource(ids, i)] : h.split[p.round][k] = SplitIndex(i)}]

PieceOrigins(p, ids) ==
    [i \in 1..(Splits * Len(ids)) |-> p.origin[SplitSource(ids, i)]]

threeWaySplit_(p, h, ids) == AppendGroups(p, Pieces(p, h, ids), PieceOrigins(p, ids))

(* The groups of the round that ends are dropped; what was pushed behind   *)
(* them is the group table of the next round.                              *)
Behind(s, n) == SubSeq(s, n + 1, Len(s))

removeCompletedGroups_(p) ==
    [p EXCEPT !.hintRange = IF p.role = "Alice" THEN p.remaining ELSE @,
              !.groups    = Behind(@, p.remaining),
              !.origin    = Behind(@, p.remaining),
              !.xors      = Behind(@, p.remaining),
              !.checksums = Behind(@, p.remaining),
              !.remaining = Len(p.groups) - p.remaining]

-------------------------------------------------------------------------------
(* Words for the invariants: how many groups a split of the groups ids     *)
(* makes; a list of ids as decodeCheck makes them, increasing and of this  *)
(* round; the origins in a table after its groups ids have moved to the    *)
(* end and its first n groups have been dropped.                           *)
PieceCount(ids) == Splits * Len(ids)

IdList(ids, n) ==
    /\ Len(ids) \in Nat
    /\ ids \in [1..Len(ids) -> 1..n]
    /\ \A i, j \in 1..Len(ids) : i < j => ids[i] < ids[j]

AfterMoves(origin, ids, n) ==
    Behind(origin \o [i \in 1..Len(ids) |-> origin[ids[i]]], n)

-------------------------------------------------------------------------------
KeysInBin(p, h, g, b) == {k \in p.groups[g] : getBinId_(p, h, k) = b}

(* All remaining groups are encoded: their bitmaps become the new sketches *)
(* and their keys are XORed into the rows and the checksums, on top of     *)
(* what these already hold.                                                *)
doEncode_(p, h) ==
    [p EXCEPT
        !.sketches  = [g \in 1..p.remaining |->
                          {b \in Bins : IsOdd(Cardinality(KeysInBin(p, h, g, b)))}],
        !.xors      = [g \in 1..Len(@) |->
                          IF g > p.remaining THEN @[g]
                          ELSE [b \in Bins |-> @[g][b] (+) XorSum(KeysInBin(p, h, g, b))]],
        !.checksums = [g \in 1..Len(@) |->
                          IF g > p.remaining THEN @[g]
                          ELSE @[g] (+) XorSum(p.groups[g])]]

(* encode(): the hint it returns is p.exceptions, which it clears.  It     *)
(* throws if addGroupId refuses one of the ids.                            *)
encodeThrows(p) == \E i \in 1..Len(p.exceptions) : p.exceptions[i] > p.hintRange

encode(p, h) == [doEncode_(p, h) EXCEPT !.exceptions = << >>]

(* Mutant of WithHint: groups_bch_failed_ is not cleared. *)
WithHintKeepingFailures(p, hint) == removeCompletedGroups_(MoveGroups(p, hint))

(* encodeWithHint(): it throws if it was not called on Bob's side, if an   *)
(* id is not one of a group (vector::at), or if the moved and the split    *)
(* groups are not all that is left.                                        *)
WithHint(p, hint) ==
    removeCompletedGroups_([MoveGroups(p, hint) EXCEPT !.failed = << >>])

encodeWithHintThrows(p, hint) ==
    \/ p.role # "Bob"
    \/ \E i \in 1..Len(hint) : hint[i] \notin 1..Len(p.groups)
    \/ Len(hint) + Splits * Len(p.failed) # WithHint(p, hint).remaining

encodeWithHint(p, h, hint) == doEncode_(WithHint(p, hint), h)

-------------------------------------------------------------------------------
(* The XOR of bin b of group g, read as xors_[gid * bch_n_ + bid].  The    *)
(* decoder can answer the position BchN, for which there is no bin: the    *)
(* entry read is bin 0 of the next group, always zero, or lies past the    *)
(* end of the vector.                                                      *)
XorAt(p, g, b, pastEnd) ==
    IF b \in Bins THEN p.xors[g][b]
    ELSE IF g < Len(p.xors) THEN {} ELSE pastEnd

DecodeOf(p, h, other, g) == h.decode[p.sketches[g] (+) other[g]]

FailedGroups(n, dec) == Ordered({g \in 1..n : ~dec[g].ok})

(* decode(): the message for Alice, with the XORs and the checksums.       *)
decodeMessage(p, h, other, pastEnd) ==
    [g \in 1..p.remaining |->
        LET out == DecodeOf(p, h, other, g)
        IN  [ok   |-> out.ok,
             at   |-> out.at,
             xors |-> [b \in out.at |-> XorAt(p, g, b, pastEnd)],
             sum  |-> IF out.ok THEN p.checksums[g] ELSE {}]]

GroupDecoding ==
    UNION {[ok : BOOLEAN, at : {s}, xors : [s -> Key], sum : Key] : s \in SUBSET Position}

DecodingMessage == Seq(GroupDecoding)

decodeThrows(p) == p.role = "Alice"

FailedIds(p, h, other) == Ordered({g \in 1..p.remaining : ~DecodeOf(p, h, other, g).ok})

(* Mutants of decode: the split is seeded with the next round; the range   *)
(* of the hint is left alone; the round is not counted.                    *)

DecodeSplitLate(p, h, other) ==
    [threeWaySplit_([p EXCEPT !.round = (@ + 1) % MaxRounds], h, FailedIds(p, h, other)) EXCEPT
        !.hintRange = p.remaining,
        !.role      = "Bob",
        !.sketches  = [g \in 1..Len(@) |-> @[g] (+) other[g]],
        !.failed    = @ \o FailedIds(p, h, other),
        !.round     = p.round + 1]

DecodeOldRange(p, h, other) ==
    [threeWaySplit_(p, h, FailedIds(p, h, other)) EXCEPT
        !.role      = "Bob",
        !.sketches  = [g \in 1..Len(@) |-> @[g] (+) other[g]],
        !.failed    = @ \o FailedIds(p, h, other),
        !.round     = @ + 1]

DecodeUncounted(p, h, other) ==
    [threeWaySplit_(p, h, FailedIds(p, h, other)) EXCEPT
        !.hintRange = p.remaining,
        !.role      = "Bob",
        !.sketches  = [g \in 1..Len(@) |-> @[g] (+) other[g]],
        !.failed    = @ \o FailedIds(p, h, other)]

(* The sketches of the other side are merged into Bob's own.               *)
decode(p, h, other) ==
    [threeWaySplit_(p, h, FailedIds(p, h, other)) EXCEPT
        !.hintRange = p.remaining,
        !.role      = "Bob",
        !.sketches  = [g \in 1..Len(@) |-> @[g] (+) other[g]],
        !.failed    = @ \o FailedIds(p, h, other),
        !.round     = @ + 1]

-------------------------------------------------------------------------------
(* doDecodeCheck_ for group g: a candidate is kept when it hashes to the   *)
(* bin and to the original group it was found in.  (At position BchN none  *)
(* is kept, whatever was read for it: no key hashes to that bin.)          *)
Candidate(p, dec, g, b) == dec[g].xors[b] (+) XorAt(p, g, b, {})

(* Mutant of Accepts: the group of the candidate is not looked at. *)
AcceptsAnyGroup(p, h, dec, g, b) == getBinId_(p, h, Candidate(p, dec, g, b)) = b

Accepts(p, h, dec, g, b) ==
    /\ getBinId_(p, h, Candidate(p, dec, g, b)) = b
    /\ getGroupId_(h, Candidate(p, dec, g, b)) = p.origin[g]

Accepted(p, h, dec, g) ==
    {Candidate(p, dec, g, b) : b \in {b \in dec[g].at : Accepts(p, h, dec, g, b)}}

(* Mutants of ChecksumFails: what was recovered is not taken into account; *)
(* a group without a bit error is taken to be complete.                    *)
ChecksumOfAll(p, h, dec, g) == dec[g].sum # p.checksums[g]

ChecksumIfErrors(p, h, dec, g) ==
    /\ dec[g].at # {}
    /\ dec[g].sum # p.checksums[g] (+) XorSum(Accepted(p, h, dec, g))

(* Exceptions (I) and (II): the checksums disagree after the recovered     *)
(* keys are taken into account.                                            *)
ChecksumFails(p, h, dec, g) ==
    dec[g].sum # p.checksums[g] (+) XorSum(Accepted(p, h, dec, g))

ExceptionGroups(p, h, dec) ==
    {g \in 1..p.remaining : dec[g].ok /\ ChecksumFails(p, h, dec, g)}

(* Every group with an exception takes in what was recovered from it. *)
InsertRecovered(p, h, dec) ==
    [p EXCEPT !.groups = [g \in 1..Len(@) |->
        IF g \in ExceptionGroups(p, h, dec) THEN @[g] (+) Accepted(p, h, dec, g) ELSE @[g]]]

(* Mutants of decodeCheck: the exceptions are moved before the splits; the *)
(* recovered keys are not inserted.                                        *)
CheckMovingFirst(p, h, dec) ==
    LET ids   == FailedGroups(p.remaining, dec)
        exc   == Ordered(ExceptionGroups(p, h, dec))
        moved == threeWaySplit_(MoveGroups(InsertRecovered(p, h, dec), exc), h, ids)
    IN  [removeCompletedGroups_([moved EXCEPT !.role = "Alice"]) EXCEPT
            !.failed     = ids,
            !.exceptions = exc,
            !.recovered  = Append(@, [g \in 1..p.remaining |-> Accepted(p, h, dec, g)]),
            !.round      = @ + 1]

CheckWithoutInsert(p, h, dec) ==
    LET ids  == FailedGroups(p.remaining, dec)
        exc  == Ordered(ExceptionGroups(p, h, dec))
        moved == MoveGroups(threeWaySplit_(p, h, ids), exc)
    IN  [removeCompletedGroups_([moved EXCEPT !.role = "Alice"]) EXCEPT
            !.failed     = ids,
            !.exceptions = exc,
            !.recovered  = Append(@, [g \in 1..p.remaining |-> Accepted(p, h, dec, g)]),
            !.round      = @ + 1]

(* decodeCheck(): the groups BCH could not decode are split first; then    *)
(* every group with an exception takes in what was recovered from it and   *)
(* moves behind them, and the groups of this round are dropped.            *)
decodeCheckThrows(p) == p.role = "Bob"

decodeCheck(p, h, dec) ==
    LET ids   == FailedGroups(p.remaining, dec)
        exc   == Ordered(ExceptionGroups(p, h, dec))
        moved == MoveGroups(threeWaySplit_(InsertRecovered(p, h, dec), h, ids), exc)
    IN  [removeCompletedGroups_([moved EXCEPT !.role = "Alice"]) EXCEPT
            !.failed     = ids,
            !.exceptions = exc,
            !.recovered  = Append(@, [g \in 1..p.remaining |-> Accepted(p, h, dec, g)]),
            !.round      = @ + 1]

decodeCheckCompletes(p) == p.remaining = 0
===============================================================================
