------------------------------- MODULE PbsWire -------------------------------
(***************************************************************************)
(* The wire formats of the three messages of PBS (src/src/pbs_*_message.h) *)
(* and the two lists of XORs and checksums that travel beside the decoding *)
(* message.  None of them is self-describing: the receiver supplies the    *)
(* number of groups, the field size and the range of the ids, and finds    *)
(* out by counting which group a position, a XOR or a checksum is of.      *)
(*                                                                         *)
(* A buffer is its bits in the order of BitStream, padded to whole bytes.  *)
(* Group ids are counted from 0, as on the wire.                           *)
(***************************************************************************)
EXTENDS Integers, Sequences, SequencesExt

CONSTANT ByteBits    \* bits in a byte (8 in the code)

ASSUME ByteAssumption == ByteBits \in Nat \ {0}

-------------------------------------------------------------------------------
(* Bits.                                                                   *)
CeilLog2(n) == CHOOSE k \in 0..n : 2^k >= n /\ \A j \in 0..(k - 1) : 2^j < n

UIntXMax(bits) == 2^bits - 1

Bits2Bytes(bits) == (bits + ByteBits - 1) \div ByteBits

Field(val, width) == [i \in 1..width |-> (val \div 2^(i - 1)) % 2]

Flushed(bits) ==
    bits \o [i \in 1..(ByteBits * Bits2Bytes(Len(bits)) - Len(bits)) |-> 0]

(* A value read at an offset; behind the buffer is a terminating zero.     *)
BitAt(bits, i) == IF i <= Len(bits) THEN bits[i] ELSE 0

ReadAt(bits, offset, width) ==
    LET read[i \in 0..width] ==
            IF i = 0 THEN 0
            ELSE read[i - 1] + BitAt(bits, offset + i) * 2^(i - 1)
    IN  read[width]

Bytes(bits) == Len(bits) \div ByteBits

-------------------------------------------------------------------------------
(* PbsEncodingHintMessage: the ids of the groups with an exception.        *)

(* Mutant of BitsEach: the range is taken for its largest member. *)
BitsEachOfLast(range) == CeilLog2(range - 1)

BitsEach(range) == CeilLog2(range)

WriteHint(range, ids) ==
    Flushed(FlattenSeq([i \in 1..Len(ids) |-> Field(ids[i], BitsEach(range))]))

(* Parsing stops at a zero that is not the first id: it is padding.  It     *)
(* divides by the bits of an id, of which a range of 1 has none.  For a     *)
(* range of 0 the logarithm is infinite, and its conversion undefined: the  *)
(* same, or so many bits that no id fits.                                   *)
HintDivides(range, bits) == bits # << >> /\ range # 1

HintDividesByZero(range, bits) == bits # << >> /\ range \in {0, 1}

HintCount(range, bits) == IF range = 0 THEN 0 ELSE Len(bits) \div BitsEach(range)

HintId(range, bits, i) == ReadAt(bits, (i - 1) * BitsEach(range), BitsEach(range))

HintEnd(range, bits) ==
    LET count == HintCount(range, bits)
        Stops == {i \in 2..count : HintId(range, bits, i) = 0}
    IN  IF Stops = {} THEN count ELSE Min(Stops) - 1

ParseHint(range, bits) ==
    IF bits = << >> THEN [threw |-> FALSE, ids |-> << >>]
    ELSE LET ids == [i \in 1..HintEnd(range, bits) |-> HintId(range, bits, i)]
         IN  [threw |-> \E i \in DOMAIN ids : ids[i] >= range, ids |-> ids]

-------------------------------------------------------------------------------
(* PbsDecodingMessage: for every group a count, or a flag for a failure,   *)
(* then all the positions.  The XOR of position b of group g is <<g, b>>   *)
(* here and the checksum of group g is g: what matters is to which group   *)
(* and position the receiver takes them to belong.                         *)

(* Mutant of SizeofEachD: the flag is not given a value of its own. *)
SizeofEachDWithoutFlag(t) == CeilLog2(t + 1)

SizeofEachD(t) == CeilLog2(t + 2)

FailureFlag(t) == UIntXMax(SizeofEachD(t))

(* setWith(), and the lists that decode() fills: groups are sequences of   *)
(* positions, or Failed.                                                   *)
Failed == <<0>>

(* What decodeCheck() has for a failed group: nothing is looked at.        *)
Skipped == [positions |-> Failed, xors |-> << >>, checksum |-> 0]

Counts(groups) ==
    [g \in 1..Len(groups) |-> IF groups[g] = Failed THEN -1 ELSE Len(groups[g])]

OfDecoded(groups, list) ==
    FlattenSeq([g \in 1..Len(groups) |-> IF groups[g] = Failed THEN << >> ELSE list[g]])

Positions(groups) == OfDecoded(groups, groups)

Xors(groups) ==
    OfDecoded(groups, [g \in 1..Len(groups) |->
        [k \in 1..Len(groups[g]) |-> <<g, groups[g][k]>>]])

Checksums(groups) == OfDecoded(groups, [g \in 1..Len(groups) |-> <<g>>])

WriteDecoding(m, t, groups) ==
    LET counts    == Counts(groups)
        positions == Positions(groups)
    IN  Flushed(FlattenSeq([g \in 1..Len(counts) |->
                    Field(IF counts[g] < 0 THEN FailureFlag(t) ELSE counts[g],
                          SizeofEachD(t))]
                  \o [i \in 1..Len(positions) |-> Field(positions[i], m)]))

(* parse(), for n groups.  If the buffer is too short for the positions    *)
(* they stay zero, and the callers ignore the -1 that is returned.         *)
SumUpTo(counts, n) ==
    LET sum[g \in 0..n] ==
            IF g = 0 THEN 0
            ELSE sum[g - 1] + (IF counts[g] > 0 THEN counts[g] ELSE 0)
    IN  sum[n]

SumOf(counts) == SumUpTo(counts, Len(counts))

ParseDecoding(m, t, n, bits) ==
    LET d(g)   == ReadAt(bits, (g - 1) * SizeofEachD(t), SizeofEachD(t))
        counts == [g \in 1..n |-> IF d(g) = FailureFlag(t) THEN -1 ELSE d(g)]
        start  == SizeofEachD(t) * n
        fits   == Bits2Bytes(start + m * SumOf(counts)) <= Bytes(bits)
    IN  [counts |-> counts,
         positions |-> [i \in 1..SumOf(counts) |->
             IF fits THEN ReadAt(bits, start + (i - 1) * m, m) ELSE 0]]

(* The two loops of decodeCheck(): the slices are taken at offset and cid, *)
(* which a failed group does not advance.                                  *)
OffsetOf(counts, g) == SumUpTo(counts, g - 1)

CidOf(counts, g) == Cardinality({h \in 1..g : counts[h] >= 0})

CheckThrows(dec, xors, checksums) ==
    \/ SumOf(dec.counts) > Len(xors)
    \/ CidOf(dec.counts, Len(dec.counts)) > Len(checksums)

GroupsChecked(dec, xors, checksums) ==
    [g \in 1..Len(dec.counts) |->
        LET p      == dec.counts[g]
            offset == OffsetOf(dec.counts, g)
        IN  IF p < 0 THEN Skipped
            ELSE [positions |-> SubSeq(dec.positions, offset + 1, offset + p),
                  xors |-> SubSeq(xors, offset + 1, offset + p),
                  checksum |-> checksums[CidOf(dec.counts, g)]]]

-------------------------------------------------------------------------------
(* PbsEncodingMessage: the whole bytes of every sketch, then the remaining *)
(* bits of every sketch.  A sketch is its m * t bits.                      *)
SketchBytes(m, t)     == (m * t) \div ByteBits
SketchRemainder(m, t) == (m * t) % ByteBits

WriteEncoding(m, t, sketches) ==
    LET whole      == ByteBits * SketchBytes(m, t)
        Wholes     == [g \in 1..Len(sketches) |-> SubSeq(sketches[g], 1, whole)]
        Remainders == [g \in 1..Len(sketches) |-> SubSeq(sketches[g], whole + 1, m * t)]
    IN  FlattenSeq(Wholes) \o Flushed(FlattenSeq(Remainders))

(* Mutant of ParseEncoding: the remainders are looked for behind each      *)
(* sketch.                                                                 *)
ParseEncodingInterleaved(m, t, n, bits) ==
    [g \in 1..n |-> SubSeq(bits, (g - 1) * m * t + 1, g * m * t)]

ParseEncoding(m, t, n, bits) ==
    LET whole     == ByteBits * SketchBytes(m, t)
        remainder == SketchRemainder(m, t)
        start     == whole * n
    IN  [g \in 1..n |->
            SubSeq(bits, (g - 1) * whole + 1, g * whole)
            \o SubSeq(bits, start + (g - 1) * remainder + 1, start + g * remainder)]
==============================================================================
