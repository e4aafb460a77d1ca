------------------------------ MODULE BitStream ------------------------------
(***************************************************************************)
(* The classes BitWriter and BitReader of src/src/bit_utils.h, on which    *)
(* every message of PBS is built: fields of any width are packed into      *)
(* bytes, the low bits first, and read back by a reader that is told the   *)
(* widths.  Nothing on the wire says where a field ends.                   *)
(*                                                                         *)
(* A writer is [state, offset, out], a reader [state, offset, pos, in],    *)
(* where the pointers out and in are a sequence of bytes and a position.   *)
(***************************************************************************)
EXTENDS Integers, Sequences

CONSTANTS
    ByteBits,    \* bits in a byte (8 in the code)
    MaxWidth,    \* widest field written (32 or 64 in the code)
    MaxFields    \* fields written before the stream is read back

ASSUME StreamAssumption ==
    /\ ByteBits \in Nat \ {0}
    /\ MaxWidth \in Nat \ {0}
    /\ MaxFields \in Nat \ {0}

VARIABLES
    fields,   \* the fields written so far, <<value, width>>: a history
    writer,   \* the BitWriter
    reader,   \* the BitReader
    values    \* what it has returned so far

vars == <<fields, writer, reader, values>>

Byte == 0..(2^ByteBits - 1)

(* x & (2^n - 1), and x | (y << n) for x < 2^n. *)
Low(x, n) == x % 2^n
Join(x, y, n) == x + y * 2^n

(* The whole bytes of a value, from the low one. *)
LowBytes(val, n) == [i \in 1..n |-> Low(val \div 2^(ByteBits * (i - 1)), ByteBits)]

-------------------------------------------------------------------------------
(* Write: when the field fills the byte under construction that byte goes  *)
(* out, then the whole bytes of what is left, and the rest is kept.        *)
FillState(w, val, bits) ==
    LET room == ByteBits - w.offset
    IN  IF bits + w.offset >= ByteBits
        THEN [w |-> [state |-> 0, offset |-> 0,
                     out |-> Append(w.out, Join(w.state, Low(val, room), w.offset))],
              val |-> val \div 2^room, bits |-> bits - room]
        ELSE [w |-> w, val |-> val, bits |-> bits]

WriteField(w, val, bits) ==
    LET f     == FillState(w, val, bits)
        n     == f.bits \div ByteBits
        rest  == f.bits % ByteBits
        left  == Low(f.val \div 2^(ByteBits * n), rest)
    IN  [state  |-> Join(f.w.state, left, f.w.offset),
         offset |-> f.w.offset + rest,
         out    |-> f.w.out \o LowBytes(f.val, n)]

(* Mutant of Flushed: the last byte is always written. *)
FlushedAlways(w) == [state |-> 0, offset |-> 0, out |-> Append(w.out, w.state)]

Flushed(w) ==
    IF w.offset # 0
    THEN [state |-> 0, offset |-> 0, out |-> Append(w.out, w.state)]
    ELSE w

(* Read: from the bits left over if they suffice; otherwise whole bytes    *)
(* are taken, and a part of one more, whose other bits are left over.      *)
Leftover(r, bits) ==
    [val |-> Low(r.state, bits),
     r |-> [r EXCEPT !.state = @ \div 2^bits, !.offset = @ - bits]]

(* Behind the last byte is the terminator of the string that is read. *)
ByteAt(r, i) == IF i <= Len(r.in) THEN r.in[i] ELSE 0

FromBytes(r, bits) ==
    LET n    == (bits - r.offset) \div ByteBits
        out  == r.offset + ByteBits * n
        more == bits - out
        Whole[i \in 0..n] ==
            IF i = 0 THEN r.state
            ELSE Join(Whole[i - 1], ByteAt(r, r.pos + i), r.offset + ByteBits * (i - 1))
    IN  IF more = 0
        THEN [val |-> Whole[n],
              r |-> [r EXCEPT !.state = 0, !.offset = 0, !.pos = @ + n]]
        ELSE LET c == ByteAt(r, r.pos + n + 1)
             IN  [val |-> Join(Whole[n], Low(c, more), out),
                  r |-> [r EXCEPT !.state = c \div 2^more,
                                  !.offset = ByteBits - more,
                                  !.pos = @ + n + 1]]

(* Mutants of ReadField: what is left over of the last byte is dropped;    *)
(* it is used even if it does not suffice.                                 *)
ReadFieldAligned(r, bits) == FromBytes([r EXCEPT !.state = 0, !.offset = 0], bits)

ReadFieldLeftover(r, bits) ==
    IF r.offset > 0
    THEN [val |-> Low(r.state, bits),
          r |-> [r EXCEPT !.state = @ \div 2^bits, !.offset = (@ + ByteBits - bits) % ByteBits]]
    ELSE FromBytes(r, bits)

ReadField(r, bits) == IF r.offset >= bits THEN Leftover(r, bits) ELSE FromBytes(r, bits)

-------------------------------------------------------------------------------
NoReader == [state |-> 0, offset |-> 0, pos |-> 0, in |-> << >>]

Init ==
    /\ fields = << >>
    /\ writer = [state |-> 0, offset |-> 0, out |-> << >>]
    /\ reader = NoReader
    /\ values = << >>

Writing == reader.in = << >>

(* A caller writes a field; it fits, as the callers see to.                *)
Write ==
    /\ Writing
    /\ Len(fields) < MaxFields
    /\ \E bits \in 0..MaxWidth : \E val \in 0..(2^bits - 1) :
          /\ writer' = WriteField(writer, val, bits)
          /\ fields' = Append(fields, <<val, bits>>)
    /\ UNCHANGED <<reader, values>>

(* The buffer is complete; a reader is put at its beginning.               *)
Flush ==
    /\ Writing
    /\ writer' = Flushed(writer)
    /\ reader' = [NoReader EXCEPT !.in = Flushed(writer).out]
    /\ UNCHANGED <<fields, values>>

(* The reader is asked for the same widths in the same order.              *)
Read ==
    /\ ~Writing
    /\ Len(values) < Len(fields)
    /\ LET got == ReadField(reader, fields[Len(values) + 1][2])
       IN  reader' = got.r /\ values' = Append(values, got.val)
    /\ UNCHANGED <<fields, writer>>

Next == Write \/ Flush \/ Read

Spec == Init /\ [][Next]_vars

-------------------------------------------------------------------------------
(* Bits written by the first n fields. *)
TotalBits(n) ==
    LET Sum[i \in 0..n] == IF i = 0 THEN 0 ELSE Sum[i - 1] + fields[i][2]
    IN  Sum[n]

(* Bits2Bytes(total bits), the size the messages announce before they      *)
(* write and check before they parse, is what the writer writes.           *)
SizeIsAnnounced ==
    ~Writing => Len(reader.in) = (TotalBits(Len(fields)) + ByteBits - 1) \div ByteBits

(* The reader returns what was written.                                    *)
ReadsBack == \A i \in 1..Len(values) : values[i] = fields[i][1]

(* It has consumed no byte but those that hold the fields read so far: a   *)
(* parse that stops early has not looked past what it may look at.         *)
NeverReadsAhead ==
    reader.pos = (TotalBits(Len(values)) + ByteBits - 1) \div ByteBits
===============================================================================
