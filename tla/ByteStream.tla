----------------------------- MODULE ByteStream ------------------------------
(***************************************************************************)
(* The byte streams every NEX message is written to and read from          *)
(* (byte_stream_out.go, byte_stream_in.go): sequences of bytes, with       *)
(* little-endian integers of 1, 2, 4 and 8 bytes.  A read returns whether  *)
(* there was enough data, the value and what remains; a read that fails    *)
(* consumes nothing.  Byte is the number of values a byte has, 256 in the  *)
(* program: a model of the length fields takes a smaller one, so that a    *)
(* length that does not fit its field is a short sequence.                 *)
(***************************************************************************)
EXTENDS Integers, Sequences, SequencesExt

CONSTANT Byte

ASSUME ByteAssumption == Byte \in Nat \ {0, 1}

\* One more than the largest unsigned integer of n bytes
Limit(n) == Byte^n

\* WriteUInt8, WriteUInt16LE, ..., WriteInt64LE: what does not fit n bytes is lost
\* in the conversion to the field's type.
WriteInt(v, n) == [i \in 1..n |-> (v \div Limit(i - 1)) % Byte]

WriteBool(b) == <<IF b THEN 1 ELSE 0>>

\* Mutant: a read past the end returns what there is.
ReadShort(s, n) ==
    LET m == IF Len(s) < n THEN Len(s) ELSE n
    IN  [ok |-> TRUE, val |-> SubSeq(s, 1, m), rest |-> SubSeq(s, m + 1, Len(s))]

\* Read
Read(s, n) ==
    IF Len(s) < n THEN [ok |-> FALSE, val |-> <<>>, rest |-> s]
    ELSE [ok |-> TRUE, val |-> SubSeq(s, 1, n), rest |-> SubSeq(s, n + 1, Len(s))]

Number(bytes) == FoldRight(LAMBDA b, n : b + Byte * n, bytes, 0)

\* ReadUInt8, ReadUInt16LE, ...
ReadUInt(s, n) ==
    LET r == Read(s, n) IN [r EXCEPT !.val = Number(@)]

\* Mutant: the least integer is read as a positive one.
SignedInclusive(v, n) == IF 2 * v <= Limit(n) THEN v ELSE v - Limit(n)

Signed(v, n) == IF 2 * v < Limit(n) THEN v ELSE v - Limit(n)

\* ReadInt8, ReadInt16LE, ...
ReadInt(s, n) ==
    LET r == ReadUInt(s, n) IN [r EXCEPT !.val = Signed(@, n)]

\* ReadBool: every byte but 1 is false.
ReadBool(s) ==
    LET r == ReadUInt(s, 1) IN [r EXCEPT !.val = (@ = 1)]
==============================================================================
