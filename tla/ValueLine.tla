------------------------------ MODULE ValueLine ------------------------------
(***************************************************************************)
(* Numbers on the wire, and the line that opens a value: the characters    *)
(* PacketWriter::writeNumeric writes, and what Client::getReadNext makes   *)
(* of the characters of a VALUE line with the methods of PacketReader.     *)
(*                                                                         *)
(* A character is a number: a digit is itself.  The word VALUE with the    *)
(* space after it counts as one character, and so does each key.           *)
(***************************************************************************)
EXTENDS Integers, SequencesExt, FiniteSetsExt

CONSTANTS
    Word,     \* the range of a UINT64 (2^64)
    IntRange  \* the range of an int (2^32)

ASSUME NumberAssumption ==
    /\ Word \in Nat /\ IntRange \in Nat
    /\ IntRange > 0 /\ IntRange % 2 = 0
    /\ Word > IntRange /\ Word % IntRange = 0

Digit == 0 .. 9
SP == 10
CR == 11
LF == 12
VALUE == 13

\* The conversions the callers make without writing them: of an int or a
\* time_t to a UINT64, and (int) of a UINT64.
ToUInt64(i) == i % Word

\* One that makes an unsigned int of it.
ToUnsigned(u) == u % IntRange

ToInt(u) == IF u % IntRange < IntRange \div 2 THEN u % IntRange ELSE (u % IntRange) - IntRange

(***************************************************************************)
(* writeNumeric(): the digits of a UINT64, last first, and then reversed.  *)
(* Its test for a negative value never holds: value is unsigned.           *)
(***************************************************************************)
LastDigitFirst[v \in Nat] ==
    IF v < 10 THEN <<v>> ELSE <<v % 10>> \o LastDigitFirst[v \div 10]

Digits(u) == Reverse(LastDigitFirst[u])

WriteNumeric(i) == Digits(ToUInt64(i))

-----------------------------------------------------------------------------
(***************************************************************************)
(* The methods of PacketReader on one line.  A state of the scan is the    *)
(* offset it has reached, whether every method so far has succeeded, and   *)
(* the number read last; a method that follows a failed one is not called. *)
(***************************************************************************)
Start == [at |-> 0, ok |-> TRUE, num |-> 0]

Failed(s) == [s EXCEPT !.ok = FALSE]

\* One that leaves the last character alone.
ReadBytesShort(line, s, n) ==
    IF ~s.ok \/ s.at + n >= Len(line) THEN Failed(s) ELSE [s EXCEPT !.at = @ + n]

ReadBytes(line, s, n) ==
    IF ~s.ok \/ s.at + n > Len(line) THEN Failed(s) ELSE [s EXCEPT !.at = @ + n]

ReadUntil(line, s, c) ==
    LET found == { p \in s.at .. Len(line) - 1 : line[p + 1] = c }
    IN  IF ~s.ok \/ found = {} THEN Failed(s) ELSE [s EXCEPT !.at = Min(found)]

\* The offset at which the digits that start at p end.
AfterDigits(line, p) == Min({ q \in p .. Len(line) - 1 : line[q + 1] \notin Digit } \cup {Len(line)})

\* One that keeps the largest int instead of counting on.
ReadSaturating(line, s) ==
    LET p == AfterDigits(line, s.at)
    IN  IF ~s.ok THEN s
        ELSE IF p = Len(line) THEN [s EXCEPT !.at = p, !.ok = FALSE]
        ELSE [s EXCEPT !.at = p,
                       !.num = FoldLeft(LAMBDA v, d : Min({10 * v + d, IntRange \div 2 - 1}),
                                        0, SubSeq(line, s.at + 1, p))]

\* The number that digits make, of any length, modulo Word.
Number(digits) == FoldLeft(LAMBDA v, d : (10 * v + d) % Word, 0, digits)

\* It needs a character after it.
ReadNumeric(line, s) ==
    LET p == AfterDigits(line, s.at)
    IN  IF ~s.ok THEN s
        ELSE IF p = Len(line) THEN [s EXCEPT !.at = p, !.ok = FALSE]
        ELSE [s EXCEPT !.at = p,
                       !.num = Number(SubSeq(line, s.at + 1, p))]

(***************************************************************************)
(* getReadNext() from the VALUE word to the end of its numbers.  Whether a *)
(* cas follows the length is told from what remains of the line; when none *)
(* does, the caller's variable keeps what it had.                          *)
(***************************************************************************)
\* One that finds no cas of one digit.
MoreThanOneDigit(line, s) == Len(line) - s.at > 4

MoreThanLineEnd(line, s) == Len(line) - s.at > 2

ReadValueLine(line, callersCas) ==
    LET key   == ReadUntil(line, ReadBytes(line, Start, 1), SP)
        flags == ReadNumeric(line, ReadBytes(line, key, 1))
        bytes == ReadNumeric(line, ReadBytes(line, flags, 1))
        last  == IF bytes.ok /\ MoreThanLineEnd(line, bytes)
                 THEN ReadNumeric(line, ReadBytes(line, bytes, 1))
                 ELSE bytes
    IN  [ok    |-> last.ok,
         at    |-> last.at,
         flags |-> ToInt(flags.num),
         bytes |-> bytes.num,
         cas   |-> IF last = bytes THEN callersCas ELSE last.num]
=============================================================================
