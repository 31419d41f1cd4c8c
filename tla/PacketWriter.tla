---------------------------- MODULE PacketWriter ----------------------------
(***************************************************************************)
(* The send buffer of a client (lib/PacketWriter.cpp).                     *)
(*                                                                         *)
(* A writer is a record: readCursor and writeCursor are offsets from       *)
(* m_buffStart, in units: a command line is one unit, a key of a get is    *)
(* one, a piece of a value is one, the line end after a value is one.      *)
(* What the bytes between the cursors spell is abstracted to               *)
(*   reqs   the requests whose last byte is in the buffer, in order;       *)
(*   stem   TRUE when they end in the command word of a get whose line has *)
(*          not been finished, so that what is written next continues it.  *)
(***************************************************************************)
EXTENDS Integers, Sequences

\* The state the constructor and reset() leave.
NewWriter == [readCursor |-> 0, writeCursor |-> 0, stem |-> FALSE, reqs |-> <<>>]

\* getWriteCursor() - getReadCursor(): what remains to be sent.
BytesToSend(w) == w.writeCursor - w.readCursor

\* writeChar, writeChars and writeNumeric: none of them looks at m_buffEnd.
WriteChars(w, n) == [w EXCEPT !.writeCursor = @ + n]

\* The command word of a get, without the end of its line.
WriteStem(w) == [WriteChars(w, 1) EXCEPT !.stem = TRUE]

(***************************************************************************)
(* A whole request of n units.  When an unfinished get precedes it in the  *)
(* buffer its first line continues that get's line, and the server will    *)
(* not recognise it: the request is not clean.                             *)
(***************************************************************************)
WriteRequest(w, n, req) ==
    [WriteChars(w, n) EXCEPT
        !.reqs = Append(@, [req EXCEPT !.clean = ~w.stem]),
        !.stem = FALSE]

(***************************************************************************)
(* pull(): k units were sent; rewind when the buffer is empty.             *)
(***************************************************************************)
\* A pull() that never rewinds the cursors.
PullWithoutRewind(w, k) ==
    IF w.readCursor + k = w.writeCursor
    THEN [w EXCEPT !.readCursor = @ + k, !.reqs = <<>>, !.stem = FALSE]
    ELSE [w EXCEPT !.readCursor = @ + k]

Pull(w, k) ==
    IF w.readCursor + k = w.writeCursor
    THEN NewWriter
    ELSE [w EXCEPT !.readCursor = @ + k]
=============================================================================
