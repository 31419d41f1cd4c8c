---------------------------- MODULE PacketReader ----------------------------
(***************************************************************************)
(* The receive buffer of a client (lib/PacketReader.cpp).                  *)
(*                                                                         *)
(* A reader is a record: mem holds what lies between m_buffStart and       *)
(* m_writeCursor, so the write cursor is Len(mem); readCursor and          *)
(* packetEnd are offsets from m_buffStart.  The elements of mem are the    *)
(* units of the reply stream (module ReplyStream), each standing for the   *)
(* bytes of one word of a reply line, for a piece of a value, or for a     *)
(* line end.                                                               *)
(*                                                                         *)
(* The methods are operators on such records; module Client composes them  *)
(* into the steps of a call.                                               *)
(***************************************************************************)
EXTENDS Integers, Sequences, FiniteSetsExt

(***************************************************************************)
(* The null pointer.  The code compares pointers without asking whether    *)
(* one is null, and the null pointer lies below every address of the       *)
(* buffer; -1 does the same among offsets.                                 *)
(***************************************************************************)
NULL == -1

\* The state the constructor and reset() leave: every cursor at m_buffStart.
NewReader == [mem |-> <<>>, readCursor |-> 0, packetEnd |-> NULL]

WriteCursor(r) == Len(r.mem)

\* getWritePtr() - getReadPtr(): what was received and not yet consumed.
Unread(r) == WriteCursor(r) - r.readCursor

\* recv() writes the units us at the write cursor and push() moves it.
Push(r, us) == [r EXCEPT !.mem = @ \o us]

SetEndPtr(r, p) == [r EXCEPT !.packetEnd = p]

(***************************************************************************)
(* skip(): move to the end of the packet and rewind the buffer only when   *)
(* everything received has been consumed.  The code asserts                *)
(* readCursor <= packetEnd before it.                                      *)
(***************************************************************************)
\* Three ways to get it wrong: the stale packet end survives the rewind,
\* the buffer is never rewound, or the packet end is cleared first.
SkipKeepingEnd(r) ==
    IF r.packetEnd = WriteCursor(r)
    THEN [NewReader EXCEPT !.packetEnd = r.packetEnd]
    ELSE [r EXCEPT !.readCursor = r.packetEnd]

SkipWithoutRewind(r) == [r EXCEPT !.readCursor = r.packetEnd]

SkipClearingFirst(r) == [r EXCEPT !.packetEnd = NULL, !.readCursor = NULL]

Skip(r) ==
    IF r.packetEnd = WriteCursor(r)
    THEN NewReader
    ELSE [r EXCEPT !.readCursor = r.packetEnd]

\* The offsets just after the line ends between the two cursors.
LineEnds(r) == { p \in r.readCursor + 1 .. Len(r.mem) : r.mem[p].tok.w = "CRLF" }

\* haveLine(): its result, and the packet end it leaves in either case.
HaveLine(r) == LineEnds(r) # {}
ScanLine(r) == SetEndPtr(r, IF HaveLine(r) THEN Min(LineEnds(r)) ELSE NULL)

\* What lies between the read cursor and the end of the packet.
Packet(r) == SubSeq(r.mem, r.readCursor + 1, r.packetEnd)

\* beginsWithString(), for a prefix given as a sequence of words.
BeginsWith(r, ws) ==
    /\ r.readCursor + Len(ws) <= r.packetEnd
    /\ \A i \in 1 .. Len(ws) : r.mem[r.readCursor + i].tok.w = ws[i]

\* readBytes() of the whole packet: the cursor stops at its end, no skip().
ReadToEnd(r) == [r EXCEPT !.readCursor = r.packetEnd]
=============================================================================
