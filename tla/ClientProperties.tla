--------------------------- MODULE ClientProperties ---------------------------
(***************************************************************************)
(* What a umemcache.Client promises to the program that uses it, and what  *)
(* its code assumes of its own buffers.                                    *)
(***************************************************************************)
EXTENDS Client

TypeOK ==
    /\ pc \in {"idle", "send", "line", "data"}
    /\ call \in [id : Nat, op : Ops, async : BOOLEAN, linked : BOOLEAN]
    /\ head \in [unit : Units, at : Nat \ {0}]
    /\ res \in Seq(Entries)
    /\ outcome \in Outcomes
    /\ from \subseteq Nat
    /\ accepted \subseteq Nat
    /\ m_writer \in [readCursor : Nat, writeCursor : Nat, stem : BOOLEAN, reqs : Seq(Requests)]
    /\ m_reader \in [mem : Seq(Units), readCursor : Nat, packetEnd : Nat \cup {NULL}]
    /\ prv \in BOOLEAN
    /\ falseReset \in BOOLEAN
    /\ sock \in {"new", "up", "closed"}
    /\ toServer \in Seq(Requests)
    /\ sent \in Seq(Units)
    /\ rcvd \in Nat
    /\ answer \in [call : Nat, reply : [toks : Seq(Tokens), starts : SUBSET Nat]]
    /\ served \in Seq(Nat)

-----------------------------------------------------------------------------
(***************************************************************************)
(* The cursors of the reader stay in order, whatever mix of lines, values, *)
(* errors, short reads and abandoned calls has passed through it: it is    *)
(* what the assertion of PacketReader::skip relies on, and what makes the  *)
(* unsigned differences getBytesLeft() and cbExpect - (...) meaningful.    *)
(***************************************************************************)
CursorOrder ==
    /\ m_reader.readCursor <= WriteCursor(m_reader)
    /\ m_reader.packetEnd # NULL =>
          m_reader.packetEnd \in m_reader.readCursor .. WriteCursor(m_reader)

\* The call began with a connection, and no reset was made up in the past.
Intact == call.linked /\ ~falseReset

(***************************************************************************)
(* A call reads its own reply and no byte of another call's: not of one    *)
(* that timed out, whose reply comes late, nor of one that left some of    *)
(* its reply unread.  Nothing in a reply says which request it answers, so *)
(* all of it rests on dropping the connection in readLine and getReadNext  *)
(* whenever a reply may still be on its way.                               *)
(***************************************************************************)
OwnReply == Intact => from \subseteq {call.id}

(***************************************************************************)
(* Between calls a connected client owes nothing and is owed nothing: its  *)
(* send buffer is empty, every byte it was sent has been consumed, and the *)
(* server has no request that will be answered.                            *)
(***************************************************************************)
Drained ==
    pc = "idle" /\ Intact /\ prv /\ sock = "up" =>
        /\ m_writer = NewWriter
        /\ rcvd = Len(sent) /\ Unread(m_reader) = 0
        /\ \A i \in 1 .. Len(toServer) : toServer[i].async

(***************************************************************************)
(* A call that has consumed a whole reply leaves the reader as good as     *)
(* new, whatever mix of lines and values it was cut into.  stats() is the  *)
(* exception: it does not skip() the END line.                             *)
(***************************************************************************)
Rewound ==
    pc = "idle" /\ Intact /\ prv /\ sock = "up" /\ from # {} /\ call.op # "stats" =>
        m_reader = NewReader

\* The values of a reply, at the positions their VALUE lines start.
ValueLines(reply) == { p \in reply.starts : reply.toks[p].w = "VALUE" }

Before(p, starts) == Cardinality({ q \in starts : q < p })

\* The data of the value whose VALUE line is at p: the tokens after its line.
DataAt(p) ==
    Stamp(SubSeq(answer.reply.toks, p + 2, p + 1 + answer.reply.toks[p].n), answer.call)

\* stats() has returned an entry for each STAT line.
AllEntries ==
    /\ answer.call = call.id
    /\ Len(outcome.val) = Cardinality({ p \in answer.reply.starts :
                                            answer.reply.toks[p].w = "STAT" })

(***************************************************************************)
(* What a method returns is what the server's answer to this very call     *)
(* says: the line, or as many values as the reply has (the first of them   *)
(* for get), in order, each with exactly its own bytes, even when they     *)
(* spell lines of the protocol.  Of stats() it is so as long as the        *)
(* connection has not failed: it returns all entries of the reply.         *)
(***************************************************************************)
ReturnsTheAnswer ==
    /\ Intact /\ outcome.kind = "value" /\ call.op = "stats" /\ prv /\ sock = "up" => AllEntries
    /\ Intact /\ outcome.kind = "value" /\ call.op # "stats" =>
            /\ answer.call = call.id
            /\ IF call.op \in {"get", "multi"}
               THEN LET all == ValueLines(answer.reply)
                    IN  /\ call.op = "multi" => Len(outcome.val) = Cardinality(all)
                        /\ call.op = "get" /\ all # {} => Len(outcome.val) = 1
                        /\ \A p \in all :
                              Before(p, all) < Len(outcome.val) =>
                                  outcome.val[Before(p, all) + 1].data = DataAt(p)
               ELSE outcome.val = Stamp(SubSeq(answer.reply.toks, 1, 1), answer.call)

(***************************************************************************)
(* A noreply call says nothing of when it is carried out, but it is        *)
(* carried out before any later call that gets an answer: once a call has  *)
(* returned a value, every noreply call accepted before it has been        *)
(* processed, and before it.                                               *)
(***************************************************************************)
AsyncBeforeSync ==
    Intact /\ outcome.kind = "value" /\ call.op # "stats" =>
        \A d \in accepted :
            \E i, j \in 1 .. Len(served) :
                i < j /\ served[i] = d /\ served[j] = call.id

(***************************************************************************)
(* While the client is connected, what it writes fits in the send buffer:  *)
(* sendWriteBuffer() has emptied and rewound it before the next request.   *)
(***************************************************************************)
WriterFits == prv /\ sock # "closed" => m_writer.writeCursor <= WCap

(***************************************************************************)
(* What is received fits in the receive buffer, whose end getReadNext()    *)
(* does not look at, when the buffer holds the replies of three calls to   *)
(* stats() or the largest reply after two: whatever comes in one recv(),   *)
(* nothing but stats() lets replies add up.                                *)
(***************************************************************************)
ReaderFits == WriteCursor(m_reader) <= RCap

(***************************************************************************)
(* In such a buffer readLine() always has room to ask for something, so    *)
(* that a recv() of nothing is a peer that has closed, as the code takes   *)
(* it to be, and never a full buffer whose reply comes later.              *)
(***************************************************************************)
ResetsAreReal == ~falseReset

(***************************************************************************)
(* A disconnected client stays so: nothing connects it again ("Client can  *)
(* not be reconnected"), it takes nothing more from its socket and sends   *)
(* nothing more to the server.                                             *)
(***************************************************************************)
ClosedForGood ==
    [][~prv => ~prv' /\ rcvd' = rcvd /\ Len(toServer') <= Len(toServer)]_vars

\* Under the same conditions a noreply call that returned without raising is
\* carried out in the end, even when no other call follows and the client is
\* disconnected at once; or it is answered, by an error line, when a get_multi()
\* of bad keys has spoilt its request.
AsyncCarriedOut ==
    \A d \in 1 .. MaxCalls :
        d \in accepted ~> \/ \E i \in 1 .. Len(served) : served[i] = d
                          \/ \E i \in 1 .. Len(sent) : sent[i].call = d

-----------------------------------------------------------------------------
(***************************************************************************)
(* What the repository says and the code does not keep.                    *)
(***************************************************************************)
\* PacketWriter::push asserts that what is written lies inside the buffer.
WriterInBounds == m_writer.writeCursor <= WCap

\* get_multi() returns each value under the key it was stored under.
KeysOfValues ==
    Intact /\ outcome.kind = "value" /\ call.op = "multi" =>
        \A i \in 1 .. Len(outcome.val) : outcome.val[i].key.tok.w = "VALUE"

\* stats() returns every entry of the server's reply.
StatsComplete ==
    call.linked /\ outcome.kind = "value" /\ call.op = "stats" => AllEntries

\* A query on a client that is not connected raises.
ClosedCallsRaise == pc = "idle" /\ ~call.linked => outcome.kind = "raise"
=============================================================================
