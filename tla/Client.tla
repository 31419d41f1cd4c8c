------------------------------- MODULE Client -------------------------------
(***************************************************************************)
(* A umemcache.Client: the Python object (python/umemcache.cpp), the       *)
(* protocol engine it owns (lib/Client.cpp) with its two buffers, and what *)
(* is at the other end of its socket.                                      *)
(*                                                                         *)
(* One program drives the client, one call at a time.  A call runs without *)
(* interruption from one socket operation to the next: the steps below are *)
(* the stretches of code between them, so that partial sends, short reads, *)
(* timeouts, a peer that closes and the server's own progress fall         *)
(* anywhere in between.                                                    *)
(***************************************************************************)
EXTENDS PacketReader, PacketWriter, ReplyStream

CONSTANTS
    RCap,        \* size of the reader's buffer (1024 * 1200 in the constructor)
    WCap,        \* size of the writer's buffer (1024 * 1200 in the constructor)
    RecvMax,     \* the most one recv asks for (65536)
    MaxSize,     \* max_item_size of the client
    DataSizes,   \* BOUND: the sizes of the values a program stores
    KeyCounts,   \* BOUND: the numbers of keys a program passes to get_multi
    MaxCalls,    \* BOUND: the number of calls a program makes
    Faults,      \* TRUE when socket calls may raise and the peer may close
    BadKeys      \* TRUE when get_multi may be given something not iterable

ASSUME ClientAssumption ==
    /\ RCap \in Nat \ {0} /\ WCap \in Nat \ {0} /\ RecvMax \in Nat \ {0}
    /\ MaxSize \in Nat /\ MaxCalls \in Nat
    /\ DataSizes \subseteq Nat /\ KeyCounts \subseteq Nat
    /\ Faults \in BOOLEAN /\ BadKeys \in BOOLEAN

VARIABLES
    \* The call that is running, or the last one.
    pc,          \* "idle", or the loop it is in: "send", "line" or "data"
    call,        \* its number, its operation, noreply, and prv when it began
    head,        \* locals of getReadNext: the VALUE line whose data is read
    res,         \* the entries the method has collected for its result
    outcome,     \* what the call gave to the program
    from,        \* history: the calls whose replies this call has consumed
    \* The client object.
    m_writer,
    m_reader,
    prv,         \* desc.prv # NULL: what is_connected() answers
    falseReset,  \* history: a reset was reported because the buffer was full
    \* The connection and the server behind it.
    sock,        \* "new", "up", or "closed" once the peer has closed
    toServer,    \* requests received by the server and not yet processed
    sent,        \* every unit the server sent and the network will deliver
    rcvd,        \* how many of them recv has returned
    answer,      \* the last reply the server gave, and to which call
    served,      \* history: the requests the server processed, in order
    accepted     \* history: the noreply calls that returned without raising

callVars == <<pc, call, head, res, outcome, from, accepted>>
objVars  == <<m_writer, m_reader, prv, falseReset>>
netVars  == <<sock, toServer, sent, rcvd, answer, served>>
vars     == <<pc, call, head, res, outcome, from, accepted,
              m_writer, m_reader, prv, falseReset,
              sock, toServer, sent, rcvd, answer, served>>

Requests == [call : Nat, op : Ops, async : BOOLEAN, clean : BOOLEAN]
Entries  == [key : Units, data : Seq(Units)]
Outcomes == [kind : {"none", "value", "raise"}, val : Seq(Units) \cup Seq(Entries)]

NoUnit == [call |-> 0, tok |-> Tok("END")]

Init ==
    /\ pc = "idle"
    /\ call = [id |-> 0, op |-> "line", async |-> FALSE, linked |-> TRUE]
    /\ head = [unit |-> NoUnit, at |-> 1]
    /\ res = <<>>
    /\ outcome = [kind |-> "none", val |-> <<>>]
    /\ from = {}
    /\ accepted = {}
    /\ m_writer = NewWriter
    /\ m_reader = NewReader
    /\ prv = TRUE
    /\ falseReset = FALSE
    /\ sock = "new"
    /\ toServer = <<>>
    /\ sent = <<>>
    /\ rcvd = 0
    /\ answer = [call |-> 0, reply |-> [toks |-> <<>>, starts |-> {}]]
    /\ served = <<>>

-----------------------------------------------------------------------------
(***************************************************************************)
(* connect() and disconnect()                                              *)
(***************************************************************************)
Returns(kind, val) == outcome' = [kind |-> kind, val |-> val]

(***************************************************************************)
(* Client::connect empties both buffers before it tries; only a socket     *)
(* that was never connected can succeed, any other raises.                 *)
(***************************************************************************)
ConnectBegins ==
    /\ pc = "idle" /\ prv
    /\ m_reader' = NewReader
    /\ m_writer' = NewWriter

Connect ==
    /\ ConnectBegins
    /\ sock = "new" /\ sock' = "up"
    /\ Returns("none", <<>>)
    /\ UNCHANGED <<pc, call, head, res, from, accepted, prv, falseReset,
                   toServer, sent, rcvd, answer, served>>

ConnectFails ==
    /\ ConnectBegins
    /\ Returns("raise", <<>>)
    /\ UNCHANGED <<pc, call, head, res, from, accepted, prv, falseReset, netVars>>

\* A refusal that is forgotten: the client makes a connection again.
ReconnectAllowed ==
    /\ pc = "idle" /\ ~prv
    /\ prv' = TRUE
    /\ Returns("none", <<>>)
    /\ UNCHANGED <<pc, call, head, res, from, accepted, m_writer, m_reader,
                   falseReset, netVars>>

\* A client that was disconnected refuses: "Client can not be reconnected".
ConnectRefused ==
    /\ pc = "idle" /\ ~prv
    /\ Returns("raise", <<>>)
    /\ UNCHANGED <<pc, call, head, res, from, accepted, objVars, netVars>>

Disconnect ==
    /\ pc = "idle" /\ prv
    /\ prv' = FALSE
    /\ Returns("none", <<>>)
    /\ UNCHANGED <<pc, call, head, res, from, accepted, m_writer, m_reader,
                   falseReset, netVars>>

-----------------------------------------------------------------------------
(***************************************************************************)
(* The beginning of a call: the request goes into the send buffer and      *)
(* sendWriteBuffer() starts.                                               *)
(***************************************************************************)
NextCall(op, async) ==
    /\ pc = "idle" /\ call.id < MaxCalls
    /\ call' = [id |-> call.id + 1, op |-> op, async |-> async, linked |-> prv]
    /\ from' = {}
    /\ res' = <<>>

Request(op, async, units) ==
    /\ NextCall(op, async)
    /\ m_writer' = WriteRequest(m_writer, units,
                       [call |-> call.id + 1, op |-> op, async |-> async, clean |-> TRUE])
    /\ pc' = "send"
    /\ Returns("none", <<>>)
    /\ UNCHANGED <<head, accepted, m_reader, prv, falseReset, netVars>>

\* set, add, replace, append and prepend of a value of n bytes, then cas.
Command(n, async) == n <= MaxSize /\ Request("store", async, n + 2)
Cas(n, async)     == n <= MaxSize /\ Request("store", async, n + 2)

\* The same commands on a value larger than max_item_size: nothing is written.
CommandTooLarge(n, async) ==
    /\ n > MaxSize
    /\ NextCall("store", async)
    /\ Returns("raise", <<>>)
    /\ UNCHANGED <<pc, head, accepted, objVars, netVars>>

\* delete, incr, decr and flush_all: one line out, one line back.
Delete(async)   == Request("line", async, 1)
Incr(async)     == Request("line", async, 1)
Decr(async)     == Request("line", async, 1)
FlushAll(async) == Request("line", async, 1)

Version == Request("version", FALSE, 1)
Stats   == Request("stats", FALSE, 1)

\* get and gets, then get_multi and gets_multi of m keys.
Get         == Request("get", FALSE, 3)
GetMulti(m) == Request("multi", FALSE, 2 + m)

(***************************************************************************)
(* get_multi of something that cannot be iterated: getBegin() has already  *)
(* written the command word when PyObject_GetIter fails, and it stays.     *)
(***************************************************************************)
GetMultiBadKeys ==
    /\ BadKeys
    /\ NextCall("multi", FALSE)
    /\ m_writer' = WriteStem(m_writer)
    /\ Returns("raise", <<>>)
    /\ UNCHANGED <<pc, head, accepted, m_reader, prv, falseReset, netVars>>

Begin ==
    \/ \E async \in BOOLEAN :
          \/ \E n \in DataSizes : \/ Command(n, async) \/ Cas(n, async)
                                 \/ CommandTooLarge(n, async)
          \/ Delete(async) \/ Incr(async) \/ Decr(async) \/ FlushAll(async)
    \/ Version \/ Stats \/ Get \/ GetMultiBadKeys
    \/ \E m \in KeyCounts : GetMulti(m)

-----------------------------------------------------------------------------
(***************************************************************************)
(* The end of a call.                                                      *)
(***************************************************************************)
Finish(kind, val) ==
    /\ pc' = "idle"
    /\ Returns(kind, val)

\* readLine() returned false: every method fails but stats(), whose loop
\* over getStats() ends and returns what it has.
ReadLineFailed ==
    IF call.op = "stats" THEN Finish("value", res) ELSE Finish("raise", <<>>)

\* sendWriteBuffer() returned false: the get methods do not look at what
\* getFlush() returns and go on to read.
SendFailed ==
    IF call.op \in {"get", "multi"}
    THEN pc' = "line" /\ UNCHANGED outcome
    ELSE Finish("raise", <<>>)

(***************************************************************************)
(* sendWriteBuffer(): send until the buffer is empty.  -1 disconnects; 0,  *)
(* which the code takes for a peer that has closed, does not.              *)
(***************************************************************************)
\* A short send that is taken for a whole one by a noreply call.
ShortSendAccepted ==
    /\ pc = "send" /\ prv /\ sock # "new"
    /\ \E k \in 1 .. BytesToSend(m_writer) - 1 : m_writer' = Pull(m_writer, k)
    /\ IF call.async
       THEN Finish("none", <<>>) /\ accepted' = accepted \cup {call.id}
       ELSE UNCHANGED <<pc, outcome, accepted>>
    /\ UNCHANGED <<call, head, res, from, m_reader, prv, falseReset, netVars>>

SendPart ==
    /\ pc = "send" /\ prv /\ sock # "new"
    /\ \E k \in 1 .. BytesToSend(m_writer) - 1 : m_writer' = Pull(m_writer, k)
    /\ UNCHANGED <<callVars, m_reader, prv, falseReset, netVars>>

\* The last of the buffer goes, and with it the requests it holds.
SendRest ==
    /\ pc = "send" /\ prv /\ sock # "new"
    /\ m_writer' = Pull(m_writer, BytesToSend(m_writer))
    /\ toServer' = IF sock = "up" THEN toServer \o m_writer.reqs ELSE toServer
    /\ IF call.async
       THEN Finish("none", <<>>) /\ accepted' = accepted \cup {call.id}
       ELSE pc' = "line" /\ UNCHANGED <<outcome, accepted>>
    /\ UNCHANGED <<call, head, res, from, m_reader, prv, falseReset,
                   sock, sent, rcvd, answer, served>>

SendRaises ==
    /\ pc = "send" /\ (Faults \/ ~prv \/ sock # "up")
    /\ prv' = FALSE
    /\ SendFailed
    /\ UNCHANGED <<call, head, res, from, accepted, m_writer, m_reader, falseReset, netVars>>

SendZero ==
    /\ pc = "send" /\ prv /\ sock = "closed"
    /\ SendFailed
    /\ UNCHANGED <<call, head, res, from, accepted, objVars, netVars>>

-----------------------------------------------------------------------------
(***************************************************************************)
(* readLine(): receive until the buffer holds a line.  The size asked for  *)
(* is a size_t, so that a write cursor beyond the end of the buffer would  *)
(* make it huge, not negative.                                             *)
(***************************************************************************)
LineSpace ==
    LET room == RCap - WriteCursor(m_reader)
    IN  IF room \in 0 .. RecvMax THEN room ELSE RecvMax

\* recv() takes k units of the stream.
Receive(r, k) ==
    /\ m_reader' = Push(r, SubSeq(sent, rcvd + 1, rcvd + k))
    /\ rcvd' = rcvd + k

AtMost(k, bound) == k \in 1 .. bound /\ rcvd + k <= Len(sent)

RecvLine ==
    /\ pc = "line" /\ ~HaveLine(m_reader) /\ prv
    /\ \E k \in 1 .. Len(sent) : AtMost(k, LineSpace) /\ Receive(ScanLine(m_reader), k)
    /\ UNCHANGED <<callVars, m_writer, prv, falseReset, sock, toServer, sent, answer, served>>

\* One that goes round the loop again when recv() returned nothing.
RecvLineSpins ==
    /\ pc = "line" /\ ~HaveLine(m_reader) /\ prv
    /\ LineSpace = 0 \/ (sock = "closed" /\ rcvd = Len(sent))
    /\ UNCHANGED vars

\* recv() returned nothing: the peer has closed, or nothing was asked for.
RecvLineEmpty ==
    /\ pc = "line" /\ ~HaveLine(m_reader) /\ prv
    /\ LineSpace = 0 \/ (sock = "closed" /\ rcvd = Len(sent))
    /\ m_reader' = ScanLine(m_reader)
    /\ falseReset' = (falseReset \/ LineSpace = 0)
    /\ ReadLineFailed
    /\ UNCHANGED <<call, head, res, from, accepted, m_writer, prv, netVars>>

\* A timeout after which the connection is kept.
RecvLineRaisesKeepingSocket ==
    /\ pc = "line" /\ ~HaveLine(m_reader) /\ (Faults \/ ~prv \/ sock = "closed")
    /\ m_reader' = ScanLine(m_reader)
    /\ ReadLineFailed
    /\ UNCHANGED <<call, head, res, from, accepted, m_writer, prv, falseReset, netVars>>

\* A timeout or an error of the socket: the client drops the connection.
RecvLineRaises ==
    /\ pc = "line" /\ ~HaveLine(m_reader) /\ (Faults \/ ~prv \/ sock = "closed")
    /\ m_reader' = ScanLine(m_reader)
    /\ prv' = FALSE
    /\ ReadLineFailed
    /\ UNCHANGED <<call, head, res, from, accepted, m_writer, falseReset, netVars>>

-----------------------------------------------------------------------------
(***************************************************************************)
(* A line is in the buffer.  Line is the reader after haveLine().          *)
(***************************************************************************)
Line == ScanLine(m_reader)
FirstUnit == Line.mem[Line.readCursor + 1]

LineOf(ops) == pc = "line" /\ call.op \in ops /\ HaveLine(m_reader)

Consumed(first, last) ==
    from' = from \cup { m_reader.mem[i].call : i \in first .. last }

\* The whole line is consumed, and the reader becomes r.
TakeLine(r) ==
    /\ m_reader' = r
    /\ Consumed(Line.readCursor + 1, Line.packetEnd)
    /\ UNCHANGED <<call, accepted, m_writer, prv, falseReset, netVars>>

IsError == BeginsWith(Line, <<"ERROR">>)
IsEnd   == BeginsWith(Line, <<"END", "CRLF">>)

\* extractErrorFromReader(): whatever the method, readLine() returns false.
ErrorLine ==
    /\ LineOf(Ops) /\ IsError
    /\ TakeLine(Skip(Line))
    /\ ReadLineFailed
    /\ UNCHANGED <<head, res>>

\* getResult(): the line without its end is the result.
ResultLine ==
    /\ LineOf({"store", "line"}) /\ ~IsError
    /\ TakeLine(Skip(Line))
    /\ Finish("value", SubSeq(Line.mem, Line.readCursor + 1, Line.packetEnd - 1))
    /\ UNCHANGED <<head, res>>

VersionLine ==
    /\ LineOf({"version"}) /\ BeginsWith(Line, <<"VERSION">>)
    /\ TakeLine(Skip(Line))
    /\ Finish("value", <<FirstUnit>>)
    /\ UNCHANGED <<head, res>>

(***************************************************************************)
(* A line that is no answer to version().  Its length is not modelled: it  *)
(* may be shorter than the eight bytes version() passes over, and then it  *)
(* stays in the buffer, exactly as long, or longer, and then its tail is   *)
(* returned.                                                               *)
(***************************************************************************)
ForeignVersionLine ==
    /\ LineOf({"version"}) /\ ~IsError /\ ~BeginsWith(Line, <<"VERSION">>)
    /\ \/ /\ m_reader' = Line
          /\ Finish("raise", <<>>)
          /\ UNCHANGED <<call, from, accepted, m_writer, prv, falseReset, netVars>>
       \/ TakeLine(ReadToEnd(Line)) /\ Finish("raise", <<>>)
       \/ TakeLine(Skip(Line)) /\ Finish("value", Packet(Line))
    /\ UNCHANGED <<head, res>>

\* getStats(): one entry, and the loop of stats() goes on.
StatLine ==
    /\ LineOf({"stats"}) /\ BeginsWith(Line, <<"STAT">>)
    /\ TakeLine(Skip(Line))
    /\ res' = Append(res, [key |-> FirstUnit, data |-> <<>>])
    /\ UNCHANGED <<pc, head, outcome>>

\* END and its line end are the five bytes getStats() passes over first: it
\* returns false at the end of the packet, without skip().
StatsEnd ==
    /\ LineOf({"stats"}) /\ IsEnd
    /\ TakeLine(ReadToEnd(Line))
    /\ Finish("value", res)
    /\ UNCHANGED <<head, res>>

\* Any other line under stats(): shorter than five bytes, five, or longer.
ForeignStatsLine ==
    /\ LineOf({"stats"}) /\ ~IsError /\ ~IsEnd /\ ~BeginsWith(Line, <<"STAT">>)
    /\ \/ TakeLine(Skip(Line)) /\ Finish("value", res) /\ UNCHANGED res
       \/ TakeLine(ReadToEnd(Line)) /\ Finish("value", res) /\ UNCHANGED res
       \/ /\ TakeLine(Skip(Line))
          /\ res' = Append(res, [key |-> FirstUnit, data |-> <<>>])
          /\ UNCHANGED <<pc, outcome>>
    /\ UNCHANGED head

-----------------------------------------------------------------------------
(***************************************************************************)
(* getReadNext(), called in a loop by the four get methods.                *)
(***************************************************************************)
\* get() and gets() return the first value, the multi methods all of them.
\* One that returns the first value to all four.
FirstOfAny == SubSeq(res, 1, IF res = <<>> THEN 0 ELSE 1)

GetResult ==
    IF call.op = "get" THEN SubSeq(res, 1, IF res = <<>> THEN 0 ELSE 1) ELSE res

GetEnd ==
    /\ LineOf({"get", "multi"}) /\ IsEnd
    /\ TakeLine(Skip(Line))
    /\ Finish("value", GetResult)
    /\ UNCHANGED <<head, res>>

MalformedLine ==
    /\ LineOf({"get", "multi"}) /\ ~IsError /\ ~IsEnd
    /\ ~BeginsWith(Line, <<"VALUE">>) /\ ~BeginsWith(Line, <<"BROKEN">>)
    /\ TakeLine(Skip(Line))
    /\ Finish("raise", <<>>)
    /\ UNCHANGED <<head, res>>

(***************************************************************************)
(* A line that opens with VALUE and lacks some of what should follow: the  *)
(* early returns, none of which skips the line.  Without a key the cursor  *)
(* is left where VALUE and its space end, and all that follows is yet to   *)
(* be read; without flags or a length it is left at the end of the line.   *)
(***************************************************************************)
BrokenValueLine ==
    /\ LineOf({"get", "multi"}) /\ BeginsWith(Line, <<"BROKEN">>)
    /\ \/ /\ m_reader' = [Line EXCEPT !.readCursor = @ + 1]
          /\ Consumed(Line.readCursor + 1, Line.readCursor + 1)
       \/ /\ m_reader' = ReadToEnd(Line)
          /\ Consumed(Line.readCursor + 1, Line.packetEnd)
    /\ Finish("raise", <<>>)
    /\ UNCHANGED <<call, head, res, accepted, m_writer, prv, falseReset, netVars>>

(***************************************************************************)
(* A VALUE line: its numbers are read into locals, its key is not: the     *)
(* caller is given a pointer into the buffer, where the line starts at at. *)
(***************************************************************************)
ValueLine ==
    /\ LineOf({"get", "multi"}) /\ BeginsWith(Line, <<"VALUE">>)
    /\ TakeLine(Skip(Line))
    /\ head' = [unit |-> FirstUnit, at |-> Line.readCursor + 1]
    /\ pc' = "data"
    /\ UNCHANGED <<res, outcome>>

\* cbExpect: the value and its line end.  One that forgets the line end.
ExpectWithoutCRLF == head.unit.tok.n

Expect == head.unit.tok.n + 1

\* The size asked for is what the value still lacks, whatever room is left.
RecvData ==
    /\ pc = "data" /\ Unread(m_reader) < Expect /\ prv
    /\ \E k \in 1 .. Len(sent) :
          /\ AtMost(k, IF Expect - Unread(m_reader) > RecvMax
                       THEN RecvMax ELSE Expect - Unread(m_reader))
          /\ Receive(m_reader, k)
    /\ UNCHANGED <<callVars, m_writer, prv, falseReset, sock, toServer, sent, answer, served>>

\* A value that is given up on a connection that is kept.
RecvDataFailsKeepingSocket ==
    /\ pc = "data" /\ Unread(m_reader) < Expect /\ (Faults \/ ~prv \/ sock = "closed")
    /\ Finish("raise", <<>>)
    /\ UNCHANGED <<call, head, res, from, accepted, objVars, netVars>>

\* recv() raised or returned nothing in the middle of a value.
RecvDataFails ==
    /\ pc = "data" /\ Unread(m_reader) < Expect /\ (Faults \/ ~prv \/ sock = "closed")
    /\ prv' = FALSE
    /\ Finish("raise", <<>>)
    /\ UNCHANGED <<call, head, res, from, accepted, m_writer, m_reader, falseReset, netVars>>

\* What the key pointer shows by then: when the skip() of the VALUE line has
\* rewound the buffer, the value was received from its start on.
KeySeen == IF head.at <= WriteCursor(m_reader) THEN m_reader.mem[head.at] ELSE head.unit

DataComplete ==
    /\ pc = "data" /\ Unread(m_reader) >= Expect
    /\ LET first == m_reader.readCursor + 1
           end   == m_reader.readCursor + Expect
       IN  /\ res' = Append(res, [key |-> KeySeen,
                                  data |-> SubSeq(m_reader.mem, first, end - 1)])
           /\ m_reader' = Skip(SetEndPtr(m_reader, end))
           /\ Consumed(first, end)
    /\ pc' = "line"
    /\ UNCHANGED <<call, head, outcome, accepted, m_writer, prv, falseReset, netVars>>

-----------------------------------------------------------------------------
(***************************************************************************)
(* The server, and the connection.                                         *)
(***************************************************************************)
Request1 == Head(toServer)

\* A request with noreply is processed and nothing is sent.
ServeQuietly ==
    /\ toServer # <<>> /\ sock = "up" /\ Request1.clean /\ Request1.async
    /\ toServer' = Tail(toServer)
    /\ served' = Append(served, Request1.call)
    /\ UNCHANGED <<callVars, objVars, sock, sent, rcvd, answer>>

ServeReply ==
    /\ toServer # <<>> /\ sock = "up" /\ Request1.clean /\ ~Request1.async
    /\ toServer' = Tail(toServer)
    /\ served' = Append(served, Request1.call)
    /\ \E r \in Replies(Request1.op) :
          /\ sent' = sent \o Stamp(r.toks, Request1.call)
          /\ answer' = [call |-> Request1.call, reply |-> r]
    /\ UNCHANGED <<callVars, objVars, sock, rcvd>>

\* A line the server does not recognise is answered by an error line, and
\* the value that follows it, taken for a command, by another.
ServeGarbled ==
    /\ toServer # <<>> /\ sock = "up" /\ ~Request1.clean
    /\ toServer' = Tail(toServer)
    /\ LET error == <<Tok("ERROR"), Tok("CRLF")>>
       IN  sent' = sent \o Stamp(IF Request1.op = "store" THEN error \o error ELSE error,
                                 Request1.call)
    /\ UNCHANGED <<callVars, objVars, sock, rcvd, answer, served>>

\* The peer closes: requests it has not processed are gone, and so may be
\* the end of what it has sent.
PeerCloses ==
    /\ Faults /\ sock = "up"
    /\ sock' = "closed"
    /\ toServer' = <<>>
    /\ \E k \in rcvd .. Len(sent) : sent' = SubSeq(sent, 1, k)
    /\ UNCHANGED <<callVars, objVars, rcvd, answer, served>>

-----------------------------------------------------------------------------
Socket == Connect \/ ConnectFails \/ ConnectRefused \/ Disconnect

Send == SendPart \/ SendRest \/ SendRaises \/ SendZero
Recv == RecvLine \/ RecvLineEmpty \/ RecvLineRaises \/ RecvData \/ RecvDataFails
Parse == \/ ErrorLine \/ ResultLine \/ VersionLine \/ ForeignVersionLine
         \/ StatLine \/ StatsEnd \/ ForeignStatsLine
         \/ GetEnd \/ MalformedLine \/ BrokenValueLine \/ ValueLine \/ DataComplete

Serve == ServeQuietly \/ ServeReply \/ ServeGarbled

Next == Socket \/ Begin \/ Send \/ Recv \/ Parse \/ Serve \/ PeerCloses

Spec == Init /\ [][Next]_vars

(***************************************************************************)
(* A running call keeps running: the interpreter does not abandon it.  The *)
(* server processes what it has received.  The program need not make any   *)
(* call, and nothing need ever fail.                                       *)
(***************************************************************************)
FairSpec == Spec /\ WF_vars(Send \/ Recv \/ Parse) /\ WF_vars(Serve)
=============================================================================
