----------------------------- MODULE ClientProofs -----------------------------
(***************************************************************************)
(* Theorems about the client, for every size of its buffers, every server  *)
(* that keeps to the protocol and any number of calls.                     *)
(***************************************************************************)
EXTENDS ClientProperties, SequenceTheorems, WellFoundedInduction, TLAPS

-----------------------------------------------------------------------------
(***************************************************************************)
(* Lemmas about the reader.                                                *)
(***************************************************************************)
Reader == [mem : Seq(Units), readCursor : Nat, packetEnd : Nat \cup {NULL}]

\* A set of natural numbers that is not empty has a least element, and Min
\* finds it.
LEMMA MinOfNats ==
    ASSUME NEW S \in SUBSET Nat, S # {}
    PROVE  Min(S) \in S /\ \A x \in S : Min(S) <= x
<1>1. PICK m \in S : \A x \in S : ~(<<x, m>> \in OpToRel(<, Nat))
      BY NatLessThanWellFounded, WFMin
<1>2. ASSUME NEW x \in S PROVE ~(x < m)
  <2>1. OpToRel(<, Nat) = { ss \in Nat \X Nat : ss[1] < ss[2] }
        BY Zenon DEF OpToRel
  <2>2. x < m => <<x, m>> \in { ss \in Nat \X Nat : ss[1] < ss[2] }
        OBVIOUS
  <2>. QED BY <1>1, <2>1, <2>2, Zenon
<1>3. \A x \in S : m <= x
      BY <1>2
<1>. QED BY <1>3, Zenon DEF Min

\* A stretch of a sequence is a sequence of the same set.
LEMMA Stretch ==
    ASSUME NEW S, NEW s \in Seq(S), NEW m \in Nat \ {0}, NEW n \in Int, n <= Len(s)
    PROVE  /\ SubSeq(s, m, n) \in Seq(S)
           /\ Len(SubSeq(s, m, n)) = IF m <= n THEN n - m + 1 ELSE 0
           /\ \A i \in 1 .. n - m + 1 : SubSeq(s, m, n)[i] = s[m + i - 1]
<1>1. \A i \in m .. n : s[i] \in S
      BY ElementOfSeq
<1>. QED BY <1>1, SubSeqProperties

\* haveLine() leaves everything but the packet end, which is the first line
\* end after the read cursor, or null.
LEMMA LineFound ==
    ASSUME NEW r \in Reader, HaveLine(r)
    PROVE  /\ ScanLine(r) \in Reader
           /\ ScanLine(r).mem = r.mem
           /\ ScanLine(r).readCursor = r.readCursor
           /\ ScanLine(r).packetEnd \in LineEnds(r)
           /\ ScanLine(r).packetEnd \in r.readCursor + 1 .. Len(r.mem)
           /\ \A p \in LineEnds(r) : ScanLine(r).packetEnd <= p
<1>1. /\ r.mem \in Seq(Units) /\ r.readCursor \in Nat /\ r.packetEnd \in Nat \cup {NULL}
      /\ Len(r.mem) \in Nat
      BY LenProperties DEF Reader
<1>2. LineEnds(r) \in SUBSET Nat /\ LineEnds(r) # {}
      BY <1>1 DEF LineEnds, HaveLine
<1>3. Min(LineEnds(r)) \in LineEnds(r) /\ \A p \in LineEnds(r) : Min(LineEnds(r)) <= p
      BY <1>2, MinOfNats
<1>4. ScanLine(r) = [r EXCEPT !.packetEnd = Min(LineEnds(r))]
      BY DEF ScanLine, SetEndPtr
<1>5. Min(LineEnds(r)) \in r.readCursor + 1 .. Len(r.mem)
      BY <1>3 DEF LineEnds
<1>. QED BY <1>1, <1>2, <1>3, <1>4, <1>5 DEF Reader

LEMMA NoLineFound ==
    ASSUME NEW r \in Reader, ~HaveLine(r)
    PROVE  ScanLine(r) = [r EXCEPT !.packetEnd = NULL] /\ ScanLine(r) \in Reader
BY DEF ScanLine, SetEndPtr, Reader

\* A reader whose cursors are in order stays so when it skips its packet.
Ordered(r) ==
    /\ r.readCursor <= Len(r.mem)
    /\ r.packetEnd # NULL => r.packetEnd \in r.readCursor .. Len(r.mem)

LEMMA FreshReader == NewReader \in Reader /\ Ordered(NewReader)
BY EmptySeq DEF NewReader, Reader, Ordered, NULL

LEMMA SkipOrdered ==
    ASSUME NEW r \in Reader, r.packetEnd \in r.readCursor .. Len(r.mem)
    PROVE  Skip(r) \in Reader /\ Ordered(Skip(r))
<1>1. r.packetEnd \in Nat /\ Len(r.mem) \in Nat
      BY LenProperties DEF Reader
<1>2. CASE r.packetEnd = Len(r.mem)
      BY <1>2, FreshReader DEF Skip, WriteCursor
<1>3. CASE r.packetEnd # Len(r.mem)
      BY <1>1, <1>3 DEF Skip, WriteCursor, Reader, Ordered, NULL
<1>. QED BY <1>2, <1>3

LEMMA PushOrdered ==
    ASSUME NEW r \in Reader, Ordered(r), NEW us \in Seq(Units)
    PROVE  Push(r, us) \in Reader /\ Ordered(Push(r, us))
<1>1. r.mem \o us \in Seq(Units) /\ Len(r.mem \o us) = Len(r.mem) + Len(us)
      BY ConcatProperties DEF Reader
<1>2. Len(r.mem) \in Nat /\ Len(us) \in Nat
      BY LenProperties DEF Reader
<1>3. /\ Push(r, us) \in Reader
      /\ Push(r, us).mem = r.mem \o us
      /\ Push(r, us).readCursor = r.readCursor
      /\ Push(r, us).packetEnd = r.packetEnd
      BY <1>1 DEF Push, Reader
<1>. QED BY <1>1, <1>2, <1>3, SMT DEF Reader, Ordered, NULL

-----------------------------------------------------------------------------
(***************************************************************************)
(* Lemmas about the writer.                                                *)
(***************************************************************************)
Writer == [readCursor : Nat, writeCursor : Nat, stem : BOOLEAN, reqs : Seq(Requests)]

LEMMA FreshWriter == NewWriter \in Writer
BY EmptySeq DEF NewWriter, Writer

LEMMA WriteCharsFields ==
    ASSUME NEW w \in Writer, NEW n \in Nat
    PROVE  /\ WriteChars(w, n) \in Writer
           /\ WriteChars(w, n).readCursor = w.readCursor
           /\ WriteChars(w, n).writeCursor = w.writeCursor + n
           /\ WriteChars(w, n).reqs = w.reqs
BY DEF WriteChars, Writer

LEMMA WriteRequestFields ==
    ASSUME NEW w \in Writer, NEW n \in Nat, NEW req \in Requests
    PROVE  /\ WriteRequest(w, n, req) \in Writer
           /\ WriteRequest(w, n, req).readCursor = w.readCursor
           /\ WriteRequest(w, n, req).writeCursor = w.writeCursor + n
           /\ WriteRequest(w, n, req).stem = FALSE
           /\ WriteRequest(w, n, req).reqs = Append(w.reqs, [req EXCEPT !.clean = ~w.stem])
<1>1. [req EXCEPT !.clean = ~w.stem] \in Requests
      BY DEF Requests, Writer
<1>2. Append(w.reqs, [req EXCEPT !.clean = ~w.stem]) \in Seq(Requests)
      BY <1>1, AppendProperties DEF Writer
<1> DEFINE chars == WriteChars(w, n)
<1>3. WriteRequest(w, n, req) =
          [chars EXCEPT !.reqs = Append(w.reqs, [req EXCEPT !.clean = ~w.stem]), !.stem = FALSE]
      BY WriteCharsFields DEF WriteRequest
<1>4. /\ chars \in Writer
      /\ chars.readCursor = w.readCursor
      /\ chars.writeCursor = w.writeCursor + n
      BY WriteCharsFields
<1> HIDE DEF chars
<1>. QED BY <1>2, <1>3, <1>4 DEF Writer

LEMMA WriteStemType ==
    ASSUME NEW w \in Writer
    PROVE  WriteStem(w) \in Writer
<1> DEFINE chars == WriteChars(w, 1)
<1>1. chars \in Writer
      BY WriteCharsFields
<1>2. WriteStem(w) = [chars EXCEPT !.stem = TRUE]
      BY DEF WriteStem
<1> HIDE DEF chars
<1>. QED BY <1>1, <1>2 DEF Writer

LEMMA PullType ==
    ASSUME NEW w \in Writer, NEW k \in Nat
    PROVE  Pull(w, k) \in Writer
<1>1. w.readCursor + k \in Nat
      BY DEF Writer
<1>2. PICK c \in Nat : c = w.readCursor + k
      BY <1>1
<1>3. [w EXCEPT !.readCursor = c] \in Writer
      BY DEF Writer
<1>4. Pull(w, k) = NewWriter \/ Pull(w, k) = [w EXCEPT !.readCursor = c]
      BY <1>2 DEF Pull
<1>. QED BY <1>3, <1>4, FreshWriter

-----------------------------------------------------------------------------
(***************************************************************************)
(* The variables keep their types, and the cursors of the reader their     *)
(* order.                                                                  *)
(***************************************************************************)
LEMMA ReplyType ==
    ASSUME NEW op \in Ops, NEW r \in Replies(op), NEW c \in Nat
    PROVE  /\ r \in [toks : Seq(Tokens), starts : SUBSET Nat]
           /\ Stamp(r.toks, c) \in Seq(Units)
           /\ Len(Stamp(r.toks, c)) = Len(r.toks)
<1>1. r \in [toks : Seq(Tokens), starts : SUBSET (Nat \ {0})]
      BY ReplyAssumption DEF WellFormed
<1>2. Len(r.toks) \in Nat /\ \A i \in 1 .. Len(r.toks) : r.toks[i] \in Tokens
      BY <1>1, LenProperties, ElementOfSeq
<1>3. \A i \in 1 .. Len(r.toks) : [call |-> c, tok |-> r.toks[i]] \in Units
      BY <1>2 DEF Units
<1> DEFINE us == [i \in 1 .. Len(r.toks) |-> [call |-> c, tok |-> r.toks[i]]]
<1>4. us \in Seq(Units) /\ Len(us) = Len(r.toks)
      BY <1>2, <1>3
<1>5. r \in [toks : Seq(Tokens), starts : SUBSET Nat]
      BY <1>1
<1>. QED BY <1>4, <1>5 DEF Stamp

LEMMA InitTypes == Init => TypeOK /\ CursorOrder
<1>1. NoUnit \in Units
      BY DEF NoUnit, Units, Tok, Tokens, Words
<1>. SUFFICES ASSUME Init PROVE TypeOK /\ CursorOrder
      OBVIOUS
<1>2. /\ m_reader \in Reader /\ Ordered(m_reader)
      /\ m_writer \in Writer
      BY FreshReader, FreshWriter DEF Init
<1>3. CursorOrder
      BY <1>2 DEF CursorOrder, Ordered, WriteCursor
<1>4. outcome \in Outcomes
      BY EmptySeq DEF Init, Outcomes
<1>5. /\ <<>> \in Seq(Entries) /\ <<>> \in Seq(Requests) /\ <<>> \in Seq(Units)
      /\ <<>> \in Seq(Tokens) /\ <<>> \in Seq(Nat)
      BY EmptySeq
<1>6. call \in [id : Nat, op : Ops, async : BOOLEAN, linked : BOOLEAN]
      BY DEF Init, Ops
<1>7. answer \in [call : Nat, reply : [toks : Seq(Tokens), starts : SUBSET Nat]]
      BY <1>5 DEF Init
<1>8. head \in [unit : Units, at : Nat \ {0}]
      BY <1>1 DEF Init
<1>. QED BY <1>2, <1>3, <1>4, <1>5, <1>6, <1>7, <1>8 DEF Init, TypeOK, Reader, Writer

LEMMA SocketTypes ==
    ASSUME TypeOK, CursorOrder, Socket
    PROVE  TypeOK' /\ CursorOrder'
<1>1. ASSUME ConnectBegins, outcome' \in Outcomes, sock' \in {"new", "up", "closed"},
             UNCHANGED <<pc, call, head, res, from, accepted, prv, falseReset,
                         toServer, sent, rcvd, answer, served>>
      PROVE  TypeOK' /\ CursorOrder'
      BY <1>1, FreshReader, FreshWriter
      DEF ConnectBegins, TypeOK, CursorOrder, Reader, Writer, Ordered, WriteCursor
<1>2. ASSUME outcome' \in Outcomes, prv' \in BOOLEAN,
             UNCHANGED <<pc, call, head, res, from, accepted, m_writer, m_reader,
                         falseReset, netVars>>
      PROVE  TypeOK' /\ CursorOrder'
      BY <1>2 DEF TypeOK, CursorOrder, netVars
<1>3. \A kind \in {"none", "value", "raise"} : Returns(kind, <<>>) => outcome' \in Outcomes
      BY EmptySeq DEF Returns, Outcomes
<1>. QED BY <1>1, <1>2, <1>3
         DEF Socket, Connect, ConnectFails, ConnectRefused, Disconnect, TypeOK,
             objVars, netVars

LEMMA BeginTypes ==
    ASSUME TypeOK, CursorOrder, Begin
    PROVE  TypeOK' /\ CursorOrder'
<1>1. ASSUME NEW op \in Ops, NEW async \in BOOLEAN, NextCall(op, async)
      PROVE  /\ call' \in [id : Nat, op : Ops, async : BOOLEAN, linked : BOOLEAN]
             /\ from' \subseteq Nat /\ res' \in Seq(Entries)
             /\ [call |-> call.id + 1, op |-> op, async |-> async, clean |-> TRUE] \in Requests
      BY <1>1, EmptySeq DEF NextCall, TypeOK, Requests
<1>2. \A kind \in {"none", "raise"} : Returns(kind, <<>>) => outcome' \in Outcomes
      BY EmptySeq DEF Returns, Outcomes
<1>3. ASSUME NEW op \in Ops, NEW async \in BOOLEAN, NEW n \in Nat, Request(op, async, n)
      PROVE  TypeOK' /\ CursorOrder'
  <2>1. m_writer' \in Writer
    <3> DEFINE req == [call |-> call.id + 1, op |-> op, async |-> async, clean |-> TRUE]
    <3>1. req \in Requests
          BY <1>1, <1>3 DEF Request
    <3>2. m_writer' = WriteRequest(m_writer, n, req)
          BY <1>3 DEF Request
    <3>3. m_writer \in Writer
          BY DEF TypeOK, Writer
    <3> HIDE DEF req
    <3>. QED BY <3>1, <3>2, <3>3, WriteRequestFields
  <2>. QED BY <1>1, <1>2, <1>3, <2>1 DEF Request, TypeOK, CursorOrder, Writer, netVars
<1>4. ASSUME NEW op \in Ops, NEW async \in BOOLEAN, NextCall(op, async),
             m_writer' \in Writer, Returns("raise", <<>>),
             UNCHANGED <<pc, head, accepted, m_reader, prv, falseReset, netVars>>
      PROVE  TypeOK' /\ CursorOrder'
      BY <1>1, <1>2, <1>4 DEF TypeOK, CursorOrder, Writer, netVars
<1>5. m_writer \in Writer /\ WriteStem(m_writer) \in Writer
      BY WriteStemType DEF TypeOK, Writer
<1>6. ASSUME NEW async \in BOOLEAN, NEW n \in DataSizes,
             Command(n, async) \/ Cas(n, async) \/ CommandTooLarge(n, async)
      PROVE  TypeOK' /\ CursorOrder'
  <2>1. n + 2 \in Nat
        BY ClientAssumption
  <2>. QED BY <1>3, <1>4, <1>5, <1>6, <2>1
           DEF Command, Cas, CommandTooLarge, Ops, objVars
<1>7. ASSUME NEW async \in BOOLEAN,
             Delete(async) \/ Incr(async) \/ Decr(async) \/ FlushAll(async)
      PROVE  TypeOK' /\ CursorOrder'
      BY <1>3, <1>7 DEF Delete, Incr, Decr, FlushAll, Ops
<1>8. ASSUME NEW m \in KeyCounts, GetMulti(m)
      PROVE  TypeOK' /\ CursorOrder'
  <2>1. 2 + m \in Nat
        BY ClientAssumption
  <2>. QED BY <1>3, <1>8, <2>1 DEF GetMulti, Ops
<1>9. CASE Version \/ Stats \/ Get
      BY <1>3, <1>9 DEF Version, Stats, Get, Ops
<1>10. CASE GetMultiBadKeys
      BY <1>4, <1>5, <1>10 DEF GetMultiBadKeys, Ops
<1>. QED BY <1>6, <1>7, <1>8, <1>9, <1>10 DEF Begin

LEMMA SendTypes ==
    ASSUME TypeOK, CursorOrder, Send
    PROVE  TypeOK' /\ CursorOrder'
<1>1. m_writer \in Writer
      BY DEF TypeOK, Writer
<1>2. \A kind \in {"none", "raise"} : Finish(kind, <<>>) => pc' = "idle" /\ outcome' \in Outcomes
      BY EmptySeq DEF Finish, Returns, Outcomes
<1>3. SendFailed => pc' \in {"idle", "line"} /\ outcome' \in Outcomes
      BY <1>2 DEF SendFailed, TypeOK
<1>4. CASE SendPart
  <2>1. m_writer' \in Writer
        BY <1>1, <1>4, PullType DEF SendPart, BytesToSend, Writer
  <2>. QED BY <1>4, <2>1 DEF SendPart, TypeOK, CursorOrder, Writer, callVars, netVars
<1>5. CASE SendRest
  <2>1. /\ m_writer' = Pull(m_writer, BytesToSend(m_writer))
        /\ pc' \in {"idle", "line"} /\ outcome' \in Outcomes /\ accepted' \subseteq Nat
        BY <1>2, <1>5 DEF SendRest, TypeOK
  <2>2. m_writer' \in Writer
    <3>1. CASE m_writer' = NewWriter
          BY <3>1, FreshWriter
    <3>2. m_writer.readCursor + BytesToSend(m_writer) = m_writer.writeCursor
          BY <1>1 DEF BytesToSend, Writer
    <3>. QED BY <2>1, <3>1, <3>2 DEF Pull
  <2>3. toServer' \in Seq(Requests)
        BY <1>1, <1>5, ConcatProperties DEF SendRest, TypeOK, Writer
  <2>. QED BY <1>5, <2>1, <2>2, <2>3 DEF SendRest, TypeOK, CursorOrder, Writer
<1>6. CASE SendRaises
      BY <1>3, <1>6 DEF SendRaises, TypeOK, CursorOrder, netVars
<1>7. CASE SendZero
      BY <1>3, <1>7 DEF SendZero, TypeOK, CursorOrder, objVars, netVars
<1>. QED BY <1>4, <1>5, <1>6, <1>7 DEF Send

LEMMA ServerTypes ==
    ASSUME TypeOK, CursorOrder, Serve \/ PeerCloses
    PROVE  TypeOK' /\ CursorOrder'
<1>1. ASSUME toServer' \in Seq(Requests), served' \in Seq(Nat), sent' \in Seq(Units),
             answer' \in [call : Nat, reply : [toks : Seq(Tokens), starts : SUBSET Nat]],
             sock' \in {"new", "up", "closed"},
             UNCHANGED <<callVars, objVars, rcvd>>
      PROVE  TypeOK' /\ CursorOrder'
      BY <1>1 DEF TypeOK, CursorOrder, callVars, objVars
<1>2. toServer # <<>> => Tail(toServer) \in Seq(Requests) /\ Request1 \in Requests
      BY HeadTailProperties DEF TypeOK, Request1
<1>3. ASSUME toServer # <<>>
      PROVE  Request1.call \in Nat /\ Request1.op \in Ops
             /\ Append(served, Request1.call) \in Seq(Nat)
      BY <1>2, <1>3, AppendProperties DEF Requests, TypeOK
<1>4. CASE ServeQuietly
      BY <1>1, <1>2, <1>3, <1>4 DEF ServeQuietly, TypeOK
<1>5. CASE ServeReply
  <2>1. PICK r \in Replies(Request1.op) :
            /\ sent' = sent \o Stamp(r.toks, Request1.call)
            /\ answer' = [call |-> Request1.call, reply |-> r]
        BY <1>5 DEF ServeReply
  <2>2. /\ r \in [toks : Seq(Tokens), starts : SUBSET Nat]
        /\ Stamp(r.toks, Request1.call) \in Seq(Units)
        BY <1>3, <1>5, ReplyType DEF ServeReply
  <2>3. sent' \in Seq(Units)
        BY <2>1, <2>2, ConcatProperties DEF TypeOK
  <2>4. answer' \in [call : Nat, reply : [toks : Seq(Tokens), starts : SUBSET Nat]]
        BY <1>3, <1>5, <2>1, <2>2 DEF ServeReply
  <2>. QED BY <1>1, <1>2, <1>3, <1>5, <2>3, <2>4 DEF ServeReply, TypeOK
<1>6. CASE ServeGarbled
  <2> DEFINE error == <<Tok("ERROR"), Tok("CRLF")>>
             lines == IF Request1.op = "store" THEN error \o error ELSE error
  <2>1. error \in Seq(Tokens)
        BY DEF Tok, Tokens, Words
  <2>2. lines \in Seq(Tokens)
        BY <2>1, ConcatProperties
  <2> HIDE DEF lines
  <2>3. Stamp(lines, Request1.call) \in Seq(Units)
    <3>1. Len(lines) \in Nat /\ \A i \in 1 .. Len(lines) : lines[i] \in Tokens
          BY <2>2, LenProperties, ElementOfSeq
    <3>2. \A i \in 1 .. Len(lines) : [call |-> Request1.call, tok |-> lines[i]] \in Units
          BY <1>3, <1>6, <3>1 DEF ServeGarbled, Units
    <3>. QED BY <3>1, <3>2 DEF Stamp
  <2>4. sent' = sent \o Stamp(lines, Request1.call)
        BY <1>6 DEF ServeGarbled, lines
  <2>5. sent' \in Seq(Units)
        BY <2>3, <2>4, ConcatProperties DEF TypeOK
  <2>. QED BY <1>1, <1>2, <1>6, <2>5 DEF ServeGarbled, TypeOK
<1>7. CASE PeerCloses
  <2>1. PICK k \in rcvd .. Len(sent) : sent' = SubSeq(sent, 1, k)
        BY <1>7 DEF PeerCloses
  <2>2. sent' \in Seq(Units)
        BY <2>1, Stretch, LenProperties DEF TypeOK
  <2>3. toServer' \in Seq(Requests)
        BY <1>7, EmptySeq DEF PeerCloses
  <2>. QED BY <1>1, <1>7, <2>2, <2>3 DEF PeerCloses, TypeOK
<1>. QED BY <1>4, <1>5, <1>6, <1>7 DEF Serve

(***************************************************************************)
(* What a line in the buffer gives to the methods that take it.            *)
(***************************************************************************)
LEMMA LineFacts ==
    ASSUME TypeOK, HaveLine(m_reader)
    PROVE  /\ m_reader \in Reader /\ Line \in Reader
           /\ Line.mem = m_reader.mem /\ Line.readCursor = m_reader.readCursor
           /\ Line.packetEnd \in Line.readCursor + 1 .. Len(Line.mem)
           /\ FirstUnit \in Units
           /\ Skip(Line) \in Reader /\ Ordered(Skip(Line))
           /\ ReadToEnd(Line) \in Reader /\ Ordered(ReadToEnd(Line))
<1>1. m_reader \in Reader
      BY DEF TypeOK, Reader
<1>2. /\ Line \in Reader
      /\ Line.mem = m_reader.mem /\ Line.readCursor = m_reader.readCursor
      /\ Line.packetEnd \in Line.readCursor + 1 .. Len(Line.mem)
      BY <1>1, LineFound DEF Line
<1>3. /\ Line.mem \in Seq(Units) /\ Line.readCursor \in Nat /\ Len(Line.mem) \in Nat
      BY <1>2, LenProperties DEF Reader
<1>4. FirstUnit \in Units
  <2>1. Line.readCursor + 1 \in 1 .. Len(Line.mem)
        BY <1>2, <1>3
  <2>. QED BY <1>3, <2>1, ElementOfSeq DEF FirstUnit
<1>5. Skip(Line) \in Reader /\ Ordered(Skip(Line))
      BY <1>2, <1>3, SkipOrdered
<1>6. ReadToEnd(Line) \in Reader /\ Ordered(ReadToEnd(Line))
      BY <1>2, <1>3 DEF ReadToEnd, Reader, Ordered
<1>. QED BY <1>1, <1>2, <1>4, <1>5, <1>6

\* The frame of a step of the client that leaves the server alone.
LEMMA ClientStepTypes ==
    ASSUME TypeOK, CursorOrder,
           pc' \in {"idle", "send", "line", "data"},
           head' \in [unit : Units, at : Nat \ {0}],
           res' \in Seq(Entries), outcome' \in Outcomes, from' \subseteq Nat,
           m_reader' \in Reader, Ordered(m_reader'),
           prv' \in BOOLEAN, falseReset' \in BOOLEAN, rcvd' \in Nat,
           UNCHANGED <<call, accepted, m_writer, sock, toServer, sent, answer, served>>
    PROVE  TypeOK' /\ CursorOrder'
BY DEF TypeOK, CursorOrder, Reader, Ordered, WriteCursor

LEMMA FinishTypes ==
    ASSUME NEW kind \in {"none", "value", "raise"}, NEW val \in Seq(Units) \cup Seq(Entries),
           Finish(kind, val)
    PROVE  pc' = "idle" /\ outcome' \in Outcomes
BY DEF Finish, Returns, Outcomes

LEMMA ReadLineFailedTypes ==
    ASSUME TypeOK, ReadLineFailed
    PROVE  pc' = "idle" /\ outcome' \in Outcomes
BY EmptySeq, FinishTypes DEF ReadLineFailed, TypeOK

\* The calls a step consumes units of.
LEMMA ConsumedTypes ==
    ASSUME TypeOK, NEW i \in Nat \ {0}, NEW j \in Nat, j <= Len(m_reader.mem), Consumed(i, j)
    PROVE  from' \subseteq Nat
<1>1. ASSUME NEW k \in i .. j PROVE m_reader.mem[k].call \in Nat
  <2>1. m_reader.mem \in Seq(Units) /\ k \in 1 .. Len(m_reader.mem)
        BY LenProperties DEF TypeOK
  <2>2. m_reader.mem[k] \in Units
        BY <2>1, ElementOfSeq
  <2>. QED BY <2>2 DEF Units
<1>2. from \subseteq Nat
      BY DEF TypeOK
<1>. QED BY <1>1, <1>2 DEF Consumed

LEMMA RecvTypes ==
    ASSUME TypeOK, CursorOrder, Recv
    PROVE  TypeOK' /\ CursorOrder'
<1>1. m_reader \in Reader /\ Ordered(m_reader)
      BY DEF TypeOK, CursorOrder, Reader, Ordered, WriteCursor
<1>2. ~HaveLine(m_reader) => ScanLine(m_reader) \in Reader /\ Ordered(ScanLine(m_reader))
      BY <1>1, NoLineFound DEF Reader, Ordered
<1>3. ASSUME NEW k \in 1 .. Len(sent), NEW r \in Reader, Ordered(r),
             rcvd + k <= Len(sent), Receive(r, k)
      PROVE  m_reader' \in Reader /\ Ordered(m_reader') /\ rcvd' \in Nat
  <2>1. sent \in Seq(Units) /\ rcvd + 1 \in Nat \ {0} /\ rcvd + k \in Nat
        BY LenProperties DEF TypeOK
  <2>2. SubSeq(sent, rcvd + 1, rcvd + k) \in Seq(Units)
        BY <1>3, <2>1, Stretch
  <2>3. m_reader' = Push(r, SubSeq(sent, rcvd + 1, rcvd + k)) /\ rcvd' = rcvd + k
        BY <1>3 DEF Receive
  <2>. QED BY <1>3, <2>1, <2>2, <2>3, PushOrdered
<1>4. CASE RecvLine
  <2>1. m_reader' \in Reader /\ Ordered(m_reader') /\ rcvd' \in Nat
        BY <1>2, <1>3, <1>4 DEF RecvLine, AtMost
  <2>. QED BY <1>4, <2>1, ClientStepTypes DEF RecvLine, TypeOK, callVars
<1>5. CASE RecvLineEmpty
  <2>1. pc' = "idle" /\ outcome' \in Outcomes /\ m_reader' \in Reader /\ Ordered(m_reader')
        BY <1>2, <1>5, ReadLineFailedTypes DEF RecvLineEmpty
  <2>2. falseReset' \in BOOLEAN
        BY <1>5 DEF RecvLineEmpty, TypeOK
  <2>. QED BY <1>5, <2>1, <2>2, ClientStepTypes DEF RecvLineEmpty, TypeOK, netVars
<1>6. CASE RecvLineRaises
  <2>1. pc' = "idle" /\ outcome' \in Outcomes /\ m_reader' \in Reader /\ Ordered(m_reader')
        BY <1>2, <1>6, ReadLineFailedTypes DEF RecvLineRaises
  <2>. QED BY <1>6, <2>1, ClientStepTypes DEF RecvLineRaises, TypeOK, netVars
<1>7. CASE RecvData
  <2>1. m_reader' \in Reader /\ Ordered(m_reader') /\ rcvd' \in Nat
        BY <1>1, <1>3, <1>7 DEF RecvData, AtMost
  <2>. QED BY <1>7, <2>1, ClientStepTypes DEF RecvData, TypeOK, callVars
<1>8. CASE RecvDataFails
  <2>1. pc' = "idle" /\ outcome' \in Outcomes
        BY <1>8, EmptySeq, FinishTypes DEF RecvDataFails
  <2>. QED BY <1>1, <1>8, <2>1, ClientStepTypes DEF RecvDataFails, TypeOK, netVars
<1>. QED BY <1>4, <1>5, <1>6, <1>7, <1>8 DEF Recv

\* A step that takes a line, whatever it makes of it.
LEMMA TakeLineTypes ==
    ASSUME TypeOK, CursorOrder, HaveLine(m_reader),
           NEW r \in {Skip(Line), ReadToEnd(Line)}, TakeLine(r),
           pc' \in {"idle", "send", "line", "data"},
           head' \in [unit : Units, at : Nat \ {0}],
           res' \in Seq(Entries), outcome' \in Outcomes
    PROVE  TypeOK' /\ CursorOrder'
<1>1. m_reader' \in Reader /\ Ordered(m_reader')
      BY LineFacts DEF TakeLine
<1>2. from' \subseteq Nat
  <2>1. /\ Line.readCursor + 1 \in Nat \ {0} /\ Line.packetEnd \in Nat
        /\ Line.packetEnd <= Len(m_reader.mem)
        BY LineFacts, LenProperties DEF Reader
  <2>. QED BY <2>1, ConsumedTypes DEF TakeLine
<1>. QED BY <1>1, <1>2, ClientStepTypes DEF TakeLine, TypeOK, netVars

LEMMA ParseTypes ==
    ASSUME TypeOK, CursorOrder, Parse
    PROVE  TypeOK' /\ CursorOrder'
<1>1. CASE DataComplete
  <2> DEFINE first == m_reader.readCursor + 1
             end   == m_reader.readCursor + Expect
             data  == SubSeq(m_reader.mem, first, end - 1)
  <2>1. /\ m_reader \in Reader /\ m_reader.mem \in Seq(Units) /\ m_reader.readCursor \in Nat
        /\ Len(m_reader.mem) \in Nat /\ Expect \in Nat \ {0}
    <3>1. head.unit \in Units
          BY DEF TypeOK
    <3>2. head.unit.tok \in Tokens
          BY <3>1 DEF Units
    <3>3. head.unit.tok.n \in Nat
          BY <3>2 DEF Tokens
    <3>4. Expect \in Nat \ {0}
          BY <3>3 DEF Expect
    <3>5. m_reader \in Reader /\ m_reader.mem \in Seq(Units) /\ m_reader.readCursor \in Nat
          BY DEF TypeOK, Reader
    <3>. QED BY <3>4, <3>5, LenProperties
  <2>2. end <= Len(m_reader.mem) /\ end \in Nat /\ first \in Nat \ {0}
        BY <1>1, <2>1 DEF DataComplete, Unread, WriteCursor
  <2>3. data \in Seq(Units)
        BY <2>1, <2>2, Stretch
  <2>4. KeySeen \in Units
    <3>1. head.unit \in Units /\ head.at \in Nat \ {0}
          BY DEF TypeOK
    <3>2. head.at <= Len(m_reader.mem) => m_reader.mem[head.at] \in Units
          BY <2>1, <3>1, ElementOfSeq
    <3>. QED BY <3>1, <3>2 DEF KeySeen, WriteCursor
  <2>5. res' \in Seq(Entries)
    <3>1. [key |-> KeySeen, data |-> data] \in Entries
          BY <2>3, <2>4 DEF Entries
    <3>2. res' = Append(res, [key |-> KeySeen, data |-> data])
          BY <1>1 DEF DataComplete
    <3>3. res \in Seq(Entries)
          BY DEF TypeOK
    <3> HIDE DEF data
    <3>. QED BY <3>1, <3>2, <3>3, AppendProperties
  <2>6. m_reader' \in Reader /\ Ordered(m_reader')
    <3> DEFINE r == SetEndPtr(m_reader, end)
    <3>1. /\ r \in Reader /\ r.packetEnd = end /\ r.readCursor = m_reader.readCursor
          /\ r.mem = m_reader.mem
          BY <2>1, <2>2 DEF SetEndPtr, Reader
    <3>2. r.packetEnd \in r.readCursor .. Len(r.mem)
          BY <2>1, <2>2, <3>1
    <3>3. m_reader' = Skip(r)
          BY <1>1 DEF DataComplete
    <3> HIDE DEF r
    <3>. QED BY <3>1, <3>2, <3>3, SkipOrdered
  <2>7. from' \subseteq Nat
        BY <1>1, <2>2, ConsumedTypes DEF DataComplete
  <2>. QED BY <1>1, <2>5, <2>6, <2>7, ClientStepTypes DEF DataComplete, TypeOK, netVars
<1>2. CASE BrokenValueLine
  <2>1. /\ m_reader' \in Reader /\ Ordered(m_reader')
    <3> DEFINE r == [Line EXCEPT !.readCursor = Line.readCursor + 1]
    <3>1. /\ Line \in Reader /\ Len(Line.mem) \in Nat
          /\ Line.packetEnd \in Line.readCursor + 1 .. Len(Line.mem)
          BY <1>2, LineFacts, LenProperties DEF BrokenValueLine, LineOf, Reader
    <3>2. /\ r \in Reader /\ r.readCursor = Line.readCursor + 1
          /\ r.mem = Line.mem /\ r.packetEnd = Line.packetEnd
          BY <3>1 DEF Reader
    <3>3. Ordered(r)
          BY <3>1, <3>2 DEF Ordered, Reader
    <3>4. m_reader' = r \/ m_reader' = ReadToEnd(Line)
          BY <1>2 DEF BrokenValueLine
    <3> HIDE DEF r
    <3>. QED BY <1>2, <3>2, <3>3, <3>4, LineFacts DEF BrokenValueLine, LineOf
  <2>2. from' \subseteq Nat
    <3>1. /\ Line.readCursor + 1 \in Nat \ {0} /\ Line.readCursor + 1 <= Len(m_reader.mem)
          /\ Line.packetEnd \in Nat /\ Line.packetEnd <= Len(m_reader.mem)
          BY <1>2, LineFacts, LenProperties DEF BrokenValueLine, LineOf, Reader
    <3>2. CASE Consumed(Line.readCursor + 1, Line.readCursor + 1)
          BY <3>1, <3>2, ConsumedTypes
    <3>3. CASE Consumed(Line.readCursor + 1, Line.packetEnd)
          BY <3>1, <3>3, ConsumedTypes
    <3>. QED BY <1>2, <3>2, <3>3 DEF BrokenValueLine
  <2>3. pc' = "idle" /\ outcome' \in Outcomes
        BY <1>2, EmptySeq, FinishTypes DEF BrokenValueLine
  <2>. QED BY <1>2, <2>1, <2>2, <2>3, ClientStepTypes DEF BrokenValueLine, TypeOK, netVars
<1>3. ASSUME HaveLine(m_reader)
      PROVE  /\ FirstUnit \in Units
             /\ [key |-> FirstUnit, data |-> <<>>] \in Entries
             /\ Append(res, [key |-> FirstUnit, data |-> <<>>]) \in Seq(Entries)
             /\ <<FirstUnit>> \in Seq(Units)
             /\ SubSeq(Line.mem, Line.readCursor + 1, Line.packetEnd - 1) \in Seq(Units)
             /\ Packet(Line) \in Seq(Units)
  <2>1. FirstUnit \in Units /\ <<FirstUnit>> \in Seq(Units)
        BY <1>3, LineFacts
  <2>2. [key |-> FirstUnit, data |-> <<>>] \in Entries
        BY <2>1, EmptySeq DEF Entries
  <2>3. /\ Line.mem \in Seq(Units) /\ Line.readCursor \in Nat
        /\ Line.packetEnd \in Nat /\ Line.packetEnd <= Len(Line.mem)
        BY <1>3, LineFacts, LenProperties DEF Reader
  <2>4. /\ SubSeq(Line.mem, Line.readCursor + 1, Line.packetEnd - 1) \in Seq(Units)
        /\ Packet(Line) \in Seq(Units)
        BY <2>3, Stretch, LenProperties DEF Packet
  <2>. QED BY <2>1, <2>2, <2>4, AppendProperties DEF TypeOK
<1>4. ASSUME NEW r \in {Skip(Line), ReadToEnd(Line)}, HaveLine(m_reader), TakeLine(r),
             pc' \in {"idle", "line", "data"}, outcome' \in Outcomes,
             UNCHANGED <<head, res>>
      PROVE  TypeOK' /\ CursorOrder'
      BY <1>4, TakeLineTypes DEF TypeOK
<1>5. ASSUME HaveLine(m_reader), TakeLine(Skip(Line)), UNCHANGED <<pc, head, outcome>>,
             res' = Append(res, [key |-> FirstUnit, data |-> <<>>])
      PROVE  TypeOK' /\ CursorOrder'
      BY <1>3, <1>5, TakeLineTypes DEF TypeOK
<1>6. res \in Seq(Entries) /\ <<>> \in Seq(Units)
      BY EmptySeq DEF TypeOK
<1>7. CASE ErrorLine
      BY <1>4, <1>7, ReadLineFailedTypes DEF ErrorLine, LineOf
<1>8. CASE ResultLine
      BY <1>3, <1>4, <1>8, FinishTypes DEF ResultLine, LineOf
<1>9. CASE VersionLine
      BY <1>3, <1>4, <1>9, FinishTypes DEF VersionLine, LineOf
<1>10. CASE ForeignVersionLine
  <2>1. HaveLine(m_reader) /\ UNCHANGED <<head, res>>
        BY <1>10 DEF ForeignVersionLine, LineOf
  <2>2. CASE m_reader' = Line /\ Finish("raise", <<>>)
             /\ UNCHANGED <<call, from, accepted, m_writer, prv, falseReset, netVars>>
    <3>1. Line \in Reader /\ Ordered(Line)
          BY <2>1, LineFacts, LenProperties DEF Reader, Ordered
    <3>2. pc' = "idle" /\ outcome' \in Outcomes
          BY <1>6, <2>2, FinishTypes
    <3>. QED BY <2>1, <2>2, <3>1, <3>2, ClientStepTypes DEF TypeOK, netVars
  <2>3. CASE TakeLine(ReadToEnd(Line)) /\ Finish("raise", <<>>)
        BY <1>4, <1>6, <2>1, <2>3, FinishTypes
  <2>4. CASE TakeLine(Skip(Line)) /\ Finish("value", Packet(Line))
        BY <1>3, <1>4, <2>1, <2>4, FinishTypes
  <2>. QED BY <1>10, <2>2, <2>3, <2>4 DEF ForeignVersionLine
<1>11. CASE StatLine
      BY <1>5, <1>11 DEF StatLine, LineOf
<1>12. CASE StatsEnd
      BY <1>4, <1>6, <1>12, FinishTypes DEF StatsEnd, LineOf
<1>13. CASE ForeignStatsLine
  <2>1. HaveLine(m_reader) /\ UNCHANGED head
        BY <1>13 DEF ForeignStatsLine, LineOf
  <2>2. CASE TakeLine(Skip(Line)) /\ Finish("value", res) /\ UNCHANGED res
        BY <1>4, <1>6, <2>1, <2>2, FinishTypes
  <2>3. CASE TakeLine(ReadToEnd(Line)) /\ Finish("value", res) /\ UNCHANGED res
        BY <1>4, <1>6, <2>1, <2>3, FinishTypes
  <2>4. CASE TakeLine(Skip(Line)) /\ UNCHANGED <<pc, outcome>>
             /\ res' = Append(res, [key |-> FirstUnit, data |-> <<>>])
        BY <1>5, <2>1, <2>4
  <2>. QED BY <1>13, <2>2, <2>3, <2>4 DEF ForeignStatsLine
<1>14. CASE GetEnd
  <2>1. GetResult \in Seq(Entries)
        BY <1>6, Stretch, LenProperties DEF GetResult
  <2>. QED BY <1>4, <1>14, <2>1, FinishTypes DEF GetEnd, LineOf
<1>15. CASE MalformedLine
      BY <1>4, <1>6, <1>15, FinishTypes DEF MalformedLine, LineOf
<1>16. CASE ValueLine
  <2>1. /\ HaveLine(m_reader) /\ TakeLine(Skip(Line))
        /\ head' = [unit |-> FirstUnit, at |-> Line.readCursor + 1]
        /\ pc' = "data" /\ UNCHANGED <<res, outcome>>
        BY <1>16 DEF ValueLine, LineOf
  <2>2. head' \in [unit : Units, at : Nat \ {0}]
        BY <2>1, LineFacts DEF Reader
  <2>. QED BY <2>1, <2>2, TakeLineTypes DEF TypeOK
<1>. QED BY <1>1, <1>2, <1>7, <1>8, <1>9, <1>10, <1>11, <1>12, <1>13, <1>14, <1>15, <1>16
         DEF Parse

(***************************************************************************)
(* The variables have their types in every reachable state, and the        *)
(* assertion of PacketReader::skip holds whenever it is evaluated.         *)
(***************************************************************************)
LEMMA StepTypes == TypeOK /\ CursorOrder /\ [Next]_vars => TypeOK' /\ CursorOrder'
<1>1. SUFFICES ASSUME TypeOK, CursorOrder, [Next]_vars PROVE TypeOK' /\ CursorOrder'
      OBVIOUS
<1>2. CASE UNCHANGED vars
  <2>1. TypeOK'
        BY <1>1, <1>2 DEF vars, TypeOK
  <2>2. CursorOrder'
        BY <1>1, <1>2 DEF vars, CursorOrder, WriteCursor
  <2>. QED BY <2>1, <2>2
<1>. QED BY <1>1, <1>2, SocketTypes, BeginTypes, SendTypes, RecvTypes, ParseTypes, ServerTypes
         DEF Next

\* Every variable keeps its type, whatever calls are made and however the
\* connection and the server behave.
THEOREM TypeCorrect == Spec => []TypeOK
<1>1. Spec => [](TypeOK /\ CursorOrder)
      BY InitTypes, StepTypes, PTL DEF Spec
<1>. QED BY <1>1, PTL

\* The cursors of the receive buffer stay in order (PacketReader::skip asserts
\* it), even for a client that is out of step with its server.
THEOREM CursorsOrdered == Spec => []CursorOrder
<1>1. Spec => [](TypeOK /\ CursorOrder)
      BY InitTypes, StepTypes, PTL DEF Spec
<1>. QED BY <1>1, PTL

-----------------------------------------------------------------------------
(***************************************************************************)
(* A step of a disconnected client leaves it disconnected, takes nothing   *)
(* from its socket and adds nothing to what the server has to process.     *)
(***************************************************************************)
LEMMA StepStaysClosed ==
    ASSUME TypeOK, Next, ~prv
    PROVE  ~prv' /\ rcvd' = rcvd /\ Len(toServer') <= Len(toServer)
<1> USE DEF TypeOK
<1>0. Len(toServer) \in Nat
      BY LenProperties
<1>1. CASE Socket
      BY <1>0, <1>1 DEF Socket, Connect, ConnectFails, ConnectBegins, ConnectRefused,
                        Disconnect, objVars, netVars
<1>2. CASE Begin
  <2>1. UNCHANGED <<prv, netVars>>
        BY <1>2 DEF Begin, Command, Cas, CommandTooLarge, Delete, Incr, Decr, FlushAll,
                    Version, Stats, Get, GetMulti, GetMultiBadKeys, Request, objVars
  <2>. QED BY <1>0, <2>1 DEF netVars
<1>3. CASE Send
  <2>1. ~prv' /\ UNCHANGED netVars
        BY <1>3 DEF Send, SendPart, SendRest, SendRaises, SendZero
  <2>. QED BY <1>0, <2>1 DEF netVars
<1>4. CASE Recv
  <2>1. ~prv' /\ UNCHANGED netVars
        BY <1>4 DEF Recv, RecvLine, RecvLineEmpty, RecvLineRaises, RecvData, RecvDataFails
  <2>. QED BY <1>0, <2>1 DEF netVars
<1>5. CASE Parse
  <2>1. UNCHANGED <<prv, netVars>>
        BY <1>5 DEF Parse, ErrorLine, ResultLine, VersionLine, ForeignVersionLine, StatLine,
                    StatsEnd, ForeignStatsLine, GetEnd, MalformedLine, BrokenValueLine,
                    ValueLine, DataComplete, TakeLine
  <2>. QED BY <1>0, <2>1 DEF netVars
<1>6. CASE Serve
  <2>1. toServer # <<>> /\ toServer' = Tail(toServer) /\ UNCHANGED <<prv, rcvd>>
        BY <1>6 DEF Serve, ServeQuietly, ServeReply, ServeGarbled, objVars
  <2>2. Len(Tail(toServer)) = Len(toServer) - 1
        BY <2>1, HeadTailProperties
  <2>. QED BY <1>0, <2>1, <2>2
<1>7. CASE PeerCloses
  <2>1. toServer' = <<>> /\ UNCHANGED <<prv, rcvd>>
        BY <1>7 DEF PeerCloses, objVars
  <2>2. Len(<<>>) = 0
        BY EmptySeq
  <2>. QED BY <1>0, <2>1, <2>2
<1>. QED BY <1>1, <1>2, <1>3, <1>4, <1>5, <1>6, <1>7 DEF Next

\* Once disconnected, by disconnect() or by a failed send or receive, a client
\* never has a connection again, and neither receives nor sends.
THEOREM StaysClosed == Spec => ClosedForGood
<1>1. TypeOK /\ [Next]_vars =>
          [~prv => ~prv' /\ rcvd' = rcvd /\ Len(toServer') <= Len(toServer)]_vars
      BY StepStaysClosed
<1>. QED BY <1>1, TypeCorrect, PTL DEF Spec, ClosedForGood

-----------------------------------------------------------------------------
(***************************************************************************)
(* What makes every request fit in the send buffer: room for the largest   *)
(* one, since WriteChars() does not ask for any.  get_multi() is given     *)
(* iterables, for otherwise what it has begun to write stays.              *)
(***************************************************************************)
RoomForRequests ==
    /\ 3 <= WCap /\ MaxSize + 2 <= WCap
    /\ \A m \in KeyCounts : 2 + m <= WCap
    /\ ~BadKeys

\* Inductive: the buffer is empty whenever no request is being sent.
WriterInv ==
    prv /\ sock # "closed" =>
        /\ m_writer.writeCursor <= WCap
        /\ pc # "send" => m_writer.writeCursor = 0

LEMMA RequestFits ==
    ASSUME NEW op, NEW async, NEW n \in Nat, n <= WCap,
           TypeOK, WriterInv, Request(op, async, n)
    PROVE  WriterInv'
<1>1. pc = "idle" /\ pc' = "send" /\ UNCHANGED <<prv, sock>>
      BY DEF Request, NextCall, netVars
<1>2. m_writer \in Writer
      BY DEF TypeOK, Writer
<1> DEFINE chars == WriteChars(m_writer, n)
<1>3. chars \in Writer /\ chars.writeCursor = m_writer.writeCursor + n
      BY <1>2, WriteCharsFields
<1>4. m_writer'.writeCursor = chars.writeCursor
  <2>1. PICK reqs, stem : m_writer' = [chars EXCEPT !.reqs = reqs, !.stem = stem]
        BY DEF Request, WriteRequest, WriteChars
  <2> HIDE DEF chars
  <2>. QED BY <1>3, <2>1 DEF Writer
<1> HIDE DEF chars
<1>5. m_writer.writeCursor \in Nat
      BY <1>2 DEF Writer
<1>. QED BY <1>1, <1>3, <1>4, <1>5, ClientAssumption DEF WriterInv

LEMMA StepKeepsRoom ==
    ASSUME RoomForRequests, TypeOK, WriterInv, Next
    PROVE  WriterInv'
<1> USE ClientAssumption
<1>0. m_writer.readCursor \in Nat /\ m_writer.writeCursor \in Nat
      BY DEF TypeOK
<1>1. CASE Socket
  <2>1. \/ m_writer' = NewWriter
        \/ ~prv'
        BY <1>1 DEF Socket, Connect, ConnectFails, ConnectBegins, ConnectRefused, Disconnect,
                    objVars
  <2>. QED BY <2>1 DEF WriterInv, NewWriter
<1>2. CASE Begin
  <2>1. ASSUME NEW op, NEW async, NEW n \in {1, 3}, Request(op, async, n)
        PROVE  WriterInv'
        BY <2>1, RequestFits DEF RoomForRequests
  <2>2. CASE \E n \in DataSizes, async \in BOOLEAN : CommandTooLarge(n, async)
        BY <2>2 DEF CommandTooLarge, NextCall, objVars, netVars, WriterInv
  <2>3. CASE \E n \in DataSizes, async \in BOOLEAN : Command(n, async) \/ Cas(n, async)
    <3>1. PICK n \in DataSizes, async \in BOOLEAN :
              n \in Nat /\ n <= MaxSize /\ Request("store", async, n + 2)
          BY <2>3 DEF Command, Cas
    <3>2. n + 2 \in Nat /\ n + 2 <= WCap
          BY <3>1 DEF RoomForRequests
    <3>. QED BY <3>1, <3>2, RequestFits
  <2>4. CASE \E async \in BOOLEAN : Delete(async) \/ Incr(async) \/ Decr(async) \/ FlushAll(async)
        BY <2>1, <2>4 DEF Delete, Incr, Decr, FlushAll, Ops
  <2>5. CASE Version \/ Stats \/ Get
        BY <2>1, <2>5 DEF Version, Stats, Get, RoomForRequests, Ops
  <2>6. CASE \E m \in KeyCounts : GetMulti(m)
    <3>1. PICK m \in KeyCounts : m \in Nat /\ Request("multi", FALSE, 2 + m)
          BY <2>6 DEF GetMulti
    <3>2. 2 + m \in Nat /\ 2 + m <= WCap
          BY <3>1 DEF RoomForRequests
    <3>. QED BY <3>1, <3>2, RequestFits
  <2>7. ~GetMultiBadKeys
        BY DEF GetMultiBadKeys, RoomForRequests
  <2>. QED BY <1>2, <2>2, <2>3, <2>4, <2>5, <2>6, <2>7 DEF Begin
<1>3. CASE SendPart
  <2>1. /\ prv /\ pc = "send" /\ UNCHANGED <<prv, sock, pc>>
        /\ \/ m_writer'.writeCursor = m_writer.writeCursor
           \/ m_writer'.writeCursor = 0
    <3>1. PICK k \in Nat : m_writer' = Pull(m_writer, k)
          BY <1>0, <1>3 DEF SendPart, BytesToSend
    <3>2. m_writer \in Writer
          BY DEF TypeOK, Writer
    <3>3. UNCHANGED <<prv, sock, pc>> /\ prv /\ pc = "send"
          BY <1>3 DEF SendPart, callVars, netVars
    <3>. QED BY <3>1, <3>2, <3>3 DEF Pull, NewWriter, Writer
  <2>. QED BY <2>1 DEF WriterInv
<1>4. CASE SendRest
  <2>1. m_writer' = NewWriter
        BY <1>0, <1>4 DEF SendRest, Pull, BytesToSend
  <2>. QED BY <2>1 DEF WriterInv, NewWriter
<1>5. CASE SendRaises \/ SendZero
      BY <1>5 DEF SendRaises, SendZero, WriterInv, objVars, netVars
<1>6. CASE Recv
      BY <1>6 DEF Recv, RecvLine, RecvLineEmpty, RecvLineRaises, RecvData, RecvDataFails,
                  callVars, netVars, WriterInv
<1>7. CASE Parse
  <2>1. pc \in {"line", "data"} /\ UNCHANGED <<m_writer, prv, sock>>
        BY <1>7 DEF Parse, ErrorLine, ResultLine, VersionLine, ForeignVersionLine, StatLine,
                    StatsEnd, ForeignStatsLine, GetEnd, MalformedLine, BrokenValueLine,
                    ValueLine, DataComplete, TakeLine, LineOf, netVars
  <2>. QED BY <2>1 DEF WriterInv
<1>8. CASE Serve \/ PeerCloses
  <2>1. UNCHANGED <<pc, m_writer, prv>> /\ (sock' = "closed" \/ sock' = sock)
        BY <1>8 DEF Serve, ServeQuietly, ServeReply, ServeGarbled, PeerCloses, callVars, objVars
  <2>. QED BY <2>1 DEF WriterInv
<1>. QED BY <1>1, <1>2, <1>3, <1>4, <1>5, <1>6, <1>7, <1>8 DEF Next, Send

\* With room for the largest request, no request that a connected client
\* writes goes beyond the end of its send buffer.
THEOREM RequestsFit == ASSUME RoomForRequests PROVE Spec => []WriterFits
<1>1. Init => WriterInv
      BY ClientAssumption DEF Init, WriterInv, NewWriter
<1>2. TypeOK /\ WriterInv /\ [Next]_vars => WriterInv'
  <2>1. CASE UNCHANGED vars
        BY <2>1 DEF vars, WriterInv
  <2>. QED BY <2>1, StepKeepsRoom
<1>3. WriterInv => WriterFits
      BY DEF WriterInv, WriterFits
<1>. QED BY <1>1, <1>2, <1>3, TypeCorrect, PTL DEF Spec
=============================================================================
