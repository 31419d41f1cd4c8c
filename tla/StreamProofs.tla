---------------------------- MODULE StreamProofs ----------------------------
(***************************************************************************)
(* A client stays in step with its server: the invariant StreamInv and     *)
(* what follows from it, for every size of the buffers, every server that  *)
(* keeps to the protocol, any failures and any number of calls.            *)
(***************************************************************************)
EXTENDS ClientStream, ClientProofs

-----------------------------------------------------------------------------
(***************************************************************************)
(* What the reader's operators do to its unread part.                      *)
(***************************************************************************)
LEMMA UnreadType ==
    ASSUME NEW r \in Reader, Ordered(r)
    PROVE  /\ r.mem \in Seq(Units) /\ Len(r.mem) \in Nat /\ r.readCursor \in Nat
           /\ Unread(r) \in Nat
           /\ Unread(r) = Len(r.mem) - r.readCursor
<1>1. r.mem \in Seq(Units) /\ r.readCursor \in Nat /\ r.readCursor <= Len(r.mem)
      BY DEF Reader, Ordered
<1>2. Len(r.mem) \in Nat
      BY <1>1, LenProperties
<1>. QED BY <1>1, <1>2 DEF Unread, WriteCursor

LEMMA TypedReader ==
    ASSUME TypeOK, CursorOrder
    PROVE  /\ m_reader \in Reader /\ Ordered(m_reader)
           /\ m_reader.mem \in Seq(Units) /\ Len(m_reader.mem) \in Nat
           /\ m_reader.readCursor \in Nat
           /\ Unread(m_reader) \in Nat
           /\ Unread(m_reader) = Len(m_reader.mem) - m_reader.readCursor
<1>1. m_reader \in Reader /\ Ordered(m_reader)
      BY DEF TypeOK, CursorOrder, Reader, Ordered, WriteCursor
<1>. QED BY <1>1, UnreadType

LEMMA TypedStream ==
    ASSUME TypeOK, CursorOrder
    PROVE  /\ rcvd \in Nat /\ Len(sent) \in Nat
           /\ Passed \in Int /\ Passed = rcvd - Unread(m_reader)
<1>1. rcvd \in Nat /\ Len(sent) \in Nat
      BY LenProperties DEF TypeOK
<1>. QED BY <1>1, TypedReader DEF Passed

LEMMA ReplyToCall ==
    ASSUME TypeOK, NEW r \in Replies(call.op)
    PROVE  /\ WellFormed(call.op, r)
           /\ r.toks \in Seq(Tokens) /\ Len(r.toks) \in Nat
           /\ r.starts \subseteq Nat \ {0}
<1>1. WellFormed(call.op, r)
      BY ReplyAssumption DEF TypeOK
<1>2. r.toks \in Seq(Tokens) /\ r.starts \subseteq Nat \ {0}
      BY <1>1 DEF WellFormed
<1>. QED BY <1>1, <1>2, LenProperties

\* The same after a step.
LEMMA TypedNext ==
    ASSUME TypeOK', CursorOrder'
    PROVE  /\ m_reader' \in Reader /\ Ordered(m_reader')
           /\ Unread(m_reader') \in Nat
           /\ rcvd' \in Nat /\ Len(sent') \in Nat
           /\ Passed' \in Int /\ Passed' = rcvd' - Unread(m_reader')
<1>1. m_reader' \in Reader /\ Ordered(m_reader')
      BY DEF TypeOK, CursorOrder, Reader, Ordered, WriteCursor
<1>2. rcvd' \in Nat /\ sent' \in Seq(Units)
      BY DEF TypeOK
<1>3. Unread(m_reader') \in Nat
      BY <1>1, UnreadType
<1>4. Len(sent') \in Nat
      BY <1>2, LenProperties
<1>. QED BY <1>1, <1>2, <1>3, <1>4 DEF Passed

\* Both ways of leaving a packet leave what follows it.
LEMMA AfterPacket ==
    ASSUME NEW r \in Reader, r.packetEnd \in r.readCursor .. Len(r.mem),
           NEW q \in {Skip(r), ReadToEnd(r)}
    PROVE  /\ Unread(q) = Len(r.mem) - r.packetEnd
           /\ \A i \in 1 .. Unread(q) : q.mem[q.readCursor + i] = r.mem[r.packetEnd + i]
<1>1. r.packetEnd \in Nat /\ Len(r.mem) \in Nat
      BY LenProperties DEF Reader
<1>2. CASE q = NewReader /\ r.packetEnd = Len(r.mem)
  <2>1. Unread(q) = 0
        BY <1>2, EmptySeq DEF NewReader, Unread, WriteCursor
  <2>. QED BY <1>1, <1>2, <2>1
<1>3. CASE q = [r EXCEPT !.readCursor = r.packetEnd]
  <2>1. q.mem = r.mem /\ q.readCursor = r.packetEnd
        BY <1>3 DEF Reader
  <2>. QED BY <2>1 DEF Unread, WriteCursor
<1>. QED BY <1>2, <1>3 DEF Skip, ReadToEnd, WriteCursor

\* push() leaves what was unread and puts what was received after it.
LEMMA AfterPush ==
    ASSUME NEW r \in Reader, Ordered(r), NEW us \in Seq(Units)
    PROVE  /\ Unread(Push(r, us)) = Unread(r) + Len(us)
           /\ Push(r, us).readCursor = r.readCursor
           /\ \A i \in 1 .. Unread(r) :
                 Push(r, us).mem[r.readCursor + i] = r.mem[r.readCursor + i]
           /\ \A i \in 1 .. Len(us) :
                 Push(r, us).mem[r.readCursor + Unread(r) + i] = us[i]
<1>1. /\ r.mem \in Seq(Units) /\ r.readCursor \in Nat
      /\ Len(r.mem) \in Nat /\ Len(us) \in Nat /\ r.readCursor <= Len(r.mem)
      BY LenProperties DEF Reader, Ordered
<1> DEFINE q == Push(r, us)
<1>2. q.mem = r.mem \o us /\ q.readCursor = r.readCursor
      BY DEF Push, Reader
<1> HIDE DEF q
<1>3. /\ Len(r.mem \o us) = Len(r.mem) + Len(us)
      /\ \A i \in 1 .. Len(r.mem) + Len(us) :
            (r.mem \o us)[i] = IF i <= Len(r.mem) THEN r.mem[i] ELSE us[i - Len(r.mem)]
      BY <1>1, ConcatProperties, Zenon
<1>4. Unread(r) = Len(r.mem) - r.readCursor
      BY DEF Unread, WriteCursor
<1>5. Unread(q) = Unread(r) + Len(us)
      BY <1>1, <1>2, <1>3, <1>4 DEF Unread, WriteCursor
<1>6. ASSUME NEW i \in 1 .. Unread(r)
      PROVE  (r.mem \o us)[r.readCursor + i] = r.mem[r.readCursor + i]
  <2>1. r.readCursor + i \in 1 .. Len(r.mem)
        BY <1>1, <1>4
  <2>. QED BY <1>1, <1>3, <2>1
<1>7. ASSUME NEW i \in 1 .. Len(us)
      PROVE  (r.mem \o us)[r.readCursor + Unread(r) + i] = us[i]
  <2>1. r.readCursor + Unread(r) + i = Len(r.mem) + i
        BY <1>1, <1>4
  <2>2. /\ Len(r.mem) + i \in 1 .. Len(r.mem) + Len(us)
        /\ ~(Len(r.mem) + i <= Len(r.mem))
        /\ (Len(r.mem) + i) - Len(r.mem) = i
        BY <1>1
  <2>. QED BY <1>3, <2>1, <2>2, Zenon
<1>. QED BY <1>2, <1>5, <1>6, <1>7 DEF q

\* A reader with nothing unread has no line.
LEMMA NothingUnread ==
    ASSUME NEW r \in Reader, Unread(r) = 0
    PROVE  ~HaveLine(r)
<1>1. Len(r.mem) \in Nat /\ r.readCursor \in Nat
      BY LenProperties DEF Reader
<1>. QED BY <1>1 DEF HaveLine, LineEnds, Unread, WriteCursor

LEMMA FreshUnread == Unread(NewReader) = 0 /\ NewReader \in Reader /\ ~HaveLine(NewReader)
<1>1. Unread(NewReader) = 0
      BY EmptySeq DEF NewReader, Unread, WriteCursor
<1>. QED BY <1>1, FreshReader, NothingUnread

-----------------------------------------------------------------------------
(***************************************************************************)
(* What a line is when the client is in step: the next line of the reply   *)
(* to the running call.                                                    *)
(***************************************************************************)
LEMMA NextLine ==
    ASSUME TypeOK, CursorOrder, Aligned, HaveLine(m_reader),
           NEW r \in Replies(call.op), NEW m \in 0 .. Len(sent), AtLine(r, m)
    PROVE  LET p == Passed - m + 1
           IN  /\ p \in r.starts /\ p \in Nat \ {0} /\ Follows(call.op, r, p)
               /\ p + 1 <= Len(r.toks)
               /\ Line.packetEnd = m_reader.readCursor + 2
               /\ FirstUnit = [call |-> call.id, tok |-> r.toks[p]]
               /\ m_reader.mem[m_reader.readCursor + 1].call = call.id
               /\ m_reader.mem[m_reader.readCursor + 2].call = call.id
               /\ m_reader.mem[m_reader.readCursor + 2].tok.w = "CRLF"
<1> DEFINE p  == Passed - m + 1
           rd == m_reader.readCursor
<1>1. /\ m_reader \in Reader /\ Unread(m_reader) \in Nat /\ rd \in Nat
      /\ Len(m_reader.mem) \in Nat /\ Unread(m_reader) = Len(m_reader.mem) - rd
      BY TypedReader
<1>2. /\ rcvd \in Nat /\ Len(sent) \in Nat /\ m \in Nat
      /\ Passed = rcvd - Unread(m_reader) /\ Passed \in Nat /\ rcvd <= Len(sent) /\ m <= Passed
      BY TypedStream DEF Aligned, AtLine, Answered
<1>3. WellFormed(call.op, r)
      BY ReplyAssumption DEF TypeOK
<1>4. p \in r.starts /\ p \in Nat \ {0} /\ IsLine(r.toks, p) /\ Follows(call.op, r, p)
      BY <1>2, <1>3 DEF AtLine, WellFormed
<1>5. /\ p + 1 <= Len(r.toks) /\ Len(r.toks) \in Nat
      /\ r.toks[p].w # "CRLF" /\ r.toks[p + 1].w = "CRLF"
      BY <1>3, <1>4, LenProperties DEF IsLine, WellFormed
<1>6. ASSUME NEW i \in 1 .. 2, i <= Unread(m_reader)
      PROVE  m_reader.mem[rd + i] = [call |-> call.id, tok |-> r.toks[p + i - 1]]
  <2>1. m_reader.mem[rd + i] = sent[Passed + i]
        BY <1>1, <1>6 DEF Aligned
  <2>2. Passed + i \in m + 1 .. Len(sent) /\ (Passed + i) - m = p + i - 1
        BY <1>1, <1>2, <1>6
  <2>. QED BY <2>1, <2>2 DEF AtLine, Answered
<1>7. /\ Line.packetEnd \in LineEnds(m_reader)
      /\ Line.packetEnd \in rd + 1 .. Len(m_reader.mem)
      /\ \A e \in LineEnds(m_reader) : Line.packetEnd <= e
      BY <1>1, LineFound DEF Line
<1>8. Line.packetEnd # rd + 1
  <2>1. 1 <= Unread(m_reader)
        BY <1>1, <1>7
  <2>2. m_reader.mem[rd + 1].tok = r.toks[p]
        BY <1>2, <1>6, <2>1
  <2>. QED BY <1>5, <1>7, <2>2 DEF LineEnds
<1>9. 2 <= Unread(m_reader)
      BY <1>1, <1>7, <1>8
<1>10. /\ m_reader.mem[rd + 1] = [call |-> call.id, tok |-> r.toks[p]]
       /\ m_reader.mem[rd + 2] = [call |-> call.id, tok |-> r.toks[p + 1]]
  <2>1. /\ 1 \in 1 .. 2 /\ 1 <= Unread(m_reader) /\ p + 1 - 1 = p
        /\ 2 \in 1 .. 2 /\ 2 <= Unread(m_reader) /\ p + 2 - 1 = p + 1
        BY <1>1, <1>4, <1>9
  <2> HIDE DEF p
  <2>. QED BY <1>6, <2>1, Zenon
<1>11. rd + 2 \in LineEnds(m_reader)
  <2>1. rd + 2 \in rd + 1 .. Len(m_reader.mem)
        BY <1>1, <1>9
  <2>. QED BY <1>5, <1>10, <2>1 DEF LineEnds
<1>12. Line.packetEnd = rd + 2
  <2>1. Line.packetEnd <= rd + 2
        BY <1>7, <1>11
  <2>. QED BY <1>1, <1>7, <1>8, <2>1
<1>13. FirstUnit = m_reader.mem[rd + 1]
      BY LineFacts DEF FirstUnit
<1>. QED BY <1>4, <1>5, <1>10, <1>12, <1>13

\* Taking the line leaves the client in step, two units further on.
LEMMA TakenLine ==
    ASSUME TypeOK, CursorOrder, TypeOK', CursorOrder', InStep, HaveLine(m_reader),
           NEW r \in Replies(call.op), NEW m \in 0 .. Len(sent), AtLine(r, m),
           NEW q \in {Skip(Line), ReadToEnd(Line)}, TakeLine(q)
    PROVE  Passed' = Passed + 2 /\ InStep' /\ Answered(r, m)'
<1> DEFINE rd == m_reader.readCursor
<1>1. /\ m_reader \in Reader /\ Unread(m_reader) \in Nat /\ rd \in Nat
      /\ Len(m_reader.mem) \in Nat /\ Unread(m_reader) = Len(m_reader.mem) - rd
      BY TypedReader
<1>2. /\ rcvd \in Nat /\ Len(sent) \in Nat
      /\ Passed = rcvd - Unread(m_reader) /\ Passed \in Nat /\ rcvd <= Len(sent)
      BY TypedStream DEF InStep, Aligned
<1>3. /\ Line.packetEnd = rd + 2
      /\ m_reader.mem[rd + 1].call = call.id /\ m_reader.mem[rd + 2].call = call.id
      BY NextLine DEF InStep
<1>4. /\ Line \in Reader /\ Line.mem = m_reader.mem /\ Line.readCursor = rd
      /\ Line.packetEnd \in Line.readCursor .. Len(Line.mem)
      BY <1>1, LineFacts
<1>5. /\ Unread(q) = Unread(m_reader) - 2
      /\ \A i \in 1 .. Unread(q) : q.mem[q.readCursor + i] = m_reader.mem[rd + 2 + i]
  <2>1. /\ Unread(q) = Len(Line.mem) - Line.packetEnd
        /\ \A i \in 1 .. Unread(q) : q.mem[q.readCursor + i] = Line.mem[Line.packetEnd + i]
        BY <1>4, AfterPacket
  <2>2. Line.mem = m_reader.mem /\ Line.packetEnd = rd + 2
        BY <1>3, <1>4
  <2>3. /\ Unread(q) = Len(m_reader.mem) - (rd + 2)
        /\ \A i \in 1 .. Unread(q) : q.mem[q.readCursor + i] = m_reader.mem[rd + 2 + i]
        BY <2>1, <2>2, Zenon
  <2>4. Len(m_reader.mem) - (rd + 2) = Unread(m_reader) - 2
        BY <1>1
  <2>. QED BY <2>3, <2>4, Zenon
<1>6. m_reader' = q /\ UNCHANGED <<rcvd, sent, call, toServer>>
      BY DEF TakeLine, netVars
<1>7. Unread(q) \in Nat
      BY <1>6, TypedNext
<1>8. Passed' = Passed + 2
      BY <1>1, <1>2, <1>5, <1>6 DEF Passed
<1>9. ASSUME NEW i \in 1 .. Unread(q)
      PROVE  q.mem[q.readCursor + i] = sent[Passed + 2 + i]
  <2>1. 2 + i \in 1 .. Unread(m_reader)
        BY <1>1, <1>5, <1>7
  <2>2. m_reader.mem[rd + (2 + i)] = sent[Passed + (2 + i)]
        BY <2>1 DEF InStep, Aligned
  <2>3. rd + (2 + i) = rd + 2 + i /\ Passed + (2 + i) = Passed + 2 + i
        BY <1>1, <1>2
  <2>. QED BY <1>5, <2>2, <2>3
<1>10. Aligned'
  <2>1. 0 <= Passed'
        BY <1>2, <1>8
  <2>. QED BY <1>2, <1>6, <1>8, <1>9, <2>1 DEF Aligned
<1>11. from' \subseteq {call.id}
  <2>1. from' = from \cup { m_reader.mem[i].call : i \in rd + 1 .. rd + 2 }
        BY <1>3, <1>4 DEF TakeLine, Consumed
  <2>2. \A i \in rd + 1 .. rd + 2 : i = rd + 1 \/ i = rd + 2
        BY <1>1
  <2>3. from \subseteq {call.id}
        BY DEF InStep
  <2>. QED BY <1>3, <2>1, <2>2, <2>3
<1>12. InStep'
      BY <1>6, <1>10, <1>11 DEF InStep
<1>13. Answered(r, m)'
  <2>1. m <= Passed'
        BY <1>2, <1>8 DEF AtLine, Answered
  <2>. QED BY <1>6, <2>1 DEF AtLine, Answered
<1>. QED BY <1>8, <1>12, <1>13

\* After the last line nothing is left of the reply, in the buffer or on its way.
LEMMA LastLineTaken ==
    ASSUME TypeOK', CursorOrder', InStep',
           NEW r, NEW m \in Nat, Answered(r, m)', Passed' = m + Len(r.toks), Len(r.toks) \in Nat
    PROVE  rcvd' = Len(sent)' /\ Unread(m_reader)' = 0
<1>1. rcvd' <= Len(sent)' /\ Len(sent)' <= m + Len(r.toks)
      BY DEF InStep, Aligned, Answered
<1>. QED BY <1>1, TypedNext

\* Steps that read keep the send buffer as it is.
LEMMA WriterStaysReady ==
    ASSUME WriterReady, pc # "send", pc' # "send", UNCHANGED <<m_writer, sock>>, prv' => prv
    PROVE  WriterReady'
BY DEF WriterReady

\* The call takes the last line of its reply, and ends.
LEMMA LineEndsCall ==
    ASSUME TypeOK, CursorOrder, TypeOK', CursorOrder', StreamInv, Intact,
           pc = "line", HaveLine(m_reader),
           NEW r \in Replies(call.op), NEW m \in 0 .. Len(sent), AtLine(r, m),
           NEW q \in {Skip(Line), ReadToEnd(Line)}, TakeLine(q),
           q = Skip(Line) \/ call.op = "stats",
           Passed - m + 2 = Len(r.toks),
           pc' = "idle"
    PROVE  StreamInv'
<1>1. Passed' = Passed + 2 /\ InStep' /\ Answered(r, m)'
      BY TakenLine DEF StreamInv
<1>2. /\ m \in Nat /\ Passed \in Int /\ Len(r.toks) \in Nat
  BY ReplyToCall, TypedStream
<1>3. rcvd' = Len(sent)' /\ Unread(m_reader)' = 0
      BY <1>1, <1>2, LastLineTaken
<1>4. m_reader' \in Reader /\ m_reader' = q /\ UNCHANGED <<call, prv, falseReset, sock, m_writer>>
      BY TypedNext DEF TakeLine, netVars
<1>5. ~HaveLine(m_reader)'
      BY <1>3, <1>4, NothingUnread
<1>6. Settled'
  <2>1. toServer' = <<>>
        BY <1>1 DEF Answered
  <2>2. AsyncFrom(Len(toServer))'
        BY <2>1, EmptySeq DEF AsyncFrom
  <2>. QED BY <1>3, <1>5, <2>2 DEF Settled
<1>7. Rewound'
  <2>1. CASE q = Skip(Line)
    <3>1. Line.packetEnd # WriteCursor(Line) => Unread(q) # 0
      <4>1. /\ Line \in Reader /\ Line.packetEnd \in Line.readCursor .. Len(Line.mem)
            /\ Len(Line.mem) \in Nat /\ Line.packetEnd \in Nat
            BY LineFacts, LenProperties DEF Reader
      <4>. QED BY <2>1, <4>1, AfterPacket DEF WriteCursor
    <3>2. m_reader' = NewReader
          BY <1>3, <1>4, <2>1, <3>1 DEF Skip
    <3>. QED BY <3>2 DEF Rewound
  <2>2. CASE call.op = "stats"
        BY <1>4, <2>2 DEF Rewound
  <2>. QED BY <2>1, <2>2
<1>8. WriterReady'
      BY <1>4, WriterStaysReady DEF StreamInv
<1>. QED BY <1>1, <1>4, <1>6, <1>7, <1>8
         DEF StreamInv, BetweenReplies, ReadingLine, ReadingData, Intact

\* The call takes a line that another one follows.
LEMMA LineFollowsLine ==
    ASSUME TypeOK, CursorOrder, TypeOK', CursorOrder', StreamInv, Intact,
           pc = "line", HaveLine(m_reader),
           NEW r \in Replies(call.op), NEW m \in 0 .. Len(sent), AtLine(r, m),
           TakeLine(Skip(Line)),
           Passed - m + 3 \in r.starts,
           pc' = "line"
    PROVE  StreamInv'
<1>1. Passed' = Passed + 2 /\ InStep' /\ Answered(r, m)'
      BY TakenLine DEF StreamInv
<1>2. UNCHANGED <<call, prv, falseReset, sock, sent, m_writer>>
      BY DEF TakeLine, netVars
<1>3. Passed' - m + 1 \in r.starts
  <2>1. m \in Nat /\ Passed \in Int
        BY TypedStream
  <2>. QED BY <1>1, <2>1
<1>4. ReadingLine'
      BY <1>1, <1>2, <1>3 DEF ReadingLine, AtLine
<1>5. WriterReady'
      BY <1>2, WriterStaysReady DEF StreamInv
<1>. QED BY <1>1, <1>2, <1>4, <1>5
         DEF StreamInv, BetweenReplies, ReadingData, Rewound, Intact

\* The call takes the line of a value.
LEMMA LineOfValue ==
    ASSUME TypeOK, CursorOrder, TypeOK', CursorOrder', StreamInv, Intact, ValueLine,
           NEW r \in Replies(call.op), NEW m \in 0 .. Len(sent), AtLine(r, m)
    PROVE  StreamInv'
<1> DEFINE p == Passed - m + 1
<1>1. pc = "line" /\ HaveLine(m_reader) /\ TakeLine(Skip(Line)) /\ call.op \in {"get", "multi"}
      BY DEF ValueLine, LineOf
<1>2. Passed' = Passed + 2 /\ InStep' /\ Answered(r, m)'
      BY <1>1, TakenLine DEF StreamInv
<1>3. /\ p \in r.starts
      /\ FirstUnit = [call |-> call.id, tok |-> r.toks[p]]
      /\ Line.packetEnd = m_reader.readCursor + 2
      BY <1>1, NextLine DEF StreamInv, InStep
<1>4. UNCHANGED <<call, prv, falseReset, sock, sent, m_writer>>
      BY <1>1 DEF TakeLine, netVars
<1>5. FirstUnit.tok.w = "VALUE"
  <2>1. Line.mem[Line.readCursor + 1].tok.w = "VALUE"
        BY DEF ValueLine, BeginsWith
  <2>. QED BY <2>1 DEF FirstUnit
<1>6. head'.unit.tok = r.toks[p] /\ head'.unit.tok.w = "VALUE"
      BY <1>3, <1>5 DEF ValueLine
<1>7. Passed' - m - 1 = p
      BY <1>2, TypedStream
<1>8. ReadingData'
  <2>1. AtData(r, m)'
        BY <1>2, <1>3, <1>6, <1>7 DEF AtData
  <2>. QED BY <1>1, <1>4, <2>1 DEF ReadingData
<1>9. pc' = "data"
      BY DEF ValueLine
<1>10. WriterReady'
      BY <1>1, <1>4, <1>9, WriterStaysReady DEF StreamInv
<1>. QED BY <1>2, <1>4, <1>8, <1>9, <1>10
         DEF StreamInv, BetweenReplies, ReadingLine, Rewound, Intact

\* What the first word of the line says of it.
LEMMA LineRead ==
    ASSUME TypeOK, CursorOrder, InStep, HaveLine(m_reader),
           NEW r \in Replies(call.op), NEW m \in 0 .. Len(sent), AtLine(r, m),
           NEW p, p = Passed - m + 1
    PROVE  /\ p \in r.starts /\ p \in Nat \ {0} /\ p + 1 <= Len(r.toks)
           /\ FirstUnit = [call |-> call.id, tok |-> r.toks[p]]
           /\ Line.packetEnd = Line.readCursor + 2
           /\ IsError <=> r.toks[p].w = "ERROR"
           /\ IsEnd <=> r.toks[p].w = "END"
           /\ \A word : BeginsWith(Line, <<word>>) <=> r.toks[p].w = word
           /\ \/ call.op \in {"get", "multi"} /\ r.toks[p].w = "VALUE"
              \/ call.op = "stats" /\ r.toks[p].w = "STAT" /\ p + 2 \in r.starts
              \/ r.toks[p].w \in LastWords(call.op) /\ p + 1 = Len(r.toks)
<1> DEFINE w == r.toks[p].w
<1>1. /\ p \in r.starts /\ p \in Nat \ {0} /\ Follows(call.op, r, p)
      /\ p + 1 <= Len(r.toks)
      /\ Line.packetEnd = m_reader.readCursor + 2
      /\ FirstUnit = [call |-> call.id, tok |-> r.toks[p]]
      /\ m_reader.mem[m_reader.readCursor + 2].tok.w = "CRLF"
      BY NextLine DEF InStep
<1>2. /\ Line.readCursor = m_reader.readCursor /\ Line.mem = m_reader.mem
      /\ m_reader.readCursor \in Nat
      BY LineFacts, TypedReader
<1>3. Line.mem[Line.readCursor + 1].tok.w = w
      BY <1>1 DEF FirstUnit
<1>4. ASSUME NEW word PROVE BeginsWith(Line, <<word>>) <=> w = word
      BY <1>1, <1>2, <1>3 DEF BeginsWith
<1>5. IsError <=> w = "ERROR"
      BY <1>4 DEF IsError
<1>6. IsEnd <=> w = "END"
  <2> DEFINE ws == <<"END", "CRLF">>
  <2>1. Line.mem[Line.readCursor + 2].tok.w = "CRLF"
        BY <1>1, <1>2
  <2>2. Len(ws) = 2 /\ ws[1] = "END" /\ ws[2] = "CRLF" /\ 1 .. 2 = {1, 2}
        OBVIOUS
  <2>3. Line.readCursor + Len(ws) <= Line.packetEnd
        BY <1>1, <1>2, <2>2
  <2> HIDE DEF ws
  <2>4. BeginsWith(Line, ws) <=> w = "END"
        BY <1>3, <2>1, <2>2, <2>3 DEF BeginsWith
  <2>. QED BY <2>4 DEF IsEnd, ws
<1>. QED BY <1>1, <1>2, <1>4, <1>5, <1>6 DEF Follows

\* A client in step meets only lines that answer its call.
LEMMA LineStream ==
    ASSUME TypeOK, CursorOrder, TypeOK', CursorOrder', StreamInv, Intact,
           Parse, ~DataComplete
    PROVE  StreamInv'
<1>1. pc = "line" /\ HaveLine(m_reader)
      BY DEF Parse, ErrorLine, ResultLine, VersionLine, ForeignVersionLine, StatLine, StatsEnd,
             ForeignStatsLine, GetEnd, MalformedLine, BrokenValueLine, ValueLine, LineOf
<1>2. PICK r \in Replies(call.op), m \in 0 .. Len(sent) : AtLine(r, m)
  <2>1. ~Stuck
        BY <1>1 DEF Stuck
  <2>2. ~Waiting
        BY <1>1, TypedReader, NothingUnread DEF Waiting
  <2>. QED BY <1>1, <2>1, <2>2 DEF StreamInv, ReadingLine
<1> DEFINE p == Passed - m + 1
           w == r.toks[p].w
<1>3. ASSUME NEW word PROVE BeginsWith(Line, <<word>>) <=> w = word
      BY <1>1, <1>2, LineRead DEF StreamInv
<1>4. IsError <=> w = "ERROR"
      BY <1>1, <1>2, LineRead DEF StreamInv
<1>5. IsEnd <=> w = "END"
      BY <1>1, <1>2, LineRead DEF StreamInv
<1>6. /\ Passed \in Int /\ m \in Int
      BY TypedStream
<1>7. ASSUME NEW q \in {Skip(Line), ReadToEnd(Line)}, TakeLine(q),
              q = Skip(Line) \/ call.op = "stats", pc' = "idle", p + 1 = Len(r.toks)
       PROVE  StreamInv'
  <2>1. Passed - m + 2 = Len(r.toks)
        BY <1>6, <1>7
  <2>. QED BY <1>1, <1>2, <1>7, <2>1, LineEndsCall
<1>8. \/ call.op \in {"get", "multi"} /\ w = "VALUE"
      \/ call.op = "stats" /\ w = "STAT" /\ p + 2 \in r.starts
      \/ w \in LastWords(call.op) /\ p + 1 = Len(r.toks)
      BY <1>1, <1>2, LineRead DEF StreamInv
<1> HIDE DEF p, w
<1>9. call.op \in Ops
       BY DEF TypeOK
<1>10. CASE ErrorLine
  <2>1. w = "ERROR" /\ TakeLine(Skip(Line)) /\ pc' = "idle"
        BY <1>4, <1>10 DEF ErrorLine, ReadLineFailed, Finish
  <2>. QED BY <1>7, <1>8, <2>1
<1>11. CASE ResultLine
  <2>1. call.op \in {"store", "line"} /\ TakeLine(Skip(Line)) /\ pc' = "idle"
        BY <1>11 DEF ResultLine, LineOf, Finish
  <2>. QED BY <1>7, <1>8, <2>1
<1>12. CASE VersionLine
  <2>1. call.op = "version" /\ TakeLine(Skip(Line)) /\ pc' = "idle"
        BY <1>12 DEF VersionLine, LineOf, Finish
  <2>. QED BY <1>7, <1>8, <2>1
<1>13. CASE StatLine
  <2>1. call.op = "stats" /\ w = "STAT" /\ TakeLine(Skip(Line)) /\ pc' = "line"
        BY <1>1, <1>3, <1>13 DEF StatLine, LineOf
  <2>2. p + 2 \in r.starts
        BY <1>8, <2>1 DEF LastWords
  <2>3. Passed - m + 3 \in r.starts
        BY <1>6, <2>2 DEF p
  <2>. QED BY <1>1, <1>2, <2>1, <2>3, LineFollowsLine
<1>14. CASE StatsEnd
  <2>1. call.op = "stats" /\ w = "END" /\ TakeLine(ReadToEnd(Line)) /\ pc' = "idle"
        BY <1>5, <1>14 DEF StatsEnd, LineOf, Finish
  <2>. QED BY <1>7, <1>8, <2>1
<1>15. CASE GetEnd
  <2>1. w = "END" /\ TakeLine(Skip(Line)) /\ pc' = "idle"
        BY <1>5, <1>15 DEF GetEnd, Finish
  <2>. QED BY <1>7, <1>8, <2>1
<1>16. CASE ValueLine
       BY <1>2, <1>16, LineOfValue
<1>17. ~ForeignVersionLine
       BY <1>3, <1>4, <1>8 DEF ForeignVersionLine, LineOf, LastWords
<1>18. ~ForeignStatsLine
       BY <1>3, <1>4, <1>5, <1>8 DEF ForeignStatsLine, LineOf, LastWords
<1>19. ~MalformedLine
       BY <1>3, <1>4, <1>5, <1>8 DEF MalformedLine, LineOf, LastWords
<1>20. ~BrokenValueLine
       BY <1>3, <1>8 DEF BrokenValueLine, LineOf, LastWords
<1>. QED BY <1>10, <1>11, <1>12, <1>13, <1>14, <1>15, <1>16, <1>17, <1>18, <1>19, <1>20
         DEF Parse

\* The call takes a value, and the next line of its reply comes after it.
LEMMA DataTaken ==
    ASSUME TypeOK, CursorOrder, TypeOK', CursorOrder', StreamInv, Intact, DataComplete,
           NEW r \in Replies(call.op), NEW m \in 0 .. Len(sent),
           call.op \in {"get", "multi"}, AtData(r, m)
    PROVE  /\ InStep' /\ AtLine(r, m)'
           /\ Passed' - m + 1 = AfterValue(r, Passed - m - 1)
           /\ head.unit.tok.n \in Nat /\ head.unit.tok.n + 1 <= Unread(m_reader)
           /\ \A i \in 1 .. Unread(m_reader) :
                 m_reader.mem[m_reader.readCursor + i]
                     = [call |-> call.id, tok |-> r.toks[(Passed + i) - m]]
<1>1. pc = "data" /\ pc' = "line" /\ UNCHANGED <<call, prv, falseReset, sock, m_writer, sent, rcvd, toServer>>
      BY DEF DataComplete, netVars
<1> DEFINE p   == Passed - m - 1
           rd  == m_reader.readCursor
           end == rd + Expect
           set == SetEndPtr(m_reader, end)
<1>3. /\ m_reader \in Reader /\ Unread(m_reader) \in Nat /\ rd \in Nat
      /\ Len(m_reader.mem) \in Nat /\ Unread(m_reader) = Len(m_reader.mem) - rd
      BY TypedReader
<1>4. /\ rcvd \in Nat /\ Len(sent) \in Nat /\ rcvd <= Len(sent)
      /\ Passed \in Nat /\ Passed = rcvd - Unread(m_reader) /\ m \in Nat /\ m <= Passed
      BY TypedStream DEF StreamInv, InStep, Aligned, AtData, Answered
<1>6. head.unit.tok.n \in Nat
  <2>1. head.unit \in Units
        BY DEF TypeOK
  <2>2. head.unit.tok \in Tokens
        BY <2>1 DEF Units
  <2>. QED BY <2>2 DEF Tokens
<1>7. Expect = head.unit.tok.n + 1 /\ Expect \in Nat
      BY <1>6 DEF Expect
<1>8. Expect <= Unread(m_reader) /\ 1 <= Expect
      BY <1>3, <1>6, <1>7 DEF DataComplete
<1>9. p + 3 + head.unit.tok.n \in r.starts
  <2>1. p \in r.starts /\ r.toks[p] = head.unit.tok /\ head.unit.tok.w = "VALUE"
        BY DEF AtData
  <2>2. Follows(call.op, r, p)
        BY <2>1, ReplyToCall DEF WellFormed
  <2>3. \/ p + 3 + r.toks[p].n \in r.starts
        \/ call.op = "stats"
        \/ r.toks[p].w \in LastWords(call.op)
        BY <2>2 DEF Follows, AfterValue
  <2>4. r.toks[p].w \notin LastWords(call.op)
        BY <2>1 DEF LastWords
  <2>. QED BY <2>1, <2>3, <2>4
<1>10. /\ m_reader' = Skip(set)
       /\ from' = from \cup { m_reader.mem[i].call : i \in rd + 1 .. end }
       BY DEF DataComplete, Consumed
<1>11. end \in Nat /\ end \in rd .. Len(m_reader.mem)
  <2> DEFINE u == Unread(m_reader)
             e == Expect
             l == Len(m_reader.mem)
  <2>1. rd \in Nat /\ l \in Nat /\ u = l - rd /\ e \in Nat /\ e <= u
        BY <1>3, <1>7, <1>8
  <2> HIDE DEF rd, u, e, l
  <2>2. rd + e \in Nat /\ rd + e \in rd .. l
        BY <2>1
  <2>. QED BY <2>2 DEF e, l
<1> HIDE DEF end
<1>12. /\ set \in Reader /\ set.mem = m_reader.mem /\ set.packetEnd = end
       /\ set.readCursor = rd
       BY <1>3, <1>11 DEF SetEndPtr, Reader
<1> HIDE DEF set
<1>13. /\ Unread(m_reader') = Len(m_reader.mem) - end
       /\ \A i \in 1 .. Unread(m_reader') :
             m_reader'.mem[m_reader'.readCursor + i] = m_reader.mem[end + i]
       BY <1>10, <1>11, <1>12, AfterPacket
<1>14. /\ Unread(m_reader') = Unread(m_reader) - Expect
       /\ Unread(m_reader') \in Nat
  <2>1. Unread(m_reader') \in Nat
        BY TypedNext
  <2>2. Unread(m_reader') = Len(m_reader.mem) - end
        BY <1>13
  <2>. QED BY <1>3, <1>7, <2>1, <2>2 DEF end
<1>15. Passed' = Passed + Expect
  <2>1. Passed' = rcvd - Unread(m_reader')
        BY <1>1, TypedNext
  <2>. QED BY <1>3, <1>4, <1>7, <1>14, <2>1
<1>16. ASSUME NEW i \in 1 .. Unread(m_reader)
       PROVE  /\ m_reader.mem[rd + i] = sent[Passed + i]
              /\ sent[Passed + i] = [call |-> call.id, tok |-> r.toks[(Passed + i) - m]]
  <2>1. m_reader.mem[rd + i] = sent[Passed + i]
        BY <1>16 DEF StreamInv, InStep, Aligned
  <2>2. Passed + i \in m + 1 .. Len(sent)
        BY <1>3, <1>4
  <2>3. \A j \in m + 1 .. Len(sent) : sent[j] = [call |-> call.id, tok |-> r.toks[j - m]]
        BY Zenon DEF AtData, Answered
  <2> DEFINE j == Passed + i
  <2>4. m_reader.mem[rd + i] = sent[j] /\ j \in m + 1 .. Len(sent)
        BY <2>1, <2>2
  <2> HIDE DEF j
  <2>5. sent[j] = [call |-> call.id, tok |-> r.toks[j - m]]
        BY <2>3, <2>4, Zenon
  <2>. QED BY <2>4, <2>5, Zenon DEF j
<1>17. ASSUME NEW i \in 1 .. Unread(m_reader')
       PROVE  m_reader'.mem[m_reader'.readCursor + i] = sent[Passed' + i]
  <2>0. i \in Nat /\ i <= Unread(m_reader')
        BY <1>14, <1>17
  <2>1. Expect + i \in 1 .. Unread(m_reader)
    <3> DEFINE u == Unread(m_reader)
    <3>1. u \in Nat /\ Expect \in Nat /\ 1 <= Expect
          BY <1>3, <1>7, <1>8
    <3>2. i \in Nat /\ i <= u - Expect
          BY <1>14, <2>0
    <3>3. 1 <= i
      <4>1. Unread(m_reader') \in Nat
            BY <1>14
      <4>. QED BY <1>17, <4>1
    <3> HIDE DEF u
    <3>4. Expect + i \in 1 .. u
          BY <3>1, <3>2, <3>3
    <3>. QED BY <3>4 DEF u
  <2>2. m_reader.mem[rd + (Expect + i)] = sent[Passed + (Expect + i)]
        BY <1>16, <2>1
  <2>3. rd + (Expect + i) = end + i
    <3>1. rd \in Nat /\ Expect \in Nat /\ i \in Nat /\ end = rd + Expect
          BY <1>3, <1>7, <2>0 DEF end
    <3> HIDE DEF rd
    <3>. QED BY <3>1
  <2>4. Passed + (Expect + i) = Passed' + i
        BY <1>4, <1>7, <1>15, <2>0
  <2>. QED BY <1>13, <2>2, <2>3, <2>4
<1>18. from' \subseteq {call.id}
  <2>1. ASSUME NEW j \in rd + 1 .. end PROVE m_reader.mem[j].call = call.id
    <3>1. j - rd \in 1 .. Unread(m_reader) /\ rd + (j - rd) = j
          BY <1>3, <1>11
    <3>2. m_reader.mem[rd + (j - rd)]
              = [call |-> call.id, tok |-> r.toks[(Passed + (j - rd)) - m]]
          BY <1>16, <3>1
    <3>. QED BY <3>1, <3>2
  <2>2. from \subseteq {call.id}
        BY DEF StreamInv, InStep
  <2>. QED BY <1>10, <2>1, <2>2
<1>19. InStep'
  <2>1. 0 <= Passed'
        BY <1>4, <1>7, <1>15
  <2>2. Aligned'
        BY <1>1, <1>4, <1>17, <2>1 DEF Aligned
  <2>3. \A i \in 1 .. Len(toServer) : toServer[i].clean
        BY DEF StreamInv, InStep
  <2>4. toServer' = toServer
        BY <1>1
  <2>5. (\A i \in 1 .. Len(toServer) : toServer[i].clean)'
        BY <2>3, <2>4, Zenon
  <2>6. (from \subseteq {call.id})'
        BY <1>1, <1>18
  <2>. QED BY <2>2, <2>5, <2>6 DEF InStep
<1>20. m <= Passed' /\ Passed' - m + 1 = p + 3 + head.unit.tok.n
  <2> DEFINE n == head.unit.tok.n
  <2>1. n \in Nat /\ Expect = n + 1
        BY <1>6, <1>7
  <2> HIDE DEF n
  <2>2. PICK a \in Nat : a = Passed
        BY <1>4
  <2>3. Passed' = a + (n + 1) /\ p = a - m - 1 /\ m \in Nat /\ m <= a
        BY <1>4, <1>15, <2>1, <2>2, Zenon
  <2> HIDE DEF p
  <2>4. m <= Passed' /\ Passed' - m + 1 = p + 3 + n
        BY <2>1, <2>2, <2>3
  <2>. QED BY <2>4 DEF n
<1>21. AtLine(r, m)'
      BY <1>1, <1>9, <1>20 DEF AtLine, AtData, Answered
<1>22. r.toks[p] = head.unit.tok
      BY DEF AtData
<1>23. ASSUME NEW i \in 1 .. Unread(m_reader)
       PROVE  m_reader.mem[rd + i] = [call |-> call.id, tok |-> r.toks[(Passed + i) - m]]
       BY <1>16, Zenon
<1>. QED BY <1>6, <1>7, <1>8, <1>19, <1>20, <1>21, <1>22, <1>23 DEF AfterValue

LEMMA DataStream ==
    ASSUME TypeOK, CursorOrder, TypeOK', CursorOrder', StreamInv, Intact, DataComplete
    PROVE  StreamInv'
<1>1. /\ pc = "data" /\ pc' = "line"
      /\ UNCHANGED <<call, prv, falseReset, sock, m_writer, sent>>
      BY DEF DataComplete, netVars
<1>2. PICK r \in Replies(call.op), m \in 0 .. Len(sent) :
          call.op \in {"get", "multi"} /\ AtData(r, m)
      BY <1>1 DEF StreamInv, ReadingData
<1>3. InStep' /\ AtLine(r, m)'
      BY <1>2, DataTaken
<1>4. ReadingLine'
      BY <1>1, <1>3 DEF ReadingLine
<1>5. WriterReady'
      BY <1>1, WriterStaysReady DEF StreamInv
<1>. QED BY <1>1, <1>3, <1>4, <1>5
         DEF StreamInv, BetweenReplies, ReadingData, Rewound, Intact

LEMMA ParseStream ==
    ASSUME TypeOK, CursorOrder, TypeOK', CursorOrder', StreamInv, Parse
    PROVE  StreamInv'
<1>1. UNCHANGED <<call, prv, falseReset>>
      BY DEF Parse, ErrorLine, ResultLine, VersionLine, ForeignVersionLine, StatLine, StatsEnd,
             ForeignStatsLine, GetEnd, MalformedLine, BrokenValueLine, ValueLine, DataComplete,
             TakeLine
<1>2. CASE ~Intact
      BY <1>1, <1>2 DEF StreamInv, Intact
<1>. QED BY <1>2, LineStream, DataStream

-----------------------------------------------------------------------------
(***************************************************************************)
(* Receiving: the unread part grows by what the stream has next.           *)
(***************************************************************************)
LEMMA ReceiveStream ==
    ASSUME TypeOK, CursorOrder, TypeOK', CursorOrder', Aligned,
           NEW q \in Reader, q.mem = m_reader.mem, q.readCursor = m_reader.readCursor,
           Ordered(q), NEW k \in 1 .. Len(sent), rcvd + k <= Len(sent),
           Receive(q, k), UNCHANGED sent
    PROVE  Passed' = Passed /\ Aligned'
<1> DEFINE us == SubSeq(sent, rcvd + 1, rcvd + k)
           rd == m_reader.readCursor
<1>1. /\ rcvd \in Nat /\ Len(sent) \in Nat /\ k \in Nat /\ rd \in Nat
      /\ Passed \in Nat /\ Passed = rcvd - Unread(m_reader) /\ Unread(m_reader) \in Nat
      BY TypedReader, TypedStream DEF Aligned
<1>2. /\ us \in Seq(Units) /\ Len(us) = k
      /\ \A i \in 1 .. k : us[i] = sent[rcvd + i]
  <2>1. sent \in Seq(Units) /\ rcvd + 1 \in Nat \ {0} /\ rcvd + k \in Int
        BY <1>1 DEF TypeOK
  <2>2. /\ us \in Seq(Units)
        /\ Len(us) = IF rcvd + 1 <= rcvd + k THEN (rcvd + k) - (rcvd + 1) + 1 ELSE 0
        /\ \A i \in 1 .. (rcvd + k) - (rcvd + 1) + 1 : us[i] = sent[rcvd + 1 + i - 1]
        BY <2>1, Stretch
  <2> HIDE DEF us
  <2>3. (rcvd + k) - (rcvd + 1) + 1 = k /\ rcvd + 1 <= rcvd + k
        BY <1>1
  <2>4. \A i \in 1 .. k : rcvd + 1 + i - 1 = rcvd + i
        BY <1>1
  <2>. QED BY <2>2, <2>3, <2>4
<1>3. m_reader' = Push(q, us) /\ rcvd' = rcvd + k
      BY DEF Receive
<1>4. Unread(q) = Unread(m_reader)
      BY DEF Unread, WriteCursor
<1> HIDE DEF us
<1>5. /\ Unread(m_reader') = Unread(m_reader) + k
      /\ m_reader'.readCursor = rd
      /\ \A i \in 1 .. Unread(m_reader) : m_reader'.mem[rd + i] = m_reader.mem[rd + i]
      /\ \A i \in 1 .. k : m_reader'.mem[rd + Unread(m_reader) + i] = us[i]
      BY <1>2, <1>3, <1>4, AfterPush
<1>6. Passed' = Passed
      BY <1>1, <1>3, <1>5, TypedNext
<1>7. ASSUME NEW i \in 1 .. Unread(m_reader')
      PROVE  m_reader'.mem[m_reader'.readCursor + i] = sent[Passed + i]
  <2>0. i \in Nat
        BY <1>1, <1>5
  <2>1. CASE i <= Unread(m_reader)
    <3>1. i \in 1 .. Unread(m_reader)
          BY <1>1, <1>5, <2>1
    <3>2. m_reader.mem[rd + i] = sent[Passed + i]
          BY <3>1 DEF Aligned
    <3>. QED BY <1>5, <3>1, <3>2
  <2>2. CASE ~(i <= Unread(m_reader))
    <3>1. i - Unread(m_reader) \in 1 .. k
          BY <1>1, <1>5, <2>2
    <3>2. m_reader'.mem[rd + Unread(m_reader) + (i - Unread(m_reader))]
              = sent[rcvd + (i - Unread(m_reader))]
          BY <1>2, <1>5, <3>1
    <3>3. /\ rd + Unread(m_reader) + (i - Unread(m_reader)) = rd + i
          /\ rcvd + (i - Unread(m_reader)) = Passed + i
          BY <1>1, <3>1
    <3>. QED BY <1>5, <3>2, <3>3
  <2>. QED BY <1>1, <2>0, <2>1, <2>2
<1>. QED BY <1>1, <1>3, <1>6, <1>7 DEF Aligned

\* What is unread does not depend on the packet end.
LEMMA SameUnread ==
    ASSUME m_reader'.mem = m_reader.mem, m_reader'.readCursor = m_reader.readCursor
    PROVE  /\ Unread(m_reader') = Unread(m_reader)
           /\ HaveLine(m_reader') = HaveLine(m_reader)
           /\ UNCHANGED <<rcvd, sent>> => Passed' = Passed /\ Aligned' = Aligned
<1>1. Unread(m_reader') = Unread(m_reader)
      BY DEF Unread, WriteCursor
<1>2. LineEnds(m_reader') = LineEnds(m_reader)
      BY Zenon DEF LineEnds
<1>3. HaveLine(m_reader') = HaveLine(m_reader)
      BY <1>2 DEF HaveLine
<1>4. ASSUME UNCHANGED <<rcvd, sent>>
      PROVE  Passed' = Passed /\ Aligned' = Aligned
  <2>1. Passed' = Passed
        BY <1>1, <1>4 DEF Passed
  <2>. QED BY <1>1, <1>4, <2>1 DEF Aligned
<1>. QED BY <1>1, <1>3, <1>4

\* haveLine() that finds none leaves the unread part as it is.
LEMMA ScanKeeps ==
    ASSUME TypeOK, CursorOrder, ~HaveLine(m_reader)
    PROVE  /\ ScanLine(m_reader) \in Reader /\ Ordered(ScanLine(m_reader))
           /\ ScanLine(m_reader).mem = m_reader.mem
           /\ ScanLine(m_reader).readCursor = m_reader.readCursor
<1>1. m_reader \in Reader /\ Ordered(m_reader)
      BY TypedReader
<1>2. ScanLine(m_reader) = [m_reader EXCEPT !.packetEnd = NULL] /\ ScanLine(m_reader) \in Reader
      BY <1>1, NoLineFound
<1>. QED BY <1>1, <1>2 DEF Reader, Ordered

\* Dropping the connection settles everything.
LEMMA Dropped ==
    ASSUME InStep', pc' = "idle", ~prv'
    PROVE  StreamInv'
BY DEF StreamInv, WriterReady, BetweenReplies, ReadingLine, ReadingData, Rewound

\* recv() in the middle of a reply, or when there is nothing to receive.
LEMMA RecvStream ==
    ASSUME TypeOK, CursorOrder, TypeOK', CursorOrder', StreamInv, Recv
    PROVE  StreamInv'
<1>1. UNCHANGED call /\ (prv' => prv) /\ (Intact' => Intact)
  <2>1. UNCHANGED call /\ (prv' => prv)
        BY DEF Recv, RecvLine, RecvLineEmpty, RecvLineRaises, RecvData, RecvDataFails, callVars
  <2>2. ~falseReset' => ~falseReset
    <3>1. CASE RecvLineEmpty
          BY <3>1, Zenon DEF RecvLineEmpty
    <3>2. CASE RecvLine \/ RecvLineRaises \/ RecvData \/ RecvDataFails
          BY <3>2 DEF RecvLine, RecvLineRaises, RecvData, RecvDataFails
    <3>. QED BY <3>1, <3>2 DEF Recv
  <2>. QED BY <2>1, <2>2 DEF Intact
<1>2. CASE ~Intact'
      BY <1>1, <1>2 DEF StreamInv
<1>. SUFFICES ASSUME Intact' PROVE StreamInv'
     BY <1>2
<1>3. Intact
      BY <1>1
<1>4. rcvd \in Nat /\ Len(sent) \in Nat
      BY TypedStream
<1>5. CASE RecvLine
  <2>1. PICK k \in 1 .. Len(sent) : rcvd + k <= Len(sent) /\ Receive(ScanLine(m_reader), k)
        BY <1>5 DEF RecvLine, AtMost
  <2>2. /\ pc = "line" /\ pc' = "line" /\ prv /\ ~HaveLine(m_reader)
        /\ UNCHANGED <<call, from, m_writer, prv, falseReset, sock, toServer, sent>>
        BY <1>5 DEF RecvLine, callVars
  <2>3. Passed' = Passed /\ Aligned'
        BY <1>3, <2>1, <2>2, ScanKeeps, ReceiveStream DEF StreamInv, InStep
  <2>4. rcvd # Len(sent)
        BY <1>4, <2>1
  <2>5. PICK r \in Replies(call.op), m \in 0 .. Len(sent) : AtLine(r, m)
        BY <1>3, <2>2, <2>4 DEF StreamInv, ReadingLine, Stuck, Waiting
  <2>6. AtLine(r, m)'
        BY <2>2, <2>3, <2>5 DEF AtLine, Answered
  <2>7. ReadingLine'
        BY <2>2, <2>6 DEF ReadingLine
  <2>8. WriterReady'
        BY <1>3, <2>2, WriterStaysReady DEF StreamInv
  <2>9. InStep'
        BY <1>3, <2>2, <2>3 DEF StreamInv, InStep
  <2>. QED BY <1>1, <1>3, <2>2, <2>7, <2>8, <2>9
           DEF StreamInv, BetweenReplies, ReadingData, Rewound
<1>6. ASSUME UNCHANGED <<rcvd, sent, from, toServer>>,
             m_reader'.mem = m_reader.mem, m_reader'.readCursor = m_reader.readCursor
      PROVE  InStep'
  <2>1. Aligned'
        BY <1>3, <1>6, SameUnread DEF StreamInv, InStep
  <2>. QED BY <1>1, <1>3, <1>6, <2>1 DEF StreamInv, InStep
<1>7. CASE RecvLineEmpty
  <2>1. /\ pc = "line" /\ pc' = "idle" /\ prv /\ ~HaveLine(m_reader)
        /\ m_reader' = ScanLine(m_reader)
        /\ UNCHANGED <<call, from, m_writer, prv, sock, toServer, sent, rcvd>>
        BY <1>7 DEF RecvLineEmpty, ReadLineFailed, Finish, netVars
  <2>2. sock = "closed" /\ rcvd = Len(sent)
        BY <1>7 DEF RecvLineEmpty, Intact
  <2>3. m_reader'.mem = m_reader.mem /\ m_reader'.readCursor = m_reader.readCursor
        BY <2>1, ScanKeeps
  <2>4. InStep'
        BY <1>6, <2>1, <2>3
  <2>5. Settled'
        BY <2>1, <2>2, <2>3, SameUnread DEF Settled
  <2>. QED BY <1>1, <1>3, <2>1, <2>2, <2>4, <2>5
           DEF StreamInv, WriterReady, BetweenReplies, ReadingLine, ReadingData, Rewound
<1>8. CASE RecvLineRaises
  <2>1. /\ ~HaveLine(m_reader) /\ pc' = "idle" /\ ~prv'
        /\ m_reader' = ScanLine(m_reader)
        /\ UNCHANGED <<from, toServer, sent, rcvd>>
        BY <1>8 DEF RecvLineRaises, ReadLineFailed, Finish, netVars
  <2>2. m_reader'.mem = m_reader.mem /\ m_reader'.readCursor = m_reader.readCursor
        BY <2>1, ScanKeeps
  <2>. QED BY <1>6, <2>1, <2>2, Dropped
<1>9. CASE RecvData
  <2>1. PICK k \in 1 .. Len(sent) : rcvd + k <= Len(sent) /\ Receive(m_reader, k)
        BY <1>9 DEF RecvData, AtMost
  <2>2. /\ pc = "data" /\ pc' = "data"
        /\ UNCHANGED <<call, head, from, m_writer, prv, falseReset, sock, toServer, sent>>
        BY <1>9 DEF RecvData, callVars
  <2>3. m_reader \in Reader /\ Ordered(m_reader)
        BY TypedReader
  <2>4. Passed' = Passed /\ Aligned'
        BY <1>3, <2>1, <2>2, <2>3, ReceiveStream DEF StreamInv, InStep
  <2>5. PICK r \in Replies(call.op), m \in 0 .. Len(sent) :
            call.op \in {"get", "multi"} /\ AtData(r, m)
        BY <1>3, <2>2 DEF StreamInv, ReadingData
  <2>6. AtData(r, m)'
        BY <2>2, <2>4, <2>5 DEF AtData, Answered
  <2>7. ReadingData'
        BY <2>2, <2>5, <2>6 DEF ReadingData
  <2>8. WriterReady'
        BY <1>3, <2>2, WriterStaysReady DEF StreamInv
  <2>9. InStep'
        BY <1>3, <2>2, <2>4 DEF StreamInv, InStep
  <2>. QED BY <1>1, <1>3, <2>2, <2>7, <2>8, <2>9
           DEF StreamInv, BetweenReplies, ReadingLine, Rewound
<1>10. CASE RecvDataFails
  <2>1. pc' = "idle" /\ ~prv' /\ UNCHANGED <<m_reader, from, toServer, sent, rcvd>>
        BY <1>10 DEF RecvDataFails, Finish, netVars
  <2>. QED BY <1>6, <2>1, Dropped
<1>. QED BY <1>5, <1>7, <1>8, <1>9, <1>10 DEF Recv

-----------------------------------------------------------------------------
(***************************************************************************)
(* Sending: the requests stay whole until the last of them is out.         *)
(***************************************************************************)
\* A step that changes nothing of the stream.
LEMMA QuietStream ==
    ASSUME UNCHANGED <<m_reader, sock, toServer, sent, rcvd>>
    PROVE  /\ Aligned' = Aligned /\ Settled' = Settled
           /\ HaveLine(m_reader') = HaveLine(m_reader)
<1>1. HaveLine(m_reader') = HaveLine(m_reader) /\ Unread(m_reader') = Unread(m_reader)
      OBVIOUS
<1>2. AsyncFrom(Len(toServer))' = AsyncFrom(Len(toServer))
      BY DEF AsyncFrom
<1>3. Passed' = Passed
      BY DEF Passed
<1>. QED BY <1>1, <1>2, <1>3 DEF Aligned, Settled

LEMMA SendPartStream ==
    ASSUME TypeOK, StreamInv, SendPart
    PROVE  StreamInv'
<1>1. /\ pc = "send" /\ pc' = "send" /\ prv
      /\ UNCHANGED <<call, from, m_reader, prv, falseReset, sock, toServer, sent, rcvd>>
      BY DEF SendPart, callVars, netVars
<1>2. m_writer'.reqs = m_writer.reqs
  <2>1. /\ m_writer \in Writer /\ m_writer.readCursor \in Nat /\ m_writer.writeCursor \in Nat
        BY DEF TypeOK, Writer
  <2>2. PICK k \in 1 .. BytesToSend(m_writer) - 1 : m_writer' = Pull(m_writer, k)
        BY DEF SendPart
  <2>3. m_writer.readCursor + k # m_writer.writeCursor
        BY <2>1 DEF BytesToSend
  <2>. QED BY <2>1, <2>2, <2>3 DEF Pull, Writer
<1>. QED BY <1>1, <1>2, QuietStream
         DEF StreamInv, Intact, InStep, WriterReady, OwnRequest, BetweenReplies, ReadingLine,
             ReadingData, Rewound

\* The request goes out: it will be answered, unless it has noreply.
\* What is out when sendWriteBuffer() ends.
LEMMA SentRequest ==
    ASSUME TypeOK, StreamInv, Intact, SendRest, sock = "up"
    PROVE  /\ Len(toServer) \in Nat /\ Len(toServer') = Len(toServer) + 1
           /\ toServer'[Len(toServer) + 1] = OwnRequest
           /\ \A i \in 1 .. Len(toServer) : toServer'[i] = toServer[i]
<1>1. m_writer.reqs = <<OwnRequest>>
      BY DEF StreamInv, WriterReady, SendRest
<1>2. toServer' = toServer \o <<OwnRequest>>
      BY <1>1 DEF SendRest
<1>3. toServer \in Seq(Requests) /\ OwnRequest \in Requests
      BY DEF TypeOK, OwnRequest, Requests
<1> DEFINE own == OwnRequest
<1> HIDE DEF own
<1>4. toServer' = Append(toServer, own) /\ own \in Requests
  <2>1. own \in Requests /\ toServer' = toServer \o <<own>>
        BY <1>2, <1>3 DEF own
  <2>. QED BY <1>3, <2>1, AppendIsConcat
<1>5. /\ Len(toServer) \in Nat /\ Len(toServer') = Len(toServer) + 1
      /\ toServer'[Len(toServer) + 1] = own
      /\ \A i \in 1 .. Len(toServer) : toServer'[i] = toServer[i]
      BY <1>3, <1>4, AppendProperties, LenProperties
<1>. QED BY <1>5 DEF own

LEMMA SendRestStream ==
    ASSUME TypeOK, TypeOK', StreamInv, Intact, SendRest
    PROVE  StreamInv'
<1>1. /\ pc = "send" /\ prv /\ sock \in {"up", "closed"}
      /\ UNCHANGED <<call, from, m_reader, prv, falseReset, sock, sent, rcvd>>
      BY DEF SendRest, TypeOK
<1>2. m_writer' = NewWriter
  <2>1. m_writer.readCursor + BytesToSend(m_writer) = m_writer.writeCursor
    <3>1. m_writer.readCursor \in Nat /\ m_writer.writeCursor \in Nat
          BY DEF TypeOK
    <3>. QED BY <3>1 DEF BytesToSend
  <2>. QED BY <2>1 DEF SendRest, Pull
<1>3. Settled /\ InStep /\ from = {}
      BY <1>1 DEF StreamInv, BetweenReplies
<1>4. /\ Aligned' /\ Unread(m_reader') = Unread(m_reader)
      /\ HaveLine(m_reader') = HaveLine(m_reader)
  <2>1. m_reader'.mem = m_reader.mem /\ m_reader'.readCursor = m_reader.readCursor
        BY <1>1
  <2>. QED BY <1>1, <1>3, <2>1, SameUnread DEF InStep
<1>5. toServer \in Seq(Requests) /\ Len(toServer) \in Nat /\ call.async \in BOOLEAN
      BY LenProperties DEF TypeOK
<1>6. CASE sock = "closed"
  <2>1. toServer' = toServer
        BY <1>6 DEF SendRest
  <2>2. InStep'
        BY <1>1, <1>3, <1>4, <2>1 DEF InStep
  <2>3. Settled' /\ Stuck'
        BY <1>1, <1>3, <1>4, <1>6 DEF Settled, Stuck
  <2>4. pc' = "idle" \/ pc' = "line"
        BY DEF SendRest, Finish
  <2>. QED BY <1>1, <1>6, <2>2, <2>3, <2>4
           DEF StreamInv, WriterReady, BetweenReplies, ReadingLine, ReadingData, Rewound, Intact
<1>7. CASE sock = "up"
  <2>3. /\ Len(toServer') = Len(toServer) + 1
        /\ toServer'[Len(toServer')] = OwnRequest
        /\ \A i \in 1 .. Len(toServer) : toServer'[i] = toServer[i]
        BY <1>7, SentRequest
  <2>4. \A i \in 1 .. Len(toServer') : i \in 1 .. Len(toServer) \/ i = Len(toServer')
        BY <1>5, <2>3
  <2>5. InStep'
    <3>1. \A i \in 1 .. Len(toServer') : toServer'[i].clean
          BY <1>3, <2>3, <2>4 DEF InStep, OwnRequest
    <3>. QED BY <1>1, <1>3, <1>4, <3>1 DEF InStep
  <2>6. /\ rcvd = Len(sent) /\ Unread(m_reader) = 0 /\ ~HaveLine(m_reader)
        /\ AsyncFrom(Len(toServer))
        BY <1>3, <1>7 DEF Settled
  <2>7. CASE call.async
    <3>1. AsyncFrom(Len(toServer))'
          BY <2>3, <2>4, <2>6, <2>7 DEF AsyncFrom, OwnRequest
    <3>2. Settled'
          BY <1>1, <1>4, <2>6, <3>1 DEF Settled
    <3>3. pc' = "idle"
          BY <2>7 DEF SendRest, Finish
    <3>. QED BY <1>1, <1>2, <1>3, <2>5, <3>2, <3>3
             DEF StreamInv, WriterReady, BetweenReplies, ReadingLine, ReadingData, Rewound, Intact
  <2>8. CASE ~call.async
    <3>1. AsyncFrom(Len(toServer) - 1)'
      <4>1. Len(toServer') - 1 = Len(toServer)
            BY <1>5, <2>3
      <4>. QED BY <2>3, <2>6, <4>1 DEF AsyncFrom
    <3>2. toServer' # <<>>
          BY <1>5, <2>3, EmptySeq
    <3>3. Waiting'
          BY <1>1, <1>4, <1>7, <2>3, <2>6, <2>8, <3>1, <3>2 DEF Waiting, OwnRequest
    <3>4. pc' = "line"
          BY <2>8 DEF SendRest
    <3>. QED BY <1>1, <1>2, <2>5, <3>3, <3>4
             DEF StreamInv, WriterReady, BetweenReplies, ReadingLine, ReadingData, Rewound, Intact
  <2>. QED BY <2>7, <2>8
<1>. QED BY <1>1, <1>6, <1>7

LEMMA SendStream ==
    ASSUME TypeOK, TypeOK', StreamInv, Send
    PROVE  StreamInv'
<1>1. UNCHANGED <<call, falseReset>> /\ (prv' => prv)
      BY DEF Send, SendPart, SendRest, SendRaises, SendZero, callVars, objVars
<1>2. CASE ~Intact
      BY <1>1, <1>2 DEF StreamInv, Intact
<1>3. CASE SendPart
      BY <1>3, SendPartStream
<1>4. CASE Intact /\ SendRest
      BY <1>4, SendRestStream
<1>5. CASE Intact /\ SendRaises
  <2>1. /\ pc = "send" /\ ~prv' /\ UNCHANGED <<from, m_reader, sock, toServer, sent, rcvd>>
        /\ pc' \in {"idle", "line"}
        BY <1>5 DEF SendRaises, SendFailed, Finish, netVars
  <2>2. prv /\ Settled /\ InStep
        BY <1>5, <2>1 DEF StreamInv, BetweenReplies
  <2>3. InStep' /\ ~HaveLine(m_reader')
        BY <1>1, <2>1, <2>2, QuietStream DEF InStep, Settled
  <2>. QED BY <2>1, <2>3
           DEF StreamInv, WriterReady, BetweenReplies, ReadingLine, Stuck, ReadingData, Rewound
<1>6. CASE Intact /\ SendZero
  <2>1. /\ pc = "send" /\ prv /\ sock = "closed" /\ pc' \in {"idle", "line"}
        /\ UNCHANGED <<from, prv, m_reader, sock, toServer, sent, rcvd>>
        BY <1>6 DEF SendZero, SendFailed, Finish, netVars, objVars
  <2>2. Settled /\ InStep
        BY <1>6, <2>1 DEF StreamInv, BetweenReplies
  <2>3. InStep' /\ Settled'
        BY <1>1, <2>1, <2>2, QuietStream DEF InStep
  <2>4. Stuck'
        BY <2>1, <2>3 DEF Stuck, Settled
  <2>. QED BY <1>1, <1>6, <2>1, <2>3, <2>4
           DEF StreamInv, Intact, WriterReady, BetweenReplies, ReadingLine, ReadingData, Rewound
<1>. QED BY <1>2, <1>3, <1>4, <1>5, <1>6 DEF Send

\* A call whose request is out, or cannot go out, has no reply to read yet.
LEMMA NothingToReadYet ==
    ASSUME TypeOK, StreamInv, StreamInv', Intact, Send, pc' = "line"
    PROVE  Stuck' \/ Waiting'
<1>1. /\ pc = "send" /\ UNCHANGED <<call, falseReset, m_reader, sock, sent, rcvd>>
      /\ SendRest \/ ~prv' \/ sock = "closed"
      BY DEF Send, SendPart, SendRest, SendRaises, SendZero, callVars, objVars, netVars
<1>2. Settled /\ Intact'
      BY <1>1 DEF StreamInv, BetweenReplies, Intact
<1>3. CASE ~prv' \/ sock = "closed"
      BY <1>1, <1>2, <1>3 DEF Settled, Stuck
<1>4. CASE SendRest /\ sock = "up"
  <2>1. Len(toServer') = Len(toServer) + 1 /\ Len(toServer) \in Nat
        BY <1>4, SentRequest
  <2>2. toServer' # <<>>
        BY <2>1, EmptySeq
  <2>. QED BY <1>2, <2>2 DEF StreamInv, ReadingLine, AtLine, Answered
<1>. QED BY <1>1, <1>3, <1>4 DEF SendRest, TypeOK

-----------------------------------------------------------------------------
(***************************************************************************)
(* A call begins only when the one before it has left nothing behind.      *)
(***************************************************************************)
LEMMA OnlyRequest ==
    ASSUME NEW n \in Nat, NEW req \in Requests, req.clean = TRUE
    PROVE  WriteRequest(NewWriter, n, req).reqs = <<req>>
<1> DEFINE chars == WriteChars(NewWriter, n)
           clean == [req EXCEPT !.clean = ~NewWriter.stem]
<1>1. chars \in Writer /\ chars.reqs = <<>>
      BY FreshWriter, WriteCharsFields DEF NewWriter
<1>2. clean = req
  <2>1. (~NewWriter.stem) = TRUE
        BY DEF NewWriter
  <2>2. req = [req EXCEPT !.clean = TRUE]
        BY DEF Requests
  <2>. QED BY <2>1, <2>2, Zenon
<1>3. WriteRequest(NewWriter, n, req) = [chars EXCEPT !.reqs = Append(@, clean), !.stem = FALSE]
      BY Zenon DEF WriteRequest
<1> HIDE DEF chars, clean
<1>4. WriteRequest(NewWriter, n, req).reqs = Append(chars.reqs, clean)
      BY <1>1, <1>3 DEF Writer
<1>5. Append(<<>>, req) = <<req>>
      OBVIOUS
<1>. QED BY <1>1, <1>2, <1>4, <1>5, Zenon

LEMMA RequestStream ==
    ASSUME NEW op \in Ops, NEW async \in BOOLEAN, NEW n \in Nat,
           TypeOK, StreamInv, Request(op, async, n)
    PROVE  StreamInv'
<1> DEFINE own == [call |-> call.id + 1, op |-> op, async |-> async, clean |-> TRUE]
<1>1. /\ pc = "idle" /\ pc' = "send" /\ from' = {}
      /\ call' = [id |-> call.id + 1, op |-> op, async |-> async, linked |-> prv]
      /\ m_writer' = WriteRequest(m_writer, n, own)
      /\ UNCHANGED <<m_reader, prv, falseReset, sock, toServer, sent, rcvd>>
      BY DEF Request, NextCall, netVars
<1>2. call'.linked = prv
      BY <1>1
<1>3. CASE ~Intact'
      BY <1>1, <1>2, <1>3 DEF StreamInv
<1>4. CASE Intact'
  <2>1. prv /\ Intact
        BY <1>1, <1>2, <1>4 DEF StreamInv, Intact
  <2>2. Settled /\ InStep
        BY <1>1, <2>1 DEF StreamInv, BetweenReplies
  <2>3. Settled' /\ Aligned'
        BY <1>1, <2>2, QuietStream DEF InStep
  <2>4. InStep'
        BY <1>1, <2>2, <2>3 DEF InStep
  <2>5. ASSUME sock # "closed" PROVE m_writer'.reqs = <<OwnRequest'>>
    <3>1. m_writer = NewWriter
          BY <1>1, <2>1, <2>5 DEF StreamInv, WriterReady
    <3>2. own \in Requests /\ own.clean = TRUE
          BY DEF Requests, TypeOK
    <3>3. OwnRequest' = own
          BY <1>1 DEF OwnRequest
    <3> HIDE DEF own
    <3>4. WriteRequest(NewWriter, n, own).reqs = <<own>>
          BY <3>2, OnlyRequest
    <3>. QED BY <1>1, <3>1, <3>3, <3>4
  <2>. QED BY <1>1, <1>2, <2>1, <2>3, <2>4, <2>5
           DEF StreamInv, WriterReady, BetweenReplies, ReadingLine, ReadingData, Rewound
<1>. QED BY <1>3, <1>4

LEMMA BeginStream ==
    ASSUME ~BadKeys, TypeOK, StreamInv, Begin
    PROVE  StreamInv'
<1>1. ASSUME NEW async \in BOOLEAN, NEW n \in DataSizes,
             Command(n, async) \/ Cas(n, async)
      PROVE  StreamInv'
  <2>1. n + 2 \in Nat
        BY ClientAssumption
  <2>. QED BY <1>1, <2>1, RequestStream DEF Command, Cas, Ops
<1>2. ASSUME NEW async \in BOOLEAN,
             Delete(async) \/ Incr(async) \/ Decr(async) \/ FlushAll(async)
      PROVE  StreamInv'
      BY <1>2, RequestStream DEF Delete, Incr, Decr, FlushAll, Ops
<1>3. ASSUME NEW m \in KeyCounts, GetMulti(m)
      PROVE  StreamInv'
  <2>1. 2 + m \in Nat
        BY ClientAssumption
  <2>. QED BY <1>3, <2>1, RequestStream DEF GetMulti, Ops
<1>4. CASE Version \/ Stats \/ Get
      BY <1>4, RequestStream DEF Version, Stats, Get, Ops
<1>5. ASSUME NEW async \in BOOLEAN, NEW n \in DataSizes, CommandTooLarge(n, async)
      PROVE  StreamInv'
  <2>1. /\ pc = "idle" /\ pc' = "idle" /\ from' = {} /\ call'.linked = prv
        /\ UNCHANGED <<m_writer, m_reader, prv, falseReset, sock, toServer, sent, rcvd>>
        BY <1>5 DEF CommandTooLarge, NextCall, objVars, netVars
  <2>2. CASE ~Intact'
        BY <2>1, <2>2 DEF StreamInv
  <2>3. CASE Intact'
    <3>1. prv /\ Intact
          BY <2>1, <2>3 DEF StreamInv, Intact
    <3>2. Settled /\ InStep /\ WriterReady
          BY <2>1, <3>1 DEF StreamInv, BetweenReplies
    <3>3. Settled' /\ Aligned'
          BY <2>1, <3>2, QuietStream DEF InStep
    <3>4. InStep'
          BY <2>1, <3>2, <3>3 DEF InStep
    <3>. QED BY <2>1, <3>1, <3>2, <3>3, <3>4
             DEF StreamInv, WriterReady, BetweenReplies, ReadingLine, ReadingData, Rewound
  <2>. QED BY <2>2, <2>3
<1>6. ~GetMultiBadKeys
      BY DEF GetMultiBadKeys
<1>. QED BY <1>1, <1>2, <1>3, <1>4, <1>5, <1>6 DEF Begin

\* connect() makes a connection once, and disconnect() is for good.
LEMMA SocketStream ==
    ASSUME TypeOK, CursorOrder, TypeOK', CursorOrder', StreamInv, Socket
    PROVE  StreamInv'
<1>1. /\ pc = "idle" /\ pc' = "idle"
      /\ UNCHANGED <<call, from, falseReset, toServer, sent, rcvd>>
      BY DEF Socket, Connect, ConnectFails, ConnectRefused, ConnectBegins, Disconnect,
             objVars, netVars
<1>2. prv' => prv
      BY DEF Socket, Connect, ConnectFails, ConnectRefused, Disconnect, objVars
<1>3. CASE ~Intact
      BY <1>1, <1>2, <1>3 DEF StreamInv, Intact
<1>4. CASE Intact /\ (Connect \/ ConnectFails)
  <2>1. /\ prv /\ prv' /\ m_reader' = NewReader /\ m_writer' = NewWriter
        /\ sock' = "closed" => sock = "closed"
        BY <1>4 DEF Connect, ConnectFails, ConnectBegins, netVars
  <2>2. Settled /\ InStep
        BY <1>1, <1>4, <2>1 DEF StreamInv, BetweenReplies
  <2>3. Unread(m_reader') = 0 /\ ~HaveLine(m_reader')
        BY <2>1, FreshUnread
  <2>4. rcvd \in Nat /\ Len(sent) \in Nat /\ rcvd <= Len(sent)
        BY <2>2, TypedStream DEF Settled
  <2>5. Passed' = rcvd
        BY <1>1, <2>3, <2>4 DEF Passed
  <2>6. Aligned'
        BY <1>1, <2>3, <2>4, <2>5 DEF Aligned
  <2>7. InStep'
        BY <1>1, <2>2, <2>6 DEF InStep
  <2>8. Settled'
    <3>1. AsyncFrom(Len(toServer)) => AsyncFrom(Len(toServer))'
          BY <1>1 DEF AsyncFrom
    <3>2. CASE sock # "closed"
          BY <1>1, <2>2, <2>3, <3>1, <3>2 DEF Settled
    <3>3. CASE sock = "closed"
      <4>1. sock' = "closed"
            BY <1>4, <3>3 DEF Connect, ConnectFails, netVars
      <4>. QED BY <1>1, <2>2, <2>3, <4>1 DEF Settled
    <3>. QED BY <3>2, <3>3
  <2>. QED BY <1>1, <1>4, <2>1, <2>7, <2>8
           DEF StreamInv, Intact, WriterReady, BetweenReplies, ReadingLine, ReadingData, Rewound
<1>5. CASE Intact /\ (ConnectRefused \/ Disconnect)
  <2>1. ~prv' /\ UNCHANGED <<m_reader, sock>>
        BY <1>5 DEF ConnectRefused, Disconnect, objVars, netVars
  <2>2. InStep'
        BY <1>1, <1>5, <2>1, QuietStream DEF StreamInv, InStep
  <2>. QED BY <1>1, <2>1, <2>2, Dropped
<1>. QED BY <1>3, <1>4, <1>5 DEF Socket

-----------------------------------------------------------------------------
(***************************************************************************)
(* The server answers requests in order, and the only one it answers is    *)
(* that of the call that waits.                                            *)
(***************************************************************************)
LEMMA QuietlyWaiting ==
    ASSUME TypeOK, ServeQuietly, Waiting
    PROVE  Waiting'
<1>1. /\ toServer # <<>> /\ toServer' = Tail(toServer) /\ toServer[1].async
      /\ UNCHANGED <<call, m_reader, sock, sent, rcvd>>
      BY DEF ServeQuietly, Request1, callVars, objVars
<1>2. /\ Len(toServer) \in Nat \ {0} /\ Len(toServer') = Len(toServer) - 1
      /\ \A i \in 1 .. Len(toServer) - 1 : toServer'[i] = toServer[i + 1]
      BY <1>1, HeadTailProperties, EmptySeq, LenProperties DEF TypeOK
<1>3. toServer[Len(toServer)] = OwnRequest /\ ~call.async /\ ~toServer[Len(toServer)].async
      BY DEF Waiting, OwnRequest
<1>4. Len(toServer) # 1
      BY <1>1, <1>3
<1>5. /\ Len(toServer') \in 1 .. Len(toServer) - 1 /\ Len(toServer') + 1 = Len(toServer)
      /\ Len(toServer') # 0
      BY <1>2, <1>4
<1>6. toServer'[Len(toServer')] = OwnRequest'
      BY <1>1, <1>2, <1>3, <1>5 DEF OwnRequest
<1>7. AsyncFrom(Len(toServer) - 1)'
  <2>1. ASSUME NEW i \in 1 .. Len(toServer') - 1 PROVE toServer'[i].async
    <3>1. i \in 1 .. Len(toServer) - 1 /\ i + 1 \in 1 .. Len(toServer) - 1
          BY <1>2
    <3>2. toServer[i + 1].async
          BY <3>1 DEF Waiting, AsyncFrom
    <3>. QED BY <1>2, <3>1, <3>2
  <2>. QED BY <2>1 DEF AsyncFrom
<1>8. toServer' # <<>>
      BY <1>5, EmptySeq
<1>. QED BY <1>1, <1>6, <1>7, <1>8 DEF Waiting

LEMMA ServeQuietlyStream ==
    ASSUME TypeOK, StreamInv, Intact, ServeQuietly
    PROVE  StreamInv'
<1>1. /\ toServer # <<>> /\ toServer' = Tail(toServer) /\ sock = "up" /\ toServer[1].async
      /\ UNCHANGED <<pc, call, head, from, m_writer, m_reader, prv, falseReset, sock, sent, rcvd>>
      BY DEF ServeQuietly, Request1, callVars, objVars
<1>2. /\ Len(toServer) \in Nat \ {0} /\ Len(toServer') = Len(toServer) - 1
      /\ \A i \in 1 .. Len(toServer) - 1 : toServer'[i] = toServer[i + 1]
      BY <1>1, HeadTailProperties, EmptySeq, LenProperties DEF TypeOK
<1>3. \A i \in 1 .. Len(toServer') : i + 1 \in 1 .. Len(toServer) /\ toServer'[i] = toServer[i + 1]
      BY <1>2
<1>4. Aligned' = Aligned
  <2>1. Passed' = Passed
        BY <1>1 DEF Passed
  <2>. QED BY <1>1, <2>1 DEF Aligned
<1>5. InStep'
      BY <1>1, <1>3, <1>4 DEF StreamInv, InStep
<1>6. WriterReady'
      BY <1>1 DEF StreamInv, WriterReady, OwnRequest
<1>7. Settled => Settled'
  <2>1. AsyncFrom(Len(toServer)) => AsyncFrom(Len(toServer))'
        BY <1>3 DEF AsyncFrom
  <2>. QED BY <1>1, <2>1 DEF Settled
<1>8. Waiting => Waiting'
      BY QuietlyWaiting
<1>9. Stuck => Stuck'
      BY <1>1 DEF Stuck
<1>10. \A r, m : ~Answered(r, m)
       BY <1>1 DEF Answered
<1>. QED BY <1>1, <1>5, <1>6, <1>7, <1>8, <1>9, <1>10
         DEF StreamInv, BetweenReplies, ReadingLine, AtLine, ReadingData, AtData, Rewound, Intact

LEMMA ServeReplyStream ==
    ASSUME TypeOK, CursorOrder, TypeOK', CursorOrder', StreamInv, Intact, ServeReply
    PROVE  /\ StreamInv'
           /\ Waiting => \E r \in Replies(call.op), m \in 0 .. Len(sent') :
                  /\ answer' = [call |-> call.id, reply |-> r]
                  /\ AtLine(r, m)' /\ Passed' = m
<1>1. /\ toServer # <<>> /\ toServer' = Tail(toServer) /\ sock = "up"
      /\ ~toServer[1].async
      /\ UNCHANGED <<pc, call, head, from, m_writer, m_reader, prv, falseReset, sock, rcvd>>
      BY DEF ServeReply, Request1, callVars, objVars
<1>2. /\ Len(toServer) \in Nat \ {0} /\ Len(toServer') = Len(toServer) - 1
      /\ \A i \in 1 .. Len(toServer) - 1 : toServer'[i] = toServer[i + 1]
      BY <1>1, HeadTailProperties, EmptySeq, LenProperties DEF TypeOK
<1> DEFINE req == toServer[1]
<1>3. PICK r \in Replies(req.op) : /\ sent' = sent \o Stamp(r.toks, req.call)
                                   /\ answer' = [call |-> req.call, reply |-> r]
  <2>1. Request1 = req
        BY <1>2 DEF Request1
  <2> HIDE DEF req
  <2>. QED BY <2>1 DEF ServeReply
<1>4. req \in Requests /\ req.op \in Ops /\ req.call \in Nat
  <2>1. req \in Requests
        BY <1>2, ElementOfSeq DEF TypeOK
  <2>. QED BY <2>1 DEF Requests
<1> HIDE DEF req
<1>5. /\ WellFormed(req.op, r) /\ 1 \in r.starts
      /\ r.toks \in Seq(Tokens) /\ Len(r.toks) \in Nat
      BY <1>4, ReplyAssumption, LenProperties DEF WellFormed
<1> DEFINE us == Stamp(r.toks, req.call)
<1>6. /\ us \in Seq(Units) /\ Len(us) = Len(r.toks)
      /\ \A i \in 1 .. Len(r.toks) : us[i] = [call |-> req.call, tok |-> r.toks[i]]
  <2>1. us \in Seq(Units)
        BY <1>4, ReplyType
  <2>2. DOMAIN us = 1 .. Len(r.toks)
        BY DEF Stamp
  <2>3. Len(us) = Len(r.toks)
        BY <1>5, <2>1, <2>2, LenProperties
  <2>. QED BY <2>1, <2>3 DEF Stamp
<1>7. rcvd \in Nat /\ Len(sent) \in Nat /\ sent \in Seq(Units)
      BY TypedStream DEF TypeOK
<1>8. sent' = sent \o us
      BY <1>3
<1> HIDE DEF us
<1>9. /\ Len(sent') = Len(sent) + Len(r.toks)
      /\ \A i \in 1 .. Len(sent) + Len(r.toks) :
            sent'[i] = IF i <= Len(sent) THEN sent[i] ELSE us[i - Len(sent)]
  <2>1. /\ Len(sent \o us) = Len(sent) + Len(us)
        /\ \A i \in 1 .. Len(sent) + Len(us) :
              (sent \o us)[i] = IF i <= Len(sent) THEN sent[i] ELSE us[i - Len(sent)]
    <3>1. us \in Seq(Units) /\ sent \in Seq(Units)
          BY <1>6, <1>7
    <3>. QED BY <3>1, ConcatProperties, Zenon
  <2>2. Len(us) = Len(r.toks)
        BY <1>6
  <2>. QED BY <1>8, <2>1, <2>2, Zenon
<1>10. Passed' = Passed /\ Passed \in Int /\ Passed = rcvd - Unread(m_reader)
       /\ Unread(m_reader) \in Nat
       BY <1>1, TypedStream, TypedReader DEF Passed
<1>11. Aligned'
  <2>1. rcvd <= Len(sent) /\ 0 <= Passed
        BY DEF StreamInv, InStep, Aligned
  <2>2. ASSUME NEW i \in 1 .. Unread(m_reader)
        PROVE  m_reader.mem[m_reader.readCursor + i] = sent'[Passed + i]
    <3> DEFINE j == Passed + i
    <3>1. m_reader.mem[m_reader.readCursor + i] = sent[j]
          BY DEF StreamInv, InStep, Aligned
    <3>2. j \in 1 .. Len(sent) + Len(r.toks) /\ j <= Len(sent)
          BY <1>5, <1>7, <1>10, <2>1
    <3> HIDE DEF j
    <3>3. sent'[j] = sent[j]
          BY <1>9, <3>2
    <3>. QED BY <3>1, <3>3 DEF j
  <2>3. rcvd <= Len(sent')
        BY <1>5, <1>7, <1>9, <2>1
  <2>. QED BY <1>1, <1>10, <2>1, <2>2, <2>3 DEF Aligned
<1>12. InStep'
  <2>1. \A i \in 1 .. Len(toServer') : i + 1 \in 1 .. Len(toServer) /\ toServer'[i] = toServer[i + 1]
        BY <1>2
  <2>. QED BY <1>1, <1>11, <2>1 DEF StreamInv, InStep
<1>13. WriterReady'
       BY <1>1 DEF StreamInv, WriterReady, OwnRequest
<1>14. ~Settled
       BY <1>1, <1>2 DEF Settled, AsyncFrom
<1>15. Stuck => Stuck'
       BY <1>1 DEF Stuck
<1>16. PICK m : m = Len(sent)
       OBVIOUS
<1>17. ASSUME Waiting
       PROVE  /\ r \in Replies(call.op) /\ m \in 0 .. Len(sent') /\ AtLine(r, m)'
              /\ answer' = [call |-> call.id, reply |-> r] /\ Passed' = m
  <2>1. Len(toServer) = 1
    <3>1. ~(1 \in 1 .. Len(toServer) - 1)
          BY <1>1, <1>17 DEF Waiting, AsyncFrom
    <3>. QED BY <1>2, <3>1
  <2>2. req.call = call.id /\ req.op = call.op
        BY <1>17, <2>1 DEF Waiting, OwnRequest, req
  <2>3. toServer' = <<>>
    <3>1. Len(toServer') = 0 /\ toServer' \in Seq(Requests)
          BY <1>2, <2>1 DEF TypeOK
    <3>. QED BY <3>1, EmptySeq
  <2>4. m \in Nat /\ Passed' = m
        BY <1>7, <1>10, <1>16, <1>17 DEF Waiting
  <2>5. Len(sent') = m + Len(r.toks)
        BY <1>9, <1>16
  <2>6. ASSUME NEW j \in m + 1 .. Len(sent')
        PROVE  sent'[j] = [call |-> call.id, tok |-> r.toks[j - m]]
    <3>1. /\ j \in 1 .. Len(sent) + Len(r.toks) /\ ~(j <= Len(sent)) /\ j - Len(sent) = j - m
          /\ j - m \in 1 .. Len(r.toks)
          BY <1>5, <1>16, <2>4, <2>5
    <3>2. sent'[j] = us[j - m]
          BY <1>9, <3>1, Zenon
    <3>. QED BY <1>6, <2>2, <3>1, <3>2, Zenon
  <2>7. Answered(r, m)'
        BY <1>1, <1>5, <2>3, <2>4, <2>5, <2>6 DEF Answered
  <2>8. Passed' - m + 1 = 1
        BY <2>4
  <2>9. m \in 0 .. Len(sent')
        BY <1>5, <2>4, <2>5
  <2>. QED BY <1>3, <1>5, <2>2, <2>4, <2>7, <2>8, <2>9 DEF AtLine
<1>18. \A q, k : ~Answered(q, k)
       BY <1>1 DEF Answered
<1>19. ReadingLine'
  <2>1. ASSUME pc = "line" PROVE Stuck \/ Waiting
        BY <1>18, <2>1 DEF StreamInv, ReadingLine, AtLine
  <2>. QED BY <1>1, <1>15, <1>17, <2>1 DEF ReadingLine
<1>20. StreamInv'
       BY <1>1, <1>12, <1>13, <1>14, <1>18, <1>19
       DEF StreamInv, BetweenReplies, ReadingData, AtData, Rewound, Intact
<1>. QED BY <1>17, <1>20

\* When the peer closes, a call that waits for its reply waits in vain.
LEMMA ClosedIsStuck ==
    ASSUME TypeOK, CursorOrder, PeerCloses, Stuck \/ Waiting
    PROVE  Stuck'
<1>1. /\ sock = "up" /\ sock' = "closed" /\ UNCHANGED <<m_reader, prv, rcvd>>
      BY DEF PeerCloses, objVars
<1>2. CASE Stuck
      BY <1>1, <1>2 DEF Stuck
<1>3. CASE Waiting
  <2>1. ~HaveLine(m_reader) /\ rcvd = Len(sent)
        BY <1>3, TypedReader, NothingUnread DEF Waiting
  <2>2. PICK k \in rcvd .. Len(sent) : sent' = SubSeq(sent, 1, k)
        BY DEF PeerCloses
  <2>3. Len(sent') = rcvd
    <3>1. k = Len(sent) /\ Len(sent) \in Nat /\ sent \in Seq(Units)
          BY <2>1, <2>2, TypedStream DEF TypeOK
    <3>. QED BY <2>1, <2>2, <3>1, SubSeqFull
  <2>. QED BY <1>1, <2>1, <2>3 DEF Stuck
<1>. QED BY <1>2, <1>3

\* What a closing peer cuts off has not been received.
LEMMA PeerClosesStream ==
    ASSUME TypeOK, CursorOrder, TypeOK', CursorOrder', StreamInv, Intact, PeerCloses
    PROVE  /\ StreamInv' /\ Passed' = Passed
           /\ \A r \in Replies(call.op) : \A m \in 0 .. Len(sent) :
                  Answered(r, m) => m \in 0 .. Len(sent') /\ Answered(r, m)'
<1>1. /\ sock = "up" /\ sock' = "closed" /\ toServer' = <<>>
      /\ UNCHANGED <<pc, call, head, from, m_writer, m_reader, prv, falseReset, rcvd>>
      BY DEF PeerCloses, callVars, objVars
<1>2. PICK k \in rcvd .. Len(sent) : sent' = SubSeq(sent, 1, k)
      BY DEF PeerCloses
<1>3. rcvd \in Nat /\ Len(sent) \in Nat /\ sent \in Seq(Units) /\ k \in Nat
      BY <1>2, TypedStream DEF TypeOK
<1>4. Len(sent') = k /\ \A i \in 1 .. k : sent'[i] = sent[i]
  <2>1. /\ Len(SubSeq(sent, 1, k)) = IF 1 <= k THEN k - 1 + 1 ELSE 0
        /\ \A i \in 1 .. k - 1 + 1 : SubSeq(sent, 1, k)[i] = sent[1 + i - 1]
    <3>1. sent \in Seq(Units) /\ 1 \in Nat \ {0} /\ k \in Int /\ k <= Len(sent)
          BY <1>2, <1>3
    <3>. QED BY <3>1, Stretch
  <2>2. /\ (IF 1 <= k THEN k - 1 + 1 ELSE 0) = k
        /\ k - 1 + 1 = k /\ \A i \in 1 .. k : 1 + i - 1 = i
        BY <1>3
  <2>. QED BY <1>2, <2>1, <2>2
<1>5. Passed' = Passed /\ Passed \in Int /\ Passed = rcvd - Unread(m_reader)
      /\ Unread(m_reader) \in Nat
      BY <1>1, TypedStream, TypedReader DEF Passed
<1>6. Aligned'
  <2>1. rcvd <= k /\ 0 <= Passed
        BY <1>2, <1>3 DEF StreamInv, InStep, Aligned
  <2>2. ASSUME NEW i \in 1 .. Unread(m_reader)
        PROVE  m_reader.mem[m_reader.readCursor + i] = sent'[Passed + i]
    <3> DEFINE j == Passed + i
    <3>1. m_reader.mem[m_reader.readCursor + i] = sent[j]
          BY DEF StreamInv, InStep, Aligned
    <3>2. j \in 1 .. k
          BY <1>3, <1>5, <2>1
    <3> HIDE DEF j
    <3>3. sent'[j] = sent[j]
          BY <1>4, <3>2
    <3>. QED BY <3>1, <3>3 DEF j
  <2>. QED BY <1>1, <1>4, <1>5, <2>1, <2>2 DEF Aligned
<1>7. InStep'
  <2>1. Len(toServer') = 0
        BY <1>1, EmptySeq
  <2>. QED BY <1>1, <1>6, <2>1 DEF StreamInv, InStep
<1>8. rcvd = Len(sent) => rcvd' = Len(sent')
      BY <1>1, <1>2, <1>3, <1>4
<1>9. HaveLine(m_reader') = HaveLine(m_reader)
      BY <1>1
<1>10. BetweenReplies'
  <2>1. Settled => Settled'
        BY <1>1, <1>8, <1>9 DEF Settled
  <2>. QED BY <1>1, <2>1 DEF StreamInv, BetweenReplies
<1>11. ASSUME NEW r, NEW m \in 0 .. Len(sent), Answered(r, m), r \in Replies(call.op)
       PROVE  m \in 0 .. Len(sent') /\ Answered(r, m)'
  <2>1. m <= Passed /\ Len(sent) <= m + Len(r.toks) /\ Len(r.toks) \in Nat
        BY <1>11, ReplyToCall DEF Answered
  <2>2. m \in 0 .. Len(sent') /\ Len(sent') <= m + Len(r.toks)
        BY <1>2, <1>3, <1>4, <1>5, <2>1
  <2>3. ASSUME NEW j \in m + 1 .. Len(sent')
        PROVE  sent'[j] = [call |-> call.id, tok |-> r.toks[j - m]]
    <3>1. j \in 1 .. k /\ j \in m + 1 .. Len(sent)
          BY <1>2, <1>3, <1>4
    <3>2. \A i \in m + 1 .. Len(sent) : sent[i] = [call |-> call.id, tok |-> r.toks[i - m]]
          BY <1>11 DEF Answered
    <3>3. sent[j] = [call |-> call.id, tok |-> r.toks[j - m]]
          BY <3>1, <3>2, Zenon
    <3>. QED BY <1>4, <3>1, <3>3
  <2>. QED BY <1>1, <1>5, <2>1, <2>2, <2>3 DEF Answered
<1>12. ReadingLine'
  <2>1. Stuck => Stuck'
        BY ClosedIsStuck
  <2>2. Waiting => Stuck'
        BY ClosedIsStuck
  <2>3. ASSUME NEW r \in Replies(call.op), NEW m \in 0 .. Len(sent), AtLine(r, m)
        PROVE  m \in 0 .. Len(sent') /\ AtLine(r, m)'
        BY <1>5, <1>11, <2>3 DEF AtLine
  <2>4. ASSUME pc = "line" PROVE Stuck' \/ \E r \in Replies(call.op), m \in 0 .. Len(sent') : AtLine(r, m)'
        BY <2>1, <2>2, <2>3, <2>4 DEF StreamInv, ReadingLine
  <2>. QED BY <1>1, <2>4 DEF ReadingLine
<1>13. ReadingData'
  <2>1. ASSUME pc = "data"
        PROVE  /\ call.op \in {"get", "multi"}
               /\ \E r \in Replies(call.op), m \in 0 .. Len(sent') : AtData(r, m)'
    <3>1. PICK r \in Replies(call.op), m \in 0 .. Len(sent) :
              call.op \in {"get", "multi"} /\ AtData(r, m)
          BY <2>1 DEF StreamInv, ReadingData
    <3>2. m \in 0 .. Len(sent') /\ Answered(r, m)'
          BY <1>11, <3>1 DEF AtData
    <3>. QED BY <1>1, <1>5, <3>1, <3>2 DEF AtData
  <2>. QED BY <1>1, <2>1 DEF ReadingData
<1>14. StreamInv'
       BY <1>1, <1>7, <1>10, <1>12, <1>13 DEF StreamInv, WriterReady, Rewound, Intact
<1>. QED BY <1>5, <1>11, <1>14

\* A client that is in step sends nothing the server could not read.
LEMMA NothingGarbled ==
    ASSUME TypeOK, StreamInv, Intact
    PROVE  ~ServeGarbled
<1>. SUFFICES ASSUME ServeGarbled PROVE FALSE
     OBVIOUS
<1>1. Len(toServer) \in Nat \ {0} /\ Request1 = toServer[1]
      BY EmptySeq DEF ServeGarbled, Request1, TypeOK
<1>2. toServer[1].clean
      BY <1>1 DEF StreamInv, InStep
<1>. QED BY <1>1, <1>2 DEF ServeGarbled

LEMMA ServerStream ==
    ASSUME TypeOK, CursorOrder, TypeOK', CursorOrder', StreamInv, Serve \/ PeerCloses
    PROVE  StreamInv'
<1>1. UNCHANGED <<call, prv, falseReset>>
      BY DEF Serve, ServeQuietly, ServeReply, ServeGarbled, PeerCloses, callVars, objVars
<1>2. CASE ~Intact
      BY <1>1, <1>2 DEF StreamInv, Intact
<1>3. CASE Intact
  <2>. QED BY <1>3, NothingGarbled, ServeQuietlyStream, ServeReplyStream, PeerClosesStream
           DEF Serve
<1>. QED BY <1>2, <1>3

-----------------------------------------------------------------------------
LEMMA InitStream == Init => StreamInv
<1>. SUFFICES ASSUME Init PROVE StreamInv
     OBVIOUS
<1>1. /\ m_reader = NewReader /\ Unread(m_reader) = 0 /\ ~HaveLine(m_reader)
      /\ rcvd = 0 /\ Len(sent) = 0 /\ Len(toServer) = 0
      BY FreshUnread, EmptySeq DEF Init
<1>2. Passed = 0
      BY <1>1 DEF Passed
<1>3. InStep
      BY <1>1, <1>2 DEF Init, InStep, Aligned
<1>4. Settled
      BY <1>1 DEF Settled, AsyncFrom
<1>. QED BY <1>3, <1>4
         DEF Init, StreamInv, WriterReady, BetweenReplies, ReadingLine, ReadingData, Rewound

LEMMA StutterStream == StreamInv /\ UNCHANGED vars => StreamInv'
<1>. SUFFICES ASSUME StreamInv, UNCHANGED vars PROVE StreamInv'
     OBVIOUS
<1>1. UNCHANGED <<pc, call, head, from, m_writer, m_reader, prv, falseReset,
                  sock, toServer, sent, rcvd>>
      BY DEF vars
<1>2. Aligned' = Aligned /\ Settled' = Settled /\ HaveLine(m_reader') = HaveLine(m_reader)
      BY <1>1, QuietStream
<1>3. Passed' = Passed
      BY <1>1 DEF Passed
<1>4. OwnRequest' = OwnRequest
      BY <1>1 DEF OwnRequest
<1>5. ReadingLine => ReadingLine'
      BY <1>1, <1>2, <1>3, <1>4
      DEF ReadingLine, Stuck, Waiting, AsyncFrom, AtLine, Answered
<1>6. ReadingData => ReadingData'
      BY <1>1, <1>3 DEF ReadingData, AtData, Answered
<1>. QED BY <1>1, <1>2, <1>4, <1>5, <1>6
         DEF StreamInv, Intact, InStep, WriterReady, BetweenReplies, Rewound

(***************************************************************************)
(* A client whose calls are given what they expect stays in step with its  *)
(* server, whatever fails.  Without the assumption it does not: what       *)
(* get_multi leaves in the send buffer garbles the next request.           *)
(***************************************************************************)
THEOREM StaysInStep == ASSUME ~BadKeys PROVE Spec => []StreamInv
<1>1. TypeOK /\ CursorOrder /\ StreamInv /\ [Next]_vars => StreamInv'
  <2>. SUFFICES ASSUME TypeOK, CursorOrder, StreamInv, [Next]_vars PROVE StreamInv'
       OBVIOUS
  <2>1. TypeOK' /\ CursorOrder'
        BY StepTypes
  <2>2. CASE UNCHANGED vars
        BY <2>2, StutterStream
  <2>. QED BY <2>1, <2>2, SocketStream, BeginStream, SendStream, RecvStream, ParseStream,
              ServerStream DEF Next
<1>. QED BY <1>1, InitStream, TypeCorrect, CursorsOrdered, PTL DEF Spec

\* No call ever consumes a byte of the reply to another one: not of one that
\* timed out, nor of one that gave up in the middle of its reply.
THEOREM OwnReplyOnly == ASSUME ~BadKeys PROVE Spec => []OwnReply
<1>1. StreamInv => OwnReply
      BY DEF StreamInv, InStep, OwnReply
<1>. QED BY <1>1, StaysInStep, PTL

\* Whenever a connected client runs no call, both its buffers are empty and no
\* reply is on its way to it.
THEOREM DrainedBetweenCalls == ASSUME ~BadKeys PROVE Spec => []Drained
<1>1. StreamInv => Drained
  <2>. SUFFICES ASSUME StreamInv, pc = "idle", Intact, prv, sock = "up"
                PROVE  /\ m_writer = NewWriter
                       /\ rcvd = Len(sent) /\ Unread(m_reader) = 0
                       /\ \A i \in 1 .. Len(toServer) : toServer[i].async
       BY DEF Drained
  <2>1. Settled
        BY DEF StreamInv, BetweenReplies
  <2>2. m_writer = NewWriter
        BY DEF StreamInv, WriterReady
  <2>. QED BY <2>1, <2>2 DEF Settled, AsyncFrom
<1>. QED BY <1>1, StaysInStep, PTL

\* A reply that has been consumed leaves the receive buffer rewound, so that
\* no mix of calls makes it fill up over time.
THEOREM RewoundAfterReply == ASSUME ~BadKeys PROVE Spec => []Rewound
<1>1. StreamInv => Rewound
      BY DEF StreamInv, Rewound
<1>. QED BY <1>1, StaysInStep, PTL
=============================================================================
