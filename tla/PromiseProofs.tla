---------------------------- MODULE PromiseProofs ----------------------------
(***************************************************************************)
(* What a client promises as long as its receive buffer has room: replies  *)
(* fit in it, no reset is made up, and the client implements RemoteCall.   *)
(***************************************************************************)
EXTENDS ClientRefinement, AnswerProofs

-----------------------------------------------------------------------------
(***************************************************************************)
(* How much the buffer may hold.                                           *)
(***************************************************************************)
LEMMA Product ==
    ASSUME NEW n \in Nat, NEW c \in Nat
    PROVE  /\ n * c \in Nat
           /\ n * (c + 1) = n * c + n
<1>1. n * c >= 0
      OBVIOUS
<1>. QED BY <1>1

LEMMA ProductGrows ==
    ASSUME NEW n \in Nat, NEW c \in Nat, NEW d \in Nat, c <= d
    PROVE  n * c <= n * d
<1>1. PICK e \in Nat : d = c + e
  <2>1. d - c \in Nat /\ d = c + (d - c)
        OBVIOUS
  <2>. QED BY <2>1
<1>2. n * d = n * c + n * e
      BY <1>1
<1>3. n * e \in Nat /\ n * c \in Nat
      BY Product
<1>. QED BY <1>2, <1>3

\* While a call runs, what is allowed fits, and its end allows no less when
\* it is stats() or reads nothing.
LEMMA AllowedFits ==
    ASSUME NEW stats \in Nat, NEW largest \in Nat, Room(stats, largest), TypeOK,
           RoomInv(stats, largest), pc # "idle"
    PROVE  /\ Allowed(stats, largest) \in Nat /\ Allowed(stats, largest) < RCap
           /\ ~Reading => Allowed(stats, largest) = stats * (call.id - 1)
           /\ ~Reading \/ call.op = "stats" => Allowed(stats, largest) <= stats * call.id
           /\ Reading => Allowed(stats, largest) = stats * (call.id - 1) + OfReply(stats, largest)
           /\ OfReply(stats, largest) = IF call.op = "stats" THEN stats ELSE largest
<1>1. PICK c \in Nat : call.id = c + 1 /\ c <= MaxCalls - 1
  <2>1. call.id \in 1 .. MaxCalls
        BY DEF RoomInv
  <2>2. call.id - 1 \in Nat /\ call.id = (call.id - 1) + 1 /\ call.id - 1 <= MaxCalls - 1
        BY <2>1, ClientAssumption
  <2>. QED BY <2>2
<1>2. stats * c \in Nat /\ stats * (c + 1) = stats * c + stats
      BY Product
<1>3. call.id - 1 = c
      BY <1>1
<1>4. stats * c <= stats * (MaxCalls - 1)
  <2>1. MaxCalls - 1 \in Nat
        BY <1>1, ClientAssumption
  <2>. QED BY <1>1, <2>1, ProductGrows
<1>5. stats <= largest /\ stats * (MaxCalls - 1) + largest < RCap
      BY DEF Room
<1>6. stats * c + largest < RCap
  <2>1. stats * (MaxCalls - 1) \in Nat
    <3>1. MaxCalls - 1 \in Nat
          BY <1>1, ClientAssumption
    <3>. QED BY <3>1, Product
  <2>. QED BY <1>2, <1>4, <1>5, <2>1, ClientAssumption
<1> DEFINE more == IF Reading THEN OfReply(stats, largest) ELSE 0
<1>7. /\ ~Reading => more = 0
      /\ Reading => more = OfReply(stats, largest)
      /\ OfReply(stats, largest) = IF call.op = "stats" THEN stats ELSE largest
      BY DEF OfReply
<1>8. Allowed(stats, largest) = stats * (call.id - 1) + more
      BY DEF Allowed
<1> HIDE DEF more
<1>9. Allowed(stats, largest) = stats * c + more /\ more \in 0 .. largest
      BY <1>3, <1>5, <1>7, <1>8
<1>10. stats * call.id = stats * c + stats
       BY <1>1, <1>2
<1>. QED BY <1>2, <1>3, <1>5, <1>6, <1>7, <1>9, <1>10, ClientAssumption

\* What the buffer holds is no more than its load.
LEMMA LoadType ==
    ASSUME TypeOK
    PROVE  /\ WriteCursor(m_reader) \in Nat /\ rcvd \in Nat /\ Len(sent) \in Nat
           /\ Load \in Int /\ Load = WriteCursor(m_reader) + (Len(sent) - rcvd)
           /\ call.id \in Nat
<1>1. Len(m_reader.mem) \in Nat /\ Len(sent) \in Nat
      BY LenProperties DEF TypeOK
<1>. QED BY <1>1 DEF TypeOK, WriteCursor, Load

LEMMA SkipShrinks ==
    ASSUME NEW r \in Reader, NEW p
    PROVE  /\ WriteCursor(Skip(SetEndPtr(r, p))) \in Nat
           /\ WriteCursor(Skip(SetEndPtr(r, p))) <= WriteCursor(r)
<1> DEFINE q == SetEndPtr(r, p)
<1>1. Len(r.mem) \in Nat /\ q.mem = r.mem
      BY LenProperties DEF Reader, SetEndPtr
<1>2. Skip(q).mem = <<>> \/ Skip(q).mem = q.mem
      BY DEF Skip, NewReader, Reader, SetEndPtr
<1> HIDE DEF q
<1>3. WriteCursor(Skip(q)) \in Nat /\ WriteCursor(Skip(q)) <= WriteCursor(r)
      BY <1>1, <1>2 DEF WriteCursor
<1>. QED BY <1>3 DEF q

\* A client that has a connection is in step.
LEMMA ConnectedInStep ==
    ASSUME NEW stats, NEW largest, StreamInv, RoomInv(stats, largest), prv
    PROVE  Intact
BY DEF StreamInv, RoomInv, Intact

-----------------------------------------------------------------------------
(***************************************************************************)
(* Calls leave the buffer as they find it, until they read.                *)
(***************************************************************************)
LEMMA SocketRoom ==
    ASSUME NEW stats \in Nat, NEW largest \in Nat, TypeOK, RoomInv(stats, largest), Socket
    PROVE  RoomInv(stats, largest)'
<1>1. /\ pc = "idle" /\ pc' = "idle" /\ UNCHANGED <<call, falseReset, sent, rcvd>>
      /\ m_reader' = NewReader \/ m_reader' = m_reader
      /\ prv' => prv /\ (sock' = sock \/ sock = "new")
      BY DEF Socket, Connect, ConnectFails, ConnectRefused, Disconnect, ConnectBegins,
             objVars, netVars
<1>2. WriteCursor(m_reader') \in Nat /\ WriteCursor(m_reader') <= WriteCursor(m_reader)
      BY <1>1, LoadType DEF WriteCursor, NewReader
<1>3. WriteCursor(m_reader') < RCap
      BY <1>2, LoadType, ClientAssumption DEF RoomInv
<1>4. MayReceive' => MayReceive
      BY <1>1 DEF MayReceive
<1>5. Load' <= Load
      BY <1>1, <1>2, LoadType DEF Load
<1>6. Load' \in Int
      BY <1>1, <1>2, LoadType DEF Load
<1>7. Allowed(stats, largest)' = Allowed(stats, largest) /\ Allowed(stats, largest) \in Nat
  <2>1. Allowed(stats, largest) = stats * call.id /\ Allowed(stats, largest)' = stats * call.id
        BY <1>1 DEF Allowed
  <2>. QED BY <2>1, Product, LoadType
<1>8. MayReceive' => Load' <= Allowed(stats, largest)'
      BY <1>4, <1>5, <1>6, <1>7, LoadType DEF RoomInv
<1>. QED BY <1>1, <1>3, <1>8 DEF RoomInv

LEMMA BeginRoom ==
    ASSUME NEW stats \in Nat, NEW largest \in Nat, ~BadKeys, TypeOK, RoomInv(stats, largest), Begin
    PROVE  RoomInv(stats, largest)'
<1>1. /\ pc = "idle" /\ pc' \in {"idle", "send"} /\ call.id < MaxCalls
      /\ call'.id = call.id + 1
      /\ UNCHANGED <<m_reader, prv, falseReset, sock, sent, rcvd>>
  <2>1. \/ \E op, async, n : Request(op, async, n)
        \/ \E n, async : CommandTooLarge(n, async)
        BY Zenon DEF Begin, Command, Cas, Delete, Incr, Decr, FlushAll, Version, Stats, Get, GetMulti,
               GetMultiBadKeys
  <2>2. \E op, async : NextCall(op, async)
        BY <2>1, Zenon DEF Request, CommandTooLarge
  <2>3. pc' \in {"idle", "send"} /\ UNCHANGED <<m_reader, prv, falseReset, sock, sent, rcvd>>
    <3>1. CASE \E op, async, n : Request(op, async, n)
          BY <3>1 DEF Request, netVars
    <3>2. CASE \E n, async : CommandTooLarge(n, async)
          BY <3>2, <2>2 DEF CommandTooLarge, NextCall, objVars, netVars
    <3>. QED BY <2>1, <3>1, <3>2
  <2>. QED BY <2>2, <2>3 DEF NextCall
<1>2. Load' = Load /\ MayReceive' = MayReceive
      BY <1>1 DEF Load, MayReceive
<1>3. /\ stats * call.id \in Nat
      /\ stats * (call.id + 1) = stats * call.id + stats
      BY Product, LoadType
<1>4. Allowed(stats, largest) = stats * call.id
      BY <1>1 DEF Allowed
<1>5. Allowed(stats, largest)' \in Nat /\ Allowed(stats, largest) <= Allowed(stats, largest)'
  <2>1. CASE pc' = "idle"
    <3>1. Allowed(stats, largest)' = stats * (call.id + 1)
          BY <1>1, <2>1 DEF Allowed
    <3>. QED BY <1>3, <1>4, <3>1
  <2>2. CASE pc' = "send"
    <3>1. ~Reading'
          BY <2>2 DEF Reading
    <3>2. call'.id - 1 = call.id
          BY <1>1, LoadType
    <3>3. Allowed(stats, largest)' = stats * call.id + 0
          BY <2>2, <3>1, <3>2 DEF Allowed
    <3>. QED BY <1>3, <1>4, <3>3
  <2>. QED BY <1>1, <2>1, <2>2
<1>6. MayReceive' => Load' <= Allowed(stats, largest)'
      BY <1>2, <1>3, <1>4, <1>5, LoadType DEF RoomInv
<1>7. call'.id \in 1 .. MaxCalls
      BY <1>1, LoadType, ClientAssumption
<1>. QED BY <1>1, <1>6, <1>7, ClientAssumption DEF RoomInv

LEMMA SendRoom ==
    ASSUME NEW stats \in Nat, NEW largest \in Nat, Room(stats, largest),
           TypeOK, StreamInv, StreamInv', RoomInv(stats, largest), Send
    PROVE  RoomInv(stats, largest)'
<1>1. /\ pc = "send" /\ pc' \in {"send", "idle", "line"}
      /\ UNCHANGED <<call, m_reader, falseReset, sock, sent, rcvd>>
      /\ prv' => prv
      /\ pc' = "line" => sock # "new" \/ ~prv'
      BY DEF Send, SendPart, SendRest, SendRaises, SendZero, SendFailed, Finish, callVars,
             objVars, netVars
<1>2. Load' = Load /\ (MayReceive' => MayReceive)
      BY <1>1 DEF Load, MayReceive
<1>3. ~Reading
      BY <1>1 DEF Reading
<1>4. /\ Allowed(stats, largest) = stats * (call.id - 1)
      /\ Allowed(stats, largest) \in Nat
      /\ Allowed(stats, largest) <= stats * call.id
      BY <1>1, <1>3, AllowedFits
<1>5. ASSUME prv' PROVE Load' <= Allowed(stats, largest)' \/ ~MayReceive'
  <2>1. CASE pc' = "idle"
    <3>1. Allowed(stats, largest)' = stats * call.id /\ stats * call.id \in Nat
          BY <1>1, <2>1, Product, LoadType DEF Allowed
    <3>. QED BY <1>2, <1>4, <3>1, LoadType DEF RoomInv
  <2>2. CASE pc' # "idle"
    <3>1. ~Reading'
      <4>1. CASE pc' = "line"
            BY <1>1, <1>5, <4>1, ConnectedInStep, NothingToReadYet DEF Reading
      <4>2. CASE pc' = "send"
            BY <4>2 DEF Reading
      <4>. QED BY <1>1, <2>2, <4>1, <4>2
    <3>2. Allowed(stats, largest)' = stats * (call.id - 1) + 0
          BY <1>1, <2>2, <3>1 DEF Allowed
    <3>. QED BY <1>2, <1>4, <3>2, LoadType DEF RoomInv
  <2>. QED BY <2>1, <2>2
<1>6. call'.id \in 1 .. MaxCalls
      BY <1>1 DEF RoomInv
<1>. QED BY <1>1, <1>5, <1>6, ClientAssumption DEF RoomInv, MayReceive

-----------------------------------------------------------------------------
(***************************************************************************)
(* Receiving moves a part of the load into the buffer.                     *)
(***************************************************************************)
\* A call that is in step and has something to read is reading its reply.
LEMMA ReadsOn ==
    ASSUME NEW stats, NEW largest, TypeOK, StreamInv, RoomInv(stats, largest), prv,
           pc \in {"line", "data"}, Reading
    PROVE  toServer = <<>>
<1>1. Intact
      BY ConnectedInStep
<1>2. CASE pc = "line"
  <2>1. \E r \in Replies(call.op), m \in 0 .. Len(sent) : AtLine(r, m)
        BY <1>1, <1>2 DEF StreamInv, ReadingLine, Reading
  <2>. QED BY <2>1 DEF AtLine, Answered
<1>3. CASE pc = "data"
      BY <1>1, <1>3 DEF StreamInv, ReadingData, AtData, Answered
<1>. QED BY <1>2, <1>3

\* While nothing can be received, nothing is asked of the room that is left.
LEMMA NothingMore ==
    ASSUME NEW stats, NEW largest, RoomInv(stats, largest), ~MayReceive', ~falseReset',
           UNCHANGED call, pc # "idle", prv' => prv, UNCHANGED sock,
           pc' = pc \/ pc' = "idle",
           WriteCursor(m_reader') = WriteCursor(m_reader)
    PROVE  RoomInv(stats, largest)'
<1>1. call'.id \in (IF pc' = "idle" THEN 0 ELSE 1) .. MaxCalls
  <2>1. call.id \in 1 .. MaxCalls
        BY DEF RoomInv
  <2>. QED BY <2>1, ClientAssumption
<1>. QED BY <1>1 DEF RoomInv

LEMMA ReceiveRoom ==
    ASSUME NEW stats \in Nat, NEW largest \in Nat, Room(stats, largest), TypeOK, TypeOK',
           StreamInv, StreamInv', RoomInv(stats, largest), RecvLine \/ RecvData
    PROVE  RoomInv(stats, largest)'
<1>1. /\ pc \in {"line", "data"} /\ prv
      /\ UNCHANGED <<pc, call, prv, falseReset, sock, toServer, sent>>
      BY DEF RecvLine, RecvData, callVars
<1>2. PICK k \in 1 .. Len(sent) :
          rcvd' = rcvd + k /\ rcvd + k <= Len(sent)
          /\ m_reader'.mem = m_reader.mem \o SubSeq(sent, rcvd + 1, rcvd + k)
  <2>1. PICK k \in 1 .. Len(sent) :
            rcvd + k <= Len(sent) /\ (Receive(ScanLine(m_reader), k) \/ Receive(m_reader, k))
        BY DEF RecvLine, RecvData, AtMost
  <2>2. PICK q : (q = ScanLine(m_reader) \/ q = m_reader) /\ Receive(q, k)
        BY <2>1
  <2>3. q.mem = m_reader.mem /\ q \in Reader
    <3>1. m_reader \in Reader
          BY DEF TypeOK, Reader
    <3>2. ScanLine(m_reader).mem = m_reader.mem /\ ScanLine(m_reader) \in Reader
      <4>1. CASE ~HaveLine(m_reader)
            BY <3>1, <4>1, NoLineFound DEF Reader
      <4>2. CASE HaveLine(m_reader)
            BY <3>1, <4>2, LineFound DEF Reader
      <4>. QED BY <4>1, <4>2
    <3>. QED BY <2>2, <3>1, <3>2
  <2>4. m_reader'.mem = q.mem \o SubSeq(sent, rcvd + 1, rcvd + k) /\ rcvd' = rcvd + k
        BY <2>2, <2>3 DEF Receive, Push, Reader
  <2>. QED BY <2>1, <2>3, <2>4
<1>3. k \in Nat \ {0} /\ rcvd \in Nat /\ Len(sent) \in Nat /\ rcvd # Len(sent)
      BY <1>2, LoadType
<1>4. MayReceive
      BY <1>1, <1>3 DEF MayReceive
<1>5. Reading
      BY <1>1, <1>3 DEF Reading, Stuck, Waiting
<1>6. WriteCursor(m_reader') = WriteCursor(m_reader) + k
  <2> DEFINE us == SubSeq(sent, rcvd + 1, rcvd + k)
  <2>1. us \in Seq(Units) /\ Len(us) = k
    <3>1. sent \in Seq(Units) /\ rcvd + 1 \in Nat \ {0} /\ rcvd + k \in Int
          BY <1>3 DEF TypeOK
    <3>2. /\ us \in Seq(Units)
          /\ Len(us) = IF rcvd + 1 <= rcvd + k THEN (rcvd + k) - (rcvd + 1) + 1 ELSE 0
          BY <1>2, <3>1, Stretch
    <3> HIDE DEF us
    <3>3. (rcvd + k) - (rcvd + 1) + 1 = k /\ rcvd + 1 <= rcvd + k
          BY <1>3
    <3>. QED BY <3>2, <3>3
  <2> HIDE DEF us
  <2>2. m_reader.mem \in Seq(Units) /\ m_reader'.mem = m_reader.mem \o us
        BY <1>2 DEF TypeOK, us
  <2>. QED BY <2>1, <2>2, ConcatProperties DEF WriteCursor
<1>7. Load' = Load
      BY <1>1, <1>2, <1>3, <1>6, LoadType DEF Load
<1>8. toServer' = <<>>
      BY <1>1, <1>5, ReadsOn
<1>9. MayReceive' => Reading'
      BY <1>1, <1>8 DEF MayReceive, Reading, Stuck, Waiting
<1>10. MayReceive' => Allowed(stats, largest)' = Allowed(stats, largest)
       BY <1>1, <1>5, <1>9 DEF Allowed, OfReply
<1>11. /\ Load <= Allowed(stats, largest)
       /\ Allowed(stats, largest) \in Nat /\ Allowed(stats, largest) < RCap
       BY <1>1, <1>4, AllowedFits DEF RoomInv
<1>12. WriteCursor(m_reader') < RCap
       BY <1>2, <1>3, <1>6, <1>11, LoadType, ClientAssumption
<1>. QED BY <1>1, <1>7, <1>10, <1>11, <1>12 DEF RoomInv

LEMMA RecvRoom ==
    ASSUME NEW stats \in Nat, NEW largest \in Nat, Room(stats, largest), TypeOK, TypeOK',
           StreamInv, StreamInv', RoomInv(stats, largest), Recv
    PROVE  RoomInv(stats, largest)'
<1>0. m_reader \in Reader
      BY DEF TypeOK, Reader
<1>1. CASE RecvLine \/ RecvData
      BY <1>1, ReceiveRoom
<1>2. ASSUME ~HaveLine(m_reader)
      PROVE  WriteCursor(ScanLine(m_reader)) = WriteCursor(m_reader)
      BY <1>0, <1>2, NoLineFound DEF Reader, WriteCursor
<1>3. CASE RecvLineEmpty
  <2>1. LineSpace # 0
    <3>1. RCap - WriteCursor(m_reader) # 0 /\ RecvMax # 0
          BY LoadType, ClientAssumption DEF RoomInv
    <3>. QED BY <3>1 DEF LineSpace
  <2>2. /\ pc = "line" /\ pc' = "idle" /\ prv /\ sock = "closed" /\ rcvd = Len(sent)
        /\ m_reader' = ScanLine(m_reader) /\ ~HaveLine(m_reader)
        /\ UNCHANGED <<call, prv, sock, sent, rcvd>>
        BY <1>3, <2>1 DEF RecvLineEmpty, ReadLineFailed, Finish, netVars
  <2>3. falseReset' = falseReset
        BY <1>3, <2>1 DEF RecvLineEmpty, TypeOK
  <2>4. ~MayReceive'
        BY <2>2 DEF MayReceive
  <2>. QED BY <1>2, <2>2, <2>3, <2>4, NothingMore DEF RoomInv, WriteCursor
<1>4. CASE RecvLineRaises \/ RecvDataFails
  <2>1. /\ pc \in {"line", "data"} /\ pc' = "idle" /\ ~prv'
        /\ WriteCursor(m_reader') = WriteCursor(m_reader)
        /\ UNCHANGED <<call, falseReset, sock>>
    <3>1. CASE RecvLineRaises
          BY <1>2, <3>1 DEF RecvLineRaises, ReadLineFailed, Finish, netVars, WriteCursor
    <3>2. CASE RecvDataFails
          BY <3>2 DEF RecvDataFails, Finish, netVars
    <3>. QED BY <1>4, <3>1, <3>2
  <2>2. ~MayReceive'
        BY <2>1 DEF MayReceive
  <2>. QED BY <2>1, <2>2, NothingMore DEF RoomInv
<1>. QED BY <1>1, <1>3, <1>4 DEF Recv

-----------------------------------------------------------------------------
(***************************************************************************)
(* Reading takes from the buffer, and a reply that was read to its end     *)
(* leaves it empty, unless it is one to stats().                           *)
(***************************************************************************)
LEMMA ParseShrinks ==
    ASSUME TypeOK, Parse
    PROVE  /\ WriteCursor(m_reader') \in Nat
           /\ WriteCursor(m_reader') <= WriteCursor(m_reader)
<1>1. m_reader \in Reader
      BY DEF TypeOK, Reader
<1>2. Line.mem = m_reader.mem
  <2>1. CASE HaveLine(m_reader)
        BY <1>1, <2>1, LineFound DEF Line
  <2>2. CASE ~HaveLine(m_reader)
        BY <1>1, <2>2, NoLineFound DEF Line, Reader
  <2>. QED BY <2>1, <2>2
<1>3. \/ \E p : m_reader' = Skip(SetEndPtr(m_reader, p))
      \/ m_reader'.mem = m_reader.mem
  <2>1. CASE TakeLine(Skip(Line))
        BY <2>1 DEF TakeLine, Line, ScanLine
  <2>2. CASE DataComplete
        BY <2>2 DEF DataComplete
  <2>3. Line \in Reader
    <3>1. CASE HaveLine(m_reader)
          BY <1>1, <3>1, LineFound DEF Line
    <3>2. CASE ~HaveLine(m_reader)
          BY <1>1, <3>2, NoLineFound DEF Line
    <3>. QED BY <3>1, <3>2
  <2>4. CASE TakeLine(ReadToEnd(Line))
        BY <1>2, <2>3, <2>4 DEF TakeLine, ReadToEnd, Reader
  <2>5. CASE m_reader' = Line
        BY <1>2, <2>5
  <2>6. CASE BrokenValueLine
        BY <1>2, <2>3, <2>6 DEF BrokenValueLine, ReadToEnd, Reader
  <2>7. \/ TakeLine(Skip(Line)) \/ DataComplete \/ TakeLine(ReadToEnd(Line))
        \/ m_reader' = Line \/ BrokenValueLine
        BY DEF Parse, ErrorLine, ResultLine, VersionLine, ForeignVersionLine, StatLine, StatsEnd,
               ForeignStatsLine, GetEnd, MalformedLine, ValueLine
  <2>. QED BY <2>1, <2>2, <2>4, <2>5, <2>6, <2>7
<1>4. CASE \E p : m_reader' = Skip(SetEndPtr(m_reader, p))
      BY <1>1, <1>4, SkipShrinks
<1>5. CASE m_reader'.mem = m_reader.mem
      BY <1>5, LoadType DEF WriteCursor
<1>. QED BY <1>3, <1>4, <1>5

\* Whatever line ends a call that is in step, the call has consumed some of it.
LEMMA EndConsumes ==
    ASSUME TypeOK, CursorOrder, StreamInv, Intact, Parse, pc' = "idle"
    PROVE  from' # {}
<1>1. pc = "line" /\ HaveLine(m_reader)
      BY DEF Parse, ErrorLine, ResultLine, VersionLine, ForeignVersionLine, StatLine, StatsEnd,
             ForeignStatsLine, GetEnd, MalformedLine, BrokenValueLine, ValueLine, LineOf,
             DataComplete
<1>2. m_reader \in Reader
      BY DEF TypeOK, Reader
<1>3. Line.packetEnd \in Line.readCursor + 1 .. Len(m_reader.mem) /\ Line.readCursor \in Nat
      BY <1>1, <1>2, LineFound DEF Line, Reader
<1>4. \A last \in Int : last >= Line.readCursor + 1 =>
          (Consumed(Line.readCursor + 1, last) => from' # {})
  <2>. SUFFICES ASSUME NEW last \in Int, last >= Line.readCursor + 1,
                       Consumed(Line.readCursor + 1, last)
                PROVE  from' # {}
       OBVIOUS
  <2>1. Line.readCursor + 1 \in Line.readCursor + 1 .. last
        BY <1>3
  <2>2. m_reader.mem[Line.readCursor + 1].call \in from'
        BY <2>1 DEF Consumed
  <2>. QED BY <2>2
<1>5. ASSUME NEW r, TakeLine(r) PROVE from' # {}
      BY <1>3, <1>4, <1>5 DEF TakeLine
<1>6. CASE BrokenValueLine
      BY <1>3, <1>4, <1>6 DEF BrokenValueLine
<1>7. ~ForeignVersionLine
  <2>1. PICK r \in Replies(call.op), m \in 0 .. Len(sent) : AtLine(r, m)
        BY <1>1, TypedReader, NothingUnread DEF StreamInv, ReadingLine, Stuck, Waiting
  <2>2. PICK p : p = Passed - m + 1
        OBVIOUS
  <2>3. /\ IsError <=> r.toks[p].w = "ERROR"
        /\ BeginsWith(Line, <<"VERSION">>) <=> r.toks[p].w = "VERSION"
        /\ \/ call.op \in {"get", "multi"} /\ r.toks[p].w = "VALUE"
           \/ call.op = "stats" /\ r.toks[p].w = "STAT" /\ p + 2 \in r.starts
           \/ r.toks[p].w \in LastWords(call.op) /\ p + 1 = Len(r.toks)
        BY <1>1, <2>1, <2>2, LineRead DEF StreamInv
  <2>. QED BY <2>3 DEF ForeignVersionLine, LineOf, LastWords
<1>. QED BY <1>1, <1>5, <1>6, <1>7
         DEF Parse, ErrorLine, ResultLine, VersionLine, StatLine, StatsEnd, ForeignStatsLine,
             GetEnd, MalformedLine, ValueLine, DataComplete

LEMMA ParseRoom ==
    ASSUME NEW stats \in Nat, NEW largest \in Nat, Room(stats, largest),
           TypeOK, CursorOrder, TypeOK', StreamInv, StreamInv', RoomInv(stats, largest), Parse
    PROVE  RoomInv(stats, largest)'
<1>1. /\ pc \in {"line", "data"} /\ pc' \in {"idle", "line", "data"}
      /\ UNCHANGED <<call, prv, falseReset, sock, toServer, sent, rcvd>>
      BY DEF Parse, ErrorLine, ResultLine, VersionLine, ForeignVersionLine, StatLine, StatsEnd,
             ForeignStatsLine, GetEnd, MalformedLine, BrokenValueLine, ValueLine, LineOf,
             DataComplete, TakeLine, ReadLineFailed, Finish, netVars
<1>2. /\ WriteCursor(m_reader') \in Nat /\ WriteCursor(m_reader') <= WriteCursor(m_reader)
      /\ WriteCursor(m_reader') < RCap
      BY ParseShrinks, LoadType, ClientAssumption DEF RoomInv
<1>3. Load' <= Load /\ Load' \in Int /\ Load \in Int
      BY <1>1, <1>2, LoadType DEF Load
<1>4. Reading
  <2>1. pc = "data" \/ HaveLine(m_reader)
        BY DEF Parse, ErrorLine, ResultLine, VersionLine, ForeignVersionLine, StatLine, StatsEnd,
               ForeignStatsLine, GetEnd, MalformedLine, BrokenValueLine, ValueLine, LineOf,
               DataComplete
  <2>. QED BY <1>1, <2>1, TypedReader, NothingUnread DEF Reading, Stuck, Waiting
<1>5. ASSUME MayReceive' PROVE Load' <= Allowed(stats, largest)'
  <2>1. prv /\ MayReceive /\ Intact /\ Intact'
        BY <1>1, <1>5, ConnectedInStep DEF MayReceive, Intact
  <2>2. Load <= Allowed(stats, largest) /\ Allowed(stats, largest) \in Nat
        BY <1>1, <2>1, AllowedFits DEF RoomInv
  <2>3. CASE pc' # "idle"
    <3>1. toServer' = <<>>
          BY <1>1, <1>4, <2>1, ReadsOn
    <3>2. Reading'
          BY <1>1, <1>5, <2>3, <3>1 DEF MayReceive, Reading, Stuck, Waiting
    <3>3. Allowed(stats, largest)' = Allowed(stats, largest)
          BY <1>1, <1>4, <2>3, <3>2 DEF Allowed, OfReply
    <3>. QED BY <1>3, <2>2, <3>3
  <2>4. CASE pc' = "idle"
    <3>1. Allowed(stats, largest)' = stats * call.id /\ stats * call.id \in Nat
          BY <1>1, <2>4, Product, LoadType DEF Allowed
    <3>2. CASE call.op = "stats"
          BY <1>1, <1>3, <2>2, <3>1, <3>2, AllowedFits
    <3>3. CASE call.op # "stats"
      <4>1. Settled'
            BY <1>1, <2>1, <2>4 DEF StreamInv, BetweenReplies
      <4>2. sock' = "up" /\ rcvd = Len(sent)
            BY <1>1, <1>5, <2>1, <4>1 DEF Settled, MayReceive, RoomInv, TypeOK
      <4>3. m_reader' = NewReader
            BY <1>1, <2>1, <2>4, <3>3, <4>2, EndConsumes DEF StreamInv, Rewound
      <4>4. Load' = 0
            BY <1>1, <4>2, <4>3, LoadType DEF Load, WriteCursor, NewReader
      <4>. QED BY <3>1, <4>4
    <3>. QED BY <3>2, <3>3
  <2>. QED BY <2>3, <2>4
<1>6. call'.id \in (IF pc' = "idle" THEN 0 ELSE 1) .. MaxCalls
  <2>1. call.id \in 1 .. MaxCalls
        BY <1>1 DEF RoomInv
  <2>. QED BY <1>1, <2>1, ClientAssumption
<1>. QED BY <1>1, <1>2, <1>5, <1>6 DEF RoomInv

-----------------------------------------------------------------------------
(***************************************************************************)
(* The server adds one reply to the load of a call that waits for it, and  *)
(* a peer that closes takes from it.                                       *)
(***************************************************************************)
\* A step of the network that adds nothing to the load, after which the call
\* reads if it did before.
LEMMA NoMoreLoad ==
    ASSUME NEW stats, NEW largest, TypeOK, TypeOK', RoomInv(stats, largest),
           UNCHANGED <<pc, call, m_reader, prv, falseReset, rcvd>>,
           Len(sent') <= Len(sent), MayReceive' => MayReceive,
           sock' = sock \/ sock' = "closed",
           MayReceive' /\ pc # "idle" => Reading' = Reading,
           pc # "idle" => Allowed(stats, largest) \in Nat,
           pc = "idle" => stats * call.id \in Nat
    PROVE  RoomInv(stats, largest)'
<1>1. Load' <= Load /\ Load' \in Int
  <2>1. Len(sent') \in Nat
        BY LenProperties DEF TypeOK
  <2>. QED BY <2>1, LoadType DEF Load
<1>2. ASSUME MayReceive' PROVE Load' <= Allowed(stats, largest)'
  <2>1. Load <= Allowed(stats, largest)
        BY <1>2 DEF RoomInv
  <2>2. Allowed(stats, largest)' = Allowed(stats, largest) /\ Allowed(stats, largest) \in Nat
        BY <1>2 DEF Allowed, OfReply
  <2>. QED BY <1>1, <2>1, <2>2, LoadType
<1>. QED BY <1>2 DEF RoomInv

\* The reply that is sent answers the call that is running.
LEMMA ReplyRoom ==
    ASSUME NEW stats \in Nat, NEW largest \in Nat, Room(stats, largest),
           TypeOK, CursorOrder, TypeOK', CursorOrder', StreamInv, StreamInv',
           RoomInv(stats, largest), ServeReply, prv
    PROVE  RoomInv(stats, largest)'
<1>1. /\ toServer # <<>> /\ sock = "up" /\ ~toServer[1].async
      /\ UNCHANGED <<pc, call, m_reader, prv, falseReset, sock, rcvd>>
      BY DEF ServeReply, Request1, callVars, objVars
<1>2. Intact
      BY ConnectedInStep
<1>3. \A r, m : ~Answered(r, m)
      BY <1>1 DEF Answered
<1>4. pc = "line" /\ Waiting
  <2>1. pc \notin {"idle", "send"}
    <3>1. AsyncFrom(Len(toServer)) => toServer[1].async
      <4>1. Len(toServer) \in Nat \ {0}
            BY <1>1, EmptySeq, LenProperties DEF TypeOK
      <4>. QED BY <4>1 DEF AsyncFrom
    <3>. QED BY <1>1, <1>2, <3>1 DEF StreamInv, BetweenReplies, Settled
  <2>2. pc # "data"
        BY <1>2, <1>3 DEF StreamInv, ReadingData, AtData
  <2>3. pc = "line" => Waiting
        BY <1>1, <1>2, <1>3 DEF StreamInv, ReadingLine, AtLine, Stuck
  <2>. QED BY <2>1, <2>2, <2>3 DEF TypeOK
<1>5. PICK r \in Replies(call.op), m \in 0 .. Len(sent') : AtLine(r, m)' /\ Passed' = m
      BY <1>2, <1>4, ServeReplyStream
<1>6. Len(sent') - rcvd <= Len(r.toks) /\ Len(r.toks) \in Nat /\ Len(sent') \in Nat
  <2>1. Len(sent') <= m + Len(r.toks)
        BY <1>5 DEF AtLine, Answered
  <2>2. m = rcvd
        BY <1>1, <1>4, <1>5, LoadType DEF Passed, Waiting
  <2>3. Len(r.toks) \in Nat
    <3>1. WellFormed(call.op, r)
          BY <1>5, ReplyAssumption DEF TypeOK
    <3>. QED BY <3>1, LenProperties DEF WellFormed
  <2>4. Len(sent') \in Nat
        BY LenProperties DEF TypeOK
  <2>. QED BY <2>1, <2>2, <2>3, <2>4, LoadType
<1>7. Load = WriteCursor(m_reader) /\ Load' = WriteCursor(m_reader) + (Len(sent') - rcvd)
      BY <1>1, <1>4, LoadType DEF Load, Waiting, WriteCursor
<1>8. Reading' /\ ~Reading
  <2>1. toServer' = <<>>
        BY <1>5 DEF AtLine, Answered
  <2>2. ~Stuck' /\ ~Waiting'
        BY <1>1, <2>1 DEF Stuck, Waiting
  <2>. QED BY <1>1, <1>4, <2>2 DEF Reading
<1>9. Len(r.toks) <= OfReply(stats, largest)
      BY <1>5 DEF Room, OfReply, TypeOK
<1>10. Load <= stats * (call.id - 1)
  <2>1. MayReceive
        BY <1>1 DEF MayReceive
  <2>2. Allowed(stats, largest) = stats * (call.id - 1)
        BY <1>4, <1>8, AllowedFits
  <2>. QED BY <2>1, <2>2 DEF RoomInv
<1>11. Allowed(stats, largest)' = stats * (call.id - 1) + OfReply(stats, largest)
       BY <1>1, <1>4, <1>8 DEF Allowed, OfReply
<1>12. stats * (call.id - 1) \in Nat /\ OfReply(stats, largest) \in Nat
  <2>1. call.id - 1 \in Nat
        BY <1>4, LoadType DEF RoomInv
  <2>. QED BY <2>1, Product DEF OfReply
<1>13. Load' <= Allowed(stats, largest)'
  <2>1. PICK base \in Nat : base = stats * (call.id - 1)
        BY <1>12
  <2>2. \A w, b, n, o \in Nat : \A d \in Int : w <= b /\ d <= n /\ n <= o => w + d <= b + o
        OBVIOUS
  <2>3. WriteCursor(m_reader) + (Len(sent') - rcvd) <= base + OfReply(stats, largest)
    <3>1. /\ WriteCursor(m_reader) \in Nat /\ Len(sent') - rcvd \in Int
          /\ WriteCursor(m_reader) <= base
          BY <1>6, <1>7, <1>10, <2>1, LoadType
    <3>. QED BY <1>6, <1>9, <1>12, <2>2, <3>1, Zenon
  <2>. QED BY <1>7, <1>11, <2>1, <2>3
<1>. QED BY <1>1, <1>13 DEF RoomInv, WriteCursor

LEMMA ServerRoom ==
    ASSUME NEW stats \in Nat, NEW largest \in Nat, Room(stats, largest),
           TypeOK, CursorOrder, TypeOK', CursorOrder', StreamInv, StreamInv',
           RoomInv(stats, largest), Serve \/ PeerCloses
    PROVE  RoomInv(stats, largest)'
<1>1. /\ sock = "up" /\ UNCHANGED <<pc, call, m_reader, prv, falseReset, rcvd>>
      /\ sock' = sock \/ sock' = "closed"
      BY DEF Serve, ServeQuietly, ServeReply, ServeGarbled, PeerCloses, callVars, objVars
<1>2. MayReceive' => MayReceive
      BY <1>1 DEF MayReceive
<1>3. /\ pc # "idle" => Allowed(stats, largest) \in Nat
      /\ pc = "idle" => stats * call.id \in Nat
      BY AllowedFits, Product, LoadType
<1>4. CASE ~prv
  <2>1. ~MayReceive'
        BY <1>1, <1>4 DEF MayReceive
  <2>. QED BY <1>1, <1>4, <2>1 DEF RoomInv, WriteCursor
<1>5. CASE prv /\ ServeQuietly
  <2>1. toServer # <<>> /\ UNCHANGED <<pc, call, m_reader, prv, sock, sent, rcvd>>
        BY <1>5 DEF ServeQuietly, callVars, objVars
  <2>2. pc \in {"line", "data"} => ~Reading
        BY <1>5, <2>1, ReadsOn
  <2>3. Stuck => Stuck'
        BY <2>1 DEF Stuck
  <2>4. ~Reading => ~Reading'
        BY <1>5, <2>1, <2>3, QuietlyWaiting DEF Reading
  <2>5. Reading => pc \in {"line", "data"}
        BY DEF Reading
  <2>6. Reading' = Reading
        BY <2>2, <2>4, <2>5 DEF Reading
  <2>7. Len(sent') <= Len(sent)
        BY <2>1, LoadType
  <2>. QED BY <1>1, <1>2, <1>3, <2>6, <2>7, NoMoreLoad
<1>6. CASE prv /\ ServeReply
      BY <1>6, ReplyRoom
<1>7. CASE prv /\ ServeGarbled
      BY <1>7, ConnectedInStep, NothingGarbled
<1>8. CASE prv /\ PeerCloses
  <2>1. Len(sent') <= Len(sent)
    <3>1. PICK k \in rcvd .. Len(sent) : sent' = SubSeq(sent, 1, k)
          BY <1>8 DEF PeerCloses
    <3>2. sent \in Seq(Units) /\ 1 \in Nat \ {0} /\ k \in Int /\ k <= Len(sent) /\ k \in Nat
          BY <3>1, LoadType DEF TypeOK
    <3>3. Len(SubSeq(sent, 1, k)) = IF 1 <= k THEN k - 1 + 1 ELSE 0
          BY <3>2, Stretch
    <3>. QED BY <3>1, <3>2, <3>3, LoadType
  <2>2. sock' = "closed"
        BY <1>8 DEF PeerCloses
  <2>3. ASSUME MayReceive', pc # "idle" PROVE Reading' = Reading
    <3>1. ~Stuck' /\ ~Waiting'
          BY <2>2, <2>3 DEF MayReceive, Stuck, Waiting
    <3>2. ~Stuck /\ ~Waiting
          BY <1>8, <3>1, ClosedIsStuck
    <3>. QED BY <1>1, <3>1, <3>2 DEF Reading
  <2>. QED BY <1>1, <1>2, <1>3, <2>1, <2>3, NoMoreLoad
<1>. QED BY <1>4, <1>5, <1>6, <1>7, <1>8 DEF Serve

(***************************************************************************)
(* With room for the replies there is always some left, over any mix of    *)
(* calls and failures: readLine() never asks for nothing.                  *)
(***************************************************************************)
LEMMA KeepsRoom ==
    ASSUME NEW stats \in Nat, NEW largest \in Nat, Room(stats, largest), ~BadKeys
    PROVE  Spec => [](RoomInv(stats, largest))
<1>1. Init => RoomInv(stats, largest)
  <2>. SUFFICES ASSUME Init PROVE RoomInv(stats, largest)
       OBVIOUS
  <2>1. Load = 0 /\ WriteCursor(m_reader) = 0
    <3>1. Len(<<>>) = 0
          OBVIOUS
    <3>. QED BY <3>1 DEF Init, Load, WriteCursor, NewReader
  <2>2. Allowed(stats, largest) \in Nat
        BY Product DEF Init, Allowed
  <2>. QED BY <2>1, <2>2, ClientAssumption DEF Init, RoomInv
<1>2. /\ TypeOK /\ CursorOrder /\ StreamInv /\ RoomInv(stats, largest) /\ [Next]_vars
      /\ TypeOK' /\ CursorOrder' /\ StreamInv'
      => RoomInv(stats, largest)'
  <2>. SUFFICES ASSUME TypeOK, CursorOrder, StreamInv, RoomInv(stats, largest), [Next]_vars,
                       TypeOK', CursorOrder', StreamInv'
                PROVE  RoomInv(stats, largest)'
       OBVIOUS
  <2>1. CASE UNCHANGED vars
    <3>1. UNCHANGED <<pc, call, m_reader, prv, falseReset, sock, toServer, sent, rcvd>>
          BY <2>1 DEF vars
    <3>2. Reading' = Reading
          BY <3>1 DEF Reading, Stuck, Waiting, OwnRequest, AsyncFrom
    <3>. QED BY <3>1, <3>2 DEF RoomInv, MayReceive, Load, WriteCursor, Allowed, OfReply
  <2>. QED BY <2>1, SocketRoom, BeginRoom, SendRoom, RecvRoom, ParseRoom, ServerRoom DEF Next
<1>. QED BY <1>1, <1>2, TypeCorrect, CursorsOrdered, StaysInStep, PTL DEF Spec

\* A recv() of nothing is always a peer that has closed, so that what is proved
\* of calls that began with a connection and met no made-up reset is said of
\* all that began with one.
THEOREM NoResetMadeUp == ASSUME ~BadKeys, RoomForReplies PROVE Spec => []ResetsAreReal
<1>1. PICK stats \in Nat, largest \in Nat : Room(stats, largest)
      BY DEF RoomForReplies
<1>2. RoomInv(stats, largest) => ResetsAreReal
      BY DEF RoomInv, ResetsAreReal
<1>3. Spec => [](RoomInv(stats, largest))
      BY <1>1, KeepsRoom
<1>. QED BY <1>2, <1>3, PTL

\* Replies do not add up in the receive buffer beyond its end.
THEOREM RepliesFit == ASSUME ~BadKeys, RoomForReplies PROVE Spec => []ReaderFits
<1>1. PICK stats \in Nat, largest \in Nat : Room(stats, largest)
      BY DEF RoomForReplies
<1>2. TypeOK /\ RoomInv(stats, largest) => ReaderFits
      BY LoadType, ClientAssumption DEF RoomInv, ReaderFits
<1>3. Spec => [](RoomInv(stats, largest))
      BY <1>1, KeepsRoom
<1>. QED BY <1>2, <1>3, TypeCorrect, PTL

-----------------------------------------------------------------------------
(***************************************************************************)
(* The values of a reply.                                                  *)
(***************************************************************************)
\* Every place up to the number of positions is that of one of them.
LEMMA BeforeOnto ==
    ASSUME NEW S \in SUBSET Nat, IsFiniteSet(S), NEW i \in 1 .. Cardinality(S)
    PROVE  \E p \in S : Before(p, S) = i - 1
<1> DEFINE f == [p \in S |-> Before(p, S)]
           T == 0 .. Cardinality(S) - 1
<1>1. Cardinality(S) \in Nat
      BY FS_CardinalityType
<1>2. IsFiniteSet(T) /\ Cardinality(T) = Cardinality(S)
  <2>1. PICK n \in Nat : n = Cardinality(S)
        BY <1>1
  <2>2. /\ IsFiniteSet(0 .. n - 1)
        /\ Cardinality(0 .. n - 1) = IF 0 > n - 1 THEN 0 ELSE n - 1 - 0 + 1
    <3>1. 0 \in Int /\ n - 1 \in Int
          OBVIOUS
    <3>. QED BY <3>1, FS_Interval
  <2>3. Cardinality(0 .. n - 1) = n
        BY <2>2
  <2>. QED BY <2>1, <2>2, <2>3
<1>3. ASSUME NEW p \in S PROVE f[p] \in T
  <2>1. Before(p, S) \in Nat /\ Before(p, S) <= Cardinality(S)
        BY BeforeType
  <2>2. { x \in S : x < p } \in SUBSET S /\ { x \in S : x < p } # S
        OBVIOUS
  <2>3. Before(p, S) # Cardinality(S)
        BY <2>2, FS_Subset DEF Before
  <2>. QED BY <1>1, <2>1, <2>3
<1>4. ASSUME NEW p \in S, NEW q \in S, f[p] = f[q] PROVE p = q
  <2>1. p < q => Before(p, S) < Before(q, S)
        BY BeforeLess
  <2>2. q < p => Before(q, S) < Before(p, S)
        BY BeforeLess
  <2>3. Before(p, S) \in Nat /\ Before(p, S) = Before(q, S)
        BY <1>4, BeforeType
  <2>. QED BY <2>1, <2>2, <2>3
<1>5. f \in [S -> T] /\ DOMAIN f = S
      BY <1>3
<1> HIDE DEF f
<1>6. f \in Injection(S, T)
      BY <1>4, <1>5 DEF Injection, IsInjective
<1> HIDE DEF T
<1>7. f \in Surjection(S, T)
      BY <1>2, <1>6, FS_Injection
<1>8. i - 1 \in T
      BY <1>1 DEF T
<1>9. \E p \in S : f[p] = i - 1
      BY <1>7, <1>8 DEF Surjection
<1>. QED BY <1>9 DEF f

\* A reply to a get method: its values lie inside it.
LEMMA ValueLinesType ==
    ASSUME NEW op \in {"get", "multi"}, NEW r \in Replies(op)
    PROVE  /\ ValueLines(r) \in SUBSET Nat /\ IsFiniteSet(ValueLines(r))
           /\ \A p \in ValueLines(r) : ValueAt(r, p) \in Seq(Tokens)
<1>1. /\ r.toks \in Seq(Tokens) /\ Len(r.toks) \in Nat /\ r.starts \subseteq Nat \ {0}
      /\ IsFiniteSet(r.starts)
      /\ \A p \in r.starts : IsLine(r.toks, p)
      BY LinesOfReply DEF Ops
<1>2. ValueLines(r) \in SUBSET r.starts
      BY DEF ValueLines
<1>3. IsFiniteSet(ValueLines(r))
      BY <1>1, <1>2, FS_Subset
<1>4. ASSUME NEW p \in ValueLines(r) PROVE ValueAt(r, p) \in Seq(Tokens)
  <2>1. p \in r.starts /\ r.toks[p].w = "VALUE" /\ p \in Nat \ {0}
        BY <1>1 DEF ValueLines
  <2>2. AfterValue(r, p) \in r.starts
        BY <2>1, LineAfter DEF Ops
  <2>3. AfterValue(r, p) + 1 <= Len(r.toks) /\ p + 1 <= Len(r.toks) /\ AfterValue(r, p) \in Nat
        BY <1>1, <2>1, <2>2 DEF IsLine
  <2>4. r.toks[p].n \in Nat
    <3>1. p \in 1 .. Len(r.toks)
          BY <1>1, <2>1, <2>3
    <3>2. r.toks[p] \in Tokens
          BY <1>1, <3>1, ElementOfSeq
    <3>. QED BY <3>2 DEF Tokens
  <2>5. p + 2 \in Nat \ {0} /\ p + 1 + r.toks[p].n \in Int /\ p + 1 + r.toks[p].n <= Len(r.toks)
        BY <1>1, <2>1, <2>3, <2>4 DEF AfterValue
  <2>. QED BY <1>1, <2>5, Stretch DEF ValueAt
<1>. QED BY <1>1, <1>2, <1>3, <1>4

\* The mapping leaves the stamps out.
LEMMA WordsOfStamp ==
    ASSUME NEW ts \in Seq(Tokens), NEW c
    PROVE  WordsIn(Stamp(ts, c)) = ts
<1>1. DOMAIN ts = 1 .. Len(ts) /\ Len(ts) \in Nat /\ ts = [i \in 1 .. Len(ts) |-> ts[i]]
      BY LenProperties, SeqDef
<1>2. Stamp(ts, c) = [i \in 1 .. Len(ts) |-> [call |-> c, tok |-> ts[i]]]
      BY DEF Stamp
<1>3. WordsIn(Stamp(ts, c)) = [i \in 1 .. Len(ts) |-> ts[i]]
      BY <1>2 DEF WordsIn
<1>. QED BY <1>1, <1>3

\* Entries that hold, each at its place, the values of a reply.
HoldsValues(s, r, c) ==
    /\ s \in Seq(Entries) /\ Len(s) = Cardinality(ValueLines(r))
    /\ \A p \in ValueLines(r) : s[Before(p, ValueLines(r)) + 1].data = Stamp(ValueAt(r, p), c)

SeenEntries(s) == [i \in DOMAIN s |-> WordsIn(s[i].data)]

LEMMA ValuesSeen ==
    ASSUME NEW op \in {"get", "multi"}, NEW r \in Replies(op), NEW c, NEW s, HoldsValues(s, r, c)
    PROVE  /\ SeenEntries(s) = ValuesOf(r)
           /\ ValuesOf(r) \in Seq(Seq(Tokens)) /\ Len(ValuesOf(r)) = Len(s)
           /\ ValueLines(r) = {} <=> s = <<>>
<1> DEFINE V == ValueLines(r)
<1>1. V \in SUBSET Nat /\ IsFiniteSet(V) /\ \A p \in V : ValueAt(r, p) \in Seq(Tokens)
      BY ValueLinesType
<1>2. s \in Seq(Entries) /\ Len(s) = Cardinality(V) /\ Len(s) \in Nat /\ DOMAIN s = 1 .. Len(s)
      BY LenProperties DEF HoldsValues
<1>3. ASSUME NEW i \in 1 .. Cardinality(V)
      PROVE  /\ NthValueLine(r, i) \in V
             /\ Before(NthValueLine(r, i), V) = i - 1
  <2>1. \E p \in V : Before(p, V) = i - 1
        BY <1>1, BeforeOnto
  <2>. QED BY <2>1 DEF NthValueLine
<1>4. ASSUME NEW i \in 1 .. Cardinality(V)
      PROVE  /\ ValueAt(r, NthValueLine(r, i)) \in Seq(Tokens)
             /\ WordsIn(s[i].data) = ValueAt(r, NthValueLine(r, i))
  <2>1. PICK p \in V : p = NthValueLine(r, i) /\ Before(p, V) = i - 1
        BY <1>3
  <2>2. s[Before(p, V) + 1].data = Stamp(ValueAt(r, p), c)
        BY <2>1 DEF HoldsValues
  <2>3. Before(p, V) + 1 = i
        BY <1>2, <2>1
  <2>4. WordsIn(Stamp(ValueAt(r, p), c)) = ValueAt(r, p) /\ ValueAt(r, p) \in Seq(Tokens)
        BY <1>1, WordsOfStamp
  <2>. QED BY <2>1, <2>2, <2>3, <2>4
<1>5. ValuesOf(r) = [i \in 1 .. Cardinality(V) |-> ValueAt(r, NthValueLine(r, i))]
      BY DEF ValuesOf
<1>6. SeenEntries(s) = [i \in 1 .. Cardinality(V) |-> WordsIn(s[i].data)]
      BY <1>2 DEF SeenEntries
<1>7. V = {} <=> s = <<>>
  <2>1. Cardinality(V) = 0 <=> V = {}
        BY <1>1, FS_EmptySet
  <2>2. Len(s) = 0 <=> s = <<>>
        BY <1>2, EmptySeq
  <2>. QED BY <1>2, <2>1, <2>2
<1> HIDE DEF V
<1>8. SeenEntries(s) = ValuesOf(r)
      BY <1>4, <1>5, <1>6
<1>9. ValuesOf(r) \in [1 .. Cardinality(V) -> Seq(Tokens)]
      BY <1>4, <1>5
<1>10. ValuesOf(r) \in Seq(Seq(Tokens))
       BY <1>2, <1>9, SeqDef
<1>11. Len(ValuesOf(r)) \in Nat /\ 1 .. Len(ValuesOf(r)) = 1 .. Len(s)
       BY <1>2, <1>9, <1>10, LenProperties
<1>12. Len(ValuesOf(r)) = Len(s)
       BY <1>2, <1>11
<1>. QED BY <1>7, <1>8, <1>10, <1>12 DEF V

-----------------------------------------------------------------------------
(***************************************************************************)
(* What the mapping shows of a call while it runs.                         *)
(***************************************************************************)
LEMMA BeginShape ==
    ASSUME ~BadKeys, Begin
    PROVE  \/ \E op \in Ops, async \in BOOLEAN, n \in Nat : Request(op, async, n)
           \/ \E n \in DataSizes, async \in BOOLEAN : CommandTooLarge(n, async)
<1>1. ASSUME NEW n \in DataSizes, NEW async \in BOOLEAN, Command(n, async) \/ Cas(n, async)
      PROVE  \E k \in Nat : Request("store", async, k)
  <2>1. n + 2 \in Nat
        BY ClientAssumption
  <2>. QED BY <1>1, <2>1 DEF Command, Cas
<1>2. ASSUME NEW m \in KeyCounts, GetMulti(m)
      PROVE  \E k \in Nat : Request("multi", FALSE, k)
  <2>1. 2 + m \in Nat
        BY ClientAssumption
  <2>. QED BY <1>2, <2>1 DEF GetMulti
<1>3. 1 \in Nat /\ 3 \in Nat /\ FALSE \in BOOLEAN
      /\ {"store", "line", "version", "stats", "get", "multi"} = Ops
      BY DEF Ops
<1>. QED BY <1>1, <1>2, <1>3, Zenon
         DEF Begin, Delete, Incr, Decr, FlushAll, Version, Stats, Get, GetMultiBadKeys

LEMMA InitSeen == Init => SeenInv
BY EmptySeq DEF Init, SeenInv, NewWriter

LEMMA CleanRequest ==
    ASSUME NEW w \in Writer, ~w.stem, NEW n \in Nat, NEW req \in Requests, req.clean = TRUE
    PROVE  /\ WriteRequest(w, n, req).reqs = Append(w.reqs, req)
           /\ WriteRequest(w, n, req).stem = FALSE
<1> DEFINE chars == WriteChars(w, n)
           clean == [req EXCEPT !.clean = ~w.stem]
<1>1. chars \in Writer /\ chars.reqs = w.reqs
      BY WriteCharsFields
<1>2. clean = req
  <2>1. (~w.stem) = TRUE
        OBVIOUS
  <2>2. req = [req EXCEPT !.clean = TRUE]
        BY DEF Requests
  <2>. QED BY <2>1, <2>2, Zenon
<1>3. WriteRequest(w, n, req) = [chars EXCEPT !.reqs = Append(@, clean), !.stem = FALSE]
      BY Zenon DEF WriteRequest
<1> HIDE DEF chars, clean
<1>4. /\ WriteRequest(w, n, req).reqs = Append(chars.reqs, clean)
      /\ WriteRequest(w, n, req).stem = FALSE
      BY <1>1, <1>3 DEF Writer
<1>. QED BY <1>1, <1>2, <1>4, Zenon

LEMMA RequestSeen ==
    ASSUME TypeOK, SeenInv, NEW op \in Ops, NEW async \in BOOLEAN, NEW n \in Nat,
           Request(op, async, n)
    PROVE  SeenInv'
<1> DEFINE clean == [call |-> call.id + 1, op |-> op, async |-> async, clean |-> TRUE]
<1>1. clean \in Requests /\ clean.clean = TRUE /\ m_writer \in Writer /\ ~m_writer.stem
      BY DEF Requests, TypeOK, Writer, SeenInv
<1>2. clean.clean
      OBVIOUS
<1>3. m_writer' = WriteRequest(m_writer, n, clean)
      BY DEF Request
<1> HIDE DEF clean
<1>4. m_writer'.stem = FALSE /\ m_writer'.reqs = Append(m_writer.reqs, clean)
      BY <1>1, <1>3, CleanRequest
<1>5. m_writer.reqs \in Seq(Requests) /\ Len(m_writer.reqs) \in Nat
      BY <1>1, LenProperties DEF Writer
<1>6. \A i \in 1 .. Len(m_writer'.reqs) : m_writer'.reqs[i].clean
  <2>1. /\ Len(m_writer'.reqs) = Len(m_writer.reqs) + 1
        /\ m_writer'.reqs[Len(m_writer.reqs) + 1] = clean
        /\ \A i \in 1 .. Len(m_writer.reqs) : m_writer'.reqs[i] = m_writer.reqs[i]
        BY <1>2, <1>4, <1>5, AppendProperties
  <2>2. ASSUME NEW i \in 1 .. Len(m_writer.reqs) + 1
        PROVE  i \in 1 .. Len(m_writer.reqs) \/ i = Len(m_writer.reqs) + 1
        BY <1>5
  <2>. QED BY <1>2, <2>1, <2>2 DEF SeenInv
<1>7. toServer' = toServer /\ outcome' = [kind |-> "none", val |-> <<>>]
      BY DEF Request, Returns, netVars
<1>. QED BY <1>4, <1>6, <1>7 DEF SeenInv

LEMMA SendSeen ==
    ASSUME TypeOK, SeenInv, Send
    PROVE  SeenInv'
<1>1. \A k : Pull(m_writer, k).stem = FALSE /\ Pull(m_writer, k).reqs \in {<<>>, m_writer.reqs}
      BY DEF Pull, NewWriter, SeenInv, TypeOK
<1>2. m_writer' = m_writer \/ \E k : m_writer' = Pull(m_writer, k)
      BY DEF Send, SendPart, SendRest, SendRaises, SendZero, objVars
<1>3. m_writer'.stem = FALSE /\ m_writer'.reqs \in {<<>>, m_writer.reqs}
      BY <1>1, <1>2 DEF SeenInv
<1>4. \A i \in 1 .. Len(m_writer'.reqs) : m_writer'.reqs[i].clean
      BY <1>3, EmptySeq DEF SeenInv
<1>5. \A i \in 1 .. Len(toServer') : toServer'[i].clean
  <2>1. CASE toServer' = toServer
        BY <2>1 DEF SeenInv
  <2>2. CASE toServer' = toServer \o m_writer.reqs
    <3>1. toServer \in Seq(Requests) /\ m_writer.reqs \in Seq(Requests)
          BY DEF TypeOK
    <3>2. /\ Len(toServer') = Len(toServer) + Len(m_writer.reqs)
          /\ \A i \in 1 .. Len(toServer) + Len(m_writer.reqs) :
                toServer'[i] = IF i <= Len(toServer) THEN toServer[i]
                               ELSE m_writer.reqs[i - Len(toServer)]
          BY <2>2, <3>1, ConcatProperties
    <3>3. Len(toServer) \in Nat /\ Len(m_writer.reqs) \in Nat
          BY <3>1, LenProperties
    <3>4. ASSUME NEW i \in 1 .. Len(toServer) + Len(m_writer.reqs)
          PROVE  /\ i <= Len(toServer) => i \in 1 .. Len(toServer)
                 /\ ~(i <= Len(toServer)) => i - Len(toServer) \in 1 .. Len(m_writer.reqs)
          BY <3>3
    <3>. QED BY <3>2, <3>4 DEF SeenInv
  <2>3. toServer' = toServer \/ toServer' = toServer \o m_writer.reqs
        BY DEF Send, SendPart, SendRest, SendRaises, SendZero, netVars
  <2>. QED BY <2>1, <2>2, <2>3
<1>6. pc' # "idle" => outcome' = outcome /\ pc # "idle"
      BY DEF Send, SendPart, SendRest, SendRaises, SendZero, SendFailed, Finish, callVars
<1>. QED BY <1>3, <1>4, <1>5, <1>6 DEF SeenInv

\* The steps that read, and what they leave alone.
LEMMA RecvShape ==
    ASSUME Recv
    PROVE  /\ pc \in {"line", "data"}
           /\ UNCHANGED <<call, m_writer, sock, toServer, served, answer>>
           /\ \/ pc' = "idle"
              \/ pc' = pc /\ outcome' = outcome /\ prv' = prv
BY DEF Recv, RecvLine, RecvLineEmpty, RecvLineRaises, RecvData, RecvDataFails, ReadLineFailed,
       Finish, callVars, objVars, netVars

LEMMA ParseShape ==
    ASSUME Parse
    PROVE  /\ pc \in {"line", "data"}
           /\ UNCHANGED <<call, m_writer, prv, sock, toServer, served, answer>>
           /\ \/ pc' = "idle"
              \/ pc' \in {"line", "data"} /\ outcome' = outcome
BY DEF Parse, ErrorLine, ResultLine, VersionLine, ForeignVersionLine, StatLine, StatsEnd,
       ForeignStatsLine, GetEnd, MalformedLine, BrokenValueLine, ValueLine, DataComplete,
       LineOf, TakeLine, ReadLineFailed, Finish, netVars

LEMMA ServedSeen ==
    ASSUME TypeOK, SeenInv, Serve \/ PeerCloses
    PROVE  SeenInv'
<1>1. UNCHANGED <<pc, outcome, m_writer>>
      BY DEF Serve, ServeQuietly, ServeReply, ServeGarbled, PeerCloses, callVars, objVars
<1>2. \A i \in 1 .. Len(toServer') : toServer'[i].clean
  <2>1. CASE toServer' = <<>>
        BY <2>1, EmptySeq
  <2>2. CASE toServer # <<>> /\ toServer' = Tail(toServer)
    <3>1. /\ toServer \in Seq(Requests) /\ Len(toServer) \in Nat
          /\ Len(toServer') = Len(toServer) - 1
          /\ \A i \in 1 .. Len(toServer') : toServer'[i] = toServer[i + 1]
          BY <2>2, HeadTailProperties, LenProperties DEF TypeOK
    <3>2. \A i \in 1 .. Len(toServer') : i + 1 \in 1 .. Len(toServer)
          BY <3>1
    <3>. QED BY <3>1, <3>2 DEF SeenInv
  <2>. QED BY <2>1, <2>2 DEF Serve, ServeQuietly, ServeReply, ServeGarbled, PeerCloses
<1>. QED BY <1>1, <1>2 DEF SeenInv

LEMMA StepSeen ==
    ASSUME ~BadKeys, TypeOK, SeenInv, [Next]_vars
    PROVE  SeenInv'
<1>1. CASE UNCHANGED vars
      BY <1>1 DEF vars, SeenInv
<1>2. CASE Socket
  <2>1. pc' = "idle" /\ toServer' = toServer /\ m_writer' \in {m_writer, NewWriter}
        BY <1>2 DEF Socket, Connect, ConnectFails, ConnectRefused, Disconnect, ConnectBegins,
                    objVars, netVars
  <2>2. ~NewWriter.stem /\ Len(NewWriter.reqs) = 0
        BY EmptySeq DEF NewWriter
  <2>. QED BY <2>1, <2>2 DEF SeenInv
<1>3. CASE Begin
  <2>1. ASSUME NEW n \in DataSizes, NEW async \in BOOLEAN, CommandTooLarge(n, async)
        PROVE  SeenInv'
        BY <2>1 DEF CommandTooLarge, NextCall, objVars, netVars, SeenInv
  <2>. QED BY <1>3, <2>1, BeginShape, RequestSeen
<1>4. CASE Recv
      BY <1>4, RecvShape DEF SeenInv
<1>5. CASE Parse
      BY <1>5, ParseShape DEF SeenInv
<1>. QED BY <1>1, <1>2, <1>3, <1>4, <1>5, SendSeen, ServedSeen DEF Next

LEMMA KeepsSeen == ASSUME ~BadKeys PROVE Spec => []SeenInv
<1>1. TypeOK /\ SeenInv /\ [Next]_vars => SeenInv'
      BY StepSeen
<1>. QED BY <1>1, InitSeen, TypeCorrect, PTL DEF Spec

-----------------------------------------------------------------------------
(***************************************************************************)
(* Step by step: what a client does is a step of RemoteCall, or is not     *)
(* seen.                                                                   *)
(***************************************************************************)
LEMMA InitPromise == Init => Promise!Init
BY DEF Init, Promise!Init, Phase, SeenOutcome, WordsIn, Promise!Nothing

\* A step that is not seen.
LEMMA Unseen ==
    ASSUME UNCHANGED <<call, outcome, prv, sock, toServer, served, answer>>, Phase' = Phase
    PROVE  UNCHANGED Promise!vars
BY DEF Promise!vars, SeenOutcome

LEMMA SeenEmpty ==
    ASSUME NEW kind, outcome' = [kind |-> kind, val |-> <<>>]
    PROVE  SeenOutcome' = [kind |-> kind, val |-> <<>>]
BY DEF SeenOutcome, WordsIn

LEMMA SocketPromise ==
    ASSUME Socket
    PROVE  Promise!Next
<1>1. CASE Connect
  <2>1. SeenOutcome' = [kind |-> "none", val |-> <<>>]
        BY <1>1, SeenEmpty DEF Connect, Returns
  <2>2. Promise!Connect
        BY <1>1, <2>1 DEF Promise!Connect, Promise!Nothing, Connect, ConnectBegins, Phase
  <2>. QED BY <2>2 DEF Promise!Next
<1>2. CASE ConnectFails \/ ConnectRefused
  <2>1. SeenOutcome' = [kind |-> "raise", val |-> <<>>]
        BY <1>2, SeenEmpty DEF ConnectFails, ConnectRefused, Returns
  <2>2. Promise!ConnectFails
        BY <1>2, <2>1 DEF Promise!ConnectFails, Promise!Raise, ConnectFails, ConnectRefused,
                          ConnectBegins, Phase, objVars, netVars
  <2>. QED BY <2>2 DEF Promise!Next
<1>3. CASE Disconnect
  <2>1. SeenOutcome' = [kind |-> "none", val |-> <<>>]
        BY <1>3, SeenEmpty DEF Disconnect, Returns
  <2>2. Promise!Disconnect
        BY <1>3, <2>1 DEF Promise!Disconnect, Promise!Nothing, Disconnect, Phase, netVars
  <2>. QED BY <2>2 DEF Promise!Next
<1>. QED BY <1>1, <1>2, <1>3 DEF Socket

LEMMA BeginPromise ==
    ASSUME ~BadKeys, Begin
    PROVE  Promise!Next
<1>1. ASSUME NEW op \in Ops, NEW async \in BOOLEAN, NEW n \in Nat, Request(op, async, n)
      PROVE  Promise!Begin
  <2>1. SeenOutcome' = [kind |-> "none", val |-> <<>>]
        BY <1>1, SeenEmpty DEF Request, Returns
  <2>2. call'.id = call.id + 1 /\ call'.op \in Ops /\ call'.linked = prv /\ pc = "idle"
        BY <1>1 DEF Request, NextCall
  <2>3. pc' = "send" /\ UNCHANGED <<prv, sock, toServer, served, answer>>
        BY <1>1 DEF Request, netVars
  <2>. QED BY <2>1, <2>2, <2>3 DEF Promise!Begin, Promise!Nothing, Phase
<1>2. ASSUME NEW n \in DataSizes, NEW async \in BOOLEAN, CommandTooLarge(n, async)
      PROVE  Promise!Begin
  <2>1. SeenOutcome' = [kind |-> "raise", val |-> <<>>]
        BY <1>2, SeenEmpty DEF CommandTooLarge, Returns
  <2>2. call'.id = call.id + 1 /\ call'.op \in Ops /\ call'.linked = prv /\ pc = "idle"
        BY <1>2 DEF CommandTooLarge, NextCall, Ops
  <2>3. pc' = pc /\ UNCHANGED <<prv, sock, toServer, served, answer>>
        BY <1>2 DEF CommandTooLarge, objVars, netVars
  <2>. QED BY <2>1, <2>2, <2>3 DEF Promise!Begin, Promise!Raise, Phase
<1>. QED BY <1>1, <1>2, BeginShape DEF Promise!Next

\* The whole of the request goes out at once, as the program sees it.
LEMMA SendRestPromise ==
    ASSUME TypeOK, StreamInv, SeenInv, ~falseReset, SendRest
    PROVE  Promise!Submit
<1>1. pc = "send" /\ prv /\ sock \in {"up", "closed"}
      /\ UNCHANGED <<call, prv, sock, served, answer>>
      /\ pc' = IF call.async THEN "idle" ELSE "line"
      BY DEF SendRest, TypeOK, Finish
<1>2. outcome' = outcome
      BY <1>1 DEF SendRest, Finish, Returns, SeenInv
<1>3. sock = "up" => toServer' = Append(toServer, OwnRequest)
  <2>1. Intact
        BY <1>1 DEF StreamInv, Intact
  <2>2. sock = "up" => m_writer.reqs = <<OwnRequest>>
        BY <1>1, <2>1 DEF StreamInv, WriterReady
  <2>3. toServer \in Seq(Requests) /\ OwnRequest \in Requests
        BY DEF TypeOK, OwnRequest, Requests
  <2>4. Append(toServer, OwnRequest) = toServer \o <<OwnRequest>>
        BY <2>3, AppendIsConcat
  <2>. QED BY <2>2, <2>4 DEF SendRest
<1>4. sock # "up" => toServer' = toServer
      BY DEF SendRest
<1>5. SeenOutcome' = SeenOutcome
      BY <1>1, <1>2 DEF SeenOutcome
<1>. QED BY <1>1, <1>3, <1>4, <1>5 DEF Promise!Submit, Phase, OwnRequest

LEMMA SendPromise ==
    ASSUME TypeOK, StreamInv, SeenInv, ~falseReset, Send
    PROVE  Promise!Next \/ UNCHANGED Promise!vars
<1>1. CASE SendPart
  <2>1. UNCHANGED <<call, outcome, prv, sock, toServer, served, answer>> /\ pc' = pc
        BY <1>1 DEF SendPart, callVars, netVars
  <2>. QED BY <2>1, Unseen DEF Phase
<1>2. CASE SendRest
      BY <1>2, SendRestPromise DEF Promise!Next
<1>3. CASE SendRaises \/ SendZero
  <2>1. /\ pc = "send" /\ SendFailed
        /\ UNCHANGED <<call, sock, toServer, served, answer>>
        /\ prv' = FALSE \/ (prv' = prv /\ sock # "up")
        BY <1>3 DEF SendRaises, SendZero, objVars, netVars
  <2>2. CASE call.op \in {"get", "multi"}
    <3>1. pc' = "line" /\ outcome' = outcome
          BY <2>1, <2>2 DEF SendFailed
    <3>2. SeenOutcome' = SeenOutcome
          BY <2>1, <3>1 DEF SeenOutcome
    <3>3. Promise!SendFails
          BY <2>1, <3>1, <3>2 DEF Promise!SendFails, Promise!Closes, Phase
    <3>. QED BY <3>3 DEF Promise!Next
  <2>3. CASE call.op \notin {"get", "multi"}
    <3>1. pc' = "idle" /\ outcome' = [kind |-> "raise", val |-> <<>>]
          BY <2>1, <2>3 DEF SendFailed, Finish, Returns
    <3>2. SeenOutcome' = [kind |-> "raise", val |-> <<>>]
          BY <3>1, SeenEmpty
    <3>3. Promise!Fail
          BY <2>1, <3>1, <3>2 DEF Promise!Fail, Promise!Raise, Promise!Closes, Phase
    <3>. QED BY <3>3 DEF Promise!Next
  <2>. QED BY <2>2, <2>3
<1>. QED BY <1>1, <1>2, <1>3 DEF Send

\* A reading that fails ends the call, and the connection unless the peer has.
LEMMA ReadFails ==
    ASSUME pc \in {"line", "data"}, UNCHANGED <<call, sock, toServer, served, answer>>,
           prv' = FALSE \/ (prv' = prv /\ sock # "up"),
           ReadLineFailed \/ Finish("raise", <<>>)
    PROVE  Promise!Next
<1>1. CASE Finish("raise", <<>>)
  <2>1. pc' = "idle" /\ SeenOutcome' = [kind |-> "raise", val |-> <<>>]
        BY <1>1, SeenEmpty DEF Finish, Returns
  <2>2. Promise!Fail
        BY <2>1 DEF Promise!Fail, Promise!Raise, Promise!Closes, Phase
  <2>. QED BY <2>2 DEF Promise!Next
<1>2. CASE call.op = "stats" /\ Finish("value", res)
  <2>1. pc' = "idle" /\ SeenOutcome'.kind = "value"
        BY <1>2 DEF Finish, Returns, SeenOutcome
  <2>2. Promise!StatsEnds
        BY <1>2, <2>1 DEF Promise!StatsEnds, Promise!Closes, Phase
  <2>. QED BY <2>2 DEF Promise!Next
<1>. QED BY <1>1, <1>2 DEF ReadLineFailed

LEMMA RecvPromise ==
    ASSUME ~falseReset', Recv
    PROVE  Promise!Next \/ UNCHANGED Promise!vars
<1>1. /\ pc \in {"line", "data"}
      /\ UNCHANGED <<call, sock, toServer, served, answer>>
      BY RecvShape
<1>2. CASE RecvLine \/ RecvData
  <2>1. UNCHANGED <<outcome, prv>> /\ pc' = pc
        BY <1>2 DEF RecvLine, RecvData, callVars
  <2>. QED BY <1>1, <2>1, Unseen DEF Phase
<1>3. CASE RecvLineEmpty
  <2>1. sock = "closed"
        BY <1>3 DEF RecvLineEmpty
  <2>. QED BY <1>1, <1>3, <2>1, ReadFails DEF RecvLineEmpty
<1>4. CASE RecvLineRaises
      BY <1>1, <1>4, ReadFails DEF RecvLineRaises
<1>5. CASE RecvDataFails
      BY <1>1, <1>5, ReadFails DEF RecvDataFails
<1>. QED BY <1>2, <1>3, <1>4, <1>5 DEF Recv

LEMMA ServerPromise ==
    ASSUME TypeOK, SeenInv, Serve \/ PeerCloses
    PROVE  Promise!Next
<1>1. /\ sock = "up" /\ UNCHANGED <<call, outcome, prv>> /\ pc' = pc
      BY DEF Serve, ServeQuietly, ServeReply, ServeGarbled, PeerCloses, callVars, objVars
<1>2. SeenOutcome' = SeenOutcome /\ Phase' = Phase
      BY <1>1 DEF SeenOutcome, Phase
<1>3. CASE ServeQuietly
  <2>1. Promise!Perform
        BY <1>1, <1>2, <1>3 DEF ServeQuietly, Promise!Perform, Request1
  <2>. QED BY <2>1 DEF Promise!Next
<1>4. CASE ServeReply
  <2>1. /\ answer'.call = Request1.call /\ answer'.reply \in Replies(Request1.op)
        BY <1>4 DEF ServeReply
  <2>2. Promise!Perform
        BY <1>1, <1>2, <1>4, <2>1 DEF ServeReply, Promise!Perform, Request1
  <2>. QED BY <2>2 DEF Promise!Next
<1>5. CASE ServeGarbled
  <2>1. Len(toServer) \in Nat \ {0} /\ Request1 = toServer[1]
        BY <1>5, EmptySeq DEF ServeGarbled, Request1, TypeOK
  <2>2. toServer[1].clean
        BY <2>1 DEF SeenInv
  <2>. QED BY <1>5, <2>1, <2>2 DEF ServeGarbled
<1>6. CASE PeerCloses
  <2>1. Promise!LinkLost
        BY <1>1, <1>2, <1>6 DEF PeerCloses, Promise!LinkLost
  <2>. QED BY <2>1 DEF Promise!Next
<1>. QED BY <1>3, <1>4, <1>5, <1>6 DEF Serve

-----------------------------------------------------------------------------
(***************************************************************************)
(* The steps that take something from the buffer.                          *)
(***************************************************************************)
\* An error line is the last of its reply, so that a call that comes to the
\* end of one meets it.
LEMMA FailureIsLast ==
    ASSUME NEW op \in Ops, NEW r \in Replies(op), NEW p \in r.starts,
           r.toks[p].w \in LastWords(op)
    PROVE  IsFailure(r) <=> r.toks[p].w = "ERROR"
<1>1. ASSUME NEW q \in r.starts, r.toks[q].w = "ERROR" PROVE p = q
  <2>1. r.toks[q].w \in LastWords(op)
        BY <1>1 DEF LastWords
  <2>2. q <= p /\ p <= q
        BY <2>1, LineAfter
  <2>3. p \in Nat /\ q \in Nat
        BY LinesOfReply
  <2>. QED BY <2>2, <2>3
<1>. QED BY <1>1 DEF IsFailure

\* The line p of the reply r comes next, and is in the buffer.
ReadingLineOf(r, p) ==
    /\ r \in Replies(call.op) /\ p \in r.starts
    /\ GivenToThis(r) /\ Collected(p)
    /\ FirstUnit = [call |-> call.id, tok |-> r.toks[p]]
    /\ Line.packetEnd = Line.readCursor + 2
    /\ IsError <=> r.toks[p].w = "ERROR"
    /\ IsEnd <=> r.toks[p].w = "END"
    /\ \A word : BeginsWith(Line, <<word>>) <=> r.toks[p].w = word
    /\ \/ call.op \in {"get", "multi"} /\ r.toks[p].w = "VALUE"
       \/ call.op = "stats" /\ r.toks[p].w = "STAT"
       \/ r.toks[p].w \in LastWords(call.op)

LEMMA LineOfAnswer ==
    ASSUME TypeOK, CursorOrder, StreamInv, AnswerInv, Intact, pc = "line", HaveLine(m_reader)
    PROVE  \E r, p : ReadingLineOf(r, p)
<1>1. ~Stuck /\ ~Waiting
      BY TypedReader, NothingUnread DEF Stuck, Waiting
<1>2. PICK r \in Replies(call.op), m \in 0 .. Len(sent) : \E p \in r.starts :
          GivenToThis(r) /\ AtLine(r, m) /\ p = Passed - m + 1 /\ Collected(p)
      BY <1>1 DEF AnswerInv, CollectingAtLine
<1>3. PICK p \in r.starts :
          GivenToThis(r) /\ AtLine(r, m) /\ p = Passed - m + 1 /\ Collected(p)
      BY <1>2
<1>4. /\ FirstUnit = [call |-> call.id, tok |-> r.toks[p]]
      /\ Line.packetEnd = Line.readCursor + 2
      /\ IsError <=> r.toks[p].w = "ERROR"
      /\ IsEnd <=> r.toks[p].w = "END"
      /\ \A word : BeginsWith(Line, <<word>>) <=> r.toks[p].w = word
      /\ \/ call.op \in {"get", "multi"} /\ r.toks[p].w = "VALUE"
         \/ call.op = "stats" /\ r.toks[p].w = "STAT" /\ p + 2 \in r.starts
         \/ r.toks[p].w \in LastWords(call.op) /\ p + 1 = Len(r.toks)
      BY <1>3, LineRead DEF StreamInv
<1>5. ReadingLineOf(r, p)
      BY <1>3, <1>4 DEF ReadingLineOf
<1>. QED BY <1>5

\* A call that returns what its method makes of the answer.
LEMMA ReturnsAnswer ==
    ASSUME pc \in {"line", "data"}, pc' = "idle",
           UNCHANGED <<call, prv, sock, toServer, served, answer>>,
           NEW r, GivenToThis(r), SeenOutcome' = AnswerOutcome(call.op, r)
    PROVE  Promise!Next
<1>1. Promise!Return
      BY DEF Promise!Return, Phase, GivenToThis
<1>. QED BY <1>1 DEF Promise!Next

\* The methods that return one line.
LEMMA LinePromise ==
    ASSUME TypeOK, CursorOrder, HaveLine(m_reader), NEW r, NEW p, ReadingLineOf(r, p),
           call.op \in {"store", "line", "version"}, UNCHANGED call,
           r.toks[p].w # "ERROR",
           outcome' \in { [kind |-> "value", val |-> <<FirstUnit>>],
                          [kind |-> "value",
                           val  |-> SubSeq(Line.mem, Line.readCursor + 1, Line.packetEnd - 1)] }
    PROVE  SeenOutcome' = AnswerOutcome(call.op, r)
<1>1. call.op \in Ops /\ r \in Replies(call.op) /\ p \in r.starts
      BY DEF TypeOK, ReadingLineOf
<1>2. p = 1 /\ r.toks[p].w \in LastWords(call.op)
      BY <1>1, OnlyLine DEF ReadingLineOf, LastWords
<1>3. ~IsFailure(r)
      BY <1>1, <1>2, FailureIsLast
<1>4. r.toks \in Seq(Tokens) /\ 1 \in 1 .. Len(r.toks)
  <2>1. r.toks \in Seq(Tokens) /\ Len(r.toks) \in Nat /\ IsLine(r.toks, 1)
        BY <1>1, LinesOfReply
  <2>. QED BY <2>1 DEF IsLine
<1>5. SubSeq(r.toks, 1, 1) = <<r.toks[1]>>
      BY <1>4, OneOf
<1>6. SubSeq(Line.mem, Line.readCursor + 1, Line.packetEnd - 1) = <<FirstUnit>>
  <2>1. /\ Line \in Reader /\ Line.packetEnd \in Line.readCursor + 1 .. Len(Line.mem)
        BY TypedReader, LineFound DEF Line
  <2>2. Line.mem \in Seq(Units) /\ Line.readCursor \in Nat /\ Len(Line.mem) \in Nat
        BY <2>1, LenProperties DEF Reader
  <2>3. Line.readCursor + 1 \in 1 .. Len(Line.mem) /\ Line.packetEnd - 1 = Line.readCursor + 1
        BY <2>1, <2>2 DEF ReadingLineOf
  <2>. QED BY <2>2, <2>3, OneOf DEF FirstUnit
<1>7. outcome' = [kind |-> "value", val |-> <<FirstUnit>>]
      BY <1>6
<1>8. WordsIn(<<FirstUnit>>) = <<r.toks[1]>>
  <2>1. FirstUnit.tok = r.toks[1]
        BY <1>2 DEF ReadingLineOf
  <2>2. WordsIn(<<FirstUnit>>) = <<FirstUnit.tok>>
        BY DEF WordsIn
  <2>. QED BY <2>1, <2>2
<1>9. SeenOutcome' = [kind |-> "value", val |-> WordsIn(<<FirstUnit>>)]
      BY <1>7 DEF SeenOutcome
<1>. QED BY <1>3, <1>5, <1>8, <1>9 DEF AnswerOutcome

\* The get methods: get() and gets() keep the first value.
LEMMA FirstOf ==
    ASSUME NEW S, NEW s \in Seq(S), NEW k \in {0, 1}, k <= Len(s)
    PROVE  SubSeq(s, 1, k) = [i \in 1 .. k |-> s[i]]
<1>1. /\ SubSeq(s, 1, k) \in Seq(S)
      /\ Len(SubSeq(s, 1, k)) = IF 1 <= k THEN k - 1 + 1 ELSE 0
      /\ \A i \in 1 .. k - 1 + 1 : SubSeq(s, 1, k)[i] = s[1 + i - 1]
      BY Stretch
<1>2. SubSeq(s, 1, k) = [i \in 1 .. Len(SubSeq(s, 1, k)) |-> SubSeq(s, 1, k)[i]]
      BY <1>1, LenProperties, SeqDef
<1>3. Len(SubSeq(s, 1, k)) = k /\ \A i \in 1 .. k : SubSeq(s, 1, k)[i] = s[i]
      BY <1>1
<1>. QED BY <1>2, <1>3

LEMMA ValuesPromise ==
    ASSUME TypeOK, NEW r, NEW p, ReadingLineOf(r, p),
           call.op \in {"get", "multi"}, UNCHANGED call, r.toks[p].w = "END",
           outcome' = [kind |-> "value", val |-> GetResult]
    PROVE  SeenOutcome' = AnswerOutcome(call.op, r)
<1>1. /\ r \in Replies(call.op) /\ p \in r.starts /\ GivenToThis(r) /\ Collected(p)
      /\ r.toks[p].w \in LastWords(call.op) /\ call.op \in Ops
      BY DEF ReadingLineOf, LastWords, Ops
<1>2. ~IsFailure(r)
      BY <1>1, FailureIsLast
<1>3. HoldsValues(res, r, call.id)
  <2>1. /\ Len(res) = Cardinality(EntryLines)
        /\ \A q \in EntryLines : res[Before(q, EntryLines) + 1].data = DataAt(q)
        BY <1>1, CollectAll
  <2>2. answer.reply = r /\ answer.call = call.id
        BY <1>1 DEF GivenToThis
  <2>3. EntryLines = ValueLines(r)
        BY <2>2 DEF EntryLines, EntryWord, ValueLines
  <2>4. \A q : DataAt(q) = Stamp(ValueAt(r, q), call.id)
        BY <2>2 DEF DataAt, ValueAt
  <2>. QED BY <2>1, <2>3, <2>4 DEF HoldsValues, TypeOK
<1>4. /\ SeenEntries(res) = ValuesOf(r)
      /\ ValuesOf(r) \in Seq(Seq(Tokens)) /\ Len(ValuesOf(r)) = Len(res)
      /\ ValueLines(r) = {} <=> res = <<>>
      BY <1>1, <1>3, ValuesSeen
<1>5. SeenOutcome' = [kind |-> "value", val |-> SeenEntries(GetResult)]
      BY DEF SeenOutcome, SeenEntries
<1>6. CASE call.op = "multi"
  <2>1. GetResult = res
        BY <1>6 DEF GetResult
  <2>. QED BY <1>2, <1>4, <1>5, <1>6, <2>1 DEF AnswerOutcome
<1>7. CASE call.op = "get"
  <2>1. PICK k \in {0, 1} : k = IF res = <<>> THEN 0 ELSE 1
        OBVIOUS
  <2>2. res \in Seq(Entries) /\ Len(res) \in Nat /\ k <= Len(res) /\ DOMAIN res = 1 .. Len(res)
        BY <2>1, EmptySeq, LenProperties DEF TypeOK
  <2>3. GetResult = [i \in 1 .. k |-> res[i]]
    <3>1. GetResult = SubSeq(res, 1, k)
          BY <1>7, <2>1 DEF GetResult
    <3>. QED BY <2>2, <3>1, FirstOf
  <2>4. SubSeq(ValuesOf(r), 1, k) = [i \in 1 .. k |-> ValuesOf(r)[i]]
        BY <1>4, <2>2, FirstOf
  <2>5. ASSUME NEW i \in 1 .. k PROVE WordsIn(res[i].data) = ValuesOf(r)[i]
    <3>1. i \in DOMAIN res
          BY <2>2
    <3>2. SeenEntries(res)[i] = WordsIn(res[i].data)
          BY <3>1 DEF SeenEntries
    <3>. QED BY <1>4, <3>2
  <2>6. SeenEntries(GetResult) = [i \in 1 .. k |-> WordsIn(res[i].data)]
        BY <2>3 DEF SeenEntries
  <2>7. SeenEntries(GetResult) = SubSeq(ValuesOf(r), 1, k)
        BY <2>4, <2>5, <2>6
  <2>8. k = IF ValueLines(r) = {} THEN 0 ELSE 1
        BY <1>4, <2>1
  <2>. QED BY <1>2, <1>5, <1>7, <2>7, <2>8 DEF AnswerOutcome
<1>. QED BY <1>6, <1>7

\* stats() ends at the last line of its reply, whatever that is.
LEMMA StatsPromise ==
    ASSUME pc = "line", pc' = "idle", UNCHANGED <<call, prv, sock, toServer, served, answer>>,
           NEW r, GivenToThis(r), call.op = "stats", outcome'.kind = "value"
    PROVE  Promise!Next
<1>1. SeenOutcome'.kind = "value"
      BY DEF SeenOutcome
<1>2. Promise!StatsEnds
      BY <1>1 DEF Promise!StatsEnds, Phase, GivenToThis
<1>. QED BY <1>2 DEF Promise!Next

LEMMA ParsePromise ==
    ASSUME TypeOK, CursorOrder, StreamInv, AnswerInv, ~falseReset, Parse
    PROVE  Promise!Next \/ UNCHANGED Promise!vars
<1>1. /\ pc \in {"line", "data"}
      /\ UNCHANGED <<call, prv, sock, toServer, served, answer>>
      /\ \/ pc' = "idle"
         \/ pc' \in {"line", "data"} /\ outcome' = outcome
      BY ParseShape
<1>2. CASE pc' # "idle"
      BY <1>1, <1>2, Unseen DEF Phase
<1>3. CASE pc' = "idle" /\ ~call.linked
  <2>1. Promise!ClosedCallEnds
        BY <1>1, <1>3 DEF Promise!ClosedCallEnds, Phase
  <2>. QED BY <2>1 DEF Promise!Next
<1>4. CASE pc' = "idle" /\ call.linked
  <2>1. pc = "line" /\ HaveLine(m_reader)
        BY <1>4 DEF Parse, ErrorLine, ResultLine, VersionLine, ForeignVersionLine, StatLine,
                    StatsEnd, ForeignStatsLine, GetEnd, MalformedLine, BrokenValueLine, ValueLine,
                    DataComplete, LineOf
  <2>2. PICK r, p : ReadingLineOf(r, p)
        BY <1>4, <2>1, LineOfAnswer DEF Intact
  <2>3. GivenToThis(r) /\ r \in Replies(call.op) /\ p \in r.starts /\ call.op \in Ops
        BY <2>2 DEF ReadingLineOf, TypeOK
  <2>4. CASE ErrorLine
    <3>1. r.toks[p].w = "ERROR" /\ r.toks[p].w \in LastWords(call.op) /\ ReadLineFailed
          BY <2>2, <2>4 DEF ErrorLine, ReadingLineOf, LastWords
    <3>2. IsFailure(r)
          BY <2>3, <3>1 DEF IsFailure
    <3>3. CASE call.op = "stats"
      <4>1. outcome'.kind = "value"
            BY <3>1, <3>3 DEF ReadLineFailed, Finish, Returns
      <4>. QED BY <1>1, <1>4, <2>1, <2>3, <3>3, <4>1, StatsPromise
    <3>4. CASE call.op # "stats"
      <4>1. outcome' = [kind |-> "raise", val |-> <<>>]
            BY <3>1, <3>4 DEF ReadLineFailed, Finish, Returns
      <4>2. SeenOutcome' = AnswerOutcome(call.op, r)
            BY <3>2, <4>1, SeenEmpty DEF AnswerOutcome
      <4>. QED BY <1>1, <1>4, <2>3, <4>2, ReturnsAnswer
    <3>. QED BY <3>3, <3>4
  <2>5. CASE ResultLine \/ VersionLine
    <3>1. /\ call.op \in {"store", "line", "version"}
          /\ outcome' \in { [kind |-> "value", val |-> <<FirstUnit>>],
                            [kind |-> "value",
                             val  |-> SubSeq(Line.mem, Line.readCursor + 1, Line.packetEnd - 1)] }
          BY <2>5 DEF ResultLine, VersionLine, LineOf, Finish, Returns
    <3>2. r.toks[p].w # "ERROR"
      <4>1. CASE ResultLine
            BY <2>2, <4>1 DEF ResultLine, ReadingLineOf
      <4>2. CASE VersionLine
        <5>1. r.toks[p].w = "VERSION"
              BY <2>2, <4>2 DEF VersionLine, ReadingLineOf
        <5>. QED BY <5>1
      <4>. QED BY <2>5, <4>1, <4>2
    <3>3. SeenOutcome' = AnswerOutcome(call.op, r)
          BY <1>1, <2>1, <2>2, <3>1, <3>2, LinePromise
    <3>. QED BY <1>1, <1>4, <2>3, <3>3, ReturnsAnswer
  <2>6. CASE StatsEnd
    <3>1. call.op = "stats" /\ outcome'.kind = "value"
          BY <2>6 DEF StatsEnd, LineOf, Finish, Returns
    <3>. QED BY <1>1, <1>4, <2>1, <2>3, <3>1, StatsPromise
  <2>7. CASE GetEnd
    <3>1. /\ call.op \in {"get", "multi"} /\ r.toks[p].w = "END"
          /\ outcome' = [kind |-> "value", val |-> GetResult]
          BY <2>2, <2>7 DEF GetEnd, LineOf, ReadingLineOf, Finish, Returns
    <3>2. SeenOutcome' = AnswerOutcome(call.op, r)
          BY <1>1, <2>2, <3>1, ValuesPromise
    <3>. QED BY <1>1, <1>4, <2>3, <3>2, ReturnsAnswer
  <2>8. ~MalformedLine /\ ~BrokenValueLine
        BY <2>2 DEF MalformedLine, BrokenValueLine, LineOf, ReadingLineOf, LastWords
  <2>9. ~ForeignVersionLine /\ ~ForeignStatsLine
        BY <2>2 DEF ForeignVersionLine, ForeignStatsLine, LineOf, ReadingLineOf, LastWords
  <2>10. ~StatLine /\ ~ValueLine /\ ~DataComplete
         BY <1>4, <2>1 DEF StatLine, ValueLine, DataComplete
  <2>. QED BY <2>4, <2>5, <2>6, <2>7, <2>8, <2>9, <2>10 DEF Parse
<1>. QED BY <1>2, <1>3, <1>4

(***************************************************************************)
(* A client whose buffer has room for the replies implements RemoteCall.   *)
(***************************************************************************)
THEOREM KeepsPromise == ASSUME ~BadKeys, RoomForReplies PROVE Spec => KeepsItsPromise
<1>1. /\ TypeOK /\ CursorOrder /\ StreamInv /\ AnswerInv /\ SeenInv
      /\ ResetsAreReal /\ ResetsAreReal' /\ [Next]_vars
      => [Promise!Next]_(Promise!vars)
  <2>. SUFFICES ASSUME TypeOK, CursorOrder, StreamInv, AnswerInv, SeenInv,
                       ResetsAreReal, ResetsAreReal', [Next]_vars
                PROVE  Promise!Next \/ UNCHANGED Promise!vars
       OBVIOUS
  <2>1. ~falseReset /\ ~falseReset'
        BY DEF ResetsAreReal
  <2>2. CASE UNCHANGED vars
        BY <2>2, Unseen DEF vars, Phase
  <2>. QED BY <2>1, <2>2, SocketPromise, BeginPromise, SendPromise, RecvPromise, ParsePromise,
              ServerPromise DEF Next
<1>2. Spec => []ResetsAreReal
      BY NoResetMadeUp
<1>3. Spec => []StreamInv /\ []AnswerInv /\ []SeenInv
      BY StaysInStep, KeepsAnswers, KeepsSeen, PTL
<1>. QED BY <1>1, <1>2, <1>3, InitPromise, TypeCorrect, CursorsOrdered, PTL
         DEF Spec, KeepsItsPromise, Promise!Spec

=============================================================================
