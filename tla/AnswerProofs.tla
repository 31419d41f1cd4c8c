----------------------------- MODULE AnswerProofs -----------------------------
(***************************************************************************)
(* What a method returns is what the server answered to it, for every      *)
(* reply that keeps to the protocol, however it is cut and whatever fails. *)
(* And noreply calls are carried out before any later call that gets an    *)
(* answer, for any number of calls.                                        *)
(***************************************************************************)
EXTENDS ClientAnswers, StreamProofs, FiniteSetTheorems

-----------------------------------------------------------------------------
(***************************************************************************)
(* How many members of a set of positions come before a position.          *)
(***************************************************************************)
LEMMA BeforeType ==
    ASSUME NEW S \in SUBSET Nat, IsFiniteSet(S), NEW p \in Nat
    PROVE  /\ IsFiniteSet({ x \in S : x < p })
           /\ Before(p, S) \in Nat /\ Before(p, S) <= Cardinality(S)
           /\ Cardinality(S) \in Nat
<1>1. { x \in S : x < p } \in SUBSET S
      OBVIOUS
<1>. QED BY <1>1, FS_Subset, FS_CardinalityType DEF Before

\* From one position of the set to the next.
LEMMA BeforeNext ==
    ASSUME NEW S \in SUBSET Nat, IsFiniteSet(S), NEW p \in Nat, NEW q \in Nat, p < q,
           \A x \in S : x <= p \/ q <= x
    PROVE  Before(q, S) = IF p \in S THEN Before(p, S) + 1 ELSE Before(p, S)
<1> DEFINE T == { x \in S : x < p }
<1>1. IsFiniteSet(T) /\ p \notin T
      BY BeforeType
<1>2. CASE p \in S
  <2>1. \A x \in S : x < q <=> x < p \/ x = p
        OBVIOUS
  <2>2. { x \in S : x < q } = T \cup {p}
        BY <1>2, <2>1
  <2>3. Cardinality(T \cup {p}) = Cardinality(T) + 1
        BY <1>1, FS_AddElement
  <2>. QED BY <1>2, <2>2, <2>3 DEF Before
<1>3. CASE p \notin S
  <2>1. \A x \in S : x < q <=> x < p
        BY <1>3
  <2>2. { x \in S : x < q } = T
        BY <2>1
  <2>. QED BY <1>3, <2>2 DEF Before
<1>. QED BY <1>2, <1>3

\* Before the first, after the last, and strictly in between.
LEMMA BeforeFirst ==
    ASSUME NEW S \in SUBSET Nat, NEW p \in Nat, \A x \in S : p <= x
    PROVE  Before(p, S) = 0
<1>1. \A x \in S : ~(x < p)
      OBVIOUS
<1>2. { x \in S : x < p } = {}
      BY <1>1
<1>. QED BY <1>2, FS_EmptySet DEF Before

LEMMA BeforeAll ==
    ASSUME NEW S \in SUBSET Nat, NEW p \in Nat, \A x \in S : x < p
    PROVE  Before(p, S) = Cardinality(S)
<1>1. { x \in S : x < p } = S
      OBVIOUS
<1>. QED BY <1>1 DEF Before

LEMMA BeforeLess ==
    ASSUME NEW S \in SUBSET Nat, IsFiniteSet(S), NEW x \in S, NEW p \in Nat, x < p
    PROVE  Before(x, S) < Before(p, S)
<1> DEFINE T == { y \in S : y < x }
           U == { y \in S : y < p }
<1>1. IsFiniteSet(U) /\ T \in SUBSET U /\ x \in U /\ x \notin T
  <2>1. \A y \in S : y < x => y < p
        OBVIOUS
  <2>2. IsFiniteSet({ y \in S : y < p })
        BY BeforeType, Zenon
  <2>3. x \in U /\ x \notin T
        OBVIOUS
  <2>. QED BY <2>1, <2>2, <2>3
<1> HIDE DEF T, U
<1>2. Cardinality(T) <= Cardinality(U) /\ Cardinality(T) # Cardinality(U)
      BY <1>1, FS_Subset
<1>3. Cardinality(T) \in Nat /\ Cardinality(U) \in Nat
  <2>1. IsFiniteSet(T)
        BY <1>1, FS_Subset
  <2>. QED BY <1>1, <2>1, FS_CardinalityType
<1>4. Before(x, S) = Cardinality(T) /\ Before(p, S) = Cardinality(U)
      BY Zenon DEF Before, T, U
<1>. QED BY <1>2, <1>3, <1>4

-----------------------------------------------------------------------------
(***************************************************************************)
(* The lines of a reply.                                                   *)
(***************************************************************************)
LEMMA LinesOfReply ==
    ASSUME NEW op \in Ops, NEW r \in Replies(op)
    PROVE  /\ r.toks \in Seq(Tokens) /\ Len(r.toks) \in Nat
           /\ 1 \in r.starts /\ IsFiniteSet(r.starts)
           /\ r.starts \subseteq Nat \ {0}
           /\ \A p \in r.starts : IsLine(r.toks, p) /\ Follows(op, r, p)
<1>1. WellFormed(op, r)
      BY ReplyAssumption
<1>2. /\ r.toks \in Seq(Tokens) /\ Len(r.toks) \in Nat
      /\ r.starts \subseteq Nat \ {0}
      BY <1>1, LenProperties DEF WellFormed
<1>3. r.starts \in SUBSET (1 .. Len(r.toks))
  <2>1. ASSUME NEW p \in r.starts PROVE p \in 1 .. Len(r.toks)
    <3>1. p \in Nat \ {0} /\ p + 1 \in 2 .. Len(r.toks)
          BY <1>1, <1>2 DEF WellFormed, IsLine
    <3>. QED BY <1>2, <3>1
  <2>. QED BY <2>1
<1>4. IsFiniteSet(r.starts)
  <2>1. IsFiniteSet(1 .. Len(r.toks))
        BY <1>2, FS_Interval
  <2>. QED BY <1>3, <2>1, FS_Subset
<1>. QED BY <1>1, <1>2, <1>4 DEF WellFormed

\* Nothing starts between a line and the one that follows it.
LEMMA LineAfter ==
    ASSUME NEW op \in Ops, NEW r \in Replies(op), NEW p \in r.starts
    PROVE  /\ op \in {"get", "multi"} /\ r.toks[p].w = "VALUE" =>
                 /\ AfterValue(r, p) \in r.starts
                 /\ \A q \in r.starts : q <= p \/ AfterValue(r, p) <= q
           /\ op = "stats" /\ r.toks[p].w = "STAT" =>
                 /\ p + 2 \in r.starts
                 /\ \A q \in r.starts : q <= p \/ p + 2 <= q
           /\ r.toks[p].w \in LastWords(op) => \A q \in r.starts : q <= p
<1>1. /\ Len(r.toks) \in Nat /\ r.starts \subseteq Nat \ {0}
      /\ \A q \in r.starts : IsLine(r.toks, q) /\ Follows(op, r, q)
      BY LinesOfReply
<1>2. r.toks[p].w = "VALUE" => r.toks[p].w \notin LastWords(op) /\ r.toks[p].w # "STAT"
      BY DEF LastWords, Ops
<1>3. r.toks[p].w = "STAT" => r.toks[p].w \notin LastWords(op)
      BY DEF LastWords, Ops
<1>4. p + 1 \notin r.starts
      BY <1>1 DEF IsLine
<1>5. \A q \in r.starts : q <= p \/ p + 2 <= q
      BY <1>1, <1>4
<1>6. ASSUME p + 1 = Len(r.toks), NEW q \in r.starts PROVE q <= p
      BY <1>1, <1>6 DEF IsLine
<1>. QED BY <1>1, <1>2, <1>3, <1>5, <1>6 DEF Follows

-----------------------------------------------------------------------------
(***************************************************************************)
(* Collecting entries.                                                     *)
(***************************************************************************)
LEMMA EntryLinesType ==
    ASSUME TypeOK, NEW r \in Replies(call.op), GivenToThis(r)
    PROVE  /\ EntryLines \in SUBSET Nat /\ IsFiniteSet(EntryLines)
           /\ \A p \in EntryLines : p \in r.starts /\ 1 <= p
           /\ \A p \in r.starts : p \in EntryLines <=> r.toks[p].w = EntryWord
           /\ answer.reply = r /\ answer.call = call.id
           /\ EntryLines = { p \in r.starts : r.toks[p].w = EntryWord }
<1>1. call.op \in Ops
      BY DEF TypeOK
<1>2. r.starts \subseteq Nat \ {0} /\ IsFiniteSet(r.starts)
      BY <1>1, LinesOfReply
<1>3. answer.reply = r /\ answer.call = call.id
      BY DEF GivenToThis
<1>4. EntryLines = { p \in r.starts : r.toks[p].w = EntryWord }
      BY <1>3, Zenon DEF EntryLines
<1>5. EntryLines \in SUBSET r.starts
      BY <1>4
<1>. QED BY <1>2, <1>3, <1>4, <1>5, FS_Subset

\* Nothing is collected before the first line of a reply that has come.
LEMMA CollectNone ==
    ASSUME TypeOK, UNCHANGED call, NEW r \in Replies(call.op), GivenToThis(r)', res' = <<>>
    PROVE  Collected(1)'
<1>1. r.starts \subseteq Nat \ {0}
      BY LinesOfReply DEF TypeOK
<1>2. answer'.reply = r
      BY DEF GivenToThis
<1>3. EntryLines' \in SUBSET Nat /\ \A q \in EntryLines' : 1 <= q /\ ~(q < 1)
      BY <1>1, <1>2 DEF EntryLines
<1>4. Before(1, EntryLines') = 0
      BY <1>3, BeforeFirst
<1>. QED BY <1>3, <1>4, EmptySeq DEF Collected

\* From the line of an entry to the next line, with one entry more.
LEMMA CollectOne ==
    ASSUME TypeOK, NEW r \in Replies(call.op), GivenToThis(r),
           UNCHANGED <<call, answer>>,
           NEW p \in EntryLines, NEW q \in Nat, p < q,
           \A x \in r.starts : x <= p \/ q <= x,
           Collected(p),
           NEW e \in Entries, res' = Append(res, e),
           call.op # "stats" => e.data = DataAt(p)
    PROVE  Collected(q)'
<1>1. /\ EntryLines \in SUBSET Nat /\ IsFiniteSet(EntryLines) /\ p \in Nat
      /\ \A x \in EntryLines : x <= p \/ q <= x
      BY EntryLinesType
<1>2. /\ Before(q, EntryLines) = Before(p, EntryLines) + 1
      /\ Before(p, EntryLines) \in Nat
      BY <1>1, BeforeNext, BeforeType
<1>3. EntryLines' = EntryLines /\ \A x : DataAt(x)' = DataAt(x)
      BY DEF EntryLines, EntryWord, DataAt
<1>4. Len(res) = Before(p, EntryLines) /\ res \in Seq(Entries)
      BY DEF Collected, TypeOK
<1>5. /\ Len(res) \in Nat /\ Len(res') = Len(res) + 1
      /\ res'[Len(res) + 1] = e
      /\ \A i \in 1 .. Len(res) : res'[i] = res[i]
      BY <1>4, AppendProperties, LenProperties
<1>6. ASSUME call.op # "stats", NEW x \in EntryLines, x < q
      PROVE  res'[Before(x, EntryLines) + 1].data = DataAt(x)
  <2>1. CASE x = p
        BY <1>4, <1>5, <1>6, <2>1
  <2>2. CASE x < p
    <3>1. Before(x, EntryLines) < Before(p, EntryLines) /\ Before(x, EntryLines) \in Nat
          BY <1>1, <1>6, <2>2, BeforeLess, BeforeType
    <3>2. Before(x, EntryLines) + 1 \in 1 .. Len(res)
          BY <1>2, <1>4, <1>5, <3>1
    <3>3. res[Before(x, EntryLines) + 1].data = DataAt(x)
          BY <1>6, <2>2 DEF Collected
    <3>4. res'[Before(x, EntryLines) + 1] = res[Before(x, EntryLines) + 1]
          BY <1>5, <3>2
    <3>. QED BY <3>3, <3>4
  <2>3. x = p \/ x < p
    <3>1. x \in Nat /\ (x <= p \/ q <= x)
          BY <1>1
    <3>. QED BY <1>1, <1>6, <3>1
  <2>. QED BY <2>1, <2>2, <2>3
<1>7. Len(res') = Before(q, EntryLines)
      BY <1>2, <1>4, <1>5
<1>. QED BY <1>3, <1>6, <1>7 DEF Collected

\* From a line to its value or back, and while nothing is taken.
LEMMA CollectSame ==
    ASSUME UNCHANGED <<call, answer, res>>, NEW p, Collected(p)
    PROVE  Collected(p)'
<1>1. EntryLines' = EntryLines /\ \A x : DataAt(x)' = DataAt(x)
      BY DEF EntryLines, EntryWord, DataAt
<1>. QED BY <1>1 DEF Collected

\* At the last line all entries are there.
LEMMA CollectAll ==
    ASSUME TypeOK, NEW r \in Replies(call.op), GivenToThis(r),
           NEW p \in r.starts, Collected(p), r.toks[p].w \in LastWords(call.op)
    PROVE  /\ Len(res) = Cardinality(EntryLines)
           /\ call.op # "stats" =>
                 \A q \in EntryLines : res[Before(q, EntryLines) + 1].data = DataAt(q)
<1>1. call.op \in Ops
      BY DEF TypeOK
<1>2. p \in Nat /\ \A q \in r.starts : q <= p
      BY <1>1, LinesOfReply, LineAfter
<1>3. p \notin EntryLines
  <2>1. EntryWord \notin LastWords(call.op)
        BY <1>1 DEF EntryWord, LastWords, Ops
  <2>. QED BY <2>1, EntryLinesType
<1>4. EntryLines \in SUBSET Nat /\ \A q \in EntryLines : q < p
  <2>1. EntryLines \in SUBSET Nat /\ \A q \in EntryLines : q \in r.starts
        BY EntryLinesType
  <2>. QED BY <1>2, <1>3, <2>1
<1>5. Before(p, EntryLines) = Cardinality(EntryLines)
      BY <1>2, <1>4, BeforeAll
<1>. QED BY <1>4, <1>5 DEF Collected

-----------------------------------------------------------------------------
(***************************************************************************)
(* The shapes a state with AnswerInv can have.                             *)
(***************************************************************************)
LEMMA IdleAnswer ==
    ASSUME pc' = "idle",
           Intact' /\ outcome'.kind = "value" =>
               ReturnsTheAnswer' /\ (call'.op # "stats" => toServer' = <<>>)
    PROVE  AnswerInv'
<1>1. outcome'.kind # "value" => ReturnsTheAnswer'
      BY DEF ReturnsTheAnswer
<1>. QED BY <1>1 DEF AnswerInv, CollectingAtLine, CollectingAtData

LEMMA SendingAnswer ==
    ASSUME pc' = "send", outcome'.kind = "none", res' = <<>>
    PROVE  AnswerInv'
BY DEF AnswerInv, CollectingAtLine, CollectingAtData, ReturnsTheAnswer

LEMMA WaitingAnswer ==
    ASSUME pc' = "line", outcome'.kind = "none",
           Intact' => Stuck' \/ (Waiting' /\ res' = <<>>)
    PROVE  AnswerInv'
BY DEF AnswerInv, CollectingAtLine, CollectingAtData, ReturnsTheAnswer

LEMMA LineAnswer ==
    ASSUME pc' = "line", outcome'.kind = "none",
           NEW r \in Replies(call'.op), NEW m \in 0 .. Len(sent'), NEW p \in r.starts,
           GivenToThis(r)', AtLine(r, m)', p = Passed' - m + 1, Collected(p)'
    PROVE  AnswerInv'
<1>1. ~Waiting'
      BY DEF AtLine, Answered, Waiting
<1>2. CollectingAtLine'
      BY DEF CollectingAtLine
<1>. QED BY <1>1, <1>2 DEF AnswerInv, CollectingAtData, ReturnsTheAnswer

LEMMA DataAnswer ==
    ASSUME pc' = "data", outcome'.kind = "none", call'.op \in {"get", "multi"},
           NEW r \in Replies(call'.op), NEW m \in 0 .. Len(sent'), NEW p \in r.starts,
           GivenToThis(r)', AtData(r, m)', p = Passed' - m - 1, Collected(p)'
    PROVE  AnswerInv'
<1>1. CollectingAtData'
      BY DEF CollectingAtData
<1>. QED BY <1>1 DEF AnswerInv, CollectingAtLine, ReturnsTheAnswer

-----------------------------------------------------------------------------
(***************************************************************************)
(* What the methods return.                                                *)
(***************************************************************************)
\* stats() at the last line of its reply.
LEMMA StatsReturned ==
    ASSUME TypeOK, NEW r \in Replies(call.op), GivenToThis(r),
           NEW p \in r.starts, Collected(p), r.toks[p].w \in LastWords(call.op),
           call.op = "stats", UNCHANGED <<call, answer>>, outcome'.val = res
    PROVE  ReturnsTheAnswer'
<1>1. Len(res) = Cardinality(EntryLines)
      BY CollectAll
<1>2. EntryLines = { q \in answer.reply.starts : answer.reply.toks[q].w = "STAT" }
      BY DEF EntryLines, EntryWord
<1>3. answer.call = call.id
      BY DEF GivenToThis
<1>. QED BY <1>1, <1>2, <1>3 DEF ReturnsTheAnswer, AllEntries

\* The get methods.
LEMMA ValuesReturned ==
    ASSUME TypeOK, NEW r \in Replies(call.op), GivenToThis(r),
           NEW p \in r.starts, Collected(p), r.toks[p].w \in LastWords(call.op),
           call.op \in {"get", "multi"}, UNCHANGED <<call, answer>>,
           outcome'.val = GetResult
    PROVE  ReturnsTheAnswer'
<1> DEFINE all == EntryLines
<1>1. /\ Len(res) = Cardinality(all)
      /\ \A q \in all : res[Before(q, all) + 1].data = DataAt(q)
      BY CollectAll
<1>2. all = ValueLines(answer.reply)
      BY DEF EntryLines, EntryWord, ValueLines
<1>3. answer.call = call.id
      BY DEF GivenToThis
<1>4. all \in SUBSET Nat /\ IsFiniteSet(all)
      BY EntryLinesType
<1> HIDE DEF all
<1>5. all # {} => res # <<>>
      BY <1>1, <1>4, FS_EmptySet, EmptySeq
<1>6. res \in Seq(Entries) /\ Len(res) \in Nat
      BY LenProperties DEF TypeOK
<1>7. CASE call.op = "multi"
  <2>1. outcome'.val = res
        BY <1>7 DEF GetResult
  <2>. QED BY <1>1, <1>2, <1>3, <1>7, <2>1 DEF ReturnsTheAnswer, DataAt
<1>8. CASE call.op = "get" /\ res = <<>>
  <2>1. all = {}
        BY <1>5, <1>8
  <2>. QED BY <1>2, <1>3, <1>8, <2>1 DEF ReturnsTheAnswer
<1>9. CASE call.op = "get" /\ res # <<>>
  <2>1. outcome'.val = SubSeq(res, 1, 1)
        BY <1>9 DEF GetResult
  <2>2. 1 <= Len(res)
        BY <1>6, <1>9, EmptySeq
  <2>3. /\ Len(SubSeq(res, 1, 1)) = IF 1 <= 1 THEN 1 - 1 + 1 ELSE 0
        /\ \A i \in 1 .. 1 - 1 + 1 : SubSeq(res, 1, 1)[i] = res[1 + i - 1]
        BY <1>6, <2>2, Stretch
  <2>4. Len(outcome'.val) = 1 /\ outcome'.val[1] = res[1]
        BY <2>1, <2>3
  <2>5. ASSUME NEW q \in all, Before(q, all) < 1
        PROVE  outcome'.val[Before(q, all) + 1].data = DataAt(q)
    <3>1. Before(q, all) \in Nat
          BY <1>4, BeforeType
    <3>2. Before(q, all) = 0
          BY <2>5, <3>1
    <3>3. res[0 + 1].data = DataAt(q)
          BY <1>1, <3>2
    <3>. QED BY <2>4, <3>2, <3>3
  <2>. QED BY <1>2, <1>3, <1>9, <2>4, <2>5 DEF ReturnsTheAnswer, DataAt
<1>. QED BY <1>7, <1>8, <1>9

\* The methods that return one line: it is the whole reply.
LEMMA OnlyLine ==
    ASSUME TypeOK, NEW r \in Replies(call.op), NEW p \in r.starts,
           call.op \in {"store", "line", "version"}
    PROVE  p = 1
<1>1. call.op \in Ops
      BY DEF TypeOK
<1>2. 1 \in r.starts /\ p \in Nat \ {0} /\ Follows(call.op, r, 1)
      BY <1>1, LinesOfReply
<1>3. r.toks[1].w \in LastWords(call.op)
      BY <1>2 DEF Follows
<1>4. p <= 1
      BY <1>1, <1>2, <1>3, LineAfter
<1>. QED BY <1>2, <1>4

LEMMA OneOf ==
    ASSUME NEW S, NEW s \in Seq(S), NEW i \in 1 .. Len(s)
    PROVE  SubSeq(s, i, i) = <<s[i]>>
<1>1. i \in Nat \ {0} /\ i \in Int /\ i <= Len(s)
      BY LenProperties
<1>2. SubSeq(s, i, i) \in Seq(S) /\ Len(SubSeq(s, i, i)) = 1 /\ SubSeq(s, i, i)[1] = s[i]
  <2>1. /\ SubSeq(s, i, i) \in Seq(S)
        /\ Len(SubSeq(s, i, i)) = IF i <= i THEN i - i + 1 ELSE 0
        /\ \A j \in 1 .. i - i + 1 : SubSeq(s, i, i)[j] = s[i + j - 1]
        BY <1>1, Stretch
  <2>2. i <= i /\ i - i + 1 = 1 /\ i + 1 - 1 = i /\ 1 \in 1 .. 1
        BY <1>1
  <2>. QED BY <2>1, <2>2
<1>3. s[i] \in S
      BY ElementOfSeq
<1> DEFINE t == <<s[i]>>
           u == SubSeq(s, i, i)
<1>4. t \in Seq(S) /\ Len(t) = 1 /\ t[1] = s[i]
      BY <1>3
<1>5. u \in Seq(S) /\ Len(u) = 1 /\ u[1] = s[i]
      BY <1>2
<1> HIDE DEF t, u
<1>6. Len(t) = Len(u) /\ \A j \in 1 .. Len(t) : t[j] = u[j]
      BY <1>4, <1>5
<1>7. t = u
      BY <1>4, <1>5, <1>6, SeqEqual
<1>. QED BY <1>7 DEF t, u

LEMMA LineReturned ==
    ASSUME TypeOK, CursorOrder, HaveLine(m_reader),
           NEW r \in Replies(call.op), GivenToThis(r), NEW p \in r.starts,
           FirstUnit = [call |-> call.id, tok |-> r.toks[p]],
           Line.packetEnd = Line.readCursor + 2,
           call.op \in {"store", "line", "version"}, UNCHANGED <<call, answer>>,
           outcome'.val \in {<<FirstUnit>>, SubSeq(Line.mem, Line.readCursor + 1, Line.packetEnd - 1)}
    PROVE  ReturnsTheAnswer'
<1>1. call.op \in Ops
      BY DEF TypeOK
<1>2. /\ r.toks \in Seq(Tokens) /\ 1 \in 1 .. Len(r.toks)
  <2>1. r.toks \in Seq(Tokens) /\ Len(r.toks) \in Nat /\ IsLine(r.toks, 1)
        BY <1>1, LinesOfReply
  <2>. QED BY <2>1 DEF IsLine
<1>3. FirstUnit = [call |-> call.id, tok |-> r.toks[1]]
      BY OnlyLine
<1>4. SubSeq(Line.mem, Line.readCursor + 1, Line.packetEnd - 1) = <<FirstUnit>>
  <2>1. /\ Line \in Reader /\ Line.packetEnd \in Line.readCursor + 1 .. Len(Line.mem)
        BY TypedReader, LineFound DEF Line
  <2>2. Line.mem \in Seq(Units) /\ Line.readCursor \in Nat /\ Len(Line.mem) \in Nat
        BY <2>1, LenProperties DEF Reader
  <2>3. Line.readCursor + 1 \in 1 .. Len(Line.mem) /\ Line.packetEnd - 1 = Line.readCursor + 1
        BY <2>1, <2>2
  <2>. QED BY <2>2, <2>3, OneOf DEF FirstUnit
<1>5. Stamp(SubSeq(r.toks, 1, 1), call.id) = <<[call |-> call.id, tok |-> r.toks[1]]>>
  <2>1. SubSeq(r.toks, 1, 1) = <<r.toks[1]>>
        BY <1>2, OneOf
  <2>2. Len(<<r.toks[1]>>) = 1 /\ <<r.toks[1]>>[1] = r.toks[1]
        OBVIOUS
  <2>. QED BY <2>1, <2>2 DEF Stamp
<1>6. answer.reply = r /\ answer.call = call.id
      BY DEF GivenToThis
<1>. QED BY <1>3, <1>4, <1>5, <1>6 DEF ReturnsTheAnswer

-----------------------------------------------------------------------------
(***************************************************************************)
(* The steps that read.                                                    *)
(***************************************************************************)
LEMMA LineStepAnswer ==
    ASSUME TypeOK, CursorOrder, TypeOK', CursorOrder', StreamInv, Intact, AnswerInv,
           Parse, ~DataComplete
    PROVE  AnswerInv'
<1>1. /\ pc = "line" /\ HaveLine(m_reader)
      /\ UNCHANGED <<call, answer, sent, toServer>>
      BY DEF Parse, ErrorLine, ResultLine, VersionLine, ForeignVersionLine, StatLine, StatsEnd,
             ForeignStatsLine, GetEnd, MalformedLine, BrokenValueLine, ValueLine, LineOf,
             TakeLine, netVars
<1>2. ~Stuck /\ ~Waiting
      BY <1>1, TypedReader, NothingUnread DEF Stuck, Waiting
<1>3. PICK r \in Replies(call.op), m \in 0 .. Len(sent) : \E p \in r.starts :
          GivenToThis(r) /\ AtLine(r, m) /\ p = Passed - m + 1 /\ Collected(p)
      BY <1>1, <1>2 DEF AnswerInv, CollectingAtLine
<1>4. PICK p \in r.starts :
          GivenToThis(r) /\ AtLine(r, m) /\ p = Passed - m + 1 /\ Collected(p)
      BY <1>3
<1> DEFINE w == r.toks[p].w
<1>5. /\ p \in Nat \ {0}
      /\ FirstUnit = [call |-> call.id, tok |-> r.toks[p]]
      /\ Line.packetEnd = Line.readCursor + 2
      /\ IsError <=> w = "ERROR"
      /\ IsEnd <=> w = "END"
      /\ \A word : BeginsWith(Line, <<word>>) <=> w = word
      /\ \/ call.op \in {"get", "multi"} /\ w = "VALUE"
         \/ call.op = "stats" /\ w = "STAT" /\ p + 2 \in r.starts
         \/ w \in LastWords(call.op) /\ p + 1 = Len(r.toks)
      BY <1>1, <1>4, LineRead DEF StreamInv
<1>6. outcome.kind = "none" /\ toServer' = <<>> /\ call.op \in Ops
      BY <1>1, <1>4 DEF AnswerInv, AtLine, Answered, TypeOK
<1>7. m \in Nat /\ Passed \in Int
      BY TypedStream
<1>8. ASSUME TakeLine(Skip(Line))
      PROVE  Passed' = Passed + 2 /\ Answered(r, m)' /\ GivenToThis(r)'
      BY <1>1, <1>4, <1>8, TakenLine DEF StreamInv, GivenToThis
<1> HIDE DEF w
<1>9. CASE ErrorLine
  <2>1. w = "ERROR" /\ pc' = "idle"
        BY <1>5, <1>9 DEF ErrorLine, ReadLineFailed, Finish
  <2>2. CASE call.op = "stats"
    <3>1. outcome'.val = res
          BY <1>9, <2>2 DEF ErrorLine, ReadLineFailed, Finish, Returns
    <3>2. w \in LastWords(call.op)
          BY <2>1 DEF LastWords
    <3>3. ReturnsTheAnswer'
          BY <1>1, <1>4, <2>2, <3>1, <3>2, StatsReturned DEF w
    <3>. QED BY <1>1, <2>1, <2>2, <3>3, IdleAnswer
  <2>3. CASE call.op # "stats"
    <3>1. outcome'.kind = "raise"
          BY <1>9, <2>3 DEF ErrorLine, ReadLineFailed, Finish, Returns
    <3>. QED BY <2>1, <3>1, IdleAnswer
  <2>. QED BY <2>2, <2>3
<1>10. CASE ResultLine
  <2>1. /\ call.op \in {"store", "line", "version"} /\ pc' = "idle"
        /\ outcome'.val = SubSeq(Line.mem, Line.readCursor + 1, Line.packetEnd - 1)
        BY <1>10 DEF ResultLine, LineOf, Finish, Returns
  <2>2. ReturnsTheAnswer'
        BY <1>1, <1>4, <1>5, <2>1, LineReturned
  <2>. QED BY <1>6, <2>1, <2>2, IdleAnswer
<1>11. CASE VersionLine
  <2>1. /\ call.op \in {"store", "line", "version"} /\ pc' = "idle"
        /\ outcome'.val = <<FirstUnit>>
        BY <1>11 DEF VersionLine, LineOf, Finish, Returns
  <2>2. ReturnsTheAnswer'
        BY <1>1, <1>4, <1>5, <2>1, LineReturned
  <2>. QED BY <1>6, <2>1, <2>2, IdleAnswer
<1>12. CASE StatLine
  <2>1. /\ call.op = "stats" /\ w = "STAT" /\ TakeLine(Skip(Line))
        /\ pc' = "line" /\ outcome'.kind = "none"
        BY <1>1, <1>5, <1>6, <1>12 DEF StatLine, LineOf
  <2>2. /\ p + 2 \in r.starts /\ p \in EntryLines
        /\ \A q \in r.starts : q <= p \/ p + 2 <= q
        BY <1>4, <1>6, <2>1, LineAfter, EntryLinesType DEF w, EntryWord
  <2>3. PICK e : e = [key |-> FirstUnit, data |-> <<>>]
        OBVIOUS
  <2>4. res' = Append(res, e) /\ e \in Entries
    <3>1. FirstUnit \in Units
      <4>1. Line \in Reader /\ Line.packetEnd \in Line.readCursor + 1 .. Len(Line.mem)
            BY <1>1, TypedReader, LineFound DEF Line
      <4>2. Line.mem \in Seq(Units) /\ Line.readCursor + 1 \in 1 .. Len(Line.mem)
            BY <4>1, LenProperties DEF Reader
      <4>. QED BY <4>2, ElementOfSeq DEF FirstUnit
    <3>. QED BY <1>12, <2>3, <3>1 DEF StatLine, Entries
  <2>5. p \in Nat /\ p + 2 \in Nat /\ p < p + 2
        BY <1>5
  <2>6. Collected(p + 2)'
        BY <1>1, <1>4, <2>1, <2>2, <2>4, <2>5, CollectOne
  <2>7. Passed' = Passed + 2 /\ Answered(r, m)' /\ GivenToThis(r)'
        BY <1>8, <2>1
  <2>8. p + 2 = Passed' - m + 1
        BY <1>4, <1>7, <2>7
  <2>9. AtLine(r, m)'
        BY <2>2, <2>7, <2>8 DEF AtLine
  <2>. QED BY <1>1, <2>1, <2>2, <2>6, <2>7, <2>8, <2>9, LineAnswer
<1>13. CASE StatsEnd
  <2>1. call.op = "stats" /\ w = "END" /\ pc' = "idle" /\ outcome'.val = res
        BY <1>5, <1>13 DEF StatsEnd, LineOf, Finish, Returns
  <2>2. w \in LastWords(call.op)
        BY <2>1 DEF LastWords
  <2>3. ReturnsTheAnswer'
        BY <1>1, <1>4, <2>1, <2>2, StatsReturned DEF w
  <2>. QED BY <1>1, <2>1, <2>3, IdleAnswer
<1>14. CASE GetEnd
  <2>1. call.op \in {"get", "multi"} /\ w = "END" /\ pc' = "idle" /\ outcome'.val = GetResult
        BY <1>5, <1>14 DEF GetEnd, LineOf, Finish, Returns
  <2>2. w \in LastWords(call.op)
        BY <2>1 DEF LastWords
  <2>3. ReturnsTheAnswer'
        BY <1>1, <1>4, <2>1, <2>2, ValuesReturned DEF w
  <2>. QED BY <1>6, <2>1, <2>3, IdleAnswer
<1>15. CASE ValueLine
  <2>1. /\ call.op \in {"get", "multi"} /\ w = "VALUE" /\ TakeLine(Skip(Line))
        /\ pc' = "data" /\ outcome'.kind = "none" /\ res' = res
        /\ head'.unit = FirstUnit
        BY <1>5, <1>6, <1>15 DEF ValueLine, LineOf
  <2>2. Passed' = Passed + 2 /\ Answered(r, m)' /\ GivenToThis(r)'
        BY <1>8, <2>1
  <2>3. p = Passed' - m - 1
        BY <1>4, <1>7, <2>2
  <2>4. head'.unit.tok = r.toks[p] /\ head'.unit.tok.w = "VALUE"
        BY <1>5, <2>1 DEF w
  <2>5. AtData(r, m)'
        BY <2>2, <2>3, <2>4 DEF AtData
  <2>6. Collected(p)'
        BY <1>1, <1>4, <2>1, CollectSame
  <2>. QED BY <1>1, <2>1, <2>2, <2>3, <2>5, <2>6, DataAnswer
<1>16. CASE MalformedLine \/ BrokenValueLine
  <2>1. pc' = "idle" /\ outcome'.kind = "raise"
        BY <1>16 DEF MalformedLine, BrokenValueLine, Finish, Returns
  <2>. QED BY <2>1, IdleAnswer
<1>17. ~ForeignVersionLine
       BY <1>5 DEF ForeignVersionLine, LineOf, LastWords
<1>18. ~ForeignStatsLine
       BY <1>5 DEF ForeignStatsLine, LineOf, LastWords
<1>. QED BY <1>9, <1>10, <1>11, <1>12, <1>13, <1>14, <1>15, <1>16, <1>17, <1>18 DEF Parse

-----------------------------------------------------------------------------
\* The n elements of a sequence after its first a.
LEMMA StretchAfter ==
    ASSUME NEW S, NEW s \in Seq(S), NEW a \in Nat, NEW n \in Nat, a + n <= Len(s)
    PROVE  /\ SubSeq(s, a + 1, a + n) \in Seq(S)
           /\ Len(SubSeq(s, a + 1, a + n)) = n
           /\ \A i \in 1 .. n : SubSeq(s, a + 1, a + n)[i] = s[a + i]
<1>1. a + 1 \in Nat \ {0} /\ a + n \in Int
      OBVIOUS
<1>2. /\ SubSeq(s, a + 1, a + n) \in Seq(S)
      /\ Len(SubSeq(s, a + 1, a + n)) = IF a + 1 <= a + n THEN (a + n) - (a + 1) + 1 ELSE 0
      /\ \A i \in 1 .. (a + n) - (a + 1) + 1 :
            SubSeq(s, a + 1, a + n)[i] = s[(a + 1) + i - 1]
      BY <1>1, Stretch
<1>3. /\ (IF a + 1 <= a + n THEN (a + n) - (a + 1) + 1 ELSE 0) = n
      /\ (a + n) - (a + 1) + 1 = n
      /\ \A i \in 1 .. n : (a + 1) + i - 1 = a + i
      OBVIOUS
<1>. QED BY <1>2, <1>3

\* The n units after the first rd carry the n tokens after the first a.
Carries(mem, rd, toks, a, c, n) ==
    \A i \in 1 .. n : mem[rd + i] = [call |-> c, tok |-> toks[a + i]]

LEMMA StampedStretch ==
    ASSUME NEW mem \in Seq(Units), NEW rd \in Nat, NEW n \in Nat, rd + n <= Len(mem),
           NEW toks \in Seq(Tokens), NEW a \in Nat, a + n <= Len(toks), NEW c \in Nat,
           Carries(mem, rd, toks, a, c, n)
    PROVE  SubSeq(mem, rd + 1, rd + n) = Stamp(SubSeq(toks, a + 1, a + n), c)
<1> DEFINE u == SubSeq(mem, rd + 1, rd + n)
           t == SubSeq(toks, a + 1, a + n)
           v == [i \in 1 .. n |-> [call |-> c, tok |-> t[i]]]
<1>1. u \in Seq(Units) /\ Len(u) = n /\ \A i \in 1 .. n : u[i] = mem[rd + i]
      BY StretchAfter
<1>2. t \in Seq(Tokens) /\ Len(t) = n /\ \A i \in 1 .. n : t[i] = toks[a + i]
      BY StretchAfter
<1> HIDE DEF u, t
<1>3. v \in [1 .. n -> Units]
  <2>1. \A i \in 1 .. n : t[i] \in Tokens
        BY <1>2, ElementOfSeq
  <2>2. \A i \in 1 .. n : [call |-> c, tok |-> t[i]] \in Units
        BY <2>1 DEF Units
  <2>. QED BY <2>2
<1>4. \A i \in 1 .. n : v[i] = u[i]
      BY <1>1, <1>2 DEF Carries
<1>5. v = Stamp(t, c)
      BY <1>2 DEF Stamp
<1> HIDE DEF v
<1>6. v \in Seq(Units)
      BY <1>3, SeqDef
<1>7. 1 .. Len(v) = 1 .. n /\ Len(v) \in Nat
      BY <1>3, <1>6, LenProperties
<1>8. Len(v) = n
      BY <1>7
<1>9. u = v
      BY <1>1, <1>4, <1>6, <1>8, SeqEqual
<1>. QED BY <1>5, <1>9 DEF u, t

\* What is unread are the tokens of r that follow.
UnreadOf(r, m) ==
    \A i \in 1 .. Unread(m_reader) :
        m_reader.mem[m_reader.readCursor + i]
            = [call |-> call.id, tok |-> r.toks[(Passed + i) - m]]

\* The value of the VALUE line at p of r is next, and all of it is in the buffer.
ValueNext(r, m, p) ==
    /\ call.op \in {"get", "multi"}
    /\ r \in Replies(call.op) /\ m \in 0 .. Len(sent)
    /\ GivenToThis(r) /\ AtData(r, m)
    /\ p \in r.starts /\ p = Passed - m - 1
    /\ head.unit.tok.n \in Nat /\ head.unit.tok.n + 1 <= Unread(m_reader)
    /\ UnreadOf(r, m)

\* The value that is taken is the one the reply has there.
LEMMA ValueTaken ==
    ASSUME TypeOK, CursorOrder, NEW r, NEW m, NEW p, ValueNext(r, m, p)
    PROVE  SubSeq(m_reader.mem, m_reader.readCursor + 1,
                  m_reader.readCursor + head.unit.tok.n) = DataAt(p)
<1>0. PICK n \in Nat : n = head.unit.tok.n /\ n + 1 <= Unread(m_reader)
      BY DEF ValueNext
<1>1. /\ call.op \in Ops /\ call.id \in Nat
      /\ m_reader.mem \in Seq(Units) /\ Len(m_reader.mem) \in Nat /\ m_reader.readCursor \in Nat
      /\ Unread(m_reader) \in Nat
      /\ Unread(m_reader) = Len(m_reader.mem) - m_reader.readCursor
      BY TypedReader DEF TypeOK
<1>2. /\ r.toks \in Seq(Tokens) /\ Len(r.toks) \in Nat /\ r.starts \subseteq Nat \ {0}
      /\ p \in r.starts /\ Follows(call.op, r, p)
      /\ \A q \in r.starts : IsLine(r.toks, q)
      BY <1>1, LinesOfReply DEF ValueNext
<1>3. p \in Nat \ {0} /\ m \in Nat /\ Passed \in Int /\ p + 1 \in Nat /\ Passed - m - 1 = p
      BY <1>2, TypedStream DEF ValueNext
<1>4. r.toks[p] = head.unit.tok /\ r.toks[p].w = "VALUE"
      BY DEF ValueNext, AtData
<1>5. (p + 1) + n <= Len(r.toks)
  <2>1. call.op \in {"get", "multi"}
        BY DEF ValueNext
  <2>2. r.toks[p].w \notin LastWords(call.op)
        BY <1>4, <2>1 DEF LastWords
  <2>3. AfterValue(r, p) \in r.starts
        BY <1>2, <1>4, <2>1, <2>2 DEF Follows
  <2>4. IsLine(r.toks, AfterValue(r, p))
        BY <1>2, <2>3
  <2>5. AfterValue(r, p) = p + 3 + n
        BY <1>0, <1>4 DEF AfterValue
  <2>6. IsLine(r.toks, p + 3 + n)
        BY <2>4, <2>5, Zenon
  <2>7. (p + 3 + n) + 1 \in 2 .. Len(r.toks)
        BY <2>6, Zenon DEF IsLine
  <2>8. \A x, y, z \in Nat : (x + 3 + y) + 1 \in 2 .. z => (x + 1) + y <= z
        OBVIOUS
  <2>. QED BY <1>2, <1>3, <2>7, <2>8
<1>6. Carries(m_reader.mem, m_reader.readCursor, r.toks, p + 1, call.id, n)
  <2>1. ASSUME NEW i \in 1 .. n
        PROVE  m_reader.mem[m_reader.readCursor + i]
                   = [call |-> call.id, tok |-> r.toks[(p + 1) + i]]
    <3>1. \A u \in Nat : n + 1 <= u => i \in 1 .. u
          OBVIOUS
    <3>2. i \in 1 .. Unread(m_reader)
          BY <1>0, <1>1, <3>1, Zenon
    <3>3. \A x \in Int : \A y \in Nat : x - y - 1 = p => (x + i) - y = (p + 1) + i
          BY <1>3
    <3>4. (Passed + i) - m = (p + 1) + i
          BY <1>3, <3>3, Zenon
    <3>5. UnreadOf(r, m)
          BY DEF ValueNext
    <3>. QED BY <3>2, <3>4, <3>5, Zenon DEF UnreadOf
  <2>. QED BY <2>1, Zenon DEF Carries
<1>7. m_reader.readCursor + n <= Len(m_reader.mem)
  <2>1. \A x, y, z \in Nat : n + 1 <= x /\ x = y - z => z + n <= y
        OBVIOUS
  <2>. QED BY <1>0, <1>1, <2>1, Zenon
<1>8. SubSeq(m_reader.mem, m_reader.readCursor + 1, m_reader.readCursor + n)
          = Stamp(SubSeq(r.toks, (p + 1) + 1, (p + 1) + n), call.id)
  <2>1. PICK mem \in Seq(Units), rd \in Nat, toks \in Seq(Tokens), a \in Nat, c \in Nat :
            /\ mem = m_reader.mem /\ rd = m_reader.readCursor
            /\ toks = r.toks /\ a = p + 1 /\ c = call.id
        BY <1>1, <1>2, <1>3
  <2>2. rd + n <= Len(mem) /\ a + n <= Len(toks) /\ Carries(mem, rd, toks, a, c, n)
        BY <1>5, <1>6, <1>7, <2>1, Zenon
  <2>3. SubSeq(mem, rd + 1, rd + n) = Stamp(SubSeq(toks, a + 1, a + n), c)
        BY <2>2, StampedStretch
  <2>. QED BY <2>1, <2>3
<1>9. (p + 1) + 1 = p + 2 /\ (p + 1) + n = p + 1 + n
      BY <1>3
<1>10. answer.reply = r /\ answer.call = call.id
       BY DEF ValueNext, GivenToThis
<1>. QED BY <1>0, <1>4, <1>8, <1>9, <1>10 DEF DataAt

LEMMA DataStepAnswer ==
    ASSUME TypeOK, CursorOrder, TypeOK', CursorOrder', StreamInv, Intact, AnswerInv, DataComplete
    PROVE  AnswerInv'
<1>1. /\ pc = "data" /\ pc' = "line"
      /\ UNCHANGED <<call, answer, sent, outcome>>
      BY DEF DataComplete, netVars
<1>2. PICK r \in Replies(call.op), m \in 0 .. Len(sent) : \E p \in r.starts :
          /\ call.op \in {"get", "multi"}
          /\ GivenToThis(r) /\ AtData(r, m) /\ p = Passed - m - 1 /\ Collected(p)
      BY <1>1 DEF AnswerInv, CollectingAtData
<1>3. PICK p \in r.starts :
          /\ call.op \in {"get", "multi"}
          /\ GivenToThis(r) /\ AtData(r, m) /\ p = Passed - m - 1 /\ Collected(p)
      BY <1>2
<1>4. /\ AtLine(r, m)' /\ Passed' - m + 1 = AfterValue(r, p)
      /\ head.unit.tok.n \in Nat /\ head.unit.tok.n + 1 <= Unread(m_reader)
      /\ \A i \in 1 .. Unread(m_reader) :
             m_reader.mem[m_reader.readCursor + i]
                 = [call |-> call.id, tok |-> r.toks[(Passed + i) - m]]
      BY <1>3, DataTaken
<1>5. PICK n \in Nat : n = head.unit.tok.n
      BY <1>4
<1>6. SubSeq(m_reader.mem, m_reader.readCursor + 1, m_reader.readCursor + n) = DataAt(p)
  <2>1. ValueNext(r, m, p)
        BY <1>3, <1>4 DEF UnreadOf, ValueNext
  <2>. QED BY <1>5, <2>1, ValueTaken
<1>7. (m_reader.readCursor + Expect) - 1 = m_reader.readCursor + n
      BY <1>5, TypedReader DEF Expect
<1>8. PICK e : e = [key |-> KeySeen, data |-> DataAt(p)]
      OBVIOUS
<1>9. res' = Append(res, e)
      BY <1>6, <1>7, <1>8 DEF DataComplete
<1>10. e \in Entries
  <2>1. KeySeen \in Units
    <3>1. head.unit \in Units /\ head.at \in Nat \ {0}
          BY DEF TypeOK
    <3>2. m_reader.mem \in Seq(Units) /\ Len(m_reader.mem) \in Nat
          BY TypedReader
    <3>3. head.at <= Len(m_reader.mem) => m_reader.mem[head.at] \in Units
      <4>1. head.at <= Len(m_reader.mem) => head.at \in 1 .. Len(m_reader.mem)
            BY <3>1, <3>2
      <4>. QED BY <3>2, <4>1, ElementOfSeq
    <3>. QED BY <3>1, <3>3 DEF KeySeen, WriteCursor
  <2>2. DataAt(p) \in Seq(Units)
    <3>1. /\ m_reader.mem \in Seq(Units) /\ m_reader.readCursor \in Nat
          /\ m_reader.readCursor + n <= Len(m_reader.mem)
      <4>1. /\ m_reader.mem \in Seq(Units) /\ m_reader.readCursor \in Nat
            /\ m_reader.readCursor + Unread(m_reader) <= Len(m_reader.mem)
            /\ Unread(m_reader) \in Nat /\ Len(m_reader.mem) \in Nat
            BY TypedReader
      <4>2. n \in Nat /\ n <= Unread(m_reader)
        <5>1. n \in Nat /\ n + 1 <= Unread(m_reader)
              BY <1>4, <1>5, Zenon
        <5>. QED BY <4>1, <5>1
      <4>3. PICK a \in Nat, b \in Nat, c \in Nat :
                a = m_reader.readCursor /\ b = Unread(m_reader) /\ c = Len(m_reader.mem)
            BY <4>1, Zenon
      <4>4. a + b <= c /\ n <= b => a + n <= c
            BY <4>2, <4>3
      <4>5. m_reader.readCursor + n <= Len(m_reader.mem)
            BY <4>1, <4>2, <4>3, <4>4, Zenon
      <4>. QED BY <4>1, <4>5, Zenon
    <3>2. SubSeq(m_reader.mem, m_reader.readCursor + 1, m_reader.readCursor + n) \in Seq(Units)
          BY <3>1, StretchAfter, Zenon
    <3>. QED BY <1>6, <3>2
  <2>. QED BY <1>8, <2>1, <2>2 DEF Entries
<1>11. /\ p \in EntryLines /\ p \in Nat /\ AfterValue(r, p) \in Nat /\ p < AfterValue(r, p)
       /\ AfterValue(r, p) \in r.starts
       /\ \A q \in r.starts : q <= p \/ AfterValue(r, p) <= q
  <2>1. r.toks[p] = head.unit.tok /\ r.toks[p].w = "VALUE"
        BY <1>3 DEF AtData
  <2>2. call.op \in Ops /\ r.starts \subseteq Nat
        BY <1>3, LinesOfReply DEF Ops
  <2>3. /\ AfterValue(r, p) \in r.starts
        /\ \A q \in r.starts : q <= p \/ AfterValue(r, p) <= q
        BY <1>3, <2>1, <2>2, LineAfter
  <2>4. p \in EntryLines
    <3>1. EntryWord = "VALUE"
          BY <1>3 DEF EntryWord
    <3>. QED BY <1>3, <2>1, <3>1, EntryLinesType
  <2>5. AfterValue(r, p) = p + 3 + n
        BY <1>5, <2>1 DEF AfterValue
  <2>. QED BY <2>2, <2>3, <2>4, <2>5
<1>12. PICK q \in r.starts : q = AfterValue(r, p)
       BY <1>11
<1>13. Collected(q)'
  <2>1. e.data = DataAt(p)
        BY <1>8
  <2>. QED BY <1>1, <1>3, <1>9, <1>10, <1>11, <1>12, <2>1, CollectOne
<1>14. GivenToThis(r)' /\ outcome'.kind = "none"
       BY <1>1, <1>3 DEF GivenToThis, AnswerInv
<1>. QED BY <1>1, <1>4, <1>12, <1>13, <1>14, LineAnswer

-----------------------------------------------------------------------------
\* recv() adds to what can be read, and takes nothing of it away.
LEMMA RecvLineAnswer ==
    ASSUME TypeOK, CursorOrder, TypeOK', CursorOrder', StreamInv, Intact, AnswerInv, RecvLine
    PROVE  AnswerInv'
<1>1. PICK k \in 1 .. Len(sent) : rcvd + k <= Len(sent) /\ Receive(ScanLine(m_reader), k)
      BY DEF RecvLine, AtMost
<1>2. /\ pc = "line" /\ pc' = "line" /\ prv /\ ~HaveLine(m_reader)
      /\ UNCHANGED <<call, outcome, res, toServer, sent, answer>>
      BY DEF RecvLine, callVars
<1>3. Passed' = Passed
      BY <1>1, <1>2, ScanKeeps, ReceiveStream DEF StreamInv, InStep
<1>4. rcvd # Len(sent)
      BY <1>1, TypedStream
<1>5. PICK r \in Replies(call.op), m \in 0 .. Len(sent) : \E p \in r.starts :
          GivenToThis(r) /\ AtLine(r, m) /\ p = Passed - m + 1 /\ Collected(p)
      BY <1>2, <1>4 DEF AnswerInv, CollectingAtLine, Stuck, Waiting
<1>6. PICK p \in r.starts :
          GivenToThis(r) /\ AtLine(r, m) /\ p = Passed - m + 1 /\ Collected(p)
      BY <1>5
<1>7. AtLine(r, m)' /\ GivenToThis(r)'
      BY <1>2, <1>3, <1>6 DEF AtLine, Answered, GivenToThis
<1>8. Collected(p)'
      BY <1>2, <1>6, CollectSame
<1>9. outcome'.kind = "none"
      BY <1>2 DEF AnswerInv
<1>. QED BY <1>2, <1>3, <1>6, <1>7, <1>8, <1>9, LineAnswer

LEMMA RecvDataAnswer ==
    ASSUME TypeOK, CursorOrder, TypeOK', CursorOrder', StreamInv, Intact, AnswerInv, RecvData
    PROVE  AnswerInv'
<1>1. PICK k \in 1 .. Len(sent) : rcvd + k <= Len(sent) /\ Receive(m_reader, k)
      BY DEF RecvData, AtMost
<1>2. /\ pc = "data" /\ pc' = "data"
      /\ UNCHANGED <<call, head, outcome, res, toServer, sent, answer>>
      BY DEF RecvData, callVars
<1>3. Passed' = Passed
  <2>1. m_reader \in Reader /\ Ordered(m_reader)
        BY TypedReader
  <2>. QED BY <1>1, <1>2, <2>1, ReceiveStream DEF StreamInv, InStep
<1>4. PICK r \in Replies(call.op), m \in 0 .. Len(sent) : \E p \in r.starts :
          /\ call.op \in {"get", "multi"}
          /\ GivenToThis(r) /\ AtData(r, m) /\ p = Passed - m - 1 /\ Collected(p)
      BY <1>2 DEF AnswerInv, CollectingAtData
<1>5. PICK p \in r.starts :
          /\ call.op \in {"get", "multi"}
          /\ GivenToThis(r) /\ AtData(r, m) /\ p = Passed - m - 1 /\ Collected(p)
      BY <1>4
<1>6. AtData(r, m)' /\ GivenToThis(r)'
      BY <1>2, <1>3, <1>5 DEF AtData, Answered, GivenToThis
<1>7. Collected(p)'
      BY <1>2, <1>5, CollectSame
<1>8. outcome'.kind = "none"
      BY <1>2 DEF AnswerInv
<1>. QED BY <1>2, <1>3, <1>5, <1>6, <1>7, <1>8, DataAnswer

\* A call whose connection fails raises, but for stats().
LEMMA RecvFailsAnswer ==
    ASSUME RecvLineEmpty \/ RecvLineRaises \/ RecvDataFails
    PROVE  AnswerInv'
<1>1. pc' = "idle" /\ UNCHANGED <<call, sock>>
      BY DEF RecvLineEmpty, RecvLineRaises, RecvDataFails, ReadLineFailed, Finish, netVars
<1>2. outcome'.kind = "value" => call.op = "stats"
      BY DEF RecvLineEmpty, RecvLineRaises, RecvDataFails, ReadLineFailed, Finish, Returns
<1>3. Intact' /\ outcome'.kind = "value" => ~(prv' /\ sock' = "up")
  <2>1. CASE RecvLineEmpty
    <3>1. ~falseReset' => ~(LineSpace = 0)
          BY <2>1, Zenon DEF RecvLineEmpty
    <3>2. sock = "closed" \/ LineSpace = 0
          BY <2>1 DEF RecvLineEmpty
    <3>. QED BY <1>1, <3>1, <3>2 DEF Intact
  <2>2. CASE RecvLineRaises \/ RecvDataFails
        BY <2>2 DEF RecvLineRaises, RecvDataFails
  <2>. QED BY <2>1, <2>2
<1>4. Intact' /\ outcome'.kind = "value" => ReturnsTheAnswer'
      BY <1>1, <1>2, <1>3 DEF ReturnsTheAnswer
<1>. QED BY <1>1, <1>2, <1>4, IdleAnswer

LEMMA RecvAnswer ==
    ASSUME TypeOK, CursorOrder, TypeOK', CursorOrder', StreamInv, Intact, AnswerInv, Recv
    PROVE  AnswerInv'
BY RecvLineAnswer, RecvDataAnswer, RecvFailsAnswer DEF Recv

-----------------------------------------------------------------------------
(***************************************************************************)
(* The steps that send, and those between the calls.                       *)
(***************************************************************************)
LEMMA SendAnswer ==
    ASSUME TypeOK, StreamInv, StreamInv', AnswerInv, Send
    PROVE  AnswerInv'
<1>1. pc = "send" /\ outcome.kind = "none" /\ res = <<>> /\ UNCHANGED <<call, res, falseReset>>
      BY DEF Send, SendPart, SendRest, SendRaises, SendZero, callVars, objVars, AnswerInv
<1>2. \/ pc' \in {"send", "line"} /\ outcome'.kind = "none"
      \/ pc' = "idle" /\ outcome'.kind # "value"
  <2>1. CASE SendPart
        BY <1>1, <2>1 DEF SendPart, callVars
  <2>2. CASE SendRest
        BY <1>1, <2>2 DEF SendRest, Finish, Returns
  <2>3. CASE SendRaises \/ SendZero
        BY <1>1, <2>3 DEF SendRaises, SendZero, SendFailed, Finish, Returns
  <2>. QED BY <2>1, <2>2, <2>3 DEF Send
<1>3. CASE pc' = "send"
      BY <1>1, <1>2, <1>3, SendingAnswer
<1>4. CASE pc' = "idle"
      BY <1>2, <1>4, IdleAnswer
<1>5. CASE pc' = "line"
  <2>1. Intact' => Stuck' \/ Waiting'
        BY <1>1, <1>5, NothingToReadYet DEF Intact
  <2>. QED BY <1>1, <1>2, <1>5, <2>1, WaitingAnswer
<1>. QED BY <1>2, <1>3, <1>4, <1>5

LEMMA BeginAnswer ==
    ASSUME ~BadKeys, Begin
    PROVE  AnswerInv'
<1>1. ASSUME NEW op, NEW async, NEW n, Request(op, async, n)
      PROVE  AnswerInv'
      BY <1>1, SendingAnswer DEF Request, NextCall, Returns
<1>2. ASSUME NEW n, NEW async, CommandTooLarge(n, async)
      PROVE  AnswerInv'
  <2>1. pc' = "idle" /\ outcome'.kind = "raise"
        BY <1>2 DEF CommandTooLarge, NextCall, Returns
  <2>. QED BY <2>1, IdleAnswer
<1>. QED BY <1>1, <1>2
         DEF Begin, Command, Cas, Delete, Incr, Decr, FlushAll, Version, Stats, Get, GetMulti,
             GetMultiBadKeys

LEMMA SocketAnswer ==
    ASSUME Socket
    PROVE  AnswerInv'
<1>1. pc' = "idle" /\ outcome'.kind # "value"
      BY DEF Socket, Connect, ConnectFails, ConnectRefused, ConnectBegins, Disconnect, Returns
<1>. QED BY <1>1, IdleAnswer

-----------------------------------------------------------------------------
(***************************************************************************)
(* The steps of the server.                                                *)
(***************************************************************************)
\* The steps that leave the stream and the call as they are.
LEMMA QuietAnswer ==
    ASSUME AnswerInv, StreamInv, Intact, sock = "up", toServer # <<>>,
           UNCHANGED <<pc, call, outcome, res, answer, m_reader, prv, falseReset, sock, sent, rcvd>>,
           Waiting => Waiting'
    PROVE  AnswerInv'
<1>1. \A r, m : ~Answered(r, m)
      BY DEF Answered
<1>2. pc # "data" /\ (pc = "line" => Stuck \/ Waiting)
      BY <1>1 DEF StreamInv, ReadingLine, ReadingData, AtLine, AtData
<1>3. Stuck => Stuck'
      BY DEF Stuck
<1>4. CASE pc = "line"
  <2>1. Stuck' \/ (Waiting' /\ res' = <<>>)
        BY <1>2, <1>3, <1>4 DEF AnswerInv
  <2>. QED BY <1>4, <2>1, WaitingAnswer DEF AnswerInv
<1>5. CASE pc = "send"
      BY <1>5, SendingAnswer DEF AnswerInv
<1>6. CASE pc \notin {"line", "send", "data"}
  <2>1. outcome.kind = "value" => call.op = "stats"
        BY DEF AnswerInv
  <2>2. ReturnsTheAnswer'
        BY <2>1 DEF AnswerInv, ReturnsTheAnswer, AllEntries
  <2>3. ~(pc' \in {"line", "send", "data"})
        BY <1>6
  <2>. QED BY <2>1, <2>2, <2>3
           DEF AnswerInv, CollectingAtLine, CollectingAtData
<1>. QED BY <1>2, <1>4, <1>5, <1>6

\* The reply to the call that waits: nothing of it has been read.
LEMMA ServeReplyAnswer ==
    ASSUME TypeOK, CursorOrder, TypeOK', CursorOrder', StreamInv, Intact, AnswerInv, ServeReply
    PROVE  AnswerInv'
<1>1. /\ toServer # <<>> /\ sock = "up"
      /\ UNCHANGED <<pc, call, outcome, res, m_reader, prv, falseReset, sock, rcvd>>
      BY DEF ServeReply, callVars, objVars
<1>2. \A r, m : ~Answered(r, m)
      BY <1>1 DEF Answered
<1>3. pc # "data" /\ (pc = "line" => Stuck \/ Waiting)
      BY <1>2 DEF StreamInv, ReadingLine, ReadingData, AtLine, AtData
<1>4. CASE pc = "line" /\ Stuck
  <2>1. Stuck'
        BY <1>1, <1>4 DEF Stuck
  <2>. QED BY <1>1, <1>4, <2>1, WaitingAnswer DEF AnswerInv
<1>5. CASE pc = "line" /\ ~Stuck
  <2>1. Waiting /\ res' = <<>> /\ outcome'.kind = "none"
        BY <1>1, <1>3, <1>5 DEF AnswerInv
  <2>2. PICK r \in Replies(call.op), m \in 0 .. Len(sent') :
            GivenToThis(r)' /\ AtLine(r, m)' /\ Passed' = m
        BY <1>1, <2>1, ServeReplyStream DEF GivenToThis
  <2>3. 1 \in r.starts
        BY LinesOfReply DEF TypeOK
  <2>4. PICK p \in r.starts : p = 1
        BY <2>3
  <2>5. Collected(p)'
        BY <1>1, <2>1, <2>2, <2>4, CollectNone
  <2>6. p = Passed' - m + 1
        BY <2>2, <2>4
  <2>. QED BY <1>1, <1>5, <2>1, <2>2, <2>5, <2>6, LineAnswer
<1>6. CASE pc = "send"
      BY <1>1, <1>6, SendingAnswer DEF AnswerInv
<1>7. CASE pc = "idle"
  <2>1. outcome.kind = "value" => call.op = "stats"
        BY <1>1 DEF AnswerInv
  <2>2. ~prv
    <3>. SUFFICES ASSUME prv PROVE FALSE
         OBVIOUS
    <3>1. AsyncFrom(Len(toServer))
          BY <1>1, <1>7 DEF StreamInv, BetweenReplies, Settled
    <3>2. Len(toServer) \in Nat \ {0} /\ Request1 = toServer[1]
          BY <1>1, EmptySeq DEF Request1, TypeOK
    <3>. QED BY <3>1, <3>2 DEF AsyncFrom, ServeReply
  <2>. QED BY <1>1, <1>7, <2>1, <2>2, IdleAnswer DEF ReturnsTheAnswer
<1>. QED BY <1>3, <1>4, <1>5, <1>6, <1>7 DEF TypeOK

\* What a closing peer cuts off has not been read.
LEMMA PeerClosesAnswer ==
    ASSUME TypeOK, CursorOrder, TypeOK', CursorOrder', StreamInv, Intact, AnswerInv, PeerCloses
    PROVE  AnswerInv'
<1>1. /\ sock = "up" /\ sock' = "closed" /\ toServer' = <<>>
      /\ UNCHANGED <<pc, call, head, outcome, res, m_reader, prv, falseReset, rcvd, answer>>
      BY DEF PeerCloses, callVars, objVars
<1>2. /\ Passed' = Passed
      /\ \A r \in Replies(call.op) : \A m \in 0 .. Len(sent) :
             Answered(r, m) => m \in 0 .. Len(sent') /\ Answered(r, m)'
      BY PeerClosesStream
<1>3. CASE pc = "line" /\ (Stuck \/ Waiting)
  <2>1. Stuck'
        BY <1>3, ClosedIsStuck
  <2>. QED BY <1>1, <1>3, <2>1, WaitingAnswer DEF AnswerInv
<1>4. CASE pc = "line" /\ ~Stuck /\ ~Waiting
  <2>1. PICK r \in Replies(call.op), m \in 0 .. Len(sent) : \E p \in r.starts :
            GivenToThis(r) /\ AtLine(r, m) /\ p = Passed - m + 1 /\ Collected(p)
        BY <1>4 DEF AnswerInv, CollectingAtLine
  <2>2. PICK p \in r.starts :
            GivenToThis(r) /\ AtLine(r, m) /\ p = Passed - m + 1 /\ Collected(p)
        BY <2>1
  <2>3. m \in 0 .. Len(sent') /\ AtLine(r, m)' /\ GivenToThis(r)'
        BY <1>1, <1>2, <2>2 DEF AtLine, GivenToThis
  <2>4. Collected(p)'
        BY <1>1, <2>2, CollectSame
  <2>. QED BY <1>1, <1>2, <1>4, <2>2, <2>3, <2>4, LineAnswer DEF AnswerInv
<1>5. CASE pc = "data"
  <2>1. PICK r \in Replies(call.op), m \in 0 .. Len(sent) : \E p \in r.starts :
            /\ call.op \in {"get", "multi"}
            /\ GivenToThis(r) /\ AtData(r, m) /\ p = Passed - m - 1 /\ Collected(p)
        BY <1>5 DEF AnswerInv, CollectingAtData
  <2>2. PICK p \in r.starts :
            /\ call.op \in {"get", "multi"}
            /\ GivenToThis(r) /\ AtData(r, m) /\ p = Passed - m - 1 /\ Collected(p)
        BY <2>1
  <2>3. m \in 0 .. Len(sent') /\ AtData(r, m)' /\ GivenToThis(r)'
        BY <1>1, <1>2, <2>2 DEF AtData, GivenToThis
  <2>4. Collected(p)'
        BY <1>1, <2>2, CollectSame
  <2>. QED BY <1>1, <1>2, <1>5, <2>2, <2>3, <2>4, DataAnswer DEF AnswerInv
<1>6. CASE pc = "send"
      BY <1>1, <1>6, SendingAnswer DEF AnswerInv
<1>7. CASE pc = "idle"
  <2>1. ReturnsTheAnswer'
        BY <1>1 DEF AnswerInv, ReturnsTheAnswer, DataAt
  <2>. QED BY <1>1, <1>7, <2>1, IdleAnswer
<1>. QED BY <1>3, <1>4, <1>5, <1>6, <1>7 DEF TypeOK

-----------------------------------------------------------------------------
LEMMA InitAnswer == Init => AnswerInv
BY DEF Init, AnswerInv, CollectingAtLine, CollectingAtData, ReturnsTheAnswer

\* On a client that was not intact nothing is said of the answer.
LEMMA LooseAnswer ==
    ASSUME AnswerInv, Recv \/ Parse \/ Serve \/ PeerCloses, ~Intact
    PROVE  AnswerInv'
<1>1. CASE Recv
  <2>1. /\ pc \in {"line", "data"} /\ pc' \in {pc, "idle"} /\ UNCHANGED call
        /\ pc' # "idle" => outcome' = outcome
        BY <1>1 DEF Recv, RecvLine, RecvLineEmpty, RecvLineRaises, RecvData, RecvDataFails,
                    ReadLineFailed, Finish, Returns, callVars
  <2>2. falseReset => falseReset'
    <3>1. CASE RecvLineEmpty
          BY <3>1, Zenon DEF RecvLineEmpty
    <3>2. CASE RecvLine \/ RecvLineRaises \/ RecvData \/ RecvDataFails
          BY <3>2 DEF RecvLine, RecvLineRaises, RecvData, RecvDataFails
    <3>. QED BY <1>1, <3>1, <3>2 DEF Recv
  <2>. QED BY <2>1, <2>2 DEF AnswerInv, Intact
<1>2. CASE Parse
  <2>1. /\ pc \in {"line", "data"} /\ pc' \in {"line", "data", "idle"}
        /\ UNCHANGED <<call, falseReset>>
        /\ pc' # "idle" => outcome' = outcome
        BY <1>2 DEF Parse, ErrorLine, ResultLine, VersionLine, ForeignVersionLine, StatLine,
                    StatsEnd, ForeignStatsLine, GetEnd, MalformedLine, BrokenValueLine, ValueLine,
                    DataComplete, TakeLine, LineOf, ReadLineFailed, Finish, Returns
  <2>. QED BY <2>1 DEF AnswerInv, Intact
<1>3. CASE Serve \/ PeerCloses
  <2>1. UNCHANGED <<pc, call, outcome, res, falseReset>>
        BY <1>3 DEF Serve, ServeQuietly, ServeReply, ServeGarbled, PeerCloses, callVars, objVars
  <2>. QED BY <2>1 DEF AnswerInv, Intact
<1>. QED BY <1>1, <1>2, <1>3

LEMMA StutterAnswer == AnswerInv /\ UNCHANGED vars => AnswerInv'
<1>. SUFFICES ASSUME AnswerInv, UNCHANGED vars PROVE AnswerInv'
     OBVIOUS
<1>1. UNCHANGED <<pc, call, head, res, outcome, m_reader, prv, falseReset, sock, toServer, sent,
                  rcvd, answer>>
      BY DEF vars
<1>2. /\ Intact' = Intact /\ Stuck' = Stuck /\ Waiting' = Waiting /\ Passed' = Passed
      /\ EntryLines' = EntryLines
      BY <1>1 DEF Intact, Stuck, Waiting, OwnRequest, AsyncFrom, Passed, EntryLines, EntryWord
<1>3. ReturnsTheAnswer' = ReturnsTheAnswer
      BY <1>1 DEF ReturnsTheAnswer, Intact, AllEntries, DataAt
<1>4. \A r, m : /\ GivenToThis(r)' = GivenToThis(r)
                /\ AtLine(r, m)' = AtLine(r, m) /\ AtData(r, m)' = AtData(r, m)
      BY <1>1, <1>2 DEF GivenToThis, AtLine, AtData, Answered
<1>5. \A p : Collected(p)' = Collected(p)
      BY <1>1, <1>2 DEF Collected, DataAt
<1>6. CollectingAtLine' = CollectingAtLine
      BY <1>1, <1>2, <1>4, <1>5 DEF CollectingAtLine
<1>7. CollectingAtData' = CollectingAtData
      BY <1>1, <1>2, <1>4, <1>5 DEF CollectingAtData
<1>. QED BY <1>1, <1>2, <1>3, <1>6, <1>7 DEF AnswerInv

-----------------------------------------------------------------------------
(***************************************************************************)
(* AnswerInv holds in every state of a client whose calls are given what   *)
(* they expect: while a reply is read, what has been collected is an entry *)
(* for each VALUE or STAT line behind the position it has reached.         *)
(***************************************************************************)
THEOREM KeepsAnswers == ASSUME ~BadKeys PROVE Spec => []AnswerInv
<1>1. /\ TypeOK /\ CursorOrder /\ StreamInv /\ AnswerInv /\ [Next]_vars
      /\ TypeOK' /\ CursorOrder' /\ StreamInv'
      => AnswerInv'
  <2>. SUFFICES ASSUME TypeOK, CursorOrder, StreamInv, AnswerInv, [Next]_vars,
                       TypeOK', CursorOrder', StreamInv'
                PROVE  AnswerInv'
       OBVIOUS
  <2>1. CASE UNCHANGED vars
        BY <2>1, StutterAnswer
  <2>2. CASE Socket \/ Begin \/ Send
        BY <2>2, SocketAnswer, BeginAnswer, SendAnswer
  <2>3. CASE (Recv \/ Parse \/ Serve \/ PeerCloses) /\ ~Intact
        BY <2>3, LooseAnswer
  <2>4. CASE (Recv \/ PeerCloses) /\ Intact
        BY <2>4, RecvAnswer, PeerClosesAnswer
  <2>5. CASE Parse /\ Intact
        BY <2>5, LineStepAnswer, DataStepAnswer
  <2>6. CASE Serve /\ Intact
    <3>1. CASE ServeQuietly
      <4>1. /\ toServer # <<>> /\ sock = "up"
            /\ UNCHANGED <<pc, call, outcome, res, answer, m_reader, prv, falseReset, sock, sent,
                           rcvd>>
            BY <3>1 DEF ServeQuietly, callVars, objVars
      <4>. QED BY <2>6, <3>1, <4>1, QuietlyWaiting, QuietAnswer
    <3>. QED BY <2>6, <3>1, ServeReplyAnswer, NothingGarbled DEF Serve
  <2>. QED BY <2>1, <2>2, <2>3, <2>4, <2>5, <2>6 DEF Next
<1>. QED BY <1>1, InitAnswer, TypeCorrect, CursorsOrdered, StaysInStep, PTL DEF Spec

\* What a method returns is what the server's answer to this very call says:
\* the line, the entry of each STAT line, or the values with exactly their
\* own bytes, for every reply, every cut and every failure.
THEOREM AnswersReturned == ASSUME ~BadKeys PROVE Spec => []ReturnsTheAnswer
<1>1. AnswerInv => ReturnsTheAnswer
      BY DEF AnswerInv, ReturnsTheAnswer
<1>. QED BY <1>1, KeepsAnswers, PTL

-----------------------------------------------------------------------------
(***************************************************************************)
(* The order in which calls are carried out.                               *)
(***************************************************************************)
\* Requests are served in order, and what was served stays so.
LEMMA ServedGrows ==
    ASSUME TypeOK, NEW c \in Nat, served' = Append(served, c)
    PROVE  /\ Len(served) \in Nat /\ Len(served') = Len(served) + 1
           /\ served'[Len(served) + 1] = c
           /\ \A i \in 1 .. Len(served) : served'[i] = served[i]
<1>1. served \in Seq(Nat)
      BY DEF TypeOK
<1>. QED BY <1>1, AppendProperties, LenProperties

\* A queue with no request before its last is a queue of one.
LEMMA OneWaits ==
    ASSUME NEW n \in Nat \ {0}, 1 \notin 1 .. n - 1
    PROVE  n = 1
OBVIOUS

LEMMA KeepsProcessedLast ==
    ASSUME TypeOK, ProcessedLast, UNCHANGED <<call, accepted>>,
           served' = served \/ \E c \in Nat : served' = Append(served, c)
    PROVE  ProcessedLast'
<1>1. CASE served' = served
      BY <1>1 DEF ProcessedLast
<1>2. CASE \E c \in Nat : served' = Append(served, c)
  <2>1. /\ Len(served) \in Nat /\ Len(served') = Len(served) + 1
        /\ \A i \in 1 .. Len(served) : served'[i] = served[i]
        BY <1>2, ServedGrows
  <2>2. PICK j \in 1 .. Len(served) :
            served[j] = call.id /\ \A d \in accepted : \E i \in 1 .. j - 1 : served[i] = d
        BY DEF ProcessedLast
  <2>3. j \in 1 .. Len(served') /\ served'[j] = call'.id
        BY <2>1, <2>2
  <2>4. ASSUME NEW d \in accepted' PROVE \E i \in 1 .. j - 1 : served'[i] = d
    <3>1. PICK i \in 1 .. j - 1 : served[i] = d
          BY <2>2
    <3>2. i \in 1 .. Len(served)
          BY <2>1
    <3>. QED BY <2>1, <3>1, <3>2
  <2>. QED BY <2>3, <2>4 DEF ProcessedLast
<1>. QED BY <1>1, <1>2

LEMMA InitOrder == Init => OrderInv
<1>1. Init => ~Reading
      BY DEF Init, Reading
<1>. QED BY <1>1 DEF Init, OrderInv, AcceptedBefore

-----------------------------------------------------------------------------
\* Steps that change none of the history and start no reading.
LEMMA QuietOrder ==
    ASSUME OrderInv, UNCHANGED <<call, accepted, served, toServer>>,
           Intact' => Intact,
           call.id \in accepted => pc' = "idle",
           pc' # "idle" => outcome'.kind = "none",
           sock' = "up" => sock = "up" \/ accepted = {},
           sock' = "new" => sock = "new",
           Intact /\ Reading' => ProcessedLast,
           Intact /\ outcome'.kind = "value" /\ call.op # "stats" => ProcessedLast
    PROVE  OrderInv'
<1>1. AcceptedBefore'
      BY DEF OrderInv, AcceptedBefore
<1>2. ProcessedLast' = ProcessedLast
      BY DEF ProcessedLast
<1>3. Intact' /\ sock' = "up" => \A d \in accepted' : Processed(d)' \/ Queued(d)'
      BY DEF OrderInv, Processed, Queued
<1>. QED BY <1>1, <1>2, <1>3 DEF OrderInv

LEMMA SocketOrder ==
    ASSUME OrderInv, Socket
    PROVE  OrderInv'
<1>1. /\ pc = "idle" /\ pc' = "idle"
      /\ UNCHANGED <<call, accepted, served, toServer, falseReset>>
      /\ outcome'.kind # "value"
      BY DEF Socket, Connect, ConnectFails, ConnectRefused, ConnectBegins, Disconnect,
             Returns, objVars, netVars
<1>2. /\ sock' = "up" => sock = "up" \/ sock = "new"
      /\ sock' = "new" => sock = "new"
      BY DEF Socket, Connect, ConnectFails, ConnectRefused, Disconnect, netVars
<1>3. sock = "new" => accepted = {}
      BY DEF OrderInv, AcceptedBefore
<1>4. ~Reading' /\ (Intact' => Intact)
      BY <1>1 DEF Reading, Intact
<1>. QED BY <1>1, <1>2, <1>3, <1>4, QuietOrder

\* A new call: its number is not that of an accepted one.
LEMMA NewCallOrder ==
    ASSUME TypeOK, StreamInv, OrderInv, NEW op \in Ops, NEW async \in BOOLEAN,
           NextCall(op, async), UNCHANGED <<accepted, prv, falseReset, netVars>>,
           pc' \in {"idle", "send"}, outcome'.kind # "value",
           pc' = "send" => outcome'.kind = "none"
    PROVE  OrderInv'
<1>1. call'.id = call.id + 1 /\ call'.linked = prv /\ call.id \in Nat
      BY DEF NextCall, TypeOK
<1>2. \A d \in accepted : d \in Nat /\ d <= call.id
      BY DEF OrderInv, AcceptedBefore, TypeOK
<1>3. AcceptedBefore'
  <2>1. \A d \in accepted : d <= call'.id /\ d # call'.id
        BY <1>1, <1>2
  <2>2. accepted' = accepted /\ sock' = sock
        BY DEF netVars
  <2>. QED BY <2>1, <2>2 DEF OrderInv, AcceptedBefore
<1>4. Intact' => Intact
      BY <1>1 DEF StreamInv, Intact
<1>5. Intact' /\ sock' = "up" => \A d \in accepted' : Processed(d)' \/ Queued(d)'
      BY <1>4 DEF OrderInv, Processed, Queued, netVars
<1>6. ~Reading'
      BY DEF Reading
<1>. QED BY <1>3, <1>5, <1>6 DEF OrderInv

LEMMA BeginOrder ==
    ASSUME TypeOK, StreamInv, OrderInv, ~BadKeys, Begin
    PROVE  OrderInv'
<1>1. ASSUME NEW op \in Ops, NEW async \in BOOLEAN, NEW n, Request(op, async, n)
      PROVE  OrderInv'
  <2>1. /\ NextCall(op, async) /\ pc' = "send" /\ outcome'.kind = "none"
        /\ UNCHANGED <<accepted, prv, falseReset, netVars>>
        BY <1>1 DEF Request, Returns
  <2>. QED BY <2>1, NewCallOrder
<1>2. ASSUME NEW async \in BOOLEAN, NEW n \in DataSizes, CommandTooLarge(n, async)
      PROVE  OrderInv'
  <2>1. /\ NextCall("store", async) /\ pc' = "idle" /\ outcome'.kind = "raise"
        /\ UNCHANGED <<accepted, prv, falseReset, netVars>>
        BY <1>2 DEF CommandTooLarge, NextCall, Returns, objVars
  <2>2. "store" \in Ops
        BY DEF Ops
  <2>. QED BY <2>1, <2>2, NewCallOrder
<1>3. {"store", "line", "version", "stats", "get", "multi"} \subseteq Ops /\ FALSE \in BOOLEAN
      BY DEF Ops
<1>. QED BY <1>1, <1>2, <1>3
         DEF Begin, Command, Cas, Delete, Incr, Decr, FlushAll, Version, Stats, Get, GetMulti,
             GetMultiBadKeys

-----------------------------------------------------------------------------
\* A call that finds a line in its buffer reads the reply to its request.
LEMMA LineIsRead ==
    ASSUME TypeOK, CursorOrder, pc = "line", HaveLine(m_reader)
    PROVE  Reading
BY TypedReader, NothingUnread DEF Reading, Stuck, Waiting

LEMMA SendRestOrder ==
    ASSUME TypeOK, TypeOK', StreamInv, StreamInv', OrderInv, SendRest
    PROVE  OrderInv'
<1>1. /\ pc = "send" /\ prv /\ sock # "new" /\ outcome.kind = "none"
      /\ UNCHANGED <<call, m_reader, prv, falseReset, sock, sent, rcvd, served>>
      BY DEF SendRest, OrderInv
<1>2. /\ accepted \subseteq accepted' /\ accepted' \subseteq accepted \cup {call.id}
      /\ pc' \in {"idle", "line"}
      /\ call.id \in accepted' => pc' = "idle"
      /\ outcome'.kind = "none"
  <2>1. call.id \notin accepted
        BY <1>1 DEF OrderInv, AcceptedBefore
  <2>2. CASE call.async
        BY <2>2 DEF SendRest, Finish, Returns
  <2>3. CASE ~call.async
        BY <1>1, <2>1, <2>3 DEF SendRest
  <2>. QED BY <2>2, <2>3
<1>3. call.id \in Nat
      BY DEF TypeOK
<1>4. AcceptedBefore'
      BY <1>1, <1>2, <1>3 DEF OrderInv, AcceptedBefore
<1>5. Intact' = Intact
      BY <1>1 DEF Intact
<1>6. ASSUME Intact, sock = "up", NEW d \in accepted'
      PROVE  Processed(d)' \/ Queued(d)'
  <2>1. /\ Len(toServer) \in Nat /\ Len(toServer') = Len(toServer) + 1
        /\ toServer'[Len(toServer) + 1] = OwnRequest
        /\ \A i \in 1 .. Len(toServer) : toServer'[i] = toServer[i]
        BY <1>6, SentRequest
  <2>2. CASE d = call.id
    <3>1. Len(toServer) + 1 \in 1 .. Len(toServer') /\ OwnRequest.call = d
          BY <2>1, <2>2 DEF OwnRequest
    <3>. QED BY <2>1, <3>1 DEF Queued
  <2>3. CASE d \in accepted
    <3>1. Processed(d) \/ Queued(d)
          BY <1>6, <2>3 DEF OrderInv
    <3>2. Processed(d) => Processed(d)'
          BY <1>1 DEF Processed
    <3>3. Queued(d) => Queued(d)'
          BY <2>1 DEF Queued
    <3>. QED BY <3>1, <3>2, <3>3
  <2>. QED BY <1>2, <2>2, <2>3
<1>7. Intact => ~Reading'
      BY <1>2, NothingToReadYet DEF Reading, Send
<1>. QED BY <1>1, <1>2, <1>4, <1>5, <1>6, <1>7 DEF OrderInv

LEMMA SendOrder ==
    ASSUME TypeOK, TypeOK', StreamInv, StreamInv', OrderInv, Send
    PROVE  OrderInv'
<1>1. CASE SendPart \/ SendRaises \/ SendZero
  <2>1. /\ pc = "send" /\ pc' \in {"idle", "line", "send"}
        /\ UNCHANGED <<call, accepted, served, toServer, sock, sent, rcvd, m_reader, falseReset>>
        /\ outcome'.kind # "value" /\ (pc' # "idle" => outcome' = outcome)
        BY <1>1 DEF SendPart, SendRaises, SendZero, SendFailed, Finish, Returns, callVars, objVars,
                    netVars, OrderInv
  <2>2. call.id \notin accepted /\ outcome.kind = "none"
        BY <2>1 DEF OrderInv, AcceptedBefore
  <2>3. (Intact' => Intact) /\ (Intact => Intact')
        BY <2>1 DEF Intact
  <2>4. Intact => ~Reading'
        BY <2>1, NothingToReadYet DEF Reading
  <2>. QED BY <2>1, <2>2, <2>3, <2>4, QuietOrder
<1>. QED BY <1>1, SendRestOrder DEF Send

-----------------------------------------------------------------------------
LEMMA RecvOrder ==
    ASSUME TypeOK, CursorOrder, StreamInv, OrderInv, Recv
    PROVE  OrderInv'
<1>1. /\ pc \in {"line", "data"} /\ pc' \in {pc, "idle"}
      /\ UNCHANGED <<call, accepted, served, toServer, sock, sent>>
      /\ outcome'.kind = "value" => outcome' = outcome \/ call.op = "stats"
      /\ pc' # "idle" => outcome' = outcome
      BY DEF Recv, RecvLine, RecvLineEmpty, RecvLineRaises, RecvData, RecvDataFails,
             ReadLineFailed, Finish, Returns, callVars, netVars
<1>2. call.id \notin accepted /\ outcome.kind = "none"
      BY <1>1 DEF OrderInv, AcceptedBefore
<1>3. Intact' => Intact
  <2>1. ~falseReset' => ~falseReset
    <3>1. CASE RecvLineEmpty
          BY <3>1, Zenon DEF RecvLineEmpty
    <3>2. CASE RecvLine \/ RecvLineRaises \/ RecvData \/ RecvDataFails
          BY <3>2 DEF RecvLine, RecvLineRaises, RecvData, RecvDataFails
    <3>. QED BY <3>1, <3>2 DEF Recv
  <2>. QED BY <1>1, <2>1 DEF Intact
<1>4. Intact /\ Reading' => ProcessedLast
  <2>. SUFFICES ASSUME Intact, Reading' PROVE Reading
       BY DEF OrderInv
  <2>1. CASE pc = "data"
        BY <2>1 DEF Reading
  <2>2. CASE pc = "line"
    <3>1. RecvLine
          BY <1>1, <2>2 DEF Reading, Recv, RecvLineEmpty, RecvLineRaises, RecvData, RecvDataFails,
                            ReadLineFailed, Finish
    <3>2. prv /\ rcvd # Len(sent)
          BY <3>1, TypedStream DEF RecvLine, AtMost
    <3>. QED BY <2>2, <3>2 DEF Reading, Stuck, Waiting
  <2>. QED BY <1>1, <2>1, <2>2
<1>. QED BY <1>1, <1>2, <1>3, <1>4, QuietOrder

\* A line or a value that has come is of the reply to this call.
LEMMA ParseOrder ==
    ASSUME TypeOK, CursorOrder, OrderInv, Parse
    PROVE  OrderInv'
<1>1. /\ pc \in {"line", "data"}
      /\ UNCHANGED <<call, accepted, served, toServer, sock, sent, falseReset>>
      /\ pc' # "idle" => outcome' = outcome
      BY DEF Parse, ErrorLine, ResultLine, VersionLine, ForeignVersionLine, StatLine, StatsEnd,
             ForeignStatsLine, GetEnd, MalformedLine, BrokenValueLine, ValueLine, DataComplete,
             TakeLine, LineOf, ReadLineFailed, Finish, netVars
<1>2. call.id \notin accepted /\ outcome.kind = "none"
      BY <1>1 DEF OrderInv, AcceptedBefore
<1>3. Reading
  <2>1. pc = "data" \/ HaveLine(m_reader)
        BY DEF Parse, ErrorLine, ResultLine, VersionLine, ForeignVersionLine, StatLine, StatsEnd,
               ForeignStatsLine, GetEnd, MalformedLine, BrokenValueLine, ValueLine, DataComplete,
               LineOf
  <2>. QED BY <1>1, <2>1, LineIsRead DEF Reading
<1>4. (Intact' => Intact) /\ (Intact => ProcessedLast)
      BY <1>1, <1>3 DEF Intact, OrderInv
<1>. QED BY <1>1, <1>2, <1>4, QuietOrder

-----------------------------------------------------------------------------
\* A request goes from the queue to the requests that were processed.
LEMMA ServedOne ==
    ASSUME TypeOK, toServer # <<>>, toServer' = Tail(toServer),
           served' = Append(served, toServer[1].call),
           NEW d, Processed(d) \/ Queued(d)
    PROVE  Processed(d)' \/ Queued(d)'
<1>1. /\ Len(toServer) \in Nat \ {0} /\ Len(toServer') = Len(toServer) - 1
      /\ \A i \in 1 .. Len(toServer) - 1 : toServer'[i] = toServer[i + 1]
      BY HeadTailProperties, EmptySeq, LenProperties DEF TypeOK
<1>2. toServer[1].call \in Nat
  <2>1. toServer[1] \in Requests
        BY <1>1, ElementOfSeq DEF TypeOK
  <2>. QED BY <2>1 DEF Requests
<1>3. /\ Len(served) \in Nat /\ Len(served') = Len(served) + 1
      /\ served'[Len(served) + 1] = toServer[1].call
      /\ \A i \in 1 .. Len(served) : served'[i] = served[i]
  <2>1. served \in Seq(Nat)
        BY DEF TypeOK
  <2>. QED BY <1>2, <2>1, AppendProperties, LenProperties
<1>4. CASE Processed(d)
      BY <1>3, <1>4 DEF Processed
<1>5. CASE Queued(d)
  <2>1. PICK i \in 1 .. Len(toServer) : toServer[i].call = d
        BY <1>5 DEF Queued
  <2>2. CASE i = 1
    <3>1. Len(served) + 1 \in 1 .. Len(served') /\ served'[Len(served) + 1] = d
          BY <1>3, <2>1, <2>2
    <3>. QED BY <3>1 DEF Processed
  <2>3. CASE i # 1
    <3>1. i - 1 \in 1 .. Len(toServer) - 1 /\ (i - 1) + 1 = i
          BY <1>1, <2>3
    <3>2. i - 1 \in 1 .. Len(toServer') /\ toServer'[i - 1].call = d
          BY <1>1, <2>1, <3>1
    <3>. QED BY <3>2 DEF Queued
  <2>. QED BY <2>2, <2>3
<1>. QED BY <1>4, <1>5

LEMMA ServeOrder ==
    ASSUME TypeOK, CursorOrder, StreamInv, OrderInv, ServeQuietly \/ ServeReply
    PROVE  OrderInv'
<1>1. /\ toServer # <<>> /\ sock = "up" /\ toServer' = Tail(toServer)
      /\ UNCHANGED <<pc, call, outcome, accepted, m_reader, prv, falseReset, sock, rcvd>>
      BY DEF ServeQuietly, ServeReply, callVars, objVars
<1>2. /\ Len(toServer) \in Nat \ {0} /\ Request1 = toServer[1]
      /\ toServer[1].call \in Nat
  <2>1. Len(toServer) \in Nat \ {0} /\ Request1 = toServer[1]
        BY <1>1, EmptySeq, LenProperties DEF TypeOK, Request1
  <2>2. toServer[1] \in Requests
        BY <2>1, ElementOfSeq DEF TypeOK
  <2>. QED BY <2>1, <2>2 DEF Requests
<1>3. served' = Append(served, toServer[1].call)
      BY <1>2 DEF ServeQuietly, ServeReply
<1>4. AcceptedBefore'
      BY <1>1 DEF OrderInv, AcceptedBefore
<1>5. (Intact' => Intact)
      BY <1>1 DEF Intact
<1>6. ASSUME Intact, NEW d \in accepted PROVE Processed(d)' \/ Queued(d)'
  <2>1. Processed(d) \/ Queued(d)
        BY <1>1, <1>6 DEF OrderInv
  <2>. QED BY <1>1, <1>3, <2>1, ServedOne
<1>7. ProcessedLast => ProcessedLast'
      BY <1>1, <1>2, <1>3, KeepsProcessedLast
<1>8. ASSUME Intact, Reading' PROVE ProcessedLast'
  <2>1. CASE Reading
        BY <1>7, <1>8, <2>1 DEF OrderInv
  <2>2. CASE ~Reading
    <3>1. pc = "line" /\ (Stuck \/ Waiting)
          BY <1>1, <1>8, <2>2 DEF Reading
    <3>2. ~Stuck
      <4>1. Stuck => Stuck'
            BY <1>1 DEF Stuck
      <4>. QED BY <1>1, <1>8, <3>1, <4>1 DEF Reading
    <3>3. Waiting
          BY <3>1, <3>2
    <3>4. CASE ServeQuietly
          BY <1>1, <1>8, <3>1, <3>3, <3>4, QuietlyWaiting DEF Reading
    <3>5. CASE ServeReply
      <4>1. ~toServer[1].async
            BY <1>2, <3>5 DEF ServeReply
      <4>2. Len(toServer) = 1
        <5>1. ~(1 \in 1 .. Len(toServer) - 1)
              BY <3>3, <4>1 DEF Waiting, AsyncFrom
        <5>2. Len(toServer) \in Nat \ {0}
              BY <1>2
        <5>. QED BY <5>1, <5>2, OneWaits
      <4>3. toServer[1].call = call.id
            BY <3>3, <4>2 DEF Waiting, OwnRequest
      <4>4. /\ Len(served) \in Nat /\ Len(served') = Len(served) + 1
            /\ served'[Len(served) + 1] = call.id
            /\ \A i \in 1 .. Len(served) : served'[i] = served[i]
            BY <1>2, <1>3, <4>3, ServedGrows
      <4>5. ASSUME NEW d \in accepted
            PROVE  \E i \in 1 .. (Len(served) + 1) - 1 : served'[i] = d
        <5>1. Processed(d) \/ Queued(d)
              BY <1>1, <1>8 DEF OrderInv
        <5>2. d # call.id
              BY <3>1 DEF OrderInv, AcceptedBefore
        <5>3. ~Queued(d)
              BY <4>2, <4>3, <5>2 DEF Queued
        <5>4. PICK i \in 1 .. Len(served) : served[i] = d
              BY <5>1, <5>3 DEF Processed
        <5>5. i \in 1 .. (Len(served) + 1) - 1
              BY <4>4
        <5>. QED BY <4>4, <5>4, <5>5
      <4>6. Len(served) + 1 \in 1 .. Len(served')
            BY <4>4
      <4>. QED BY <1>1, <4>4, <4>5, <4>6 DEF ProcessedLast
    <3>. QED BY <3>4, <3>5
  <2>. QED BY <2>1, <2>2
<1>. QED BY <1>1, <1>4, <1>5, <1>6, <1>7, <1>8 DEF OrderInv

LEMMA PeerClosesOrder ==
    ASSUME TypeOK, CursorOrder, OrderInv, PeerCloses
    PROVE  OrderInv'
<1>1. /\ sock = "up" /\ sock' = "closed"
      /\ UNCHANGED <<pc, call, outcome, accepted, m_reader, prv, falseReset, rcvd, served>>
      BY DEF PeerCloses, callVars, objVars
<1>2. AcceptedBefore'
      BY <1>1 DEF OrderInv, AcceptedBefore
<1>3. (Intact' => Intact) /\ ProcessedLast' = ProcessedLast
      BY <1>1 DEF Intact, ProcessedLast
<1>4. Reading' => Reading
      BY <1>1, ClosedIsStuck DEF Reading
<1>. QED BY <1>1, <1>2, <1>3, <1>4 DEF OrderInv

-----------------------------------------------------------------------------
(***************************************************************************)
(* OrderInv holds in every state of a client whose calls are given what    *)
(* they expect: an accepted request is at the server or has been processed *)
(* and whoever reads a reply reads it after all of them were.              *)
(***************************************************************************)
THEOREM KeepsOrder == ASSUME ~BadKeys PROVE Spec => []OrderInv
<1>1. /\ TypeOK /\ CursorOrder /\ StreamInv /\ OrderInv /\ [Next]_vars
      /\ TypeOK' /\ CursorOrder' /\ StreamInv'
      => OrderInv'
  <2>. SUFFICES ASSUME TypeOK, CursorOrder, StreamInv, OrderInv, [Next]_vars,
                       TypeOK', StreamInv'
                PROVE  OrderInv'
       OBVIOUS
  <2>1. CASE UNCHANGED vars
    <3>1. UNCHANGED <<pc, call, outcome, accepted, served, toServer, sock, sent, rcvd, m_reader,
                      prv, falseReset>>
          BY <2>1 DEF vars
    <3>2. Intact' = Intact /\ (Reading' => Reading)
          BY <3>1 DEF Intact, Reading, Stuck, Waiting, OwnRequest, AsyncFrom
    <3>. QED BY <3>1, <3>2, QuietOrder DEF OrderInv, AcceptedBefore
  <2>2. CASE ServeGarbled
    <3>1. ~Intact
          BY <2>2, NothingGarbled
    <3>2. UNCHANGED <<pc, call, outcome, accepted, falseReset, sock>>
          BY <2>2 DEF ServeGarbled, callVars, objVars
    <3>. QED BY <3>1, <3>2 DEF OrderInv, AcceptedBefore, Intact
  <2>. QED BY <2>1, <2>2, SocketOrder, BeginOrder, SendOrder, RecvOrder, ParseOrder, ServeOrder,
              PeerClosesOrder DEF Next, Serve
<1>. QED BY <1>1, InitOrder, TypeCorrect, CursorsOrdered, StaysInStep, PTL DEF Spec

\* Whenever a call has returned a value, every noreply call accepted before
\* it has been processed, and before it.
THEOREM AsyncComesFirst == ASSUME ~BadKeys PROVE Spec => []AsyncBeforeSync
<1>1. TypeOK /\ OrderInv => AsyncBeforeSync
  <2>. SUFFICES ASSUME TypeOK, OrderInv, Intact, outcome.kind = "value", call.op # "stats",
                       NEW d \in accepted
                PROVE  \E i, j \in 1 .. Len(served) :
                          i < j /\ served[i] = d /\ served[j] = call.id
       BY DEF AsyncBeforeSync
  <2>1. PICK j \in 1 .. Len(served) :
            served[j] = call.id /\ \A e \in accepted : \E i \in 1 .. j - 1 : served[i] = e
        BY DEF OrderInv, ProcessedLast
  <2>2. PICK i \in 1 .. j - 1 : served[i] = d
        BY <2>1
  <2>3. i \in 1 .. Len(served) /\ i < j
    <3>1. Len(served) \in Nat
          BY LenProperties DEF TypeOK
    <3>. QED BY <3>1
  <2>. QED BY <2>1, <2>2, <2>3
<1>. QED BY <1>1, TypeCorrect, KeepsOrder, PTL
=============================================================================
