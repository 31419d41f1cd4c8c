-------------------------- MODULE SharedClientProofs --------------------------
(***************************************************************************)
(* One thread's client in the middle of more than one call: whatever the   *)
(* iterators do, and however deep they go, pull() moves over what is       *)
(* there; and as long as they call no methods but those that read a reply  *)
(* to its end, get() and get_multi(), client and server stay in step.      *)
(***************************************************************************)
EXTENDS SharedClient, SequenceTheorems, WellFoundedInduction, TLAPS

Words  == Closing \cup {"get", "key"}
Pieces == [id : Nat, word : Words]
Gots   == [id : Nat, whole : BOOLEAN]
Told   == {"result", "error", "version", "value", "data", "end"}
Units  == [id : Nat, whole : BOOLEAN, word : Told]
Ops    == {"line", "version", "set", "quiet", "get", "multi"}
Places == {"idle", "keys", "send", "sending", "read", "receiving"}
Calls  == [pc : Places, id : Nat, op : Ops, keys : Nat,
           given : Seq(Pieces), got : SUBSET Gots, alone : BOOLEAN]

TypeOK ==
    /\ frames \in [Frames -> Calls]
    /\ active \in Seq(Frames)
    /\ calls \in Nat
    /\ wmem \in Seq(Pieces) /\ wread \in 0 .. Len(wmem)
    /\ rmem \in Seq(Units) /\ replies \in Seq(Units)
    /\ inbox \in Seq(Pieces)
    /\ aborted \in BOOLEAN

(***************************************************************************)
(* The frames of one thread are a stack: those below the top are in their  *)
(* iterators, and none of them was made alone.                             *)
(***************************************************************************)
StackInv ==
    /\ \A f \in Frames : frames[f].pc # "idle" <=> \E i \in 1 .. Len(active) : active[i] = f
    /\ \A i, j \in 1 .. Len(active) : active[i] = active[j] => i = j
    /\ \A i \in 1 .. Len(active) :
          /\ i < Len(active) => frames[active[i]].pc = "keys"
          /\ frames[active[i]].alone => Len(active) = 1

\* What send() was given is still what is between the cursors.
PullInv ==
    /\ ~aborted
    /\ wread = 0 \/ wread < Len(wmem)
    /\ \A f \in Frames : frames[f].pc = "sending" => frames[f].given = Unsent

GotInv ==
    \A f \in Frames :
        /\ \A u \in frames[f].got : u.id = frames[f].id
        /\ frames[f].alone => frames[f].got \subseteq {[id |-> frames[f].id, whole |-> TRUE]}

OneThread == Nested

-----------------------------------------------------------------------------
(***************************************************************************)
(* Types.                                                                  *)
(***************************************************************************)
LEMMA GotType == NoFrame \in Calls
<1>1. <<>> \in Seq(Pieces) /\ {} \in SUBSET Gots
      BY EmptySeq
<1>. QED BY <1>1 DEF NoFrame, Calls, Places, Ops

\* What stands where when one sequence is put behind another.
Joins(t, r, s) ==
    /\ Len(t) = Len(r) + Len(s)
    /\ \A i \in 1 .. Len(r) : t[i] = r[i]
    /\ \A i \in 1 .. Len(s) : t[Len(r) + i] = s[i]

LEMMA Parts ==
    ASSUME NEW S, NEW r \in Seq(S), NEW s \in Seq(S)
    PROVE  r \o s \in Seq(S) /\ Joins(r \o s, r, s)
<1>1. Len(r) \in Nat /\ Len(s) \in Nat
      BY LenProperties
<1>2. /\ r \o s \in Seq(S) /\ Len(r \o s) = Len(r) + Len(s)
      /\ \A i \in 1 .. Len(r) + Len(s) :
            (r \o s)[i] = IF i <= Len(r) THEN r[i] ELSE s[i - Len(r)]
      BY ConcatProperties
<1>3. \A i \in 1 .. Len(r) : i \in 1 .. Len(r) + Len(s) /\ i <= Len(r)
      BY <1>1
<1>4. \A i \in 1 .. Len(s) : /\ Len(r) + i \in 1 .. Len(r) + Len(s)
                             /\ ~(Len(r) + i <= Len(r)) /\ (Len(r) + i) - Len(r) = i
      BY <1>1
<1>5. \A i \in 1 .. Len(r) : (r \o s)[i] = r[i]
      BY <1>2, <1>3
<1>6. \A i \in 1 .. Len(s) : (r \o s)[Len(r) + i] = s[i]
      BY <1>2, <1>4
<1>. QED BY <1>2, <1>5, <1>6 DEF Joins

LEMMA WritesType ==
    ASSUME TypeOK, NEW id \in Nat, NEW words \in Seq(Words), Writes(id, words)
    PROVE  /\ wmem' \in Seq(Pieces) /\ Len(wmem') = Len(wmem) + Len(words)
           /\ \A i \in 1 .. Len(wmem) : wmem'[i] = wmem[i]
           /\ \A i \in 1 .. Len(words) : wmem'[Len(wmem) + i] = Piece(id, words[i])
<1> DEFINE more == [i \in DOMAIN words |-> Piece(id, words[i])]
<1>1. /\ Len(words) \in Nat /\ DOMAIN words = 1 .. Len(words)
      /\ \A i \in 1 .. Len(words) : words[i] \in Words
      BY LenProperties, ElementOfSeq
<1>2. \A i \in 1 .. Len(words) : Piece(id, words[i]) \in Pieces
      BY <1>1 DEF Piece, Pieces
<1>3. /\ more \in Seq(Pieces) /\ Len(more) = Len(words)
      /\ \A i \in 1 .. Len(words) : more[i] = Piece(id, words[i])
      BY <1>1, <1>2
<1>4. wmem' = wmem \o more
      BY DEF Writes
<1>5. wmem \in Seq(Pieces) /\ Len(wmem) \in Nat
      BY LenProperties DEF TypeOK
<1> HIDE DEF more
<1>6. wmem' \in Seq(Pieces) /\ Joins(wmem', wmem, more)
  <2>1. wmem \o more \in Seq(Pieces) /\ Joins(wmem \o more, wmem, more)
        BY <1>3, <1>5, Parts
  <2>. QED BY <1>4, <2>1
<1>. QED BY <1>3, <1>6 DEF Joins

\* The words that are written.
LEMMA WordsType ==
    /\ \A op \in {"line", "version"} : <<op>> \in Seq(Words)
    /\ <<"get">> \in Seq(Words) /\ <<"get", "key", "crlf">> \in Seq(Words)
    /\ <<"key">> \in Seq(Words) /\ <<"crlf">> \in Seq(Words)
    /\ \A op \in {"set", "quiet"} : <<op, "data">> \in Seq(Words)
BY DEF Words, Closing, Commands

LEMMA StartsType ==
    ASSUME TypeOK, NEW f \in Frames, NEW pc \in Places, NEW op \in Ops,
           Starts(f, pc, op)
    PROVE  /\ calls' \in Nat /\ calls' = calls + 1
           /\ frames' \in [Frames -> Calls]
           /\ \A g \in Frames : g # f =>
                 /\ frames'[g].pc = frames[g].pc /\ frames'[g].got = frames[g].got
                 /\ frames'[g].id = frames[g].id /\ frames'[g].op = frames[g].op
                 /\ frames'[g].alone => frames[g].alone
                 /\ (\E i \in 1 .. Len(active) : active[i] = g) => ~frames'[g].alone
           /\ frames'[f].pc = pc /\ frames'[f].id = calls + 1 /\ frames'[f].op = op
           /\ frames'[f].got = {}
           /\ frames'[f].alone <=> active = <<>>
<1> DEFINE new == [NoFrame EXCEPT !.pc = pc, !.id = calls + 1, !.op = op,
                                  !.alone = active = <<>>]
<1>1. calls' = calls + 1 /\ calls' \in Nat
      BY DEF Starts, TypeOK
<1>2. (active = <<>>) \in BOOLEAN
      OBVIOUS
<1>3. new \in Calls
      BY <1>1, <1>2, GotType DEF Calls, TypeOK
<1>4. /\ new.pc = pc /\ new.id = calls + 1 /\ new.op = op /\ new.got = {}
      /\ new.alone = (active = <<>>)
      BY DEF NoFrame
<1>5. frames' = [g \in Frames |-> IF g = f THEN new
                    ELSE IF g \in Range(active) THEN [frames[g] EXCEPT !.alone = FALSE]
                    ELSE frames[g]]
      BY DEF Starts
<1>6. \A c \in Calls : LET d == [c EXCEPT !.alone = FALSE]
                       IN  /\ d \in Calls /\ d.pc = c.pc /\ d.got = c.got /\ d.id = c.id
                           /\ d.op = c.op /\ d.alone = FALSE
      BY DEF Calls
<1>7. \A g \in Frames : (\E i \in 1 .. Len(active) : active[i] = g) => g \in Range(active)
      BY LenProperties DEF Range, TypeOK
<1>8. \A g \in Frames : frames[g] \in Calls
      BY DEF TypeOK
<1> HIDE DEF new
<1>9. frames' \in [Frames -> Calls]
      BY <1>3, <1>5, <1>6, <1>8
<1>10. /\ frames'[f] = new
       /\ \A g \in Frames : g # f =>
             frames'[g] = IF g \in Range(active) THEN [frames[g] EXCEPT !.alone = FALSE]
                          ELSE frames[g]
      BY <1>5
<1>11. ASSUME NEW g \in Frames, g # f
       PROVE  /\ frames'[g].pc = frames[g].pc /\ frames'[g].got = frames[g].got
              /\ frames'[g].id = frames[g].id /\ frames'[g].op = frames[g].op
              /\ frames'[g].alone => frames[g].alone
              /\ (\E i \in 1 .. Len(active) : active[i] = g) => ~frames'[g].alone
  <2>1. CASE g \in Range(active)
    <3>1. frames'[g] = [frames[g] EXCEPT !.alone = FALSE]
          BY <1>10, <1>11, <2>1
    <3>2. /\ frames'[g].pc = frames[g].pc /\ frames'[g].got = frames[g].got
          /\ frames'[g].id = frames[g].id /\ frames'[g].op = frames[g].op
          /\ frames'[g].alone = FALSE
          BY <1>6, <1>8, <3>1
    <3>. QED BY <3>2
  <2>2. CASE g \notin Range(active)
    <3>1. frames'[g] = frames[g]
          BY <1>10, <1>11, <2>2
    <3>. QED BY <1>7, <2>2, <3>1
  <2>. QED BY <2>1, <2>2
<1>. QED BY <1>1, <1>4, <1>9, <1>10, <1>11

\* A frame goes on: what it changes of itself.
LEMMA GoesType ==
    ASSUME TypeOK, NEW f \in Frames, NEW new \in Calls, frames' = [frames EXCEPT ![f] = new]
    PROVE  /\ frames' \in [Frames -> Calls]
           /\ frames'[f] = new
           /\ \A g \in Frames : g # f => frames'[g] = frames[g]
BY DEF TypeOK

LEMMA CallSteps ==
    ASSUME NEW c \in Calls
    PROVE  /\ \A pc \in Places : [c EXCEPT !.pc = pc] \in Calls
           /\ [c EXCEPT !.keys = c.keys + 1] \in Calls
           /\ \A given \in Seq(Pieces) : [c EXCEPT !.pc = "sending", !.given = given] \in Calls
           /\ \A pc \in Places, got \in SUBSET Gots : [c EXCEPT !.pc = pc, !.got = got] \in Calls
<1>1. \A pc \in Places : [c EXCEPT !.pc = pc] \in Calls
      BY DEF Calls
<1>2. [c EXCEPT !.keys = c.keys + 1] \in Calls
      BY DEF Calls
<1>3. \A given \in Seq(Pieces) : [c EXCEPT !.pc = "sending", !.given = given] \in Calls
      BY DEF Calls, Places
<1>4. \A pc \in Places, got \in SUBSET Gots : [c EXCEPT !.pc = pc, !.got = got] \in Calls
      BY DEF Calls
<1>. QED BY <1>1, <1>2, <1>3, <1>4

LEMMA ActiveType ==
    ASSUME TypeOK, OneThread, NEW f \in Frames
    PROVE  /\ Begins(f) => active' \in Seq(Frames)
           /\ Holds(f) \/ Releases(f) => active' \in Seq(Frames) /\ active' = active
           /\ active # <<>> /\ Ends(f) => active' \in Seq(Frames)
<1>1. active \in Seq(Frames) /\ Len(active) \in Nat
      BY LenProperties DEF TypeOK
<1>2. Begins(f) => active' \in Seq(Frames)
      BY <1>1, AppendProperties DEF Begins, OneThread
<1>3. \A i \in 1 .. Len(active) - 1 : active[i] \in Frames
      BY <1>1, ElementOfSeq
<1>4. SubSeq(active, 1, Len(active) - 1) \in Seq(Frames)
      BY <1>1, <1>3, SubSeqProperties
<1>. QED BY <1>1, <1>2, <1>4 DEF Holds, Releases, Ends, Front, OneThread

LEMMA UnsentType ==
    ASSUME TypeOK
    PROVE  /\ Len(wmem) \in Nat /\ wread \in Nat /\ wread <= Len(wmem)
           /\ Unsent \in Seq(Pieces) /\ Len(Unsent) = Len(wmem) - wread
           /\ \A i \in 1 .. Len(Unsent) : Unsent[i] = wmem[wread + i]
<1>1. wmem \in Seq(Pieces) /\ Len(wmem) \in Nat /\ wread \in 0 .. Len(wmem)
      BY LenProperties DEF TypeOK
<1>2. \A i \in wread + 1 .. Len(wmem) : wmem[i] \in Pieces
      BY <1>1, ElementOfSeq
<1>3. /\ SubSeq(wmem, wread + 1, Len(wmem)) \in Seq(Pieces)
      /\ Len(SubSeq(wmem, wread + 1, Len(wmem))) =
            IF wread + 1 <= Len(wmem) THEN Len(wmem) - (wread + 1) + 1 ELSE 0
      /\ \A i \in 1 .. Len(wmem) - (wread + 1) + 1 :
            SubSeq(wmem, wread + 1, Len(wmem))[i] = wmem[wread + 1 + i - 1]
      BY <1>1, <1>2, SubSeqProperties
<1>. QED BY <1>1, <1>3 DEF Unsent

\* A prefix, and the rest.
LEMMA Cut ==
    ASSUME NEW S, NEW s \in Seq(S), NEW k \in 0 .. Len(s)
    PROVE  /\ SubSeq(s, 1, k) \in Seq(S) /\ Len(SubSeq(s, 1, k)) = k
           /\ \A i \in 1 .. k : SubSeq(s, 1, k)[i] = s[i]
           /\ SubSeq(s, k + 1, Len(s)) \in Seq(S) /\ Len(SubSeq(s, k + 1, Len(s))) = Len(s) - k
           /\ \A i \in 1 .. Len(s) - k : SubSeq(s, k + 1, Len(s))[i] = s[k + i]
           /\ SubSeq(s, 1, k) \o SubSeq(s, k + 1, Len(s)) = s
<1>1. Len(s) \in Nat
      BY LenProperties
<1>2. /\ \A i \in 1 .. k : s[i] \in S
      /\ \A i \in k + 1 .. Len(s) : s[i] \in S
      BY <1>1, ElementOfSeq
<1>3. /\ SubSeq(s, 1, k) \in Seq(S)
      /\ Len(SubSeq(s, 1, k)) = IF 1 <= k THEN k - 1 + 1 ELSE 0
      /\ \A i \in 1 .. k - 1 + 1 : SubSeq(s, 1, k)[i] = s[1 + i - 1]
      BY <1>1, <1>2, SubSeqProperties
<1>4. /\ SubSeq(s, k + 1, Len(s)) \in Seq(S)
      /\ Len(SubSeq(s, k + 1, Len(s))) =
            IF k + 1 <= Len(s) THEN Len(s) - (k + 1) + 1 ELSE 0
      /\ \A i \in 1 .. Len(s) - (k + 1) + 1 :
            SubSeq(s, k + 1, Len(s))[i] = s[k + 1 + i - 1]
      BY <1>1, <1>2, SubSeqProperties
<1>5. SubSeq(s, 1, k) \o SubSeq(s, k + 1, Len(s)) = SubSeq(s, 1, Len(s))
  <2>1. 1 \in 1 .. Len(s) + 1 /\ k \in 1 - 1 .. Len(s) /\ Len(s) \in k .. Len(s)
        BY <1>1
  <2>. QED BY <2>1, ConcatAdjacentSubSeq
<1>6. SubSeq(s, 1, Len(s)) = s
      BY SubSeqFull
<1>7. /\ Len(SubSeq(s, 1, k)) = k
      /\ \A i \in 1 .. k : SubSeq(s, 1, k)[i] = s[i]
      BY <1>1, <1>3
<1>8. /\ Len(SubSeq(s, k + 1, Len(s))) = Len(s) - k
      /\ \A i \in 1 .. Len(s) - k : SubSeq(s, k + 1, Len(s))[i] = s[k + i]
      BY <1>1, <1>4
<1>. QED BY <1>3, <1>4, <1>5, <1>6, <1>7, <1>8

\* Which of two joints comes first does not matter.
Associates(r, s, t) == (r \o s) \o t = r \o (s \o t)

LEMMA Joined ==
    ASSUME NEW S, NEW r \in Seq(S), NEW s \in Seq(S), NEW t \in Seq(S)
    PROVE  Associates(r, s, t)
<1>1. r \o s \in Seq(S) /\ s \o t \in Seq(S)
      BY ConcatProperties
<1>2. (r \o s) \o t \in Seq(S) /\ r \o (s \o t) \in Seq(S)
      BY <1>1, ConcatProperties
<1>3. Len(r) \in Nat /\ Len(s) \in Nat /\ Len(t) \in Nat
      BY LenProperties
<1>4. Len(r \o s) = Len(r) + Len(s) /\ Len(s \o t) = Len(s) + Len(t)
      BY ConcatProperties
<1>5. /\ Len((r \o s) \o t) = Len(r) + Len(s) + Len(t)
      /\ Len(r \o (s \o t)) = Len(r) + Len(s) + Len(t)
      BY <1>1, <1>3, <1>4, ConcatProperties
<1>6. ASSUME NEW i \in 1 .. Len(r) + Len(s) + Len(t)
      PROVE  ((r \o s) \o t)[i] = (r \o (s \o t))[i]
      BY <1>1, <1>3, <1>4, <1>5, ConcatProperties
<1>7. (r \o s) \o t = r \o (s \o t)
      BY <1>2, <1>5, <1>6, SeqEqual
<1>. QED BY <1>7 DEF Associates

\* A sequence is moved to the end of another one in two parts.
LEMMA MovedParts ==
    ASSUME NEW S, NEW r \in Seq(S), NEW s \in Seq(S), NEW k \in 0 .. Len(s)
    PROVE  (r \o SubSeq(s, 1, k)) \o SubSeq(s, k + 1, Len(s)) = r \o s
<1> DEFINE a == SubSeq(s, 1, k)
           b == SubSeq(s, k + 1, Len(s))
<1>1. a \in Seq(S) /\ b \in Seq(S)
      BY Cut
<1>2. a \o b = s
      BY Cut
<1> HIDE DEF a, b
<1>3. Associates(r, a, b)
      BY <1>1, Joined
<1>4. (r \o a) \o b = r \o s
      BY <1>2, <1>3, Zenon DEF Associates
<1>. QED BY <1>4 DEF a, b

\* A set of numbers that is not empty has a least one.
LEMMA LeastOf ==
    ASSUME NEW S \in SUBSET Nat, S # {}
    PROVE  \E m \in S : \A i \in S : m <= i
<1> DEFINE R == { ss \in Nat \X Nat : ss[1] < ss[2] }
<1>1. IsWellFoundedOn(R, Nat)
      BY NatLessThanWellFounded DEF OpToRel
<1>2. \A i, m \in Nat : i < m => <<i, m>> \in R
      OBVIOUS
<1> HIDE DEF R
<1>3. PICK m \in S : \A i \in S : ~(<<i, m>> \in R)
      BY <1>1, WFMin
<1>4. \A i \in S : i \in Nat /\ m \in Nat
      OBVIOUS
<1>5. \A i \in S : ~(i < m)
      BY <1>2, <1>3, <1>4
<1>6. \A i \in S : m <= i
      BY <1>4, <1>5
<1>. QED BY <1>6

-----------------------------------------------------------------------------
(***************************************************************************)
(* What the server takes.                                                  *)
(***************************************************************************)
EndsAt(m) ==
    /\ m \in 1 .. Len(inbox) /\ inbox[m].word \in Closing
    /\ \A i \in 1 .. m - 1 : inbox[i].word \notin Closing

LEMMA EndExists ==
    ASSUME TypeOK, \E i \in DOMAIN inbox : inbox[i].word \in Closing
    PROVE  \E m \in Nat : EndsAt(m)
<1> DEFINE S == { i \in DOMAIN inbox : inbox[i].word \in Closing }
<1>1. inbox \in Seq(Pieces) /\ Len(inbox) \in Nat /\ DOMAIN inbox = 1 .. Len(inbox)
      BY LenProperties DEF TypeOK
<1>2. S \in SUBSET Nat /\ S # {}
      BY <1>1
<1>3. PICK m \in S : \A i \in S : m <= i
      BY <1>2, LeastOf
<1>4. m \in 1 .. Len(inbox) /\ inbox[m].word \in Closing
      BY <1>1, <1>3
<1>5. \A i \in 1 .. m - 1 : i \in DOMAIN inbox /\ ~(m <= i)
      BY <1>1, <1>4
<1>6. \A i \in 1 .. m - 1 : i \notin S
      BY <1>3, <1>5
<1>. QED BY <1>4, <1>5, <1>6 DEF EndsAt

LEMMA LineIs ==
    ASSUME TypeOK, NEW m \in Nat, EndsAt(m)
    PROVE  /\ Line \in Seq(Pieces) /\ Len(Line) = m
           /\ DOMAIN Line = 1 .. m
           /\ \A i \in 1 .. m : Line[i] = inbox[i]
           /\ Head(Line) = inbox[1] /\ Last(Line) = inbox[m]
<1> DEFINE S == { i \in DOMAIN inbox : inbox[i].word \in Closing }
<1>1. inbox \in Seq(Pieces) /\ Len(inbox) \in Nat /\ DOMAIN inbox = 1 .. Len(inbox)
      BY LenProperties DEF TypeOK
<1>2. m \in S /\ \A i \in S : m <= i
      BY <1>1 DEF EndsAt
<1>3. \A x \in S : (\A i \in S : x <= i) => x = m
      BY <1>1, <1>2
<1> HIDE DEF S
<1>4. Min(S) = m
      BY <1>2, <1>3 DEF Min
<1>5. Line = SubSeq(inbox, 1, m)
      BY <1>4 DEF Line, S
<1>6. m \in 1 .. Len(inbox)
      BY DEF EndsAt
<1>7. /\ SubSeq(inbox, 1, m) \in Seq(Pieces) /\ Len(SubSeq(inbox, 1, m)) = m
      /\ \A i \in 1 .. m : SubSeq(inbox, 1, m)[i] = inbox[i]
      BY <1>1, <1>6, Cut
<1>8. Line # <<>> /\ Head(Line) = Line[1]
      BY <1>5, <1>6, <1>7
<1>. QED BY <1>5, <1>6, <1>7, <1>8, LenProperties DEF Last

\* The replies to a line: the last word ends them.
Closes(words, last) ==
    /\ words \in Seq(Told) /\ Len(words) \in Nat \ {0} /\ words[Len(words)] = last
    /\ \A i \in 1 .. Len(words) - 1 : words[i] = "value"

LEMMA ValuesClose ==
    ASSUME NEW last \in Told, NEW words \in Values(last)
    PROVE  Closes(words, last)
<1>1. PICK n \in 0 .. MaxValues : words = Append([i \in 1 .. n |-> "value"], last)
      BY DEF Values
<1> DEFINE vs == [i \in 1 .. n |-> "value"]
<1>2. n \in Nat /\ "value" \in Told
      BY SharedAssumption DEF Told
<1>3. vs \in Seq(Told) /\ Len(vs) = n /\ \A i \in 1 .. n : vs[i] = "value"
      BY <1>2
<1>4. words = Append(vs, last)
      BY <1>1
<1> HIDE DEF vs
<1>5. /\ words \in Seq(Told) /\ Len(words) = n + 1 /\ words[n + 1] = last
      /\ \A i \in 1 .. n : words[i] = vs[i]
      BY <1>3, <1>4, AppendProperties
<1>6. Len(words) - 1 = n /\ Len(words) \in Nat \ {0}
      BY <1>2, <1>5
<1>. QED BY <1>3, <1>5, <1>6 DEF Closes

\* One word is a reply by itself.
LEMMA OneCloses ==
    ASSUME NEW last \in Told
    PROVE  Closes(<<last>>, last)
BY DEF Closes

\* What the server may answer, by the word that a line begins with.
LEMMA AnswersAre ==
    ASSUME NEW words \in Answers
    PROVE  /\ Head(Line).word \in {"line", "set"} => words \in {<<"result">>, <<"error">>}
           /\ Head(Line).word = "version" => words \in {<<"version">>, <<"error">>}
           /\ Head(Line).word = "quiet" => words = <<>>
           /\ Head(Line).word \notin Commands =>
                 \/ words \in Values("end") \/ words \in Values("error")
                 \/ words = <<"error">>
<1> DEFINE w == Head(Line).word
           a == <<"result">>
           b == <<"error">>
           c == <<"version">>
           d == Values("end") \cup Values("error")
<1>1. words \in CASE w \in {"line", "set"} -> {a, b}
                  [] w = "version"         -> {c, b}
                  [] w = "quiet"           -> {<<>>}
                  [] IsGet                 -> d
                  [] OTHER                 -> {b}
      BY DEF Answers
<1> HIDE DEF a, b, c, d, w
<1>2. /\ w \in {"line", "set"} => words \in {a, b}
      /\ w = "version" => words \in {c, b}
      BY <1>1 DEF IsGet, w
<1>3. w = "quiet" => words = <<>>
      BY <1>1 DEF IsGet, w
<1>4. w \notin Commands => words \in d \/ words = b
      BY <1>1 DEF Commands
<1>. QED BY <1>2, <1>3, <1>4 DEF a, b, c, d, w

LEMMA AnswersType ==
    ASSUME NEW words \in Answers
    PROVE  words \in Seq(Told)
<1>1. /\ <<"result">> \in Seq(Told) /\ <<"error">> \in Seq(Told) /\ <<"version">> \in Seq(Told)
      /\ <<>> \in Seq(Told) /\ "end" \in Told /\ "error" \in Told
      BY EmptySeq DEF Told
<1>2. words \in Values("end") \/ words \in Values("error") => words \in Seq(Told)
      BY <1>1, ValuesClose DEF Closes
<1>3. \/ words \in {<<"result">>, <<"error">>, <<"version">>, <<>>}
      \/ words \in Values("end") \/ words \in Values("error")
      BY DEF Answers
<1>. QED BY <1>1, <1>2, <1>3

\* The lines of a reply that has the given words.
Lines(words) == [i \in DOMAIN words |-> [id |-> Last(Line).id, whole |-> Whole, word |-> words[i]]]

LEMMA LinesType ==
    ASSUME TypeOK, NEW m \in Nat, EndsAt(m), NEW words \in Seq(Told)
    PROVE  /\ Lines(words) \in Seq(Units) /\ Len(Lines(words)) = Len(words)
           /\ \A i \in 1 .. Len(words) : /\ Lines(words)[i].id = Last(Line).id
                                         /\ Lines(words)[i].whole = Whole
                                         /\ Lines(words)[i].word = words[i]
<1>1. m \in 1 .. Len(inbox) /\ inbox \in Seq(Pieces) /\ Last(Line) = inbox[m]
      BY LineIs DEF EndsAt, TypeOK
<1>2. Last(Line) \in Pieces
      BY <1>1, ElementOfSeq
<1>3. Whole \in BOOLEAN /\ Last(Line).id \in Nat
      BY <1>2 DEF Whole, Pieces
<1>4. /\ Len(words) \in Nat /\ DOMAIN words = 1 .. Len(words)
      /\ \A i \in 1 .. Len(words) : words[i] \in Told
      BY LenProperties, ElementOfSeq
<1> DEFINE unit(w) == [id |-> Last(Line).id, whole |-> Whole, word |-> w]
<1>5. \A w \in Told : /\ unit(w) \in Units /\ unit(w).id = Last(Line).id
                      /\ unit(w).whole = Whole /\ unit(w).word = w
      BY <1>3 DEF Units
<1>6. Lines(words) = [i \in 1 .. Len(words) |-> unit(words[i])]
      BY <1>4 DEF Lines
<1> HIDE DEF unit
<1>7. \A i \in 1 .. Len(words) : Lines(words)[i] = unit(words[i]) /\ unit(words[i]) \in Units
      BY <1>4, <1>5, <1>6
<1>8. Lines(words) \in Seq(Units) /\ Len(Lines(words)) = Len(words)
      BY <1>4, <1>6, <1>7
<1>. QED BY <1>4, <1>5, <1>7, <1>8

LEMMA ServeType ==
    ASSUME TypeOK, Serve
    PROVE  /\ inbox' \in Seq(Pieces) /\ replies' \in Seq(Units)
           /\ UNCHANGED <<frames, active, calls, wmem, wread, rmem, aborted>>
<1>1. PICK m \in Nat : EndsAt(m)
      BY EndExists DEF Serve
<1>2. m \in 1 .. Len(inbox) /\ inbox \in Seq(Pieces) /\ replies \in Seq(Units) /\ Len(inbox) \in Nat
      BY <1>1, LenProperties DEF EndsAt, TypeOK
<1>3. Len(Line) = m
      BY <1>1, LineIs
<1>4. PICK words \in Answers : replies' = replies \o Lines(words)
      BY DEF Serve, Lines
<1>5. Lines(words) \in Seq(Units)
      BY <1>1, AnswersType, LinesType
<1>8. replies' \in Seq(Units)
      BY <1>2, <1>4, <1>5, ConcatProperties
<1>9. Taken \in 0 .. Len(inbox) /\ inbox' = SubSeq(inbox, Taken + 1, Len(inbox))
      BY <1>2, <1>3 DEF Taken, Serve
<1>10. inbox' \in Seq(Pieces)
      BY <1>2, <1>9, Cut
<1>. QED BY <1>8, <1>10 DEF Serve

-----------------------------------------------------------------------------
(***************************************************************************)
(* The stack.                                                              *)
(***************************************************************************)
LEMMA TopRuns ==
    ASSUME TypeOK, OneThread, NEW f \in Frames, NEW pc, MayStep(f, pc)
    PROVE  /\ Len(active) \in Nat /\ Len(active) >= 1 /\ active # <<>>
           /\ f = Top /\ f = active[Len(active)] /\ frames[f].pc = pc
<1>1. active # <<>> /\ Last(active) = f /\ frames[f].pc = pc
      BY DEF MayStep, OneThread
<1>2. active \in Seq(Frames) /\ Len(active) \in Nat /\ Len(active) >= 1
      BY <1>1, EmptySeq, LenProperties DEF TypeOK
<1>. QED BY <1>1, <1>2 DEF Last, Top

LEMMA TopActive ==
    ASSUME TypeOK, StackInv
    PROVE  /\ Len(active) \in Nat
           /\ active # <<>> => Top \in Frames /\ Len(active) >= 1 /\ frames[Top].pc # "idle"
           /\ \A g \in Frames : frames[g].pc \notin {"idle", "keys"} => active # <<>> /\ g = Top
<1>1. active \in Seq(Frames) /\ Len(active) \in Nat /\ (active # <<>> => Len(active) >= 1)
      BY EmptySeq, LenProperties DEF TypeOK
<1>2. active # <<>> => Top \in Frames /\ frames[Top].pc # "idle"
  <2>1. ASSUME active # <<>> PROVE Len(active) \in 1 .. Len(active)
        BY <1>1, <2>1
  <2>. QED BY <1>1, <2>1, ElementOfSeq DEF Top, StackInv
<1>3. ASSUME NEW g \in Frames, frames[g].pc \notin {"idle", "keys"}
      PROVE  active # <<>> /\ g = Top
  <2>1. PICK i \in 1 .. Len(active) : active[i] = g
        BY <1>3 DEF StackInv
  <2>2. ~(i < Len(active))
        BY <1>3, <2>1 DEF StackInv
  <2>3. i = Len(active) /\ Len(active) >= 1
        BY <1>1, <2>1, <2>2
  <2>4. active # <<>>
        BY <2>3, EmptySeq
  <2>. QED BY <2>1, <2>3, <2>4 DEF Top
<1>. QED BY <1>1, <1>2, <1>3

LEMMA StackStays ==
    ASSUME TypeOK, StackInv, NEW f \in Frames, active # <<>>, f = Top, UNCHANGED active,
           \A g \in Frames : g # f => frames'[g] = frames[g],
           frames'[f].pc # "idle", frames'[f].alone = frames[f].alone
    PROVE  StackInv'
<1>1. Len(active) \in Nat /\ Len(active) >= 1 /\ active[Len(active)] = f /\ frames[f].pc # "idle"
      BY TopActive DEF Top
<1>2. \A i \in 1 .. Len(active) : active[i] \in Frames
      BY ElementOfSeq DEF TypeOK
<1>3. \A i \in 1 .. Len(active) : i < Len(active) => active[i] # f
      BY <1>1 DEF StackInv
<1>4. \A g \in Frames : frames'[g].pc # "idle" <=> \E i \in 1 .. Len(active) : active[i] = g
      BY <1>1 DEF StackInv
<1>5. \A i \in 1 .. Len(active) : /\ i < Len(active) => frames'[active[i]].pc = "keys"
                                  /\ frames'[active[i]].alone => Len(active) = 1
      BY <1>2, <1>3 DEF StackInv
<1>. QED BY <1>4, <1>5 DEF StackInv

LEMMA StackPops ==
    ASSUME TypeOK, StackInv, NEW f \in Frames, active # <<>>, f = Top, active' = Front(active),
           \A g \in Frames : g # f => frames'[g] = frames[g],
           frames'[f].pc = "idle"
    PROVE  /\ StackInv'
           /\ active' # <<>> => /\ Top' \in Frames /\ frames'[Top'].pc = "keys"
                                /\ ~frames'[Top'].alone
<1> DEFINE n == Len(active)
<1>1. n \in Nat /\ n >= 1 /\ active[n] = f /\ active \in Seq(Frames) /\ n - 1 \in 0 .. Len(active)
      BY TopActive DEF Top, TypeOK
<1>2. /\ active' \in Seq(Frames) /\ Len(active') = n - 1
      /\ \A i \in 1 .. n - 1 : active'[i] = active[i]
  <2> DEFINE k == n - 1
  <2>1. active' = SubSeq(active, 1, k)
        BY DEF Front
  <2> HIDE DEF k
  <2>2. k \in 0 .. Len(active)
        BY <1>1 DEF k
  <2>3. /\ SubSeq(active, 1, k) \in Seq(Frames) /\ Len(SubSeq(active, 1, k)) = k
        /\ \A i \in 1 .. k : SubSeq(active, 1, k)[i] = active[i]
        BY <1>1, <2>2, Cut
  <2>. QED BY <2>1, <2>3 DEF k
<1>3. \A i \in 1 .. n : active[i] \in Frames
      BY ElementOfSeq DEF TypeOK
<1>4. \A i \in 1 .. n - 1 : i \in 1 .. n /\ i < n /\ i # n /\ n \in 1 .. n
      BY <1>1
<1>5. \A i \in 1 .. n - 1 : active[i] # f
  <2>1. \A i, j \in 1 .. n : active[i] = active[j] => i = j
        BY DEF StackInv
  <2>. QED BY <1>1, <1>4, <2>1
<1>6. \A i \in 1 .. n - 1 : frames'[active'[i]].pc = "keys" /\ ~frames'[active'[i]].alone
  <2>1. ASSUME NEW i \in 1 .. n - 1
        PROVE  frames[active[i]].pc = "keys" /\ (frames[active[i]].alone => n = 1)
        BY <1>4 DEF StackInv
  <2>2. ASSUME NEW i \in 1 .. n - 1 PROVE n # 1
        BY <1>1
  <2>. QED BY <1>2, <1>3, <1>4, <1>5, <2>1, <2>2
<1>7. \A g \in Frames : frames'[g].pc # "idle" <=> \E i \in 1 .. n - 1 : active'[i] = g
  <2>1. ASSUME NEW g \in Frames, frames'[g].pc # "idle"
        PROVE  \E i \in 1 .. n - 1 : active'[i] = g
    <3>1. g # f /\ frames[g].pc # "idle"
          BY <2>1
    <3>2. PICK i \in 1 .. n : active[i] = g
          BY <3>1 DEF StackInv
    <3>3. i \in 1 .. n - 1
          BY <1>1, <3>1, <3>2
    <3>. QED BY <1>2, <3>2, <3>3
  <2>2. ASSUME NEW g \in Frames, NEW i \in 1 .. n - 1, active'[i] = g
        PROVE  frames'[g].pc # "idle"
    <3>1. frames[g].pc # "idle" /\ g # f
          BY <1>2, <1>4, <1>5, <2>2 DEF StackInv
    <3>. QED BY <3>1
  <2>. QED BY <2>1, <2>2
<1>8. \A i, j \in 1 .. n - 1 : active'[i] = active'[j] => i = j
      BY <1>2, <1>4 DEF StackInv
<1>9. active' # <<>> => Len(active') \in 1 .. n - 1
      BY <1>1, <1>2, EmptySeq
<1>10. active' # <<>> => /\ Top' \in Frames /\ frames'[Top'].pc = "keys" /\ ~frames'[Top'].alone
      BY <1>2, <1>3, <1>4, <1>6, <1>9 DEF Top
<1> HIDE DEF n
<1>. QED BY <1>2, <1>6, <1>7, <1>8, <1>10 DEF StackInv

LEMMA StackPushes ==
    ASSUME TypeOK, StackInv, NEW f \in Frames, frames[f].pc = "idle",
           active # <<>> => frames[Top].pc = "keys",
           active' = Append(active, f),
           \A g \in Frames : g # f =>
               /\ frames'[g].pc = frames[g].pc
               /\ (\E i \in 1 .. Len(active) : active[i] = g) => ~frames'[g].alone,
           frames'[f].pc # "idle", frames'[f].alone <=> active = <<>>
    PROVE  StackInv' /\ Top' = f /\ active' # <<>>
<1> DEFINE n == Len(active)
<1>1. n \in Nat /\ active \in Seq(Frames)
      BY TopActive DEF TypeOK
<1>2. /\ active' \in Seq(Frames) /\ Len(active') = n + 1 /\ active' # <<>>
      /\ \A i \in 1 .. n : active'[i] = active[i]
      /\ active'[n + 1] = f
      BY <1>1, AppendProperties
<1>3. \A i \in 1 .. n : active[i] \in Frames /\ active[i] # f
      BY <1>1, ElementOfSeq DEF StackInv
<1>4. \A i \in 1 .. n + 1 : i \in 1 .. n \/ i = n + 1
      BY <1>1
<1>5. \A i \in 1 .. n : i \in 1 .. n + 1 /\ n + 1 \in 1 .. n + 1
      BY <1>1
<1>6. \A i \in 1 .. n : frames'[active[i]].pc = "keys" /\ ~frames'[active[i]].alone
  <2>1. ASSUME NEW i \in 1 .. n PROVE frames[active[i]].pc = "keys"
    <3>1. i < n => frames[active[i]].pc = "keys"
          BY DEF StackInv
    <3>2. i = n => active # <<>>
          BY EmptySeq
    <3>3. i < n \/ i = n
          BY <1>1
    <3>. QED BY <3>1, <3>2, <3>3 DEF Top
  <2>. QED BY <1>3, <2>1
<1>7. \A g \in Frames : frames'[g].pc # "idle" <=> \E i \in 1 .. n + 1 : active'[i] = g
  <2>1. ASSUME NEW g \in Frames, frames'[g].pc # "idle"
        PROVE  \E i \in 1 .. n + 1 : active'[i] = g
    <3>1. CASE g = f
      <4>1. n + 1 \in 1 .. n + 1
            BY <1>1
      <4>. QED BY <1>2, <3>1, <4>1
    <3>2. CASE g # f
      <4>1. PICK i \in 1 .. n : active[i] = g
            BY <2>1, <3>2 DEF StackInv
      <4>. QED BY <1>2, <1>5, <4>1
    <3>. QED BY <3>1, <3>2
  <2>2. ASSUME NEW g \in Frames, NEW i \in 1 .. n + 1, active'[i] = g
        PROVE  frames'[g].pc # "idle"
    <3>1. CASE i = n + 1
          BY <1>2, <2>2, <3>1
    <3>2. CASE i \in 1 .. n
      <4>1. frames'[active[i]].pc = "keys" /\ active[i] = g
            BY <1>2, <1>6, <2>2, <3>2
      <4>. QED BY <4>1
    <3>. QED BY <1>4, <3>1, <3>2
  <2>. QED BY <2>1, <2>2
<1>8. \A i, j \in 1 .. n + 1 : active'[i] = active'[j] => i = j
      BY <1>2, <1>3, <1>4 DEF StackInv
<1>9. \A i \in 1 .. n + 1 : /\ i < n + 1 => frames'[active'[i]].pc = "keys"
                            /\ frames'[active'[i]].alone => n + 1 = 1
  <2>1. ASSUME NEW i \in 1 .. n PROVE frames'[active'[i]].pc = "keys" /\ ~frames'[active'[i]].alone
        BY <1>2, <1>6
  <2>2. frames'[active'[n + 1]].alone => n = 0
        BY <1>2, EmptySeq
  <2>. QED BY <1>1, <1>4, <2>1, <2>2
<1>10. Top' = f
      BY <1>2 DEF Top
<1> HIDE DEF n
<1>. QED BY <1>2, <1>7, <1>8, <1>9, <1>10 DEF StackInv

-----------------------------------------------------------------------------
(***************************************************************************)
(* What holds of one thread whatever its iterators call.                   *)
(***************************************************************************)
BaseInv == TypeOK /\ StackInv /\ PullInv

\* Pieces are written when no frame is inside send().
LEMMA KeepsPullWriting ==
    ASSUME BaseInv, TypeOK', active # <<>> => frames[Top].pc = "keys",
           UNCHANGED <<wread, aborted>>, Len(wmem') >= Len(wmem),
           \A g \in Frames : frames'[g].pc = "sending" => frames[g].pc = "sending"
    PROVE  PullInv'
<1>1. \A g \in Frames : frames[g].pc # "sending"
      BY TopActive DEF BaseInv
<1>2. wread = 0 \/ wread < Len(wmem')
      BY UnsentType, LenProperties DEF BaseInv, TypeOK, PullInv
<1>. QED BY <1>1, <1>2 DEF BaseInv, PullInv

LEMMA KeepsPull ==
    ASSUME BaseInv, UNCHANGED <<wmem, wread, aborted>>,
           \A g \in Frames : frames'[g].pc = "sending" =>
               \/ frames[g].pc = "sending" /\ frames'[g].given = frames[g].given
               \/ frames'[g].given = Unsent
    PROVE  PullInv'
BY DEF BaseInv, PullInv, Unsent

\* A call begins.
LEMMA BeginsBase ==
    ASSUME BaseInv, OneThread, NEW f \in Frames, MayBegin(f),
           NEW pc \in {"send", "keys"}, NEW op \in Ops,
           NEW words \in Seq(Words),
           Starts(f, pc, op), Begins(f), Writes(calls + 1, words),
           UNCHANGED <<wread, rmem, inbox, replies, aborted>>
    PROVE  /\ BaseInv' /\ active' # <<>> /\ Top' = f
           /\ active # <<>> => frames[Top].pc = "keys"
           /\ frames'[f].pc = pc /\ frames'[f].id = calls + 1 /\ frames'[f].op = op
           /\ frames'[f].got = {}
           /\ frames'[f].alone <=> active = <<>>
           /\ \A g \in Frames : g # f => /\ frames'[g].pc = frames[g].pc
                                         /\ frames'[g].got = frames[g].got
                                         /\ frames'[g].id = frames[g].id
                                         /\ frames'[g].op = frames[g].op
                                         /\ frames'[g].alone => frames[g].alone
<1>1. TypeOK /\ StackInv
      BY DEF BaseInv
<1>2. frames[f].pc = "idle" /\ (active # <<>> => frames[Top].pc = "keys")
      BY DEF MayBegin, Last, Top
<1>3. pc \in Places /\ pc # "idle" /\ calls + 1 \in Nat
      BY <1>1 DEF Places, TypeOK
<1>4. /\ calls' \in Nat /\ frames' \in [Frames -> Calls]
      /\ frames'[f].pc = pc /\ frames'[f].id = calls + 1 /\ frames'[f].op = op
      /\ frames'[f].got = {}
      /\ frames'[f].alone <=> active = <<>>
      BY <1>1, <1>3, StartsType
<1>7. \A g \in Frames : g # f =>
          /\ frames'[g].pc = frames[g].pc /\ frames'[g].got = frames[g].got
          /\ frames'[g].id = frames[g].id /\ frames'[g].op = frames[g].op
          /\ frames'[g].alone => frames[g].alone
          /\ (\E i \in 1 .. Len(active) : active[i] = g) => ~frames'[g].alone
      BY <1>1, <1>3, StartsType
<1>8. wmem' \in Seq(Pieces) /\ Len(wmem') = Len(wmem) + Len(words) /\ Len(words) \in Nat
      BY <1>1, <1>3, WritesType, LenProperties
<1>9. Len(wmem) \in Nat /\ wread \in 0 .. Len(wmem) /\ Len(wmem') >= Len(wmem)
      BY <1>1, <1>8, UnsentType
<1>10. active' \in Seq(Frames) /\ active' = Append(active, f)
      BY <1>1, ActiveType DEF Begins, OneThread
<1>11. TypeOK'
      BY <1>1, <1>4, <1>8, <1>9, <1>10 DEF TypeOK
<1>12. StackInv' /\ Top' = f /\ active' # <<>>
  <2>1. frames'[f].pc # "idle"
        BY <1>3, <1>4
  <2>2. \A g \in Frames : g # f =>
            /\ frames'[g].pc = frames[g].pc
            /\ (\E i \in 1 .. Len(active) : active[i] = g) => ~frames'[g].alone
        BY <1>4, <1>7
  <2>. QED BY <1>1, <1>2, <1>4, <1>10, <2>1, <2>2, StackPushes
<1>13. \A g \in Frames : frames'[g].pc = "sending" => frames[g].pc = "sending"
      BY <1>4, <1>7
<1>14. PullInv'
      BY <1>2, <1>9, <1>11, <1>13, KeepsPullWriting
<1>. QED BY <1>2, <1>4, <1>7, <1>11, <1>12, <1>14 DEF BaseInv

\* The call on top goes on, or ends.
LEMMA GoesOnBase ==
    ASSUME BaseInv, OneThread, NEW f \in Frames, NEW pc \in Places, pc # "idle", MayStep(f, pc),
           NEW new \in Calls, frames' = [frames EXCEPT ![f] = new],
           new.alone = frames[f].alone, new.pc # "idle", UNCHANGED active, UNCHANGED calls,
           wmem' \in Seq(Pieces), wread' \in 0 .. Len(wmem'),
           rmem' \in Seq(Units), replies' \in Seq(Units), inbox' \in Seq(Pieces),
           aborted' \in BOOLEAN, PullInv'
    PROVE  /\ BaseInv' /\ active # <<>> /\ f = Top /\ Top' = Top /\ frames[f].pc = pc
           /\ frames'[f] = new /\ \A g \in Frames : g # f => frames'[g] = frames[g]
<1>1. TypeOK /\ StackInv
      BY DEF BaseInv
<1>2. /\ frames' \in [Frames -> Calls] /\ frames'[f] = new
      /\ \A g \in Frames : g # f => frames'[g] = frames[g]
      BY <1>1, GoesType
<1>3. active # <<>> /\ f = Top /\ frames[f].pc = pc
      BY <1>1, TopRuns
<1>4. StackInv'
      BY <1>1, <1>2, <1>3, StackStays
<1>5. TypeOK'
      BY <1>1, <1>2 DEF TypeOK
<1>. QED BY <1>2, <1>3, <1>4, <1>5 DEF BaseInv, Top

LEMMA EndsBase ==
    ASSUME BaseInv, OneThread, NEW f \in Frames, NEW pc \in {"send", "read"}, MayStep(f, pc),
           NEW new \in Calls, frames' = [frames EXCEPT ![f] = new], new.pc = "idle",
           Ends(f), UNCHANGED <<calls, wmem, wread, inbox, replies, aborted>>, rmem' \in Seq(Units)
    PROVE  /\ BaseInv' /\ active # <<>> /\ f = Top /\ frames[f].pc = pc
           /\ frames'[f] = new /\ \A g \in Frames : g # f => frames'[g] = frames[g]
           /\ active' # <<>> => /\ Top' \in Frames /\ frames'[Top'].pc = "keys"
                                /\ ~frames'[Top'].alone
<1>1. TypeOK /\ StackInv
      BY DEF BaseInv
<1>2. /\ frames' \in [Frames -> Calls] /\ frames'[f] = new
      /\ \A g \in Frames : g # f => frames'[g] = frames[g]
      BY <1>1, GoesType
<1>3. active # <<>> /\ f = Top /\ frames[f].pc = pc
      BY <1>1, TopRuns
<1>4. active' = Front(active) /\ active' \in Seq(Frames)
      BY <1>1, <1>3, ActiveType DEF Ends, OneThread
<1>5. /\ StackInv'
      /\ active' # <<>> => /\ Top' \in Frames /\ frames'[Top'].pc = "keys" /\ ~frames'[Top'].alone
      BY <1>1, <1>2, <1>3, <1>4, StackPops
<1>6. TypeOK'
      BY <1>1, <1>2, <1>4 DEF TypeOK
<1>7. PullInv'
      BY <1>2, KeepsPull
<1>. QED BY <1>2, <1>3, <1>5, <1>6, <1>7 DEF BaseInv

\* What a call that begins leaves behind, and one that goes on or ends.
Begun(f, pc, op) ==
    /\ BaseInv' /\ active' # <<>> /\ Top' = f
    /\ active # <<>> => frames[Top].pc = "keys"
    /\ frames'[f].pc = pc /\ frames'[f].id = calls + 1 /\ frames'[f].op = op
    /\ frames'[f].got = {}
    /\ frames'[f].alone <=> active = <<>>
    /\ \A g \in Frames : g # f => /\ frames'[g].pc = frames[g].pc
                                  /\ frames'[g].got = frames[g].got
                                  /\ frames'[g].id = frames[g].id
                                  /\ frames'[g].op = frames[g].op
                                  /\ frames'[g].alone => frames[g].alone

\* Nothing changes of a frame but where it is and what it gives to send().
SameCall(f) ==
    /\ frames'[f].id = frames[f].id /\ frames'[f].op = frames[f].op
    /\ frames'[f].got = frames[f].got /\ frames'[f].alone = frames[f].alone

WentOn(f, pc) ==
    /\ BaseInv' /\ active # <<>> /\ active' = active /\ f = Top /\ Top' = Top
    /\ frames[f].pc = pc
    /\ SameCall(f) /\ \A g \in Frames : g # f => frames'[g] = frames[g]

Ended(f, pc) ==
    /\ BaseInv' /\ active # <<>> /\ f = Top /\ frames[f].pc = pc
    /\ frames'[f].id = frames[f].id /\ frames'[f].alone = frames[f].alone
    /\ \A g \in Frames : g # f => frames'[g] = frames[g]
    /\ active' # <<>> => /\ Top' \in Frames /\ frames'[Top'].pc = "keys"
                         /\ ~frames'[Top'].alone

LEMMA CommandBase ==
    ASSUME BaseInv, OneThread, NEW f \in Frames, NEW op \in Methods, Command(f, op)
    PROVE  /\ op \in {"line", "version", "set", "quiet"}
           /\ Begun(f, "send", op)
<1>1. /\ op \in {"line", "version", "set", "quiet"} /\ op \in Ops
      /\ MayBegin(f) /\ Starts(f, "send", op) /\ Begins(f)
      BY SharedAssumption DEF Command, Gets, Ops
<1>2. (IF op \in {"line", "version"} THEN <<op>> ELSE <<op, "data">>) \in Seq(Words)
      BY <1>1, WordsType
<1>. QED BY <1>1, <1>2, BeginsBase DEF Command, Begun

LEMMA GetBase ==
    ASSUME BaseInv, OneThread, NEW f \in Frames, Get(f)
    PROVE  Begun(f, "send", "get")
<1>1. MayBegin(f) /\ Starts(f, "send", "get") /\ Begins(f) /\ "get" \in Ops
      BY DEF Get, Ops
<1>2. <<"get", "key", "crlf">> \in Seq(Words)
      BY WordsType
<1>. QED BY <1>1, <1>2, BeginsBase DEF Get, Begun

LEMMA GetMultiBase ==
    ASSUME BaseInv, OneThread, NEW f \in Frames, GetMulti(f)
    PROVE  Begun(f, "keys", "multi")
<1>1. MayBegin(f) /\ Starts(f, "keys", "multi") /\ Begins(f) /\ "multi" \in Ops
      BY DEF GetMulti, OneThread, Ops
<1>2. <<"get">> \in Seq(Words)
      BY WordsType
<1>. QED BY <1>1, <1>2, BeginsBase DEF GetMulti, Begun

LEMMA GetKeyWriteBase ==
    ASSUME BaseInv, OneThread, NEW f \in Frames, GetKeyWrite(f)
    PROVE  WentOn(f, "keys") /\ frames'[f].pc = "keys"
<1> DEFINE new == [frames[f] EXCEPT !.keys = frames[f].keys + 1]
<1>1. TypeOK /\ frames[f] \in Calls /\ MayStep(f, "keys")
      BY DEF BaseInv, TypeOK, GetKeyWrite
<1>2. frames[f].pc = "keys" /\ active # <<>> /\ f = Top
      BY <1>1, TopRuns
<1>3. new \in Calls
      BY <1>1, CallSteps
<1>4. /\ new.pc = "keys" /\ new.id = frames[f].id /\ new.op = frames[f].op
      /\ new.got = frames[f].got /\ new.alone = frames[f].alone
      BY <1>1, <1>2 DEF Calls
<1>5. frames' = [frames EXCEPT ![f] = new]
      BY <1>1 DEF GetKeyWrite, TypeOK
<1>6. frames[f].id \in Nat /\ <<"key">> \in Seq(Words) /\ Writes(frames[f].id, <<"key">>)
      BY <1>1, WordsType DEF Calls, GetKeyWrite
<1>7. wmem' \in Seq(Pieces) /\ Len(wmem') = Len(wmem) + Len(<<"key">>)
      BY <1>1, <1>6, WritesType
<1>8. Len(wmem) \in Nat /\ wread \in 0 .. Len(wmem) /\ Len(<<"key">>) = 1
      BY <1>1, LenProperties DEF TypeOK
<1> HIDE DEF new
<1>9. /\ frames' \in [Frames -> Calls] /\ frames'[f] = new
      /\ \A g \in Frames : g # f => frames'[g] = frames[g]
      BY <1>1, <1>3, <1>5, GoesType
<1>10. TypeOK'
      BY <1>1, <1>7, <1>8, <1>9 DEF TypeOK, GetKeyWrite
<1>11. PullInv'
  <2>1. Len(wmem') >= Len(wmem)
        BY <1>7, <1>8
  <2>2. \A g \in Frames : frames'[g].pc = "sending" => frames[g].pc = "sending"
        BY <1>4, <1>9
  <2>. QED BY <1>2, <1>10, <2>1, <2>2, KeepsPullWriting DEF GetKeyWrite
<1>12. StackInv'
  <2>1. frames'[f].pc # "idle" /\ frames'[f].alone = frames[f].alone
        BY <1>4, <1>9
  <2>. QED BY <1>1, <1>2, <1>9, <2>1, StackStays DEF BaseInv, GetKeyWrite
<1>. QED BY <1>2, <1>4, <1>9, <1>10, <1>11, <1>12 DEF BaseInv, WentOn, SameCall, Top, GetKeyWrite

LEMMA GetFlushBase ==
    ASSUME BaseInv, OneThread, NEW f \in Frames, GetFlush(f)
    PROVE  WentOn(f, "keys") /\ frames'[f].pc = "send"
<1> DEFINE new == [frames[f] EXCEPT !.pc = "send"]
<1>1. TypeOK /\ frames[f] \in Calls /\ MayStep(f, "keys") /\ "send" \in Places
      BY DEF BaseInv, TypeOK, GetFlush, Places
<1>2. frames[f].pc = "keys" /\ active # <<>> /\ f = Top
      BY <1>1, TopRuns
<1>3. new \in Calls
      BY <1>1, CallSteps
<1>4. /\ new.pc = "send" /\ new.id = frames[f].id /\ new.op = frames[f].op
      /\ new.got = frames[f].got /\ new.alone = frames[f].alone
      BY <1>1 DEF Calls
<1>5. frames' = [frames EXCEPT ![f] = new]
      BY <1>1 DEF GetFlush, Goes, TypeOK
<1>6. frames[f].id \in Nat /\ <<"crlf">> \in Seq(Words) /\ Writes(frames[f].id, <<"crlf">>)
      BY <1>1, WordsType DEF Calls, GetFlush
<1>7. wmem' \in Seq(Pieces) /\ Len(wmem') = Len(wmem) + Len(<<"crlf">>)
      BY <1>1, <1>6, WritesType
<1>8. Len(wmem) \in Nat /\ wread \in 0 .. Len(wmem) /\ Len(<<"crlf">>) = 1
      BY <1>1, LenProperties DEF TypeOK
<1>0. UNCHANGED <<active, calls, wread, rmem, inbox, replies, aborted>>
      BY <1>1, ActiveType DEF GetFlush
<1> HIDE DEF new
<1>9. /\ frames' \in [Frames -> Calls] /\ frames'[f] = new
      /\ \A g \in Frames : g # f => frames'[g] = frames[g]
      BY <1>1, <1>3, <1>5, GoesType
<1>10. TypeOK'
      BY <1>0, <1>1, <1>7, <1>8, <1>9 DEF TypeOK
<1>11. PullInv'
  <2>1. Len(wmem') >= Len(wmem)
        BY <1>7, <1>8
  <2>2. \A g \in Frames : frames'[g].pc = "sending" => frames[g].pc = "sending"
        BY <1>4, <1>9
  <2>. QED BY <1>0, <1>2, <1>10, <2>1, <2>2, KeepsPullWriting
<1>12. StackInv'
  <2>1. frames'[f].pc # "idle" /\ frames'[f].alone = frames[f].alone
        BY <1>4, <1>9
  <2>. QED BY <1>0, <1>1, <1>2, <1>9, <2>1, StackStays DEF BaseInv
<1>. QED BY <1>0, <1>2, <1>4, <1>9, <1>10, <1>11, <1>12 DEF BaseInv, WentOn, SameCall, Top

LEMMA SendBeginsBase ==
    ASSUME BaseInv, OneThread, NEW f \in Frames, SendBegins(f)
    PROVE  WentOn(f, "send") /\ frames'[f].pc = "sending"
<1> DEFINE new == [frames[f] EXCEPT !.pc = "sending", !.given = Unsent]
<1>1. TypeOK /\ frames[f] \in Calls /\ MayStep(f, "send")
      BY DEF BaseInv, TypeOK, SendBegins
<1>2. new \in Calls
      BY <1>1, CallSteps, UnsentType
<1>3. /\ new.pc = "sending" /\ new.id = frames[f].id /\ new.op = frames[f].op
      /\ new.got = frames[f].got /\ new.alone = frames[f].alone /\ new.given = Unsent
      BY <1>1 DEF Calls
<1>4. frames' = [frames EXCEPT ![f] = new]
      BY <1>1 DEF SendBegins, TypeOK, Unsent
<1>5. UNCHANGED <<active, calls, wmem, wread, rmem, inbox, replies, aborted>>
      BY <1>1, ActiveType DEF SendBegins
<1> HIDE DEF new
<1>6. PullInv'
  <2>1. /\ frames'[f] = new
        /\ \A g \in Frames : g # f => frames'[g] = frames[g]
        BY <1>1, <1>2, <1>4, GoesType
  <2>2. \A g \in Frames : frames'[g].pc = "sending" =>
            \/ frames[g].pc = "sending" /\ frames'[g].given = frames[g].given
            \/ frames'[g].given = Unsent
        BY <1>3, <2>1
  <2>. QED BY <1>5, <2>2, KeepsPull
<1>7. /\ wmem' \in Seq(Pieces) /\ wread' \in 0 .. Len(wmem')
      /\ rmem' \in Seq(Units) /\ replies' \in Seq(Units) /\ inbox' \in Seq(Pieces)
      /\ aborted' \in BOOLEAN
      BY <1>1, <1>5 DEF TypeOK
<1>8. "send" \in Places /\ new.pc # "idle"
      BY <1>3 DEF Places
<1>9. /\ BaseInv' /\ active # <<>> /\ f = Top /\ Top' = Top /\ frames[f].pc = "send"
      /\ frames'[f] = new /\ \A g \in Frames : g # f => frames'[g] = frames[g]
      BY <1>1, <1>2, <1>3, <1>4, <1>5, <1>6, <1>7, <1>8, GoesOnBase
<1>. QED BY <1>3, <1>5, <1>9 DEF WentOn, SameCall

LEMMA ComingIs ==
    ASSUME TypeOK
    PROVE  /\ Len(inbox) \in Nat /\ Len(wmem) \in Nat /\ wread \in Nat /\ wread <= Len(wmem)
           /\ Coming \in Seq(Pieces) /\ Len(Coming) \in Nat
           /\ Len(Coming) = Len(inbox) + (Len(wmem) - wread)
           /\ \A i \in 1 .. Len(inbox) : Coming[i] = inbox[i]
           /\ \A i \in 1 .. Len(wmem) - wread : Coming[Len(inbox) + i] = wmem[wread + i]
<1>1. /\ inbox \in Seq(Pieces) /\ Len(inbox) \in Nat
      BY LenProperties DEF TypeOK
<1>2. /\ Len(wmem) \in Nat /\ wread \in Nat /\ wread <= Len(wmem)
      /\ Unsent \in Seq(Pieces) /\ Len(Unsent) = Len(wmem) - wread
      /\ \A i \in 1 .. Len(Unsent) : Unsent[i] = wmem[wread + i]
      BY UnsentType
<1>3. /\ Coming \in Seq(Pieces) /\ Len(Coming) = Len(inbox) + Len(Unsent)
      /\ \A i \in 1 .. Len(inbox) + Len(Unsent) :
            Coming[i] = IF i <= Len(inbox) THEN inbox[i] ELSE Unsent[i - Len(inbox)]
      BY <1>1, <1>2, ConcatProperties DEF Coming
<1>4. \A i \in 1 .. Len(wmem) - wread :
          /\ Len(inbox) + i \in 1 .. Len(inbox) + Len(Unsent)
          /\ ~(Len(inbox) + i <= Len(inbox)) /\ (Len(inbox) + i) - Len(inbox) = i
          /\ i \in 1 .. Len(Unsent)
      BY <1>1, <1>2
<1>5. \A i \in 1 .. Len(wmem) - wread : Coming[Len(inbox) + i] = wmem[wread + i]
      BY <1>2, <1>3, <1>4
<1>6. \A i \in 1 .. Len(inbox) : i \in 1 .. Len(inbox) + Len(Unsent) /\ i <= Len(inbox)
      BY <1>1, <1>2
<1>7. \A i \in 1 .. Len(inbox) : Coming[i] = inbox[i]
      BY <1>3, <1>6
<1>8. /\ Len(Coming) \in Nat
      /\ Len(Coming) = Len(inbox) + (Len(wmem) - wread)
      BY <1>1, <1>2, <1>3
<1>. QED BY <1>1, <1>2, <1>3, <1>5, <1>7, <1>8

\* What send() took is on its way: the pieces stay in their order.
LEMMA SendReturnsBase ==
    ASSUME BaseInv, OneThread, NEW f \in Frames, SendReturns(f)
    PROVE  WentOn(f, "sending") /\ frames'[f].pc = "send" /\ Coming' = Coming
<1> DEFINE new == [frames[f] EXCEPT !.pc = "send"]
<1>1. TypeOK /\ frames[f] \in Calls /\ MayStep(f, "sending") /\ "send" \in Places
      BY DEF BaseInv, TypeOK, SendReturns, Places
<1>2. frames[f].pc = "sending" /\ frames[f].given = Unsent
      BY <1>1, TopRuns DEF BaseInv, PullInv
<1>3. PICK k \in 1 .. Len(Unsent) :
          /\ inbox' = inbox \o SubSeq(Unsent, 1, k)
          /\ aborted' = (k > Len(wmem) - wread)
          /\ IF wread + k = Len(wmem)
             THEN wmem' = <<>> /\ wread' = 0
             ELSE wread' = wread + k /\ UNCHANGED wmem
      BY <1>2 DEF SendReturns
<1>4. /\ Len(wmem) \in Nat /\ wread \in Nat /\ wread <= Len(wmem)
      /\ Unsent \in Seq(Pieces) /\ Len(Unsent) = Len(wmem) - wread
      /\ \A i \in 1 .. Len(Unsent) : Unsent[i] = wmem[wread + i]
      BY <1>1, UnsentType
<1>5. k \in 0 .. Len(Unsent) /\ k \in Nat /\ ~(k > Len(wmem) - wread)
      BY <1>3, <1>4
<1>6. /\ SubSeq(Unsent, 1, k) \in Seq(Pieces)
      /\ SubSeq(Unsent, k + 1, Len(Unsent)) \in Seq(Pieces)
      /\ Len(SubSeq(Unsent, k + 1, Len(Unsent))) = Len(Unsent) - k
      /\ SubSeq(Unsent, 1, k) \o SubSeq(Unsent, k + 1, Len(Unsent)) = Unsent
      /\ \A i \in 1 .. Len(Unsent) - k : SubSeq(Unsent, k + 1, Len(Unsent))[i] = Unsent[k + i]
      BY <1>4, <1>5, Cut
<1>7. /\ wmem' \in Seq(Pieces) /\ wread' \in 0 .. Len(wmem') /\ (wread' = 0 \/ wread' < Len(wmem'))
  <2>1. CASE wread + k = Len(wmem)
    <3>1. wmem' = <<>> /\ wread' = 0
          BY <1>3, <2>1
    <3>2. <<>> \in Seq(Pieces) /\ Len(<<>>) = 0
          BY EmptySeq
    <3>3. 0 \in 0 .. 0
          OBVIOUS
    <3>. QED BY <3>1, <3>2, <3>3
  <2>2. CASE wread + k # Len(wmem)
    <3>1. wmem' = wmem /\ wread' = wread + k
          BY <1>3, <2>2
    <3>2. wread + k \in 0 .. Len(wmem) /\ wread + k < Len(wmem)
          BY <1>4, <1>5, <2>2
    <3>. QED BY <1>1, <3>1, <3>2 DEF TypeOK
  <2>. QED BY <2>1, <2>2
<1>8. Unsent' = SubSeq(Unsent, k + 1, Len(Unsent))
  <2>1. CASE wread + k = Len(wmem)
    <3>1. Unsent' = SubSeq(<<>>, 0 + 1, Len(<<>>)) /\ Len(<<>>) = 0
          BY <1>3, <2>1 DEF Unsent
    <3>2. Unsent' = <<>>
          BY <3>1, SubSeqEmpty
    <3>3. Len(SubSeq(Unsent, k + 1, Len(Unsent))) = 0
          BY <1>4, <1>5, <1>6, <2>1
    <3>4. SubSeq(Unsent, k + 1, Len(Unsent)) = <<>>
          BY <1>6, <3>3, EmptySeq
    <3>. QED BY <3>2, <3>4
  <2>2. CASE wread + k # Len(wmem)
    <3>1. Unsent' = SubSeq(wmem, (wread + k) + 1, Len(wmem)) /\ wread + k \in 0 .. Len(wmem)
      <4>1. wmem' = wmem /\ wread' = wread + k
            BY <1>3, <2>2
      <4>2. wread + k \in 0 .. Len(wmem)
            BY <1>4, <1>5
      <4>. QED BY <4>1, <4>2 DEF Unsent
    <3>2. /\ Unsent' \in Seq(Pieces) /\ Len(Unsent') = Len(wmem) - (wread + k)
          /\ \A i \in 1 .. Len(wmem) - (wread + k) : Unsent'[i] = wmem[(wread + k) + i]
          BY <1>1, <3>1, Cut DEF TypeOK
    <3>3. Len(Unsent') = Len(Unsent) - k
          BY <1>4, <1>5, <3>2
    <3>4. \A i \in 1 .. Len(Unsent') : Unsent'[i] = SubSeq(Unsent, k + 1, Len(Unsent))[i]
      <4>1. ASSUME NEW i \in 1 .. Len(Unsent')
            PROVE  /\ k + i \in 1 .. Len(Unsent) /\ wread + (k + i) = (wread + k) + i
                   /\ i \in 1 .. Len(Unsent) - k /\ i \in 1 .. Len(wmem) - (wread + k)
            BY <1>4, <1>5, <3>3
      <4>2. ASSUME NEW i \in 1 .. Len(Unsent')
            PROVE  Unsent'[i] = SubSeq(Unsent, k + 1, Len(Unsent))[i]
        <5>1. Unsent'[i] = wmem[(wread + k) + i]
              BY <3>2, <4>1
        <5>2. SubSeq(Unsent, k + 1, Len(Unsent))[i] = Unsent[k + i]
              BY <1>6, <4>1
        <5>3. Unsent[k + i] = wmem[wread + (k + i)]
              BY <1>4, <4>1
        <5>. QED BY <4>1, <5>1, <5>2, <5>3
      <4>. QED BY <4>2
    <3>. QED BY <1>6, <3>2, <3>3, <3>4, SeqEqual
  <2>. QED BY <2>1, <2>2
<1>9. inbox \in Seq(Pieces) /\ inbox' \in Seq(Pieces)
      BY <1>1, <1>3, <1>6, ConcatProperties DEF TypeOK
<1>10. Coming' = Coming
  <2>1. Coming' = (inbox \o SubSeq(Unsent, 1, k)) \o SubSeq(Unsent, k + 1, Len(Unsent))
        BY <1>3, <1>8 DEF Coming
  <2>2. @ = inbox \o Unsent
        BY <1>4, <1>5, <1>9, MovedParts
  <2>. QED BY <2>1, <2>2 DEF Coming
<1>11. new \in Calls
      BY <1>1, CallSteps
<1>12. /\ new.pc = "send" /\ new.id = frames[f].id /\ new.op = frames[f].op
       /\ new.got = frames[f].got /\ new.alone = frames[f].alone
       BY <1>1 DEF Calls
<1>13. frames' = [frames EXCEPT ![f] = new]
       BY <1>1 DEF SendReturns, Goes, TypeOK
<1>14. UNCHANGED <<active, calls, rmem, replies>>
       BY <1>1, ActiveType DEF SendReturns
<1> HIDE DEF new
<1>15. ~aborted'
       BY <1>3, <1>5
<1>16. PullInv'
  <2>1. /\ frames'[f] = new
        /\ \A g \in Frames : g # f => frames'[g] = frames[g]
        BY <1>1, <1>11, <1>13, GoesType
  <2>2. \A g \in Frames : g # f => frames[g].pc # "sending"
        BY <1>1, TopRuns, TopActive DEF BaseInv
  <2>3. \A g \in Frames : frames'[g].pc # "sending"
        BY <1>12, <2>1, <2>2
  <2>. QED BY <1>7, <1>15, <2>3 DEF PullInv
<1>17. /\ rmem' \in Seq(Units) /\ replies' \in Seq(Units) /\ aborted' \in BOOLEAN
       BY <1>1, <1>3, <1>14 DEF TypeOK
<1>18. "sending" \in Places /\ new.pc # "idle"
       BY <1>12 DEF Places
<1>19. /\ BaseInv' /\ active # <<>> /\ f = Top /\ Top' = Top /\ frames[f].pc = "sending"
       /\ frames'[f] = new /\ \A g \in Frames : g # f => frames'[g] = frames[g]
       BY <1>1, <1>7, <1>9, <1>11, <1>12, <1>13, <1>14, <1>16, <1>17, <1>18, GoesOnBase
<1>. QED BY <1>10, <1>12, <1>14, <1>19 DEF WentOn, SameCall

\* A step of the call on top that moves no piece.
LEMMA MovesBase ==
    ASSUME BaseInv, OneThread, NEW f \in Frames, NEW pc \in Places, NEW to \in Places,
           pc # "idle", to \notin {"idle", "sending"}, MayStep(f, pc), Goes(f, to),
           UNCHANGED <<active, calls, wmem, wread, inbox, aborted>>,
           rmem' \in Seq(Units), replies' \in Seq(Units)
    PROVE  WentOn(f, pc) /\ frames'[f].pc = to /\ Coming' = Coming
<1> DEFINE new == [frames[f] EXCEPT !.pc = to]
<1>1. TypeOK /\ frames[f] \in Calls
      BY DEF BaseInv, TypeOK
<1>2. new \in Calls
      BY <1>1, CallSteps
<1>3. /\ new.pc = to /\ new.id = frames[f].id /\ new.op = frames[f].op
      /\ new.got = frames[f].got /\ new.alone = frames[f].alone
      BY <1>1 DEF Calls
<1>4. frames' = [frames EXCEPT ![f] = new]
      BY <1>1 DEF Goes, TypeOK
<1> HIDE DEF new
<1>5. PullInv'
  <2>1. /\ frames'[f] = new
        /\ \A g \in Frames : g # f => frames'[g] = frames[g]
        BY <1>1, <1>2, <1>4, GoesType
  <2>2. \A g \in Frames : frames'[g].pc = "sending" =>
            \/ frames[g].pc = "sending" /\ frames'[g].given = frames[g].given
            \/ frames'[g].given = Unsent
        BY <1>3, <2>1
  <2>. QED BY <2>2, KeepsPull
<1>6. /\ wmem' \in Seq(Pieces) /\ wread' \in 0 .. Len(wmem') /\ inbox' \in Seq(Pieces)
      /\ aborted' \in BOOLEAN
      BY <1>1 DEF TypeOK
<1>7. /\ BaseInv' /\ active # <<>> /\ f = Top /\ Top' = Top /\ frames[f].pc = pc
      /\ frames'[f] = new /\ \A g \in Frames : g # f => frames'[g] = frames[g]
      BY <1>1, <1>2, <1>3, <1>4, <1>5, <1>6, GoesOnBase
<1>. QED BY <1>3, <1>7 DEF WentOn, SameCall, Coming, Unsent

LEMMA RecvBeginsBase ==
    ASSUME BaseInv, OneThread, NEW f \in Frames, RecvBegins(f)
    PROVE  /\ WentOn(f, "read") /\ frames'[f].pc = "receiving" /\ Coming' = Coming
           /\ UNCHANGED <<rmem, replies>>
<1>1. TypeOK /\ MayStep(f, "read") /\ "read" \in Places /\ "receiving" \in Places
      BY DEF BaseInv, RecvBegins, Places
<1>2. UNCHANGED <<active, calls, wmem, wread, rmem, inbox, replies, aborted>>
      BY <1>1, ActiveType DEF RecvBegins
<1>. QED BY <1>1, <1>2, MovesBase DEF RecvBegins, TypeOK

LEMMA RecvReturnsBase ==
    ASSUME BaseInv, OneThread, NEW f \in Frames, RecvReturns(f)
    PROVE  /\ WentOn(f, "receiving") /\ frames'[f].pc = "read" /\ Coming' = Coming
           /\ rmem' \o replies' = rmem \o replies /\ replies # <<>>
<1>1. TypeOK /\ MayStep(f, "receiving") /\ "read" \in Places /\ "receiving" \in Places
      BY DEF BaseInv, RecvReturns, Places
<1>2. UNCHANGED <<active, calls, wmem, wread, inbox, aborted>>
      BY <1>1, ActiveType DEF RecvReturns
<1>3. PICK k \in 1 .. Len(replies) : /\ rmem' = rmem \o SubSeq(replies, 1, k)
                                     /\ replies' = SubSeq(replies, k + 1, Len(replies))
      BY DEF RecvReturns
<1>4. /\ replies \in Seq(Units) /\ Len(replies) \in Nat /\ rmem \in Seq(Units)
      /\ k \in 0 .. Len(replies) /\ replies # <<>>
      BY <1>1, <1>3, EmptySeq, LenProperties DEF TypeOK
<1>5. /\ SubSeq(replies, 1, k) \in Seq(Units) /\ SubSeq(replies, k + 1, Len(replies)) \in Seq(Units)
      /\ SubSeq(replies, 1, k) \o SubSeq(replies, k + 1, Len(replies)) = replies
      BY <1>4, Cut
<1>6. rmem' \in Seq(Units) /\ replies' \in Seq(Units)
      BY <1>3, <1>4, <1>5, ConcatProperties
<1>7. rmem' \o replies' = rmem \o replies
  <2>1. rmem' \o replies' = (rmem \o SubSeq(replies, 1, k)) \o SubSeq(replies, k + 1, Len(replies))
        BY <1>3
  <2>2. @ = rmem \o replies
        BY <1>4, MovedParts
  <2>. QED BY <2>1, <2>2
<1>. QED BY <1>1, <1>2, <1>4, <1>6, <1>7, MovesBase DEF RecvReturns

\* All that was written is sent: the call ends, or waits for its reply.
LEMMA SendDoneBase ==
    ASSUME BaseInv, OneThread, NEW f \in Frames, SendDone(f)
    PROVE  /\ wmem = <<>> /\ wread = 0
           /\ UNCHANGED <<wmem, wread, rmem, inbox, replies>>
           /\ \/ /\ frames[f].op = "quiet" /\ Ended(f, "send")
                 /\ frames'[f].got = frames[f].got /\ frames'[f].pc = "idle"
              \/ /\ frames[f].op # "quiet" /\ WentOn(f, "send") /\ frames'[f].pc = "read"
                 /\ Coming' = Coming
<1>1. /\ TypeOK /\ frames[f] \in Calls /\ MayStep(f, "send")
      /\ "send" \in Places /\ "read" \in Places /\ "idle" \in Places
      BY DEF BaseInv, TypeOK, SendDone, Places
<1>2. UNCHANGED <<calls, wmem, wread, rmem, inbox, replies, aborted>> /\ wread = Len(wmem)
      BY DEF SendDone
<1>3. wmem \in Seq(Pieces) /\ Len(wmem) = 0 /\ wread = 0
      BY <1>1, <1>2, UnsentType DEF BaseInv, PullInv, TypeOK
<1>4. wmem = <<>>
      BY <1>3, EmptySeq
<1>5. rmem' \in Seq(Units) /\ replies' \in Seq(Units)
      BY <1>1, <1>2 DEF TypeOK
<1>6. CASE frames[f].op = "quiet"
  <2> DEFINE new == [frames[f] EXCEPT !.pc = "idle"]
  <2>1. new \in Calls
        BY <1>1, CallSteps
  <2>2. /\ new.pc = "idle" /\ new.id = frames[f].id /\ new.op = frames[f].op
        /\ new.got = frames[f].got /\ new.alone = frames[f].alone
        BY <1>1 DEF Calls
  <2>3. frames' = [frames EXCEPT ![f] = new] /\ Ends(f)
        BY <1>1, <1>6 DEF SendDone, Goes, TypeOK
  <2> HIDE DEF new
  <2>4. /\ BaseInv' /\ active # <<>> /\ f = Top /\ frames[f].pc = "send"
        /\ frames'[f] = new /\ \A g \in Frames : g # f => frames'[g] = frames[g]
        /\ active' # <<>> => /\ Top' \in Frames /\ frames'[Top'].pc = "keys"
                             /\ ~frames'[Top'].alone
        BY <1>1, <1>2, <1>5, <2>1, <2>2, <2>3, EndsBase
  <2>. QED BY <1>2, <1>3, <1>4, <1>6, <2>2, <2>4 DEF Ended
<1>7. CASE frames[f].op # "quiet"
  <2>1. Goes(f, "read") /\ UNCHANGED active
        BY <1>1, <1>7, ActiveType DEF SendDone
  <2>2. WentOn(f, "send") /\ frames'[f].pc = "read" /\ Coming' = Coming
        BY <1>1, <1>2, <1>5, <2>1, MovesBase
  <2>. QED BY <1>2, <1>3, <1>4, <1>7, <2>2
<1>. QED BY <1>6, <1>7

\* A call takes a line of its reply, or ends without one.
TookOn(f) ==
    /\ BaseInv' /\ active # <<>> /\ active' = active /\ f = Top /\ Top' = Top
    /\ frames[f].pc = "read" /\ frames'[f].pc = "read"
    /\ frames'[f].id = frames[f].id /\ frames'[f].op = frames[f].op
    /\ frames'[f].alone = frames[f].alone
    /\ \A g \in Frames : g # f => frames'[g] = frames[g]

Took(f) == /\ rmem # <<>> /\ UNCHANGED <<wmem, wread, inbox, replies>>
           /\ frames'[f].got = frames[f].got \cup {Sign(Head(rmem))}

LEMMA TakesBase ==
    ASSUME BaseInv, OneThread, NEW f \in Frames, NEW pc \in {"read", "idle"}, NEW rest \in Seq(Units),
           MayStep(f, "read"), rmem # <<>>, Takes(f, pc, rest),
           pc = "read" => Holds(f), pc = "idle" => Ends(f)
    PROVE  /\ Took(f) /\ rmem' = rest /\ frames'[f].pc = pc
           /\ pc = "idle" => Ended(f, "read")
           /\ pc = "read" => TookOn(f)
<1> DEFINE new == [frames[f] EXCEPT !.pc = pc, !.got = frames[f].got \cup {Sign(Head(rmem))}]
<1>1. TypeOK /\ frames[f] \in Calls /\ pc \in Places /\ "read" \in Places
      BY DEF BaseInv, TypeOK, Places
<1>2. UNCHANGED <<calls, wmem, wread, inbox, replies, aborted>> /\ rmem' = rest
      BY DEF Takes
<1>3. Head(rmem) \in Units
      BY <1>1, HeadTailProperties DEF TypeOK
<1>4. Sign(Head(rmem)) \in Gots
      BY <1>3 DEF Sign, Units, Gots
<1>5. frames[f].got \cup {Sign(Head(rmem))} \in SUBSET Gots
      BY <1>1, <1>4 DEF Calls
<1>6. new \in Calls
      BY <1>1, <1>5, CallSteps
<1>7. /\ new.pc = pc /\ new.id = frames[f].id /\ new.op = frames[f].op /\ new.alone = frames[f].alone
      /\ new.got = frames[f].got \cup {Sign(Head(rmem))}
      BY <1>1 DEF Calls
<1>8. frames' = [frames EXCEPT ![f] = new]
      BY <1>1 DEF Takes, TypeOK
<1> HIDE DEF new
<1>9. CASE pc = "idle"
  <2>1. /\ BaseInv' /\ active # <<>> /\ f = Top /\ frames[f].pc = "read"
        /\ frames'[f] = new /\ \A g \in Frames : g # f => frames'[g] = frames[g]
        /\ active' # <<>> => /\ Top' \in Frames /\ frames'[Top'].pc = "keys"
                             /\ ~frames'[Top'].alone
        BY <1>2, <1>6, <1>7, <1>8, <1>9, EndsBase
  <2>. QED BY <1>2, <1>7, <1>9, <2>1 DEF Ended, Took
<1>10. CASE pc = "read"
  <2>1. UNCHANGED active
        BY <1>1, <1>10, ActiveType
  <2>2. PullInv'
    <3>1. /\ frames'[f] = new
          /\ \A g \in Frames : g # f => frames'[g] = frames[g]
          BY <1>1, <1>6, <1>8, GoesType
    <3>2. \A g \in Frames : frames'[g].pc = "sending" =>
              \/ frames[g].pc = "sending" /\ frames'[g].given = frames[g].given
              \/ frames'[g].given = Unsent
          BY <1>7, <1>10, <3>1
    <3>. QED BY <1>2, <3>2, KeepsPull
  <2>3. /\ wmem' \in Seq(Pieces) /\ wread' \in 0 .. Len(wmem') /\ inbox' \in Seq(Pieces)
        /\ rmem' \in Seq(Units) /\ replies' \in Seq(Units) /\ aborted' \in BOOLEAN
        BY <1>1, <1>2 DEF TypeOK
  <2>4. /\ BaseInv' /\ active # <<>> /\ f = Top /\ Top' = Top /\ frames[f].pc = "read"
        /\ frames'[f] = new /\ \A g \in Frames : g # f => frames'[g] = frames[g]
        BY <1>1, <1>2, <1>6, <1>7, <1>8, <1>10, <2>1, <2>2, <2>3, GoesOnBase
  <2>. QED BY <1>2, <1>7, <1>10, <2>1, <2>4 DEF TookOn, Took
<1>. QED BY <1>9, <1>10

LEMMA LinesAfter ==
    ASSUME TypeOK, rmem # <<>>
    PROVE  AfterLine \in Seq(Units) /\ Tail(rmem) \in Seq(Units)
<1>1. Head(rmem) \in Units /\ Tail(rmem) \in Seq(Units)
      BY HeadTailProperties DEF TypeOK
<1> DEFINE data == [Head(rmem) EXCEPT !.word = "data"]
<1>2. data \in Units
      BY <1>1 DEF Units, Told
<1> HIDE DEF data
<1>3. <<data>> \in Seq(Units)
      BY <1>2
<1>4. <<data>> \o Tail(rmem) \in Seq(Units)
      BY <1>1, <1>3, ConcatProperties
<1>. QED BY <1>1, <1>4 DEF AfterLine, data

LEMMA ResultLineBase ==
    ASSUME BaseInv, OneThread, NEW f \in Frames, ResultLine(f) \/ VersionLine(f) \/ LastLine(f)
    PROVE  /\ Ended(f, "read") /\ Took(f) /\ frames'[f].pc = "idle"
           /\ Head(rmem).word # "value" => rmem' = Tail(rmem)
<1>1. MayStep(f, "read") /\ rmem # <<>> /\ Ends(f)
      BY DEF ResultLine, VersionLine, LastLine, HasLine
<1>2. PICK rest \in {AfterLine, Tail(rmem)} : Takes(f, "idle", rest)
      BY DEF ResultLine, VersionLine, LastLine
<1>3. rest \in Seq(Units)
      BY <1>1, <1>2, LinesAfter DEF BaseInv
<1>4. Took(f) /\ rmem' = rest /\ frames'[f].pc = "idle" /\ Ended(f, "read")
      BY <1>1, <1>2, <1>3, TakesBase
<1>5. Head(rmem).word # "value" => AfterLine = Tail(rmem)
      BY DEF AfterLine
<1>. QED BY <1>2, <1>4, <1>5

LEMMA ShortVersionLineBase ==
    ASSUME BaseInv, OneThread, NEW f \in Frames, ShortVersionLine(f)
    PROVE  Ended(f, "read")
<1> DEFINE new == [frames[f] EXCEPT !.pc = "idle"]
<1>1. TypeOK /\ frames[f] \in Calls /\ MayStep(f, "read") /\ "idle" \in Places /\ Ends(f)
      BY DEF BaseInv, TypeOK, Places, ShortVersionLine, HasLine
<1>2. UNCHANGED <<calls, wmem, wread, rmem, inbox, replies, aborted>> /\ rmem' \in Seq(Units)
      BY <1>1 DEF ShortVersionLine, TypeOK
<1>3. new \in Calls
      BY <1>1, CallSteps
<1>4. new.pc = "idle" /\ new.id = frames[f].id /\ new.alone = frames[f].alone
      BY <1>1 DEF Calls
<1>5. frames' = [frames EXCEPT ![f] = new]
      BY <1>1 DEF ShortVersionLine, Goes, TypeOK
<1> HIDE DEF new
<1>6. /\ BaseInv' /\ active # <<>> /\ f = Top /\ frames[f].pc = "read"
      /\ frames'[f] = new /\ \A g \in Frames : g # f => frames'[g] = frames[g]
      /\ active' # <<>> => /\ Top' \in Frames /\ frames'[Top'].pc = "keys"
                           /\ ~frames'[Top'].alone
      BY <1>1, <1>2, <1>3, <1>4, <1>5, EndsBase
<1>. QED BY <1>4, <1>6 DEF Ended

LEMMA ValueLineBase ==
    ASSUME BaseInv, OneThread, NEW f \in Frames, ValueLine(f)
    PROVE  TookOn(f) /\ Took(f) /\ rmem' = Tail(rmem)
<1>1. MayStep(f, "read") /\ rmem # <<>> /\ Holds(f) /\ Takes(f, "read", Tail(rmem))
      BY DEF ValueLine, HasLine
<1>2. Tail(rmem) \in Seq(Units)
      BY <1>1, LinesAfter DEF BaseInv
<1>. QED BY <1>1, <1>2, TakesBase

LEMMA ServeBase ==
    ASSUME BaseInv, Serve
    PROVE  BaseInv'
<1>1. /\ inbox' \in Seq(Pieces) /\ replies' \in Seq(Units)
      /\ UNCHANGED <<frames, active, calls, wmem, wread, rmem, aborted>>
      BY ServeType DEF BaseInv
<1>. QED BY <1>1 DEF BaseInv, TypeOK, StackInv, PullInv, Unsent

LEMMA InitBase == Init => BaseInv
<1> SUFFICES ASSUME Init PROVE BaseInv
    OBVIOUS
<1>1. /\ <<>> \in Seq(Pieces) /\ <<>> \in Seq(Units) /\ <<>> \in Seq(Frames) /\ Len(<<>>) = 0
      /\ NoFrame \in Calls /\ NoFrame.pc = "idle"
      BY EmptySeq, GotType DEF NoFrame
<1>2. TypeOK
  <2>1. /\ active \in Seq(Frames) /\ wmem \in Seq(Pieces) /\ inbox \in Seq(Pieces)
        /\ rmem \in Seq(Units) /\ replies \in Seq(Units)
        BY <1>1 DEF Init
  <2>2. wread \in 0 .. Len(wmem)
        BY <1>1 DEF Init
  <2>3. frames \in [Frames -> Calls]
        BY <1>1 DEF Init
  <2>. QED BY <2>1, <2>2, <2>3 DEF Init, TypeOK
<1>3. \A f \in Frames : frames[f].pc = "idle"
      BY <1>1 DEF Init
<1>4. StackInv
      BY <1>1, <1>3 DEF Init, StackInv
<1>. QED BY <1>2, <1>3, <1>4 DEF BaseInv, PullInv, Init

LEMMA StepBase ==
    ASSUME BaseInv, OneThread, [Next]_vars
    PROVE  BaseInv'
<1>1. ASSUME NEW f \in Frames, Step(f) PROVE BaseInv'
  <2>1. CASE \E op \in Methods : Command(f, op)
        BY <2>1, CommandBase DEF Begun
  <2>2. CASE GetMulti(f)
        BY <2>2, GetMultiBase DEF Begun
  <2>3. CASE GetKeyWrite(f)
        BY <2>3, GetKeyWriteBase DEF WentOn
  <2>4. CASE GetFlush(f)
        BY <2>4, GetFlushBase DEF WentOn
  <2>5. CASE SendBegins(f)
        BY <2>5, SendBeginsBase DEF WentOn
  <2>6. CASE SendReturns(f)
        BY <2>6, SendReturnsBase DEF WentOn
  <2>7. CASE SendDone(f)
        BY <2>7, SendDoneBase DEF WentOn, Ended
  <2>8. CASE RecvBegins(f)
        BY <2>8, RecvBeginsBase DEF WentOn
  <2>9. CASE RecvReturns(f)
        BY <2>9, RecvReturnsBase DEF WentOn
  <2>10. CASE ResultLine(f) \/ VersionLine(f) \/ LastLine(f)
        BY <2>10, ResultLineBase DEF Ended
  <2>11. CASE ShortVersionLine(f)
        BY <2>11, ShortVersionLineBase DEF Ended
  <2>12. CASE ValueLine(f)
        BY <2>12, ValueLineBase DEF TookOn
  <2>13. CASE Get(f)
        BY <2>13, GetBase DEF Begun
  <2>. QED BY <1>1, <2>1, <2>2, <2>3, <2>4, <2>5, <2>6, <2>7, <2>8, <2>9, <2>10, <2>11, <2>12,
              <2>13 DEF Step
<1>2. CASE UNCHANGED vars
      BY <1>2 DEF vars, BaseInv, TypeOK, StackInv, PullInv, Unsent
<1>. QED BY <1>1, <1>2, ServeBase DEF Next

(***************************************************************************)
(* The assertion of PacketWriter::pull never fails in one thread, for any  *)
(* frames, any keys, and iterators that call any of the methods: the       *)
(* violation that two threads reach needs the two threads.                 *)
(***************************************************************************)
THEOREM OneThreadPulls == ASSUME OneThread PROVE Spec => []PullsWhatIsThere
<1>1. BaseInv /\ [Next]_vars => BaseInv'
      BY StepBase
<1>2. BaseInv => PullsWhatIsThere
      BY DEF BaseInv, PullInv, PullsWhatIsThere
<1>. QED BY InitBase, <1>1, <1>2, PTL DEF Spec

-----------------------------------------------------------------------------
(***************************************************************************)
(* What is under way.                                                      *)
(***************************************************************************)
\* Only get_multi() and gets_multi() have an iterator.
KeysInv == \A f \in Frames : frames[f].pc = "keys" => frames[f].op = "multi"

SharedInv == BaseInv /\ GotInv /\ KeysInv /\ Belongs

\* Belongs, when f is on top.
PiecesOf(f) ==
    IF frames[f].pc = "keys" THEN Writing /\ Own(f, Len(inbox))
    ELSE IF frames[f].op = "quiet" THEN Unanswered
    ELSE Owing(f) \/ Answered(f)

LEMMA PiecesAt ==
    ASSUME NEW f, active # <<>>, f = Top
    PROVE  Belongs <=> PiecesOf(f)
BY DEF Belongs, PiecesOf

LEMMA PiecesNext ==
    ASSUME NEW f, active' # <<>>, Top' = f
    PROVE  Belongs' <=> PiecesOf(f)'
BY DEF Belongs, PiecesOf, Own, Owing, Answered, Ending, LineOf, StoreOf, GetOf

\* The pieces that a method writes come after all others.
LEMMA ComingGrows ==
    ASSUME TypeOK, TypeOK', NEW id \in Nat, NEW words \in Seq(Words), Writes(id, words),
           UNCHANGED <<wread, inbox>>
    PROVE  /\ Len(Coming) \in Nat /\ Len(words) \in Nat
           /\ Len(Coming') = Len(Coming) + Len(words)
           /\ \A i \in 1 .. Len(Coming) : Coming'[i] = Coming[i]
           /\ \A i \in 1 .. Len(words) : Coming'[Len(Coming) + i] = Piece(id, words[i])
<1> DEFINE w == Len(wmem) - wread
           n == Len(inbox)
<1>1. /\ n \in Nat /\ Len(wmem) \in Nat /\ wread \in Nat /\ wread <= Len(wmem)
      /\ Len(Coming) = n + w
      /\ \A i \in 1 .. n : Coming[i] = inbox[i]
      /\ \A i \in 1 .. w : Coming[n + i] = wmem[wread + i]
      BY ComingIs
<1>2. /\ Len(wmem') = Len(wmem) + Len(words)
      /\ \A i \in 1 .. Len(wmem) : wmem'[i] = wmem[i]
      /\ \A i \in 1 .. Len(words) : wmem'[Len(wmem) + i] = Piece(id, words[i])
      BY WritesType
<1>3. /\ Len(Coming') = Len(inbox') + (Len(wmem') - wread')
      /\ \A i \in 1 .. Len(inbox') : Coming'[i] = inbox'[i]
      /\ \A i \in 1 .. Len(wmem') - wread' : Coming'[Len(inbox') + i] = wmem'[wread' + i]
  <2>1. ASSUME TypeOK'
        PROVE  (/\ Len(Coming) = Len(inbox) + (Len(wmem) - wread)
                /\ \A i \in 1 .. Len(inbox) : Coming[i] = inbox[i]
                /\ \A i \in 1 .. Len(wmem) - wread : Coming[Len(inbox) + i] = wmem[wread + i])'
        BY <2>1, ComingIs, PTL
  <2>. QED BY <2>1
<1>4. Len(words) \in Nat
      BY LenProperties
<1>5. w \in Nat /\ Len(wmem) = wread + w /\ Len(wmem') - wread' = w + Len(words)
      BY <1>1, <1>2, <1>4
<1>6. /\ Len(Coming') = n + (w + Len(words))
      /\ \A i \in 1 .. n : Coming'[i] = inbox[i]
      /\ \A i \in 1 .. w + Len(words) : Coming'[n + i] = wmem'[wread + i]
      BY <1>3, <1>5
<1> HIDE DEF w, n
<1>7. ASSUME NEW i \in 1 .. Len(Coming) PROVE Coming'[i] = Coming[i]
  <2>1. CASE i <= n
        BY <1>1, <1>6, <2>1
  <2>2. CASE i > n
    <3>1. i - n \in 1 .. w /\ i - n \in 1 .. w + Len(words) /\ n + (i - n) = i
          BY <1>1, <1>4, <1>5, <2>2
    <3>2. wread + (i - n) \in 1 .. Len(wmem)
          BY <1>1, <1>5, <3>1
    <3>3. Coming[n + (i - n)] = wmem[wread + (i - n)]
          BY <1>1, <3>1
    <3>4. Coming'[n + (i - n)] = wmem'[wread + (i - n)]
          BY <1>6, <3>1
    <3>5. wmem'[wread + (i - n)] = wmem[wread + (i - n)]
          BY <1>2, <3>2
    <3>. QED BY <3>1, <3>3, <3>4, <3>5
  <2>. QED BY <1>1, <1>5, <2>1, <2>2
<1>8. ASSUME NEW i \in 1 .. Len(words)
      PROVE  Coming'[Len(Coming) + i] = Piece(id, words[i])
  <2>1. w + i \in 1 .. w + Len(words) /\ Len(Coming) + i = n + (w + i)
        BY <1>1, <1>4, <1>5
  <2>2. wread + (w + i) = Len(wmem) + i
        BY <1>1, <1>5
  <2>. QED BY <1>2, <1>6, <2>1, <2>2
<1>9. Len(Coming) \in Nat /\ Len(Coming') = Len(Coming) + Len(words)
      BY <1>1, <1>4, <1>5, <1>6
<1>. QED BY <1>4, <1>7, <1>8, <1>9

LEMMA QuietKept ==
    ASSUME NEW n \in Nat, n <= Len(Coming), Len(Coming) \in Nat, QuietTo(n),
           \A i \in 1 .. Len(Coming) : Coming'[i] = Coming[i]
    PROVE  QuietTo(n)'
<1>1. \A i \in 1 .. n : Coming'[i] = Coming[i]
      OBVIOUS
<1>2. ASSUME NEW i \in 1 .. n, i < n PROVE Coming'[i + 1] = Coming[i + 1]
      BY <1>1, <1>2
<1>3. ASSUME NEW i \in 1 .. n, i > 1 PROVE Coming'[i - 1] = Coming[i - 1]
      BY <1>1, <1>3
<1>. QED BY <1>1, <1>2, <1>3 DEF QuietTo

LEMMA OneMore ==
    ASSUME TypeOK, TypeOK', NEW id \in Nat, NEW word \in Words, Writes(id, <<word>>),
           UNCHANGED <<wread, inbox>>
    PROVE  /\ Len(Coming) \in Nat /\ Len(Coming') = Len(Coming) + 1
           /\ \A i \in 1 .. Len(Coming) : Coming'[i] = Coming[i]
           /\ Coming'[Len(Coming) + 1].id = id /\ Coming'[Len(Coming) + 1].word = word
<1>1. <<word>> \in Seq(Words) /\ Len(<<word>>) = 1 /\ <<word>>[1] = word
      OBVIOUS
<1>2. /\ Len(Coming) \in Nat /\ Len(Coming') = Len(Coming) + 1
      /\ \A i \in 1 .. Len(Coming) : Coming'[i] = Coming[i]
      /\ \A i \in 1 .. 1 : Coming'[Len(Coming) + i] = Piece(id, <<word>>[i])
      BY <1>1, ComingGrows
<1>3. Coming'[Len(Coming) + 1] = Piece(id, word)
      BY <1>1, <1>2
<1>. QED BY <1>2, <1>3 DEF Piece

\* What is before the end of the inbox, and what the frames have written.
LEMMA WritingKept ==
    ASSUME TypeOK, TypeOK', Writing, NEW id \in Nat, NEW word \in Words, Writes(id, <<word>>),
           UNCHANGED <<wread, inbox, rmem, replies>>
    PROVE  /\ Nothing' /\ wread' = 0 /\ QuietTo(Len(inbox))'
           /\ Len(inbox) \in Nat /\ Len(inbox) <= Len(Coming)
           /\ OpenAfter(Len(inbox), Len(Coming))'
              <=> word \in {"get", "key"}
           /\ \A i \in Len(inbox) + 1 .. Len(Coming) : Coming'[i].word \in {"get", "key"}
<1>1. /\ Len(inbox) \in Nat /\ Len(inbox) <= Len(Coming)
      BY ComingIs
<1>2. /\ Len(Coming) \in Nat /\ Len(Coming') = Len(Coming) + 1
      /\ \A i \in 1 .. Len(Coming) : Coming'[i] = Coming[i]
      /\ Coming'[Len(Coming) + 1].word = word
      BY OneMore
<1>3. QuietTo(Len(inbox)) /\ wread = 0 /\ Nothing /\ OpenAfter(Len(inbox), Len(Coming))
      BY DEF Writing
<1>4. QuietTo(Len(inbox))'
  <2> DEFINE n == Len(inbox)
  <2>1. ASSUME NEW m \in Nat, m = n PROVE QuietTo(m)'
        BY <1>1, <1>2, <1>3, <2>1, QuietKept
  <2>2. n' = n
        OBVIOUS
  <2>. QED BY <1>1, <2>1, <2>2 DEF QuietTo
<1>5. \A i \in Len(inbox) + 1 .. Len(Coming) : Coming'[i].word \in {"get", "key"}
      BY <1>1, <1>2, <1>3 DEF OpenAfter
<1>6. OpenAfter(Len(inbox), Len(Coming))' <=> word \in {"get", "key"}
  <2>1. OpenAfter(Len(inbox), Len(Coming))' <=>
            \A i \in Len(inbox) + 1 .. Len(Coming) + 1 : Coming'[i].word \in {"get", "key"}
        BY <1>2 DEF OpenAfter
  <2>2. \A i \in Len(inbox) + 1 .. Len(Coming) + 1 :
            i \in Len(inbox) + 1 .. Len(Coming) \/ i = Len(Coming) + 1
        BY <1>1, <1>2
  <2>3. Len(Coming) + 1 \in Len(inbox) + 1 .. Len(Coming) + 1
        BY <1>1, <1>2
  <2>. QED BY <1>2, <1>5, <2>1, <2>2, <2>3
<1>. QED BY <1>1, <1>3, <1>4, <1>5, <1>6 DEF Nothing

\* One more piece of a get, of a call whose pieces are all its own if it is alone.
LEMMA KeyWritten ==
    ASSUME TypeOK, TypeOK', Writing, NEW f \in Frames, NEW id \in Nat, NEW word \in {"get", "key"},
           Writes(id, <<word>>), UNCHANGED <<wread, inbox, rmem, replies>>,
           frames'[f].id = id,
           frames'[f].alone => \A i \in Len(inbox) + 1 .. Len(Coming) : Coming[i].id = id,
           frames'[f].alone => IF Len(Coming) = Len(inbox) THEN word = "get"
                               ELSE Coming[Len(inbox) + 1].word \in Commands \cup {"get"}
    PROVE  Writing' /\ Own(f, Len(inbox))'
<1>1. word \in Words
      BY DEF Words
<1>2. /\ Nothing' /\ wread' = 0 /\ QuietTo(Len(inbox))'
      /\ Len(inbox) \in Nat /\ Len(inbox) <= Len(Coming)
      /\ OpenAfter(Len(inbox), Len(Coming))'
      BY <1>1, WritingKept
<1>3. /\ Len(Coming) \in Nat /\ Len(Coming') = Len(Coming) + 1
      /\ \A i \in 1 .. Len(Coming) : Coming'[i] = Coming[i]
      /\ Coming'[Len(Coming) + 1].id = id /\ Coming'[Len(Coming) + 1].word = word
      BY <1>1, OneMore
<1>4. ASSUME frames'[f].alone, NEW i \in Len(inbox) + 1 .. Len(Coming) + 1
      PROVE  Coming'[i].id = id
  <2>1. CASE i = Len(Coming) + 1
        BY <1>3, <2>1
  <2>2. CASE i # Len(Coming) + 1
    <3>1. i \in Len(inbox) + 1 .. Len(Coming) /\ i \in 1 .. Len(Coming)
          BY <1>2, <1>3, <2>2
    <3>. QED BY <1>3, <1>4, <3>1
  <2>. QED BY <2>1, <2>2
<1>5. ASSUME frames'[f].alone
      PROVE  Coming'[Len(inbox) + 1].word \in Commands \cup {"get"}
  <2>1. CASE Len(Coming) = Len(inbox)
        BY <1>3, <1>5, <2>1
  <2>2. CASE Len(Coming) # Len(inbox)
    <3>1. Len(inbox) + 1 \in 1 .. Len(Coming)
          BY <1>2, <1>3, <2>2
    <3>. QED BY <1>3, <1>5, <2>2, <3>1
  <2>. QED BY <2>1, <2>2
<1>6. Len(inbox) < Len(Coming) + 1
      BY <1>2, <1>3
<1>7. Own(f, Len(inbox))'
      BY <1>3, <1>4, <1>5, <1>6 DEF Own
<1>. QED BY <1>2, <1>7 DEF Writing

\* The end of the line of a get.
LEMMA CrlfWritten ==
    ASSUME TypeOK, TypeOK', Writing, NEW f \in Frames, NEW id \in Nat,
           Writes(id, <<"crlf">>), UNCHANGED <<wread, inbox, rmem, replies>>,
           frames'[f].id = id, frames'[f].op \in Gets,
           frames'[f].alone = frames[f].alone, frames[f].id = id, Own(f, Len(inbox))
    PROVE  Owing(f)'
<1> DEFINE n == Len(inbox)
<1>1. "crlf" \in Words
      BY DEF Words, Closing
<1>2. /\ Nothing' /\ QuietTo(n)'
      /\ n \in Nat /\ n <= Len(Coming)
      /\ \A i \in n + 1 .. Len(Coming) : Coming'[i].word \in {"get", "key"}
      BY <1>1, WritingKept
<1>3. /\ Len(Coming) \in Nat /\ Len(Coming') = Len(Coming) + 1
      /\ \A i \in 1 .. Len(Coming) : Coming'[i] = Coming[i]
      /\ Coming'[Len(Coming) + 1].id = id /\ Coming'[Len(Coming) + 1].word = "crlf"
      BY <1>1, OneMore
<1>4. ASSUME frames'[f].alone
      PROVE  /\ n < Len(Coming') /\ Coming'[n + 1].word \in Commands \cup {"get"}
             /\ \A i \in n + 1 .. Len(Coming') : Coming'[i].id = frames'[f].id
  <2>1. /\ n < Len(Coming) /\ Coming[n + 1].word \in Commands \cup {"get"}
        /\ \A i \in n + 1 .. Len(Coming) : Coming[i].id = id
        BY <1>4 DEF Own
  <2>2. n + 1 \in 1 .. Len(Coming) /\ n < Len(Coming')
        BY <1>2, <1>3, <2>1
  <2>3. ASSUME NEW i \in n + 1 .. Len(Coming') PROVE Coming'[i].id = id
    <3>1. CASE i = Len(Coming) + 1
          BY <1>3, <3>1
    <3>2. CASE i # Len(Coming) + 1
      <4>1. i \in n + 1 .. Len(Coming) /\ i \in 1 .. Len(Coming)
            BY <1>2, <1>3, <3>2
      <4>. QED BY <1>3, <2>1, <4>1
    <3>. QED BY <3>1, <3>2
  <2>. QED BY <1>3, <2>1, <2>2, <2>3
<1>5. Own(f, n)'
      BY <1>4 DEF Own
<1>6. GetOf(f, n)'
  <2>1. n < Len(Coming') /\ Len(Coming') - 1 = Len(Coming)
        BY <1>2, <1>3
  <2>2. "crlf" \in Words /\ <<"crlf">> \in Seq(Words) /\ Len(<<"crlf">>) = 1 /\ <<"crlf">>[1] = "crlf"
        BY <1>1
  <2>3. \A i \in 1 .. 1 : Coming'[Len(Coming) + i] = Piece(id, <<"crlf">>[i])
        BY <2>2, ComingGrows
  <2>4. Coming'[Len(Coming')] = Piece(frames'[f].id, "crlf")
        BY <1>3, <2>2, <2>3
  <2>. QED BY <1>2, <2>1, <2>4 DEF GetOf, OpenAfter
<1>7. n' \in 0 .. Len(Coming')
      BY <1>2, <1>3
<1>. QED BY <1>2, <1>5, <1>6, <1>7 DEF Owing

\* A method begins where nothing is under way but what the frames have written.
LEMMA WritingAtBegin ==
    ASSUME SharedInv, active # <<>> => frames[Top].pc = "keys"
    PROVE  /\ Writing /\ Len(inbox) \in Nat
           /\ active = <<>> => wmem = <<>> /\ Len(Coming) = Len(inbox)
<1>1. Writing /\ (active = <<>> => wmem = <<>>)
      BY DEF SharedInv, Belongs
<1>2. /\ Len(inbox) \in Nat /\ wread = 0
      /\ Len(Coming) = Len(inbox) + (Len(wmem) - wread)
      BY <1>1, ComingIs DEF SharedInv, BaseInv, Writing
<1>3. wmem = <<>> => Len(wmem) = 0
      BY EmptySeq
<1>. QED BY <1>1, <1>2, <1>3

\* A store and its data.
LEMMA TwoMore ==
    ASSUME TypeOK, TypeOK', NEW id \in Nat, NEW op \in {"set", "quiet"}, Writes(id, <<op, "data">>),
           UNCHANGED <<wread, inbox>>
    PROVE  /\ Len(Coming) \in Nat /\ Len(Coming') = Len(Coming) + 2
           /\ \A i \in 1 .. Len(Coming) : Coming'[i] = Coming[i]
           /\ Coming'[Len(Coming) + 1] = Piece(id, op)
           /\ Coming'[Len(Coming) + 2] = Piece(id, "data")
<1>1. /\ <<op, "data">> \in Seq(Words)
      BY WordsType
<1>2. Len(<<op, "data">>) = 2 /\ <<op, "data">>[1] = op /\ <<op, "data">>[2] = "data"
      OBVIOUS
<1>3. /\ Len(Coming) \in Nat /\ Len(Coming') = Len(Coming) + 2
      /\ \A i \in 1 .. Len(Coming) : Coming'[i] = Coming[i]
      /\ \A i \in 1 .. 2 : Coming'[Len(Coming) + i] = Piece(id, <<op, "data">>[i])
      BY <1>1, <1>2, ComingGrows
<1>. QED BY <1>2, <1>3

LEMMA CommandPieces ==
    ASSUME SharedInv, OneThread, ~mixed', NEW f \in Frames, NEW op \in Methods, Command(f, op)
    PROVE  Belongs'
<1>1. op \in {"line", "version", "set", "quiet"} /\ Begun(f, "send", op)
      BY CommandBase DEF SharedInv
<1>2. TypeOK /\ TypeOK' /\ calls + 1 \in Nat
      BY <1>1 DEF SharedInv, BaseInv, Begun, TypeOK
<1>3. /\ Writing /\ Len(inbox) \in Nat
      /\ active = <<>> => wmem = <<>> /\ Len(Coming) = Len(inbox)
      BY <1>1, WritingAtBegin DEF Begun
<1>4. Belongs' <=> PiecesOf(f)'
      BY <1>1, PiecesNext DEF Begun
<1>5. frames'[f].pc = "send" /\ frames'[f].op = op /\ frames'[f].id = calls + 1
      BY <1>1 DEF Begun
<1>6. UNCHANGED <<wread, inbox, rmem, replies>>
      BY DEF Command
<1>9. active = <<>>
      BY DEF Command, Starts
<1>10. Len(Coming) = Len(inbox) /\ QuietTo(Len(inbox)) /\ Nothing'
      BY <1>3, <1>6, <1>9 DEF Writing, Nothing
<1>7. CASE op \in {"line", "version"}
  <2>1. Writes(calls + 1, <<op>>) /\ op \in Words /\ op \in Commands
        BY <1>7 DEF Command, Words, Closing, Commands
  <2>2. /\ Len(Coming) \in Nat /\ Len(Coming') = Len(Coming) + 1
        /\ \A i \in 1 .. Len(Coming) : Coming'[i] = Coming[i]
        /\ Coming'[Len(Coming) + 1].id = calls + 1 /\ Coming'[Len(Coming) + 1].word = op
        BY <1>2, <1>6, <2>1, OneMore
  <2>3. Coming'[Len(Coming) + 1] = Piece(calls + 1, op)
    <3>1. <<op>> \in Seq(Words) /\ Len(<<op>>) = 1 /\ <<op>>[1] = op
          BY <2>1
    <3>2. \A i \in 1 .. 1 : Coming'[Len(Coming) + i] = Piece(calls + 1, <<op>>[i])
          BY <1>2, <1>6, <2>1, <3>1, ComingGrows
    <3>. QED BY <3>1, <3>2
  <2> DEFINE n == Len(inbox)
  <2>4. ASSUME NEW m \in Nat, m = n PROVE QuietTo(m)'
        BY <1>10, <2>2, <2>4, QuietKept
  <2>5. QuietTo(n)'
        BY <1>3, <1>6, <2>4 DEF QuietTo
  <2>6. LineOf(f, n)'
        BY <1>5, <1>6, <1>7, <1>10, <2>2, <2>3 DEF LineOf
  <2>7. Own(f, n)'
    <3>1. \A i \in n + 1 .. n + 1 : i = n + 1
          BY <1>3
    <3>2. \A i \in n + 1 .. n + 1 : Coming'[i].id = frames'[f].id
          BY <1>5, <1>10, <2>2, <3>1
    <3>3. n < n + 1
          BY <1>3
    <3>. QED BY <1>6, <1>10, <2>1, <2>2, <3>2, <3>3 DEF Own
  <2>8. n' \in 0 .. Len(Coming')
        BY <1>3, <1>6, <1>10, <2>2
  <2>9. Owing(f)'
        BY <1>10, <2>5, <2>6, <2>7, <2>8 DEF Owing
  <2>. QED BY <1>4, <1>5, <1>7, <2>9 DEF PiecesOf
<1>8. CASE op \notin {"line", "version"}
  <2>1. Writes(calls + 1, <<op, "data">>) /\ op \in {"set", "quiet"}
        BY <1>1, <1>8 DEF Command
  <2>3. Len(Coming) = Len(inbox) /\ QuietTo(Len(inbox)) /\ Nothing'
        BY <1>10
  <2>4. /\ Len(Coming) \in Nat /\ Len(Coming') = Len(Coming) + 2
        /\ \A i \in 1 .. Len(Coming) : Coming'[i] = Coming[i]
        /\ Coming'[Len(Coming) + 1] = Piece(calls + 1, op)
        /\ Coming'[Len(Coming) + 2] = Piece(calls + 1, "data")
        BY <1>2, <1>6, <2>1, TwoMore
  <2> DEFINE n == Len(inbox)
  <2>5. ASSUME NEW m \in Nat, m = n PROVE QuietTo(m)' /\ QuietTo(m)
        BY <2>3, <2>4, <2>5, QuietKept
  <2>6. CASE op = "set"
    <3>1. QuietTo(n)'
          BY <1>3, <1>6, <2>5 DEF QuietTo
    <3>2. StoreOf(f, n)'
          BY <1>5, <1>6, <2>3, <2>4, <2>6 DEF StoreOf, Piece
    <3>3. Own(f, n)'
      <4>1. \A i \in n + 1 .. n + 2 : i = n + 1 \/ i = n + 2
            BY <1>3
      <4>2. \A i \in n + 1 .. n + 2 : Coming'[i].id = frames'[f].id
            BY <1>5, <2>3, <2>4, <4>1 DEF Piece
      <4>3. Coming'[n + 1].word \in Commands \cup {"get"} /\ n < n + 2
            BY <1>3, <2>3, <2>4, <2>6 DEF Piece, Commands
      <4>. QED BY <1>6, <2>3, <2>4, <4>2, <4>3 DEF Own
    <3>4. n' \in 0 .. Len(Coming')
          BY <1>3, <1>6, <2>3, <2>4
    <3>5. Owing(f)'
          BY <2>3, <3>1, <3>2, <3>3, <3>4 DEF Owing
    <3>. QED BY <1>4, <1>5, <2>6, <3>5 DEF PiecesOf
  <2>7. CASE op = "quiet"
    <3>1. QuietTo(n)'
          BY <1>3, <1>6, <2>5 DEF QuietTo
    <3>2. \A i \in 1 .. n + 2 : i \in 1 .. n \/ i = n + 1 \/ i = n + 2
          BY <1>3
    <3>3. QuietTo(Len(Coming))'
      <4>1. ASSUME NEW i \in 1 .. n
            PROVE  /\ Coming'[i].word \in {"quiet", "data"}
                   /\ Coming'[i].word = "quiet" =>
                         i < n + 2 /\ Coming'[i + 1] = Piece(Coming'[i].id, "data")
                   /\ Coming'[i].word = "data" => i > 1 /\ Coming'[i - 1].word = "quiet"
            BY <1>3, <1>6, <3>1 DEF QuietTo
      <4>2. /\ Coming'[n + 1] = Piece(calls + 1, "quiet") /\ Coming'[n + 2] = Piece(calls + 1, "data")
            /\ n + 1 < n + 2 /\ n + 2 > 1 /\ (n + 2) - 1 = n + 1 /\ (n + 1) + 1 = n + 2
            BY <1>3, <2>3, <2>4, <2>7
      <4>3. \A i \in 1 .. n + 2 :
                /\ Coming'[i].word \in {"quiet", "data"}
                /\ Coming'[i].word = "quiet" =>
                      i < n + 2 /\ Coming'[i + 1] = Piece(Coming'[i].id, "data")
                /\ Coming'[i].word = "data" => i > 1 /\ Coming'[i - 1].word = "quiet"
        <5>1. ASSUME NEW i \in 1 .. n + 2, i = n + 1
              PROVE  /\ Coming'[i].word = "quiet" /\ i < n + 2
                     /\ Coming'[i + 1] = Piece(Coming'[i].id, "data")
              BY <4>2, <5>1 DEF Piece
        <5>2. ASSUME NEW i \in 1 .. n + 2, i = n + 2
              PROVE  Coming'[i].word = "data" /\ i > 1 /\ Coming'[i - 1].word = "quiet"
              BY <4>2, <5>2 DEF Piece
        <5>3. ASSUME NEW i \in 1 .. n + 2
              PROVE  /\ Coming'[i].word \in {"quiet", "data"}
                     /\ Coming'[i].word = "quiet" =>
                           i < n + 2 /\ Coming'[i + 1] = Piece(Coming'[i].id, "data")
                     /\ Coming'[i].word = "data" => i > 1 /\ Coming'[i - 1].word = "quiet"
          <6>1. CASE i \in 1 .. n
                BY <4>1, <6>1
          <6>2. CASE i = n + 1
                BY <5>1, <6>2
          <6>3. CASE i = n + 2
                BY <5>2, <6>3
          <6>. QED BY <3>2, <6>1, <6>2, <6>3
        <5>. QED BY <5>3
      <4>4. Len(Coming)' = n + 2
            BY <2>3, <2>4
      <4> HIDE DEF n
      <4>. QED BY <4>3, <4>4 DEF QuietTo
    <3>. QED BY <1>4, <1>5, <2>3, <2>7, <3>3 DEF PiecesOf, Unanswered
  <2>. QED BY <2>1, <2>6, <2>7
<1>. QED BY <1>7, <1>8

\* A command word, a key and the end of the line.
LEMMA ThreeMore ==
    ASSUME TypeOK, TypeOK', NEW id \in Nat, Writes(id, <<"get", "key", "crlf">>),
           UNCHANGED <<wread, inbox>>
    PROVE  /\ Len(Coming) \in Nat /\ Len(Coming') = Len(Coming) + 3
           /\ \A i \in 1 .. Len(Coming) : Coming'[i] = Coming[i]
           /\ Coming'[Len(Coming) + 1] = Piece(id, "get")
           /\ Coming'[Len(Coming) + 2] = Piece(id, "key")
           /\ Coming'[Len(Coming) + 3] = Piece(id, "crlf")
<1> DEFINE words == <<"get", "key", "crlf">>
<1>1. words \in Seq(Words)
      BY WordsType
<1>2. Len(words) = 3 /\ words[1] = "get" /\ words[2] = "key" /\ words[3] = "crlf"
      OBVIOUS
<1>3. Writes(id, words)
      OBVIOUS
<1> HIDE DEF words
<1>4. /\ Len(Coming) \in Nat /\ Len(Coming') = Len(Coming) + 3
      /\ \A i \in 1 .. Len(Coming) : Coming'[i] = Coming[i]
      /\ \A i \in 1 .. 3 : Coming'[Len(Coming) + i] = Piece(id, words[i])
      BY <1>1, <1>2, <1>3, ComingGrows
<1>. QED BY <1>2, <1>4

LEMMA GetPieces ==
    ASSUME SharedInv, OneThread, NEW f \in Frames, Get(f)
    PROVE  Belongs'
<1> DEFINE n == Len(inbox)
<1>1. Begun(f, "send", "get")
      BY GetBase DEF SharedInv
<1>2. TypeOK /\ TypeOK' /\ calls + 1 \in Nat
      BY <1>1 DEF SharedInv, BaseInv, Begun, TypeOK
<1>3. /\ Writing /\ n \in Nat
      /\ active = <<>> => Len(Coming) = n
      BY <1>1, WritingAtBegin DEF Begun
<1>4. Belongs' <=> PiecesOf(f)'
      BY <1>1, PiecesNext DEF Begun
<1>5. /\ frames'[f].pc = "send" /\ frames'[f].op = "get" /\ frames'[f].id = calls + 1
      /\ frames'[f].alone => Len(Coming) = n
      BY <1>1, <1>3 DEF Begun
<1>6. UNCHANGED <<wread, inbox, rmem, replies>> /\ Writes(calls + 1, <<"get", "key", "crlf">>)
      BY DEF Get
<1>7. /\ Len(Coming) \in Nat /\ Len(Coming') = Len(Coming) + 3
      /\ \A i \in 1 .. Len(Coming) : Coming'[i] = Coming[i]
      /\ Coming'[Len(Coming) + 1] = Piece(calls + 1, "get")
      /\ Coming'[Len(Coming) + 2] = Piece(calls + 1, "key")
      /\ Coming'[Len(Coming) + 3] = Piece(calls + 1, "crlf")
      BY <1>2, <1>6, ThreeMore
<1>8. n <= Len(Coming) /\ QuietTo(n) /\ OpenAfter(n, Len(Coming)) /\ Nothing'
      BY <1>2, <1>3, <1>6, ComingIs DEF Writing, Nothing
<1>9. QuietTo(n)'
  <2>1. ASSUME NEW m \in Nat, m = n PROVE QuietTo(m)'
        BY <1>7, <1>8, <2>1, QuietKept
  <2>. QED BY <1>3, <1>6, <2>1 DEF QuietTo
<1>10. \A i \in n + 1 .. Len(Coming') - 1 : Coming'[i].word \in {"get", "key"}
  <2>1. ASSUME NEW i \in n + 1 .. Len(Coming') - 1
        PROVE  \/ i \in n + 1 .. Len(Coming) /\ i \in 1 .. Len(Coming)
               \/ i = Len(Coming) + 1 \/ i = Len(Coming) + 2
        BY <1>3, <1>7, <1>8
  <2>2. ASSUME NEW i \in n + 1 .. Len(Coming), i \in 1 .. Len(Coming)
        PROVE  Coming'[i].word \in {"get", "key"}
        BY <1>7, <1>8, <2>2 DEF OpenAfter
  <2>. QED BY <1>7, <2>1, <2>2 DEF Piece
<1>11. n < Len(Coming')
      BY <1>3, <1>7, <1>8
<1>12. GetOf(f, n)'
      BY <1>5, <1>6, <1>7, <1>10, <1>11 DEF GetOf, OpenAfter, Gets
<1>13. Own(f, n)'
  <2>1. ASSUME frames'[f].alone
        PROVE  /\ Coming'[n + 1].word \in Commands \cup {"get"}
               /\ \A i \in n + 1 .. Len(Coming') : Coming'[i].id = frames'[f].id
    <3>1. \A i \in n + 1 .. n + 3 : i = n + 1 \/ i = n + 2 \/ i = n + 3
          BY <1>3
    <3>2. \A i \in n + 1 .. n + 3 : Coming'[i].id = frames'[f].id
          BY <1>5, <1>7, <2>1, <3>1 DEF Piece
    <3>. QED BY <1>5, <1>7, <2>1, <3>2 DEF Piece
  <2>. QED BY <1>6, <1>11, <2>1 DEF Own
<1>14. n' \in 0 .. Len(Coming')
      BY <1>3, <1>6, <1>7, <1>8
<1>15. Owing(f)'
      BY <1>8, <1>9, <1>12, <1>13, <1>14 DEF Owing
<1>. QED BY <1>4, <1>5, <1>15 DEF PiecesOf

LEMMA GetMultiPieces ==
    ASSUME SharedInv, OneThread, NEW f \in Frames, GetMulti(f)
    PROVE  Belongs'
<1>1. Begun(f, "keys", "multi")
      BY GetMultiBase DEF SharedInv
<1>2. TypeOK /\ TypeOK' /\ calls + 1 \in Nat
      BY <1>1 DEF SharedInv, BaseInv, Begun, TypeOK
<1>3. /\ Writing /\ Len(inbox) \in Nat
      /\ active = <<>> => wmem = <<>> /\ Len(Coming) = Len(inbox)
      BY <1>1, WritingAtBegin DEF Begun
<1>4. Belongs' <=> PiecesOf(f)'
      BY <1>1, PiecesNext DEF Begun
<1>5. frames'[f].pc = "keys" /\ frames'[f].id = calls + 1
      BY <1>1 DEF Begun
<1>6. UNCHANGED <<wread, inbox, rmem, replies>> /\ Writes(calls + 1, <<"get">>)
      BY DEF GetMulti
<1>7. /\ frames'[f].alone => \A i \in Len(inbox) + 1 .. Len(Coming) : Coming[i].id = calls + 1
      /\ frames'[f].alone => Len(Coming) = Len(inbox)
      BY <1>1, <1>3 DEF Begun
<1>8. Writing' /\ Own(f, Len(inbox))'
      BY <1>2, <1>3, <1>5, <1>6, <1>7, KeyWritten
<1>. QED BY <1>4, <1>5, <1>8 DEF PiecesOf

LEMMA GetKeyWritePieces ==
    ASSUME SharedInv, OneThread, NEW f \in Frames, GetKeyWrite(f)
    PROVE  Belongs'
<1>1. WentOn(f, "keys") /\ frames'[f].pc = "keys"
      BY GetKeyWriteBase DEF SharedInv
<1>2. TypeOK /\ TypeOK' /\ frames[f].id \in Nat
      BY <1>1 DEF SharedInv, BaseInv, WentOn, TypeOK, Calls
<1>3. PiecesOf(f) /\ (Belongs' <=> PiecesOf(f)')
      BY <1>1, PiecesAt, PiecesNext DEF WentOn, SharedInv
<1>4. /\ Writing
      /\ frames'[f].alone => \A i \in Len(inbox) + 1 .. Len(Coming) : Coming[i].id = frames[f].id
      /\ frames'[f].alone => /\ Len(inbox) < Len(Coming)
                             /\ Coming[Len(inbox) + 1].word \in Commands \cup {"get"}
      /\ Len(inbox) \in Nat
      BY <1>1, <1>2, <1>3, ComingIs DEF WentOn, SameCall, PiecesOf, Own
<1>5. /\ UNCHANGED <<wread, inbox, rmem, replies>> /\ Writes(frames[f].id, <<"key">>)
      /\ frames'[f].id = frames[f].id
      BY <1>1 DEF GetKeyWrite, WentOn, SameCall
<1>6. Writing' /\ Own(f, Len(inbox))'
      BY <1>2, <1>4, <1>5, KeyWritten
<1>. QED BY <1>1, <1>3, <1>6 DEF PiecesOf

\* A call whose line is not complete is one of get_multi().
LEMMA GetFlushPieces ==
    ASSUME SharedInv, OneThread, NEW f \in Frames, GetFlush(f)
    PROVE  Belongs'
<1>1. WentOn(f, "keys") /\ frames'[f].pc = "send"
      BY GetFlushBase DEF SharedInv
<1>2. frames[f].op = "multi"
      BY <1>1 DEF SharedInv, KeysInv, WentOn
<1>3. TypeOK /\ TypeOK' /\ frames[f].id \in Nat
      BY <1>1 DEF SharedInv, BaseInv, WentOn, TypeOK, Calls
<1>4. PiecesOf(f) /\ (Belongs' <=> PiecesOf(f)')
      BY <1>1, PiecesAt, PiecesNext DEF WentOn, SharedInv
<1>5. Writing /\ Own(f, Len(inbox))
      BY <1>1, <1>4 DEF WentOn, PiecesOf
<1>6. /\ UNCHANGED <<wread, inbox, rmem, replies>> /\ Writes(frames[f].id, <<"crlf">>)
      /\ frames'[f].id = frames[f].id /\ frames'[f].alone = frames[f].alone
      /\ frames'[f].op \in Gets
      BY <1>1, <1>2 DEF GetFlush, WentOn, SameCall, Gets
<1>7. Owing(f)'
      BY <1>3, <1>5, <1>6, CrlfWritten
<1>. QED BY <1>2, <1>1, <1>4, <1>7 DEF PiecesOf, WentOn, SameCall

\* While a call sends and receives, the pieces and the replies stay in their order.
LEMMA OnTheWay ==
    ASSUME NEW f, PiecesOf(f), frames[f].pc # "keys", frames'[f].pc # "keys", SameCall(f),
           Coming' = Coming, UNCHANGED <<rmem, replies>>
    PROVE  PiecesOf(f)'
<1>1. ASSUME Unanswered PROVE Unanswered'
      BY <1>1 DEF Unanswered, Nothing, QuietTo
<1>2. ASSUME Owing(f) PROVE Owing(f)'
  <2>1. PICK n \in 0 .. Len(Coming) :
            QuietTo(n) /\ Own(f, n) /\ (LineOf(f, n) \/ StoreOf(f, n) \/ GetOf(f, n))
        BY <1>2 DEF Owing
  <2>2. QuietTo(n)' /\ Own(f, n)'
        BY <2>1 DEF QuietTo, Own, SameCall
  <2>3. LineOf(f, n) => LineOf(f, n)'
        BY DEF LineOf, SameCall
  <2>5. GetOf(f, n) => GetOf(f, n)'
        BY DEF GetOf, OpenAfter, SameCall
  <2>4. StoreOf(f, n) => StoreOf(f, n)'
        BY DEF StoreOf, SameCall
  <2>. QED BY <1>2, <2>1, <2>2, <2>3, <2>4, <2>5 DEF Owing, Nothing
<1>3. ASSUME Answered(f) PROVE Answered(f)'
      BY <1>3 DEF Answered, Ending, SameCall
<1>. QED BY <1>1, <1>2, <1>3 DEF PiecesOf, SameCall

LEMMA AnswerStays ==
    ASSUME NEW f, Answered(f), SameCall(f), Coming' = Coming, rmem' \o replies' = rmem \o replies
    PROVE  Answered(f)'
BY DEF Answered, Ending, SameCall

LEMMA SendBeginsPieces ==
    ASSUME SharedInv, OneThread, NEW f \in Frames, SendBegins(f)
    PROVE  Belongs'
<1>1. WentOn(f, "send") /\ frames'[f].pc = "sending"
      BY SendBeginsBase DEF SharedInv
<1>2. PiecesOf(f) /\ (Belongs' <=> PiecesOf(f)')
      BY <1>1, PiecesAt, PiecesNext DEF WentOn, SharedInv
<1>3. Coming' = Coming /\ UNCHANGED <<rmem, replies>>
      BY DEF SendBegins, Coming, Unsent
<1>. QED BY <1>1, <1>2, <1>3, OnTheWay DEF WentOn

LEMMA SendReturnsPieces ==
    ASSUME SharedInv, OneThread, NEW f \in Frames, SendReturns(f)
    PROVE  Belongs'
<1>1. WentOn(f, "sending") /\ frames'[f].pc = "send" /\ Coming' = Coming
      BY SendReturnsBase DEF SharedInv
<1>2. PiecesOf(f) /\ (Belongs' <=> PiecesOf(f)')
      BY <1>1, PiecesAt, PiecesNext DEF WentOn, SharedInv
<1>3. UNCHANGED <<rmem, replies>>
      BY DEF SendReturns
<1>. QED BY <1>1, <1>2, <1>3, OnTheWay DEF WentOn

LEMMA RecvBeginsPieces ==
    ASSUME SharedInv, OneThread, NEW f \in Frames, RecvBegins(f)
    PROVE  Belongs'
<1>1. /\ WentOn(f, "read") /\ frames'[f].pc = "receiving" /\ Coming' = Coming
      /\ UNCHANGED <<rmem, replies>>
      BY RecvBeginsBase DEF SharedInv
<1>2. PiecesOf(f) /\ (Belongs' <=> PiecesOf(f)')
      BY <1>1, PiecesAt, PiecesNext DEF WentOn, SharedInv
<1>. QED BY <1>1, <1>2, OnTheWay DEF WentOn

LEMMA RecvReturnsPieces ==
    ASSUME SharedInv, OneThread, NEW f \in Frames, RecvReturns(f)
    PROVE  Belongs'
<1>1. /\ WentOn(f, "receiving") /\ frames'[f].pc = "read" /\ Coming' = Coming
      /\ rmem' \o replies' = rmem \o replies /\ replies # <<>>
      BY RecvReturnsBase DEF SharedInv
<1>2. PiecesOf(f) /\ (Belongs' <=> PiecesOf(f)')
      BY <1>1, PiecesAt, PiecesNext DEF WentOn, SharedInv
<1>3. frames[f].op # "quiet" /\ Answered(f)
      BY <1>1, <1>2 DEF PiecesOf, WentOn, Unanswered, Owing, Nothing
<1>4. Answered(f)' /\ frames'[f].op # "quiet"
      BY <1>1, <1>3, AnswerStays DEF WentOn, SameCall
<1>. QED BY <1>1, <1>2, <1>4 DEF PiecesOf

\* The call below goes on with its iterator, or the program does.
LEMMA AfterEnd ==
    ASSUME NEW f, NEW pc, Ended(f, pc), TypeOK', Nothing', wmem' = <<>>, wread' = 0,
           QuietTo(Len(inbox))'
    PROVE  Belongs'
<1>1. Len(Coming') = Len(inbox') /\ Len(inbox') \in Nat
  <2>1. (/\ Len(Coming) = Len(inbox) + (Len(wmem) - wread) /\ Len(inbox) \in Nat)'
        BY ComingIs, PTL
  <2>2. Len(wmem') = 0
        BY EmptySeq
  <2>. QED BY <2>1, <2>2
<1>2. OpenAfter(Len(inbox), Len(Coming))'
      BY <1>1 DEF OpenAfter
<1>3. Writing'
      BY <1>2 DEF Writing
<1>4. CASE active' = <<>>
      BY <1>3, <1>4 DEF Belongs
<1>5. CASE active' # <<>>
  <2>1. frames'[Top'].pc = "keys" /\ ~frames'[Top'].alone
        BY <1>5 DEF Ended
  <2>2. Own(Top, Len(inbox))'
        BY <2>1 DEF Own
  <2>. QED BY <1>3, <1>5, <2>1, <2>2 DEF Belongs
<1>. QED BY <1>4, <1>5

LEMMA SendDonePieces ==
    ASSUME SharedInv, OneThread, NEW f \in Frames, SendDone(f)
    PROVE  Belongs'
<1>1. /\ wmem = <<>> /\ wread = 0
      /\ UNCHANGED <<wmem, wread, rmem, inbox, replies>>
      /\ \/ frames[f].op = "quiet" /\ Ended(f, "send")
         \/ /\ frames[f].op # "quiet" /\ WentOn(f, "send") /\ frames'[f].pc = "read"
            /\ Coming' = Coming
      BY SendDoneBase DEF SharedInv
<1>2. CASE frames[f].op = "quiet" /\ Ended(f, "send")
  <2>1. PiecesOf(f) /\ TypeOK /\ TypeOK'
        BY <1>2, PiecesAt DEF Ended, SharedInv, BaseInv
  <2>2. Nothing /\ QuietTo(Len(Coming))
        BY <1>2, <2>1 DEF PiecesOf, Ended, Unanswered
  <2>3. Len(Coming) = Len(inbox)
    <3>1. Len(Coming) = Len(inbox) + (Len(wmem) - wread) /\ Len(inbox) \in Nat
          BY <2>1, ComingIs
    <3>2. Len(wmem) = 0
          BY <1>1, EmptySeq
    <3>. QED BY <1>1, <3>1, <3>2
  <2>4. Nothing' /\ QuietTo(Len(inbox))'
        BY <1>1, <2>2, <2>3 DEF Nothing, QuietTo, Coming, Unsent
  <2>. QED BY <1>1, <1>2, <2>1, <2>4, AfterEnd
<1>3. CASE /\ frames[f].op # "quiet" /\ WentOn(f, "send") /\ frames'[f].pc = "read"
           /\ Coming' = Coming
  <2>1. PiecesOf(f) /\ (Belongs' <=> PiecesOf(f)')
        BY <1>3, PiecesAt, PiecesNext DEF WentOn, SharedInv
  <2>. QED BY <1>1, <1>3, <2>1, OnTheWay DEF WentOn
<1>. QED BY <1>1, <1>2, <1>3

\* What a call finds in the buffer is of the reply to it.
LEMMA ReadsAnswer ==
    ASSUME SharedInv, OneThread, NEW f \in Frames, MayStep(f, "read"), rmem # <<>>
    PROVE  /\ Answered(f) /\ active # <<>> /\ f = Top
           /\ Head(rmem).id = frames[f].id /\ (frames[f].alone => Head(rmem).whole)
           /\ Head(rmem).word = "value" => frames[f].op \in Gets
           /\ frames[f].op = "version" => Head(rmem).word \notin {"end", "result", "data"}
           /\ Len(rmem) \in Nat /\ Len(replies) \in Nat /\ Len(rmem) >= 1
           /\ Head(rmem).word = "value" <=> 1 < Len(rmem) + Len(replies)
           /\ inbox = <<>> /\ wmem = <<>> /\ wread = 0
<1>1. TypeOK /\ PullInv /\ active # <<>> /\ f = Top /\ frames[f].pc = "read"
      BY TopRuns DEF SharedInv, BaseInv
<1>2. PiecesOf(f)
      BY <1>1, PiecesAt DEF SharedInv
<1>3. Answered(f)
      BY <1>1, <1>2 DEF PiecesOf, Unanswered, Owing, Nothing
<1>4. rmem \in Seq(Units) /\ replies \in Seq(Units) /\ Len(rmem) \in Nat /\ Len(replies) \in Nat
      BY <1>1, LenProperties DEF TypeOK
<1>5. Len(rmem) >= 1
      BY <1>4, EmptySeq
<1>6. Joins(rmem \o replies, rmem, replies)
      BY <1>4, Parts
<1>7. Head(rmem) = (rmem \o replies)[1] /\ Len(rmem \o replies) = Len(rmem) + Len(replies)
      BY <1>4, <1>5, <1>6 DEF Joins
<1>8. Ending(f, rmem \o replies)
      BY <1>3 DEF Answered
<1> DEFINE lines == rmem \o replies
<1>9. Head(rmem) = lines[1] /\ Len(lines) = Len(rmem) + Len(replies) /\ Ending(f, lines)
      BY <1>7, <1>8
<1> HIDE DEF lines
<1>10. 1 \in 1 .. Len(lines)
       BY <1>4, <1>5, <1>9
<1>11. /\ Head(rmem).id = frames[f].id /\ (frames[f].alone => Head(rmem).whole)
       /\ Head(rmem).word = "value" => frames[f].op \in Gets
       /\ frames[f].op = "version" => Head(rmem).word \notin {"end", "result", "data"}
       /\ Head(rmem).word = "value" <=> 1 < Len(lines)
       BY <1>9, <1>10 DEF Ending
<1>12. inbox = <<>> /\ wmem = <<>> /\ wread = 0
  <2>1. Len(Coming) = 0
        BY <1>3, EmptySeq DEF Answered
  <2>2. /\ Len(inbox) \in Nat /\ Len(wmem) \in Nat /\ wread \in Nat /\ wread <= Len(wmem)
        /\ Len(Coming) = Len(inbox) + (Len(wmem) - wread)
        BY <1>1, ComingIs
  <2>3. Len(inbox) = 0 /\ wread = Len(wmem)
        BY <2>1, <2>2
  <2>4. wread = 0 /\ Len(wmem) = 0
        BY <1>1, <2>2, <2>3 DEF PullInv
  <2>. QED BY <1>1, <2>3, <2>4, EmptySeq DEF TypeOK
<1>. QED BY <1>1, <1>3, <1>4, <1>5, <1>9, <1>11, <1>12

\* The line that ends a reply is all there is of it.
LEMMA EndsReply ==
    ASSUME SharedInv, OneThread, NEW f \in Frames, MayStep(f, "read"), rmem # <<>>,
           Head(rmem).word # "value"
    PROVE  Tail(rmem) = <<>> /\ replies = <<>>
<1>0. /\ Len(rmem) \in Nat /\ Len(replies) \in Nat /\ Len(rmem) >= 1
      /\ (1 < Len(rmem) + Len(replies)) => Head(rmem).word = "value"
      BY ReadsAnswer
<1>1. Len(rmem) = 1 /\ Len(replies) = 0
  <2> DEFINE held == Len(rmem)
             coming == Len(replies)
  <2>1. held \in Nat /\ coming \in Nat /\ held >= 1
        BY <1>0
  <2>2. Head(rmem).word # "value"
        OBVIOUS
  <2>3. ~(1 < held + coming)
        BY <1>0, <2>2, Zenon
  <2> HIDE DEF held, coming
  <2>4. held = 1 /\ coming = 0
        BY <2>1, <2>3
  <2>. QED BY <2>4 DEF held, coming
<1>2. rmem \in Seq(Units) /\ replies \in Seq(Units)
      BY DEF SharedInv, BaseInv, TypeOK
<1>3. Tail(rmem) \in Seq(Units) /\ Len(Tail(rmem)) = 0
      BY <1>1, <1>2, HeadTailProperties
<1>. QED BY <1>1, <1>2, <1>3, EmptySeq

LEMMA ResultLinePieces ==
    ASSUME SharedInv, OneThread, NEW f \in Frames, ResultLine(f) \/ VersionLine(f) \/ LastLine(f)
    PROVE  Belongs'
<1>1. /\ Ended(f, "read") /\ UNCHANGED <<wmem, wread, inbox, replies>>
      /\ Head(rmem).word # "value" => rmem' = Tail(rmem)
      BY ResultLineBase DEF SharedInv, Took
<1>2. MayStep(f, "read") /\ rmem # <<>>
      BY DEF ResultLine, VersionLine, LastLine, HasLine
<1>3. Head(rmem).word # "value"
  <2>1. Head(rmem).word = "value" => frames[f].op \in Gets
        BY <1>2, ReadsAnswer
  <2>2. frames[f].op \in Gets => LastLine(f)
        BY DEF ResultLine, VersionLine, HasLine, Gets
  <2>. QED BY <2>1, <2>2 DEF LastLine
<1>4. rmem' = <<>> /\ replies = <<>> /\ inbox = <<>> /\ wmem = <<>> /\ wread = 0
      BY <1>1, <1>2, <1>3, ReadsAnswer, EndsReply
<1>5. Len(inbox') = 0
      BY <1>1, <1>4, EmptySeq
<1>6. QuietTo(Len(inbox))'
      BY <1>5 DEF QuietTo
<1>7. Nothing' /\ wmem' = <<>> /\ wread' = 0 /\ TypeOK'
      BY <1>1, <1>4 DEF Nothing, Ended, BaseInv
<1>. QED BY <1>1, <1>6, <1>7, AfterEnd

LEMMA NoShortVersionLine ==
    ASSUME SharedInv, OneThread, NEW f \in Frames, ShortVersionLine(f)
    PROVE  FALSE
<1>1. MayStep(f, "read") /\ rmem # <<>> /\ frames[f].op = "version"
      BY DEF ShortVersionLine, HasLine
<1>. QED BY <1>1, ReadsAnswer DEF ShortVersionLine

\* What stands where when the first element of a sequence is taken away.
LEMMA TailShifts ==
    ASSUME NEW S, NEW r \in Seq(S), NEW s \in Seq(S), r # <<>>
    PROVE  /\ Len(Tail(r) \o s) = Len(r \o s) - 1 /\ Len(r \o s) = Len(r) + Len(s)
           /\ \A i \in 1 .. Len(r) + Len(s) - 1 : (Tail(r) \o s)[i] = (r \o s)[i + 1]
<1>1. /\ Len(r) \in Nat /\ Len(s) \in Nat /\ Len(r) >= 1
      /\ Tail(r) \in Seq(S) /\ Len(Tail(r)) = Len(r) - 1
      /\ \A i \in 1 .. Len(r) - 1 : Tail(r)[i] = r[i + 1]
      BY HeadTailProperties, LenProperties, EmptySeq
<1> DEFINE l == Len(r)
           m == Len(s)
           t == Tail(r)
           u == t \o s
           v == r \o s
<1>2. /\ Len(u) = (l - 1) + m
      /\ \A i \in 1 .. (l - 1) + m : u[i] = IF i <= l - 1 THEN t[i] ELSE s[i - (l - 1)]
      BY <1>1, ConcatProperties
<1>3. /\ Len(v) = l + m
      /\ \A i \in 1 .. l + m : v[i] = IF i <= l THEN r[i] ELSE s[i - l]
      BY ConcatProperties
<1>4. l \in Nat /\ m \in Nat /\ l >= 1 /\ \A i \in 1 .. l - 1 : t[i] = r[i + 1]
      BY <1>1
<1> HIDE DEF l, m, t, u, v
<1>5. ASSUME NEW i \in 1 .. l + m - 1 PROVE u[i] = v[i + 1]
  <2>1. i \in 1 .. (l - 1) + m /\ i + 1 \in 1 .. l + m
        BY <1>4
  <2>2. CASE i <= l - 1
    <3>1. i \in 1 .. l - 1 /\ i + 1 <= l
          BY <1>4, <2>2
    <3>. QED BY <1>2, <1>3, <1>4, <2>1, <2>2, <3>1
  <2>3. CASE ~(i <= l - 1)
    <3>1. ~(i + 1 <= l) /\ (i + 1) - l = i - (l - 1)
          BY <1>4, <2>3
    <3>. QED BY <1>2, <1>3, <2>1, <2>3, <3>1
  <2>. QED BY <2>2, <2>3
<1>6. Len(u) = Len(v) - 1
      BY <1>2, <1>3, <1>4
<1>. QED BY <1>3, <1>5, <1>6 DEF l, m, t, u, v

LEMMA ValueLinePieces ==
    ASSUME SharedInv, OneThread, NEW f \in Frames, ValueLine(f)
    PROVE  Belongs'
<1>1. /\ TookOn(f) /\ UNCHANGED <<wmem, wread, inbox, replies>> /\ rmem' = Tail(rmem)
      BY ValueLineBase DEF SharedInv, Took
<1>2. MayStep(f, "read") /\ rmem # <<>> /\ Head(rmem).word = "value" /\ frames[f].op \in Gets
      BY DEF ValueLine, HasLine
<1>3. Answered(f) /\ 1 < Len(rmem) + Len(replies) /\ Len(rmem) \in Nat /\ Len(replies) \in Nat
      BY <1>2, ReadsAnswer
<1>4. rmem \in Seq(Units) /\ replies \in Seq(Units) /\ Tail(rmem) \in Seq(Units)
      BY <1>2, LinesAfter DEF SharedInv, BaseInv, TypeOK
<1> DEFINE old  == rmem \o replies
           new  == Tail(rmem) \o replies
<1>5. /\ Len(new) = Len(old) - 1 /\ Len(old) = Len(rmem) + Len(replies)
      /\ \A i \in 1 .. Len(rmem) + Len(replies) - 1 : new[i] = old[i + 1]
      BY <1>2, <1>4, TailShifts
<1>6. rmem' \o replies' = new /\ new \in Seq(Units) /\ Ending(f, old)
      BY <1>1, <1>3, <1>4, ConcatProperties DEF Answered
<1> HIDE DEF old, new
<1>7. Len(new) \in Nat /\ Len(new) >= 1 /\ Len(old) = Len(new) + 1
      BY <1>3, <1>5
<1>8. new # <<>>
      BY <1>7, EmptySeq
<1>9. ASSUME NEW i \in 1 .. Len(new)
      PROVE  /\ new[i].id = frames[f].id
             /\ frames[f].alone => new[i].whole
             /\ new[i].word = "value" <=> i < Len(new)
             /\ new[i].word = "value" => frames[f].op \in Gets
             /\ frames[f].op = "version" => new[i].word \notin {"end", "result", "data"}
  <2>1. i + 1 \in 1 .. Len(old) /\ new[i] = old[i + 1] /\ (i + 1 < Len(old) <=> i < Len(new))
        BY <1>3, <1>5, <1>7
  <2>. QED BY <1>6, <2>1 DEF Ending
<1>10. /\ frames'[f].id = frames[f].id /\ frames'[f].op = frames[f].op
       /\ frames'[f].alone = frames[f].alone /\ frames'[f].pc = "read"
       /\ active' # <<>> /\ Top' = f
       BY <1>1 DEF TookOn
<1>11. Ending(f, rmem \o replies)'
       BY <1>6, <1>8, <1>9, <1>10 DEF Ending
<1>12. Answered(f)'
       BY <1>1, <1>3, <1>11 DEF Answered, Coming, Unsent
<1>13. Belongs' <=> PiecesOf(f)'
       BY <1>10, PiecesNext
<1>14. frames'[f].op # "quiet" /\ frames'[f].pc # "keys"
       BY <1>2, <1>10 DEF Gets
<1>. QED BY <1>12, <1>13, <1>14 DEF PiecesOf

-----------------------------------------------------------------------------
(***************************************************************************)
(* The server.                                                             *)
(***************************************************************************)
LEMMA ServeShifts ==
    ASSUME TypeOK, TypeOK', NEW k \in 0 .. Len(inbox), inbox' = SubSeq(inbox, k + 1, Len(inbox)),
           UNCHANGED <<wmem, wread>>
    PROVE  /\ Len(inbox') = Len(inbox) - k
           /\ Len(Coming') = Len(Coming) - k
           /\ \A i \in 1 .. Len(Coming) - k : Coming'[i] = Coming[k + i]
<1> DEFINE w == Len(wmem) - wread
           n == Len(inbox)
<1>1. /\ n \in Nat /\ Len(wmem) \in Nat /\ wread \in Nat /\ wread <= Len(wmem)
      /\ Len(Coming) = n + w
      /\ \A i \in 1 .. n : Coming[i] = inbox[i]
      /\ \A i \in 1 .. w : Coming[n + i] = wmem[wread + i]
      BY ComingIs
<1>2. Len(inbox') = n - k /\ \A i \in 1 .. n - k : inbox'[i] = inbox[k + i]
      BY Cut DEF TypeOK
<1>3. /\ Len(Coming') = Len(inbox') + w
      /\ \A i \in 1 .. Len(inbox') : Coming'[i] = inbox'[i]
      /\ \A i \in 1 .. w : Coming'[Len(inbox') + i] = wmem[wread + i]
  <2>1. (/\ Len(Coming) = Len(inbox) + (Len(wmem) - wread)
         /\ \A i \in 1 .. Len(inbox) : Coming[i] = inbox[i]
         /\ \A i \in 1 .. Len(wmem) - wread : Coming[Len(inbox) + i] = wmem[wread + i])'
        BY ComingIs, PTL
  <2>. QED BY <2>1
<1>4. w \in Nat
      BY <1>1
<1> HIDE DEF w, n
<1>5. k \in 0 .. n
      BY DEF n
<1>6. Len(Coming') = (n - k) + w /\ Len(Coming') = Len(Coming) - k /\ Len(Coming) - k = (n - k) + w
      BY <1>1, <1>2, <1>3, <1>4, <1>5
<1>7. ASSUME NEW i \in 1 .. Len(Coming) - k PROVE Coming'[i] = Coming[k + i]
  <2>1. CASE i <= n - k
    <3>1. i \in 1 .. n - k /\ k + i \in 1 .. n
          BY <1>1, <1>4, <1>5, <1>6, <2>1
    <3>. QED BY <1>1, <1>2, <1>3, <3>1
  <2>2. CASE i > n - k
    <3>1. i - (n - k) \in 1 .. w /\ (n - k) + (i - (n - k)) = i /\ n + (i - (n - k)) = k + i
          BY <1>1, <1>4, <1>5, <1>6, <2>2
    <3>2. Coming'[(n - k) + (i - (n - k))] = wmem[wread + (i - (n - k))]
          BY <1>2, <1>3, <3>1
    <3>3. Coming[n + (i - (n - k))] = wmem[wread + (i - (n - k))]
          BY <1>1, <3>1
    <3>. QED BY <3>1, <3>2, <3>3
  <2>. QED BY <1>1, <1>4, <1>5, <1>6, <2>1, <2>2
<1>. QED BY <1>2, <1>6, <1>7 DEF n

\* A request that asks for no reply is taken with its data.
LEMMA QuietServed ==
    ASSUME TypeOK, TypeOK', Serve, NEW n \in Nat \ {0}, n <= Len(Coming), QuietTo(n)
    PROVE  /\ UNCHANGED <<replies, wmem, wread, rmem, frames, active>>
           /\ n - 2 \in Nat /\ QuietTo(n - 2)'
           /\ Len(inbox) \in Nat /\ Len(Coming) \in Nat
           /\ Len(inbox') = Len(inbox) - 2 /\ Len(Coming') = Len(Coming) - 2
           /\ \A i \in 1 .. Len(Coming) - 2 : Coming'[i] = Coming[2 + i]
<1>1. /\ Len(inbox) \in Nat /\ Len(Coming) \in Nat
      /\ \A i \in 1 .. Len(inbox) : Coming[i] = inbox[i]
      BY ComingIs
<1>2. Len(inbox) >= 1
      BY <1>1, LenProperties DEF Serve, TypeOK
<1>3. 1 \in 1 .. n /\ 1 \in 1 .. Len(inbox) /\ Coming[1] = inbox[1]
      BY <1>1, <1>2
<1>4. Coming[1].word = "quiet" /\ 1 < n
      BY <1>3 DEF QuietTo
<1>5. EndsAt(1)
      BY <1>3, <1>4 DEF EndsAt, Closing, Commands
<1>6. DOMAIN Line = 1 .. 1 /\ Head(Line) = inbox[1] /\ Last(Line) = inbox[1] /\ Line[1] = inbox[1]
  <2> DEFINE m == 1
  <2>1. m \in Nat /\ EndsAt(m)
        BY <1>5
  <2> HIDE DEF m
  <2>2. DOMAIN Line = 1 .. m /\ Head(Line) = inbox[1] /\ Last(Line) = inbox[m]
        BY <2>1, LineIs
  <2>3. \A i \in 1 .. m : Line[i] = inbox[i]
        BY <2>1, LineIs
  <2>4. m = 1 /\ 1 \in 1 .. m
        BY DEF m
  <2>. QED BY <2>2, <2>3, <2>4
<1>7. Head(Line).word = "quiet"
      BY <1>3, <1>4, <1>6
<1>8. Taken = 2 /\ replies' = replies
  <2>1. PICK words \in Answers : replies' = replies \o Lines(words)
        BY DEF Serve, Lines
  <2>2. words = <<>>
        BY <1>7, <2>1, AnswersAre
  <2>3. <<>> \in Seq(Told) /\ Len(<<>>) = 0 /\ replies \in Seq(Units)
        BY EmptySeq DEF TypeOK
  <2> DEFINE m == 1
  <2>4. m \in Nat /\ EndsAt(m)
        BY <1>5
  <2> HIDE DEF m
  <2>5. Lines(words) \in Seq(Units) /\ Len(Lines(words)) = 0
        BY <2>2, <2>3, <2>4, LinesType
  <2>6. Lines(words) = <<>>
        BY <2>5, EmptySeq
  <2>7. replies' = replies
        BY <2>1, <2>3, <2>6, ConcatEmptySeq
  <2>. QED BY <1>7, <2>7 DEF Taken
<1>9. 2 \in 0 .. Len(inbox) /\ inbox' = SubSeq(inbox, 2 + 1, Len(inbox))
      BY <1>1, <1>8 DEF Serve
<1>10. UNCHANGED <<wmem, wread, rmem, frames, active>>
       BY DEF Serve
<1>11. /\ Len(inbox') = Len(inbox) - 2 /\ Len(Coming') = Len(Coming) - 2
       /\ \A i \in 1 .. Len(Coming) - 2 : Coming'[i] = Coming[2 + i]
       BY <1>9, <1>10, ServeShifts
<1>12. n - 2 \in Nat
       BY <1>4
<1>13. QuietTo(n - 2)'
  <2>1. ASSUME NEW i \in 1 .. n - 2
        PROVE  /\ 2 + i \in 1 .. n /\ i \in 1 .. Len(Coming) - 2
               /\ i < n - 2 <=> 2 + i < n
               /\ i < n - 2 => i + 1 \in 1 .. Len(Coming) - 2 /\ 2 + (i + 1) = (2 + i) + 1
               /\ i > 1 => i - 1 \in 1 .. Len(Coming) - 2 /\ 2 + (i - 1) = (2 + i) - 1
               /\ ~(i > 1) => (2 + i) - 1 = 2
        BY <1>1, <1>12
  <2>2. Coming[2].word = "data"
    <3>1. Coming[1 + 1] = Piece(Coming[1].id, "data") /\ 1 + 1 = 2
          BY <1>3, <1>4 DEF QuietTo
    <3>. QED BY <3>1 DEF Piece
  <2>3. \A i \in 1 .. n - 2 :
            /\ Coming[2 + i].word \in {"quiet", "data"}
            /\ Coming[2 + i].word = "quiet" =>
                  i < n - 2 /\ Coming[(2 + i) + 1] = Piece(Coming[2 + i].id, "data")
            /\ Coming[2 + i].word = "data" => Coming[(2 + i) - 1].word = "quiet"
    <3>1. SUFFICES ASSUME NEW i \in 1 .. n - 2
                   PROVE  /\ Coming[2 + i].word \in {"quiet", "data"}
                          /\ Coming[2 + i].word = "quiet" =>
                                i < n - 2 /\ Coming[(2 + i) + 1] = Piece(Coming[2 + i].id, "data")
                          /\ Coming[2 + i].word = "data" => Coming[(2 + i) - 1].word = "quiet"
          OBVIOUS
    <3> DEFINE j == 2 + i
    <3>2. j \in 1 .. n /\ (i < n - 2 <=> j < n)
          BY <2>1
    <3> HIDE DEF j
    <3>3. /\ Coming[j].word \in {"quiet", "data"}
          /\ Coming[j].word = "quiet" => j < n /\ Coming[j + 1] = Piece(Coming[j].id, "data")
          /\ Coming[j].word = "data" => Coming[j - 1].word = "quiet"
          BY <3>2 DEF QuietTo
    <3>. QED BY <3>2, <3>3 DEF j
  <2>4. ASSUME NEW i \in 1 .. n - 2, Coming[2 + i].word = "data" PROVE i > 1
    <3>1. ~(i > 1) => Coming[2].word = "quiet"
      <4>1. ~(i > 1) => (2 + i) - 1 = 2
            BY <2>1
      <4>2. Coming[(2 + i) - 1].word = "quiet"
            BY <2>3, <2>4
      <4>. QED BY <4>1, <4>2
    <3>. QED BY <2>2, <3>1
  <2>5. \A i \in 1 .. n - 2 : Coming'[i] = Coming[2 + i]
        BY <1>11, <2>1
  <2>6. \A i \in 1 .. n - 2 : i < n - 2 => Coming'[i + 1] = Coming[(2 + i) + 1]
        BY <1>11, <2>1
  <2>7. \A i \in 1 .. n - 2 : i > 1 => Coming'[i - 1] = Coming[(2 + i) - 1]
        BY <1>11, <2>1
  <2>8. ASSUME NEW i \in 1 .. n - 2
        PROVE  /\ Coming'[i].word \in {"quiet", "data"}
               /\ Coming'[i].word = "quiet" =>
                     i < n - 2 /\ Coming'[i + 1] = Piece(Coming'[i].id, "data")
               /\ Coming'[i].word = "data" => i > 1 /\ Coming'[i - 1].word = "quiet"
    <3>1. Coming'[i] = Coming[2 + i]
          BY <2>5
    <3>2. Coming[2 + i].word \in {"quiet", "data"}
          BY <2>3
    <3>3. ASSUME Coming[2 + i].word = "quiet"
          PROVE  i < n - 2 /\ Coming'[i + 1] = Piece(Coming[2 + i].id, "data")
      <4>1. i < n - 2 /\ Coming[(2 + i) + 1] = Piece(Coming[2 + i].id, "data")
            BY <2>3, <3>3
      <4>. QED BY <2>6, <4>1
    <3>4. ASSUME Coming[2 + i].word = "data" PROVE i > 1 /\ Coming'[i - 1].word = "quiet"
      <4>1. i > 1
            BY <2>4, <3>4
      <4>2. Coming[(2 + i) - 1].word = "quiet"
            BY <2>3, <3>4
      <4>. QED BY <2>7, <4>1, <4>2
    <3>. QED BY <3>1, <3>2, <3>3, <3>4
  <2>. QED BY <2>8 DEF QuietTo
<1>. QED BY <1>1, <1>8, <1>10, <1>11, <1>12, <1>13

\* A reply that a method reads to its end.
Suits(op, words) ==
    \E last \in Told : /\ Closes(words, last) /\ last # "value"
                       /\ Len(words) > 1 => op \in Gets
                       /\ op = "version" => last \notin {"end", "result", "data"}

LEMMA WordSuits ==
    ASSUME NEW op, NEW last \in Told \ {"value"},
           op = "version" => last \notin {"end", "result", "data"}
    PROVE  Suits(op, <<last>>)
<1>1. Closes(<<last>>, last) /\ Len(<<last>>) = 1
      BY OneCloses
<1>. QED BY <1>1 DEF Suits

LEMMA ValuesSuit ==
    ASSUME NEW op \in Gets, NEW last \in {"end", "error"}, NEW words \in Values(last)
    PROVE  Suits(op, words)
<1>1. last \in Told /\ last # "value" /\ op # "version"
      BY DEF Told, Gets
<1>2. Closes(words, last)
      BY <1>1, ValuesClose
<1>. QED BY <1>1, <1>2 DEF Suits

\* The line that the call on top is owed an answer to, when it is the first.
LEMMA OwedLine ==
    ASSUME TypeOK, NEW f \in Frames, Own(f, 0), NEW m \in Nat, EndsAt(m), Taken <= Len(inbox),
           NEW words \in Answers, LineOf(f, 0) \/ StoreOf(f, 0) \/ GetOf(f, 0)
    PROVE  /\ Taken = Len(Coming) /\ Last(Line).id = frames[f].id
           /\ frames[f].alone => Whole
           /\ Suits(frames[f].op, words)
<1>1. /\ Len(inbox) \in Nat /\ Len(Coming) \in Nat /\ Len(inbox) <= Len(Coming)
      /\ \A i \in 1 .. Len(inbox) : Coming[i] = inbox[i]
      BY ComingIs
<1>2. /\ m \in 1 .. Len(inbox) /\ inbox[m].word \in Closing /\ inbox[m] = Coming[m]
      /\ m \in 1 .. Len(Coming)
      /\ \A i \in 1 .. m - 1 : Coming[i].word \notin Closing
      BY <1>1 DEF EndsAt
<1>3. /\ Len(Line) = m /\ DOMAIN Line = 1 .. m /\ \A i \in 1 .. m : Line[i] = Coming[i]
      /\ Head(Line) = Coming[1] /\ Last(Line) = Coming[m]
      BY <1>1, <1>2, LineIs
<1>4. ASSUME frames[f].alone PROVE Whole
  <2>1. /\ Coming[1].word \in Commands \cup {"get"}
        /\ \A i \in 1 .. Len(Coming) : Coming[i].id = frames[f].id
        BY <1>4 DEF Own
  <2>2. \A i \in 1 .. m : Line[i].id = frames[f].id /\ Head(Line).id = frames[f].id
        BY <1>2, <1>3, <2>1
  <2>. QED BY <1>3, <2>1, <2>2 DEF Whole
<1>5. CASE LineOf(f, 0)
  <2>1. /\ frames[f].op \in {"line", "version"} /\ Len(Coming) = 1
        /\ Coming[1].word = frames[f].op /\ Coming[1].id = frames[f].id
        BY <1>5 DEF LineOf, Piece
  <2>2. m = 1 /\ Head(Line).word = frames[f].op /\ Last(Line).id = frames[f].id
        BY <1>2, <1>3, <2>1
  <2>3. Taken = 1
    <3>1. Head(Line).word \notin {"set", "quiet"}
          BY <2>1, <2>2
    <3>. QED BY <1>3, <2>2, <3>1 DEF Taken
  <2>4. /\ words \in {<<"result">>, <<"error">>, <<"version">>}
        /\ frames[f].op = "version" => words # <<"result">>
        BY <2>1, <2>2, AnswersAre
  <2>5. Suits(frames[f].op, words)
    <3>1. {"result", "error", "version"} \subseteq Told \ {"value"}
          BY DEF Told
    <3>2. CASE words = <<"result">>
          BY <2>4, <3>1, <3>2, WordSuits
    <3>3. CASE words = <<"error">>
          BY <3>1, <3>3, WordSuits
    <3>4. CASE words = <<"version">>
          BY <3>1, <3>4, WordSuits
    <3>. QED BY <2>4, <3>2, <3>3, <3>4
  <2>. QED BY <1>4, <2>1, <2>2, <2>3, <2>5
<1>6. CASE StoreOf(f, 0)
  <2>1. /\ frames[f].op = "set" /\ Len(Coming) = 2
        /\ Coming[1].word = "set" /\ Coming[1].id = frames[f].id
        BY <1>6 DEF StoreOf, Piece
  <2>2. m = 1
    <3>1. ~(1 \in 1 .. m - 1)
          BY <1>2, <2>1 DEF Closing, Commands
    <3>. QED BY <1>2, <3>1
  <2>3. Head(Line).word = "set" /\ Last(Line).id = frames[f].id
        BY <1>3, <2>1, <2>2
  <2>4. Taken = 2
    <3>1. Head(Line).word \in {"set", "quiet"}
          BY <2>3
    <3>. QED BY <3>1 DEF Taken
  <2>5. words \in {<<"result">>, <<"error">>}
        BY <2>3, AnswersAre
  <2>6. Suits(frames[f].op, words)
    <3>1. {"result", "error"} \subseteq Told \ {"value"}
          BY DEF Told
    <3>2. CASE words = <<"result">>
          BY <2>1, <3>1, <3>2, WordSuits
    <3>3. CASE words = <<"error">>
          BY <2>1, <3>1, <3>3, WordSuits
    <3>. QED BY <2>5, <3>2, <3>3
  <2>. QED BY <1>4, <2>1, <2>3, <2>4, <2>6
<1>7. CASE GetOf(f, 0)
  <2>1. /\ frames[f].op \in Gets
        /\ \A i \in 1 .. Len(Coming) - 1 : Coming[i].word \in {"get", "key"}
        /\ Coming[Len(Coming)].word = "crlf" /\ Coming[Len(Coming)].id = frames[f].id
        BY <1>7 DEF GetOf, OpenAfter, Piece
  <2>2. m = Len(Coming)
    <3>1. ~(m \in 1 .. Len(Coming) - 1)
          BY <1>2, <2>1 DEF Closing, Commands
    <3>. QED BY <1>1, <1>2, <3>1
  <2>3. Head(Line).word \in {"get", "key", "crlf"} /\ Last(Line).id = frames[f].id
    <3>1. 1 = Len(Coming) \/ 1 \in 1 .. Len(Coming) - 1
      <4> DEFINE l == Len(Coming)
      <4>1. l \in Nat /\ l >= 1
            BY <1>1, <1>2, <2>2
      <4> HIDE DEF l
      <4>2. 1 = l \/ 1 \in 1 .. l - 1
            BY <4>1
      <4>. QED BY <4>2 DEF l
    <3>2. Coming[1].word \in {"get", "key", "crlf"}
          BY <2>1, <3>1
    <3>. QED BY <1>3, <2>1, <2>2, <3>2
  <2>4. Taken = Len(Coming)
        BY <1>3, <2>2, <2>3 DEF Taken
  <2>5. words \in Values("end") \/ words \in Values("error") \/ words = <<"error">>
        BY <2>3, AnswersAre DEF Commands
  <2>6. Suits(frames[f].op, words)
    <3>1. "error" \in Told \ {"value"} /\ frames[f].op # "version"
          BY <2>1 DEF Told, Gets
    <3>2. CASE words = <<"error">>
          BY <3>1, <3>2, WordSuits
    <3>3. CASE words \in Values("end") \/ words \in Values("error")
          BY <2>1, <3>3, ValuesSuit
    <3>. QED BY <2>5, <3>2, <3>3
  <2>. QED BY <1>4, <2>3, <2>4, <2>6
<1>. QED BY <1>5, <1>6, <1>7

LEMMA OwedIsServed ==
    ASSUME TypeOK, TypeOK', Serve, NEW f \in Frames, Nothing, Own(f, 0),
           LineOf(f, 0) \/ StoreOf(f, 0) \/ GetOf(f, 0)
    PROVE  Answered(f)'
<1>1. PICK m \in Nat : EndsAt(m)
      BY EndExists DEF Serve
<1>2. PICK words \in Answers : replies' = replies \o Lines(words)
      BY DEF Serve, Lines
<1>3. /\ Taken = Len(Coming) /\ Last(Line).id = frames[f].id
      /\ frames[f].alone => Whole
      /\ Suits(frames[f].op, words)
  <2>1. Taken <= Len(inbox) /\ words \in Answers
        BY <1>2 DEF Serve
  <2>2. TypeOK /\ Own(f, 0)
        OBVIOUS
  <2>3. LineOf(f, 0) \/ StoreOf(f, 0) \/ GetOf(f, 0)
        OBVIOUS
  <2>. QED BY <1>1, <2>1, <2>2, <2>3, OwedLine
<1>4. PICK last \in Told : /\ Closes(words, last) /\ last # "value"
                           /\ Len(words) > 1 => frames[f].op \in Gets
                           /\ frames[f].op = "version" => last \notin {"end", "result", "data"}
      BY <1>3 DEF Suits
<1> DEFINE lines == Lines(words)
<1>5. /\ lines \in Seq(Units) /\ Len(lines) = Len(words)
      /\ \A i \in 1 .. Len(words) : /\ lines[i].id = Last(Line).id
                                    /\ lines[i].whole = Whole
                                    /\ lines[i].word = words[i]
  <2>1. words \in Seq(Told)
        BY <1>4 DEF Closes
  <2>. QED BY <1>1, <2>1, LinesType
<1>6. frames' = frames /\ rmem' = rmem /\ UNCHANGED <<wmem, wread>>
      BY DEF Serve
<1>7. rmem' \o replies' = lines
  <2>1. replies' = <<>> \o lines /\ rmem' = <<>>
        BY <1>2, <1>6 DEF Nothing
  <2>2. <<>> \o lines = lines
        BY <1>5, ConcatEmptySeq
  <2>. QED BY <2>1, <2>2
<1> HIDE DEF lines
<1>8. Len(words) \in Nat /\ Len(words) >= 1 /\ lines # <<>>
      BY <1>4, <1>5, EmptySeq DEF Closes
<1>9. ASSUME NEW i \in 1 .. Len(lines)
      PROVE  /\ lines[i].id = frames[f].id
             /\ frames[f].alone => lines[i].whole
             /\ lines[i].word = "value" <=> i < Len(lines)
             /\ lines[i].word = "value" => frames[f].op \in Gets
             /\ frames[f].op = "version" => lines[i].word \notin {"end", "result", "data"}
  <2>1. lines[i].id = frames[f].id /\ (frames[f].alone => lines[i].whole) /\ lines[i].word = words[i]
        BY <1>3, <1>5
  <2>2. CASE i = Len(lines)
    <3>1. words[i] = last /\ ~(i < Len(lines))
          BY <1>4, <1>5, <1>8, <2>2 DEF Closes
    <3>. QED BY <1>4, <2>1, <3>1
  <2>3. CASE i # Len(lines)
    <3>1. i \in 1 .. Len(words) - 1 /\ i < Len(lines) /\ Len(words) > 1
          BY <1>5, <1>8, <2>3
    <3>2. words[i] = "value"
          BY <1>4, <3>1 DEF Closes
    <3>. QED BY <1>4, <2>1, <3>1, <3>2
  <2>. QED BY <2>2, <2>3
<1>10. Ending(f, rmem \o replies)'
       BY <1>6, <1>7, <1>8, <1>9 DEF Ending
<1>11. /\ Len(inbox) \in Nat /\ Len(Coming) \in Nat /\ Len(inbox) <= Len(Coming)
       BY ComingIs
<1>12. Len(Coming) \in 0 .. Len(inbox) /\ inbox' = SubSeq(inbox, Len(Coming) + 1, Len(inbox))
       BY <1>3, <1>11 DEF Serve
<1>13. Len(Coming') = Len(Coming) - Len(Coming)
       BY <1>6, <1>12, ServeShifts
<1>14. Coming' = <<>>
  <2>1. (Coming \in Seq(Pieces))'
        BY ComingIs, PTL
  <2>2. Len(Coming') = 0
        BY <1>11, <1>13
  <2>. QED BY <2>1, <2>2, EmptySeq
<1>. QED BY <1>10, <1>14 DEF Answered

\* What follows the requests that ask for no reply moves up with them.
LEMMA OwnShifts ==
    ASSUME NEW f \in Frames, NEW k \in Nat, k - 2 \in Nat, Own(f, k), frames' = frames,
           Len(Coming) \in Nat, Len(Coming') = Len(Coming) - 2,
           \A i \in 1 .. Len(Coming) - 2 : Coming'[i] = Coming[2 + i]
    PROVE  Own(f, k - 2)'
<1>1. ASSUME frames[f].alone
      PROVE  /\ k - 2 < Len(Coming') /\ Coming'[(k - 2) + 1].word \in Commands \cup {"get"}
             /\ \A i \in (k - 2) + 1 .. Len(Coming') : Coming'[i].id = frames[f].id
  <2>1. /\ k < Len(Coming) /\ Coming[k + 1].word \in Commands \cup {"get"}
        /\ \A i \in k + 1 .. Len(Coming) : Coming[i].id = frames[f].id
        BY <1>1 DEF Own
  <2>2. /\ k - 2 < Len(Coming') /\ (k - 2) + 1 \in 1 .. Len(Coming) - 2
        /\ 2 + ((k - 2) + 1) = k + 1
        BY <2>1
  <2>3. Coming'[(k - 2) + 1] = Coming[k + 1]
        BY <2>2
  <2>4. \A i \in (k - 2) + 1 .. Len(Coming') :
            /\ i \in 1 .. Len(Coming) - 2 /\ 2 + i \in k + 1 .. Len(Coming)
        BY <2>1
  <2>. QED BY <2>1, <2>2, <2>3, <2>4
<1>. QED BY <1>1 DEF Own

LEMMA ServePieces ==
    ASSUME SharedInv, Serve
    PROVE  Belongs'
<1>1. TypeOK /\ TypeOK' /\ StackInv
      BY ServeBase DEF SharedInv, BaseInv
<1>2. /\ Len(inbox) \in Nat /\ Len(Coming) \in Nat /\ Len(inbox) <= Len(Coming)
      BY <1>1, ComingIs
<1>3. Len(inbox) >= 1
      BY <1>1, <1>2, LenProperties DEF Serve, TypeOK
<1>4. UNCHANGED <<frames, active, wmem, wread, rmem>> /\ Top' = Top
      BY DEF Serve, Top
<1>5. ASSUME Writing
      PROVE  Writing' /\ \A f \in Frames : Own(f, Len(inbox)) => Own(f, Len(inbox))'
  <2>1. PICK k \in Nat \ {0} : k = Len(inbox)
        BY <1>2, <1>3
  <2>2. k <= Len(Coming) /\ QuietTo(k) /\ OpenAfter(k, Len(Coming)) /\ Nothing /\ wread = 0
        BY <1>2, <1>5, <2>1 DEF Writing
  <2>3. /\ replies' = replies /\ QuietTo(k - 2)' /\ k - 2 \in Nat
        /\ Len(inbox') = Len(inbox) - 2 /\ Len(Coming') = Len(Coming) - 2
        /\ \A i \in 1 .. Len(Coming) - 2 : Coming'[i] = Coming[2 + i]
        BY <1>1, <2>1, <2>2, QuietServed
  <2>4. \A i \in (k - 2) + 1 .. Len(Coming) - 2 :
            /\ i \in 1 .. Len(Coming) - 2 /\ 2 + i \in k + 1 .. Len(Coming)
        BY <1>2, <2>1, <2>3
  <2>5. OpenAfter(k - 2, Len(Coming))'
        BY <2>2, <2>3, <2>4 DEF OpenAfter
  <2>6. Len(inbox') = k - 2
        BY <2>1, <2>3
  <2>7. QuietTo(Len(inbox))' /\ OpenAfter(Len(inbox), Len(Coming))'
        BY <2>3, <2>5, <2>6 DEF QuietTo, OpenAfter
  <2>8. Writing'
        BY <1>4, <2>2, <2>3, <2>7 DEF Writing, Nothing
  <2>9. ASSUME NEW f \in Frames, Own(f, Len(inbox)) PROVE Own(f, Len(inbox))'
    <3>1. Own(f, k)
          BY <2>1, <2>9
    <3>2. Own(f, k - 2)'
          BY <1>2, <1>4, <2>3, <3>1, OwnShifts
    <3>. QED BY <2>6, <3>2 DEF Own
  <2>. QED BY <2>8, <2>9
<1>6. CASE active = <<>>
      BY <1>4, <1>5, <1>6 DEF SharedInv, Belongs
<1>7. CASE active # <<>>
  <2>1. Top \in Frames /\ PiecesOf(Top)
        BY <1>1, <1>7, TopActive, PiecesAt DEF SharedInv
  <2>2. PICK f \in Frames : f = Top /\ PiecesOf(f)
        BY <2>1
  <2>3. Belongs' <=> PiecesOf(f)'
        BY <1>4, <1>7, <2>2, PiecesNext
  <2>4. CASE frames[f].pc = "keys"
        BY <1>4, <1>5, <2>2, <2>3, <2>4 DEF PiecesOf
  <2>5. CASE frames[f].pc # "keys" /\ frames[f].op = "quiet"
    <3>1. PICK k \in Nat \ {0} : k = Len(Coming)
          BY <1>2, <1>3
    <3>2. Nothing /\ QuietTo(k) /\ k <= Len(Coming)
          BY <1>2, <2>2, <2>5, <3>1 DEF PiecesOf, Unanswered
    <3>3. replies' = replies /\ QuietTo(k - 2)' /\ Len(Coming') = k - 2
          BY <1>1, <3>1, <3>2, QuietServed
    <3>4. Unanswered'
          BY <1>4, <3>2, <3>3 DEF Unanswered, Nothing, QuietTo
    <3>. QED BY <1>4, <2>3, <2>5, <3>4 DEF PiecesOf
  <2>6. CASE frames[f].pc # "keys" /\ frames[f].op # "quiet"
    <3>1. Owing(f) \/ Answered(f)
          BY <2>2, <2>6 DEF PiecesOf
    <3>2. ~Answered(f)
          BY <1>2, <1>3, EmptySeq DEF Answered
    <3>3. PICK k \in 0 .. Len(Coming) :
              QuietTo(k) /\ Own(f, k) /\ (LineOf(f, k) \/ StoreOf(f, k) \/ GetOf(f, k))
          BY <3>1, <3>2 DEF Owing
    <3>4. Nothing
          BY <3>1, <3>2 DEF Owing
    <3>5. CASE k = 0
      <4>1. Answered(f)'
            BY <1>1, <3>3, <3>4, <3>5, OwedIsServed
      <4>. QED BY <1>4, <2>3, <2>6, <4>1 DEF PiecesOf
    <3>6. CASE k # 0
      <4>1. k \in Nat \ {0} /\ k <= Len(Coming)
            BY <1>2, <3>6
      <4>2. /\ replies' = replies /\ QuietTo(k - 2)' /\ k - 2 \in Nat
            /\ Len(Coming') = Len(Coming) - 2
            /\ \A i \in 1 .. Len(Coming) - 2 : Coming'[i] = Coming[2 + i]
            BY <1>1, <3>3, <4>1, QuietServed
      <4>3. \A i \in (k - 2) + 1 .. Len(Coming) - 2 :
                /\ i \in 1 .. Len(Coming) - 2 /\ 2 + i \in k + 1 .. Len(Coming)
            BY <1>2, <4>1, <4>2
      <4>4. Own(f, k - 2)'
            BY <1>2, <1>4, <3>3, <4>1, <4>2, OwnShifts
      <4>10. LineOf(f, k) => LineOf(f, k - 2)'
        <5>1. SUFFICES ASSUME LineOf(f, k) PROVE LineOf(f, k - 2)'
              OBVIOUS
        <5>2. Len(Coming) = k + 1 /\ Len(Coming') = (k - 2) + 1
              BY <4>1, <4>2, <5>1 DEF LineOf
        <5>3. (k - 2) + 1 \in 1 .. Len(Coming) - 2 /\ 2 + ((k - 2) + 1) = k + 1
              BY <4>1, <4>2, <5>2
        <5>4. Coming'[(k - 2) + 1] = Coming[k + 1]
              BY <4>2, <5>3
        <5>. QED BY <1>4, <5>1, <5>2, <5>4 DEF LineOf
      <4>5. GetOf(f, k) => GetOf(f, k - 2)'
        <5>1. SUFFICES ASSUME GetOf(f, k) PROVE GetOf(f, k - 2)'
              OBVIOUS
        <5>2. k < Len(Coming) /\ (k - 2) < Len(Coming')
              BY <1>2, <4>1, <4>2, <5>1 DEF GetOf
        <5>3. /\ Len(Coming') \in 1 .. Len(Coming) - 2 /\ 2 + Len(Coming') = Len(Coming)
              BY <1>2, <4>2, <5>2
        <5>4. Coming'[Len(Coming')] = Coming[Len(Coming)]
              BY <4>2, <5>3
        <5>5. \A i \in (k - 2) + 1 .. Len(Coming') - 1 :
                  i \in 1 .. Len(Coming) - 2 /\ 2 + i \in k + 1 .. Len(Coming) - 1
              BY <1>2, <4>1, <4>2
        <5>6. OpenAfter(k - 2, Len(Coming) - 1)'
              BY <4>2, <5>1, <5>5 DEF GetOf, OpenAfter
        <5>. QED BY <1>4, <5>1, <5>2, <5>4, <5>6 DEF GetOf
      <4>6. StoreOf(f, k) => StoreOf(f, k - 2)'
        <5>1. SUFFICES ASSUME StoreOf(f, k) PROVE StoreOf(f, k - 2)'
              OBVIOUS
        <5>2. Len(Coming) = k + 2 /\ Len(Coming') = (k - 2) + 2
              BY <4>1, <4>2, <5>1 DEF StoreOf
        <5>3. /\ (k - 2) + 1 \in 1 .. Len(Coming) - 2 /\ 2 + ((k - 2) + 1) = k + 1
              /\ (k - 2) + 2 \in 1 .. Len(Coming) - 2 /\ 2 + ((k - 2) + 2) = k + 2
              BY <4>1, <4>2, <5>2
        <5>4. Coming'[(k - 2) + 1] = Coming[k + 1] /\ Coming'[(k - 2) + 2] = Coming[k + 2]
              BY <4>2, <5>3
        <5>. QED BY <1>4, <5>1, <5>2, <5>4 DEF StoreOf
      <4>7. k - 2 \in 0 .. Len(Coming')
            BY <1>2, <4>1, <4>2
      <4>8. Nothing'
            BY <1>4, <3>4, <4>2 DEF Nothing
      <4>9. Owing(f)'
            BY <3>3, <4>2, <4>4, <4>5, <4>6, <4>7, <4>8, <4>10 DEF Owing
      <4>. QED BY <1>4, <2>3, <2>6, <4>9 DEF PiecesOf
    <3>. QED BY <3>5, <3>6
  <2>. QED BY <2>4, <2>5, <2>6
<1>. QED BY <1>6, <1>7

-----------------------------------------------------------------------------
(***************************************************************************)
(* What the calls have consumed.                                           *)
(***************************************************************************)
LEMMA BegunOthers ==
    ASSUME GotInv, KeysInv, NEW f \in Frames, NEW pc, NEW op, Begun(f, pc, op),
           pc = "keys" => op = "multi"
    PROVE  GotInv' /\ KeysInv'
<1>1. frames'[f].got = {} /\ frames'[f].pc = pc /\ frames'[f].op = op
      BY DEF Begun
<1>3. \A g \in Frames : g # f => /\ frames'[g].pc = frames[g].pc
                                 /\ frames'[g].got = frames[g].got
                                 /\ frames'[g].id = frames[g].id
                                 /\ frames'[g].op = frames[g].op
                                 /\ frames'[g].alone => frames[g].alone
      BY DEF Begun
<1>4. GotInv'
      BY <1>1, <1>3 DEF GotInv
<1>5. KeysInv'
      BY <1>1, <1>3 DEF KeysInv
<1>. QED BY <1>4, <1>5

LEMMA WentOnOthers ==
    ASSUME GotInv, KeysInv, NEW f \in Frames, NEW pc, WentOn(f, pc),
           frames'[f].pc = "keys" => pc = "keys"
    PROVE  GotInv' /\ KeysInv'
<1>1. SameCall(f) /\ frames[f].pc = pc /\ \A g \in Frames : g # f => frames'[g] = frames[g]
      BY DEF WentOn
<1>2. GotInv'
      BY <1>1 DEF GotInv, SameCall
<1>3. KeysInv'
      BY <1>1 DEF KeysInv, SameCall
<1>. QED BY <1>2, <1>3

\* What a call has got is what it had, and a line of its own.
GetsOwn(f) ==
    \/ frames'[f].got = frames[f].got
    \/ \E whole \in BOOLEAN :
          /\ frames'[f].got = frames[f].got \cup {[id |-> frames[f].id, whole |-> whole]}
          /\ frames[f].alone => whole

LEMMA KeepsGot ==
    ASSUME GotInv, NEW f \in Frames, GetsOwn(f), frames'[f].id = frames[f].id,
           frames'[f].alone = frames[f].alone, \A g \in Frames : g # f => frames'[g] = frames[g]
    PROVE  GotInv'
<1>1. /\ \A u \in frames[f].got : u.id = frames[f].id
      /\ frames[f].alone => frames[f].got \subseteq {[id |-> frames[f].id, whole |-> TRUE]}
      BY DEF GotInv
<1>2. /\ \A u \in frames'[f].got : u.id = frames'[f].id
      /\ frames'[f].alone => frames'[f].got \subseteq {[id |-> frames'[f].id, whole |-> TRUE]}
  <2>1. CASE frames'[f].got = frames[f].got
        BY <1>1, <2>1
  <2>2. CASE frames'[f].got # frames[f].got
    <3>1. PICK whole \in BOOLEAN :
              /\ frames'[f].got = frames[f].got \cup {[id |-> frames[f].id, whole |-> whole]}
              /\ frames[f].alone => whole
          BY <2>2 DEF GetsOwn
    <3>2. frames[f].alone => whole = TRUE
          BY <3>1
    <3>. QED BY <1>1, <3>1, <3>2
  <2>. QED BY <2>1, <2>2
<1>. QED BY <1>2 DEF GotInv

LEMMA EndedOthers ==
    ASSUME GotInv, KeysInv, NEW f \in Frames, NEW pc, Ended(f, pc), frames'[f].pc # "keys", GetsOwn(f)
    PROVE  GotInv' /\ KeysInv'
<1>1. /\ frames'[f].id = frames[f].id /\ frames'[f].alone = frames[f].alone
      /\ \A g \in Frames : g # f => frames'[g] = frames[g]
      BY DEF Ended
<1>2. GotInv'
      BY <1>1, KeepsGot
<1>3. KeysInv'
      BY <1>1 DEF KeysInv
<1>. QED BY <1>2, <1>3

\* A line that is taken is of the call's own reply.
LEMMA TookOwn ==
    ASSUME SharedInv, OneThread, NEW f \in Frames, MayStep(f, "read"), Took(f)
    PROVE  GetsOwn(f)
<1>1. Head(rmem).id = frames[f].id /\ (frames[f].alone => Head(rmem).whole)
      BY ReadsAnswer DEF Took
<1>2. Head(rmem) \in Units
      BY HeadTailProperties DEF Took, SharedInv, BaseInv, TypeOK
<1>3. PICK whole \in BOOLEAN : whole = Head(rmem).whole
      BY <1>2 DEF Units
<1>4. Sign(Head(rmem)) = [id |-> frames[f].id, whole |-> whole]
      BY <1>1, <1>3 DEF Sign
<1>. QED BY <1>1, <1>3, <1>4 DEF Took, GetsOwn

LEMMA OthersKept ==
    ASSUME SharedInv, OneThread, NEW f \in Frames, Step(f)
    PROVE  GotInv' /\ KeysInv'
<1>1. BaseInv /\ GotInv /\ KeysInv
      BY DEF SharedInv
<1>2. CASE \E op \in Methods : Command(f, op)
      BY <1>1, <1>2, CommandBase, BegunOthers
<1>3. CASE GetMulti(f)
      BY <1>1, <1>3, GetMultiBase, BegunOthers
<1>4. CASE GetKeyWrite(f)
      BY <1>1, <1>4, GetKeyWriteBase, WentOnOthers
<1>5. CASE GetFlush(f)
      BY <1>1, <1>5, GetFlushBase, WentOnOthers
<1>6. CASE SendBegins(f)
      BY <1>1, <1>6, SendBeginsBase, WentOnOthers
<1>7. CASE SendReturns(f)
      BY <1>1, <1>7, SendReturnsBase, WentOnOthers
<1>8. CASE SendDone(f)
  <2>1. \/ Ended(f, "send") /\ frames'[f].got = frames[f].got /\ frames'[f].pc = "idle"
        \/ WentOn(f, "send") /\ frames'[f].pc = "read"
        BY <1>1, <1>8, SendDoneBase
  <2>. QED BY <1>1, <2>1, EndedOthers, WentOnOthers DEF GetsOwn
<1>9. CASE RecvBegins(f)
      BY <1>1, <1>9, RecvBeginsBase, WentOnOthers
<1>10. CASE RecvReturns(f)
      BY <1>1, <1>10, RecvReturnsBase, WentOnOthers
<1>11. CASE ResultLine(f) \/ VersionLine(f) \/ LastLine(f)
  <2>1. Ended(f, "read") /\ Took(f) /\ frames'[f].pc = "idle"
        BY <1>1, <1>11, ResultLineBase
  <2>2. MayStep(f, "read")
        BY <1>11 DEF ResultLine, VersionLine, LastLine, HasLine
  <2>3. GetsOwn(f)
        BY <2>1, <2>2, TookOwn
  <2>. QED BY <1>1, <2>1, <2>3, EndedOthers
<1>12. CASE ShortVersionLine(f)
       BY <1>12, NoShortVersionLine
<1>13. CASE ValueLine(f)
  <2>1. TookOn(f) /\ Took(f)
        BY <1>1, <1>13, ValueLineBase
  <2>2. MayStep(f, "read")
        BY <1>13 DEF ValueLine, HasLine
  <2>3. GotInv'
        BY <1>1, <2>1, <2>2, TookOwn, KeepsGot DEF TookOn
  <2>4. KeysInv'
        BY <1>1, <2>1 DEF KeysInv, TookOn
  <2>. QED BY <2>3, <2>4
<1>14. CASE Get(f)
       BY <1>1, <1>14, GetBase, BegunOthers
<1>. QED BY <1>2, <1>3, <1>4, <1>5, <1>6, <1>7, <1>8, <1>9, <1>10, <1>11, <1>12, <1>13, <1>14
         DEF Step

-----------------------------------------------------------------------------
LEMMA InitShared == Init => SharedInv
<1> SUFFICES ASSUME Init PROVE SharedInv
    OBVIOUS
<1>1. BaseInv /\ TypeOK
      BY InitBase DEF BaseInv
<1>2. \A f \in Frames : frames[f].got = {} /\ frames[f].pc = "idle"
      BY DEF Init, NoFrame
<1>3. GotInv /\ KeysInv
      BY <1>2 DEF GotInv, KeysInv
<1>4. /\ wmem = <<>> /\ wread = 0 /\ rmem = <<>> /\ replies = <<>> /\ active = <<>>
      /\ Len(inbox) = 0 /\ Len(wmem) = 0
      BY EmptySeq DEF Init
<1>5. Len(Coming) = 0
      BY <1>1, <1>4, ComingIs
<1>6. QuietTo(Len(inbox)) /\ OpenAfter(Len(inbox), Len(Coming))
      BY <1>4, <1>5 DEF QuietTo, OpenAfter
<1>7. Belongs
      BY <1>4, <1>6 DEF Belongs, Writing, Nothing
<1>. QED BY <1>1, <1>3, <1>7 DEF SharedInv

LEMMA StepShared ==
    ASSUME SharedInv, OneThread, [Next]_vars, ~mixed'
    PROVE  SharedInv'
<1>1. BaseInv'
      BY StepBase DEF SharedInv
<1>2. ASSUME NEW f \in Frames, Step(f) PROVE SharedInv'
  <2>1. GotInv' /\ KeysInv'
        BY <1>2, OthersKept
  <2>2. Belongs'
    <3>1. CASE \E op \in Methods : Command(f, op)
          BY <3>1, CommandPieces
    <3>2. CASE GetMulti(f)
          BY <3>2, GetMultiPieces
    <3>3. CASE GetKeyWrite(f)
          BY <3>3, GetKeyWritePieces
    <3>4. CASE GetFlush(f)
          BY <3>4, GetFlushPieces
    <3>5. CASE SendBegins(f)
          BY <3>5, SendBeginsPieces
    <3>6. CASE SendReturns(f)
          BY <3>6, SendReturnsPieces
    <3>7. CASE SendDone(f)
          BY <3>7, SendDonePieces
    <3>8. CASE RecvBegins(f)
          BY <3>8, RecvBeginsPieces
    <3>9. CASE RecvReturns(f)
          BY <3>9, RecvReturnsPieces
    <3>10. CASE ResultLine(f) \/ VersionLine(f) \/ LastLine(f)
          BY <3>10, ResultLinePieces
    <3>11. CASE ShortVersionLine(f)
          BY <3>11, NoShortVersionLine
    <3>12. CASE ValueLine(f)
          BY <3>12, ValueLinePieces
    <3>13. CASE Get(f)
          BY <3>13, GetPieces
    <3>. QED BY <1>2, <3>1, <3>2, <3>3, <3>4, <3>5, <3>6, <3>7, <3>8, <3>9, <3>10, <3>11, <3>12,
                <3>13 DEF Step
  <2>. QED BY <1>1, <2>1, <2>2 DEF SharedInv
<1>3. CASE Serve
  <2>1. Belongs'
        BY <1>3, ServePieces
  <2>2. GotInv' /\ KeysInv'
        BY <1>3 DEF Serve, SharedInv, GotInv, KeysInv
  <2>. QED BY <1>1, <2>1, <2>2 DEF SharedInv
<1>4. CASE UNCHANGED vars
  <2>1. GotInv' /\ KeysInv'
        BY <1>4 DEF vars, SharedInv, GotInv, KeysInv
  <2>2. Belongs'
    <3>1. Coming' = Coming /\ Top' = Top
          BY <1>4 DEF vars, Coming, Unsent, Top
    <3>. QED BY <1>4, <3>1 DEF vars, SharedInv, Belongs, Writing, Nothing, QuietTo, OpenAfter,
                Own, Unanswered, Owing, Answered, Ending, LineOf, StoreOf, GetOf
  <2>. QED BY <1>1, <2>1, <2>2 DEF SharedInv
<1>. QED BY <1>2, <1>3, <1>4 DEF Next

\* Nobody is inside a method: the stack is empty, and what the server has not
\* taken asks for no reply.
LEMMA IdleAgrees ==
    ASSUME SharedInv, \A f \in Frames : frames[f].pc = "idle"
    PROVE  wmem = <<>> /\ rmem = <<>> /\ replies = <<>> /\ Owed = {}
<1>1. TypeOK /\ StackInv
      BY DEF SharedInv, BaseInv
<1>2. active = <<>>
      BY <1>1, TopActive
<1>3. Writing /\ wmem = <<>>
      BY <1>2 DEF SharedInv, Belongs
<1>4. QuietTo(Len(inbox)) /\ rmem = <<>> /\ replies = <<>>
      BY <1>3 DEF Writing, Nothing
<1>5. /\ DOMAIN inbox = 1 .. Len(inbox)
      /\ \A i \in 1 .. Len(inbox) : Coming[i] = inbox[i]
      BY <1>1, ComingIs, LenProperties DEF TypeOK
<1>6. \A i \in DOMAIN inbox : inbox[i].word \in {"quiet", "data"}
      BY <1>4, <1>5 DEF QuietTo
<1>. QED BY <1>3, <1>4, <1>6 DEF Owed

\* An iterator that has called such a method has called it.
LEMMA MixedStays ==
    ASSUME [Next]_vars, mixed
    PROVE  mixed'
<1>1. CASE UNCHANGED vars
      BY <1>1 DEF vars
<1>2. CASE Serve
      BY <1>2 DEF Serve
<1>3. ASSUME NEW f \in Frames, Step(f) PROVE mixed'
  <2>1. CASE (\E op \in Methods : Command(f, op)) \/ Get(f) \/ GetMulti(f)
        BY <2>1 DEF Command, Get, GetMulti, Starts
  <2>2. CASE GetKeyWrite(f) \/ GetFlush(f)
        BY <2>2 DEF GetKeyWrite, GetFlush
  <2>3. CASE SendBegins(f) \/ SendReturns(f) \/ SendDone(f)
        BY <2>3 DEF SendBegins, SendReturns, SendDone
  <2>4. CASE RecvBegins(f) \/ RecvReturns(f)
        BY <2>4 DEF RecvBegins, RecvReturns
  <2>5. CASE ResultLine(f) \/ VersionLine(f) \/ ValueLine(f) \/ LastLine(f)
        BY <2>5 DEF ResultLine, VersionLine, ValueLine, LastLine, Takes
  <2>6. CASE ShortVersionLine(f)
        BY <2>6 DEF ShortVersionLine
  <2>. QED BY <1>3, <2>1, <2>2, <2>3, <2>4, <2>5, <2>6 DEF Step
<1>. QED BY <1>1, <1>2, <1>3 DEF Next

UnlessMixed == mixed \/ SharedInv

LEMMA SharedAlways == ASSUME OneThread PROVE Spec => []UnlessMixed
<1>1. Init => UnlessMixed
      BY InitShared DEF UnlessMixed
<1>2. UnlessMixed /\ [Next]_vars => UnlessMixed'
  <2>1. ASSUME mixed, [Next]_vars PROVE mixed'
        BY <2>1, MixedStays
  <2>2. ASSUME SharedInv, [Next]_vars, ~mixed' PROVE SharedInv'
        BY <2>2, StepShared
  <2>. QED BY <2>1, <2>2, Zenon DEF UnlessMixed
<1>. QED BY <1>1, <1>2, PTL DEF Spec

(***************************************************************************)
(* What is under way belongs to the call on top of the stack, for any      *)
(* number of frames, keys, values and calls, until an iterator calls a     *)
(* method that is not a get: get_multi() flushes what it has written       *)
(* however its iterator ends, and the get methods read the whole reply to  *)
(* a line that they have ended, whoever has begun it.                      *)
(***************************************************************************)
THEOREM PiecesBelong == ASSUME OneThread PROVE Spec => []PiecesInv
<1>1. UnlessMixed => PiecesInv
      BY DEF UnlessMixed, SharedInv, PiecesInv
<1>. QED BY SharedAlways, <1>1, PTL

(***************************************************************************)
(* Client and server stay in step, also when iterators raise and when the  *)
(* get methods that they call put an end to lines others have begun: each  *)
(* call consumes no lines but those of its own reply, all of them, and     *)
(* when no call runs, nothing is in the buffers and nothing is owed.       *)
(***************************************************************************)
THEOREM SharedStaysInStep == ASSUME OneThread PROVE Spec => []InStep
<1>1. UnlessMixed => InStep
  <2>1. SharedInv => \A f \in Frames : \A u \in frames[f].got : u.id = frames[f].id
        BY DEF SharedInv, GotInv
  <2>. QED BY <2>1, IdleAgrees DEF InStep, UnlessMixed
<1>. QED BY SharedAlways, <1>1, PTL

(***************************************************************************)
(* A call in which no other is made, and which is made in no other, gets   *)
(* the answer to its whole request and to nothing else, also after a call  *)
(* whose iterator has raised or has called get(): no piece of an earlier   *)
(* request is left in front of its own, and no line of an earlier reply.   *)
(***************************************************************************)
THEOREM AnsweredAlone == ASSUME OneThread PROVE Spec => []AnsweredAsAsked
<1>1. UnlessMixed => AnsweredAsAsked
      BY DEF UnlessMixed, SharedInv, GotInv, AnsweredAsAsked
<1>. QED BY SharedAlways, <1>1, PTL
=============================================================================
