---------------------------- MODULE SharedClient ----------------------------
(***************************************************************************)
(* One umemcache.Client in the middle of more than one call.  There are    *)
(* two ways into this: threads, which the interpreter switches while a     *)
(* method is inside a method of the socket or inside the iterator of       *)
(* get_multi(), and that iterator itself, whose code may call the client.  *)
(*                                                                         *)
(* A frame is an activation of a method.  The send buffer holds the pieces *)
(* of requests, the receive buffer the lines of replies: a line comes      *)
(* whole, a VALUE line with its value, which is a line of its own and      *)
(* spells none of the protocol.  How lines are cut, what values may spell, *)
(* and failures of the connection are left to module Client.               *)
(***************************************************************************)
EXTENDS Integers, SequencesExt

CONSTANTS
    Frames,
    Nested,    \* TRUE: frames of one thread; FALSE: each one of its own
    Methods,   \* the kinds of methods the program calls
    MaxKeys,   \* BOUND: the number of keys of an iterator
    MaxValues, \* BOUND: the number of values of a reply
    MaxCalls   \* BOUND: the number of calls in all

ASSUME SharedAssumption ==
    /\ Nested \in BOOLEAN
    /\ Methods \subseteq {"line", "version", "set", "quiet", "get", "multi"}
    /\ MaxKeys \in Nat /\ MaxValues \in Nat /\ MaxCalls \in Nat

VARIABLES
    frames,   \* per frame: where it is, its call, what send() was given
    active,   \* the frame that runs Python or C code; nested ones above it
    calls,    \* how many calls were made
    wmem,     \* the pieces up to m_writeCursor of the send buffer
    wread,    \* m_readCursor
    rmem,     \* the lines received and not consumed
    inbox,    \* the pieces on their way to the server
    replies,  \* the lines on their way to the client
    aborted,  \* an assertion of PacketWriter::pull failed
    mixed     \* history: an iterator has called a method other than a get

vars == <<frames, active, calls, wmem, wread, rmem, inbox, replies, aborted, mixed>>

\* The methods that read with getReadNext().
Gets == {"get", "multi"}

\* pc is "idle", "keys" in the loop over the iterator, "send" and "read" at
\* the head of the loops of sendWriteBuffer() and readLine(), "sending" and
\* "receiving" inside the socket.  got is history: whose lines it consumed,
\* and whether they answer a whole request.  So is alone: no other call was
\* made before it ended, nor was it made in the course of one.
NoFrame == [pc |-> "idle", id |-> 0, op |-> "line", keys |-> 0, given |-> <<>>,
            got |-> {}, alone |-> TRUE]

Init ==
    /\ frames = [f \in Frames |-> NoFrame]
    /\ active = <<>>
    /\ calls = 0
    /\ wmem = <<>> /\ wread = 0 /\ rmem = <<>>
    /\ inbox = <<>> /\ replies = <<>>
    /\ aborted = FALSE /\ mixed = FALSE

-----------------------------------------------------------------------------
(***************************************************************************)
(* Who may run.  A nested frame starts inside the iterator of the one      *)
(* below it, and must end before that goes on.  Threads take the           *)
(* interpreter when nobody has it.                                         *)
(***************************************************************************)
MayBegin(f) ==
    /\ ~aborted /\ frames[f].pc = "idle"
    /\ active # <<>> => Nested /\ frames[Last(active)].pc = "keys"

MayStep(f, pc) ==
    /\ ~aborted /\ frames[f].pc = pc
    /\ IF Nested THEN active # <<>> /\ Last(active) = f ELSE active \in {<<>>, <<f>>}

Begins(f)   == active' = IF Nested THEN Append(active, f) ELSE <<f>>
Holds(f)    == active' = IF Nested THEN active ELSE <<f>>
Releases(f) == active' = IF Nested THEN active ELSE <<>>
Ends(f)     == active' = IF Nested THEN Front(active) ELSE <<>>

Goes(f, pc) == frames' = [frames EXCEPT ![f].pc = pc]

\* A method is called: by the program, or by the iterator of another call.
Starts(f, pc, op) ==
    /\ calls' = calls + 1
    /\ mixed' = (mixed \/ (active # <<>> /\ op \notin Gets))
    /\ frames' = [g \in Frames |->
          IF g = f THEN [NoFrame EXCEPT !.pc = pc, !.id = calls + 1, !.op = op,
                                        !.alone = active = <<>>]
          ELSE IF g \in Range(active) THEN [frames[g] EXCEPT !.alone = FALSE]
          ELSE frames[g]]

\* Pieces of the request of call id, written at the write cursor.
Piece(id, word) == [id |-> id, word |-> word]

Writes(id, words) == wmem' = wmem \o [i \in DOMAIN words |-> Piece(id, words[i])]

-----------------------------------------------------------------------------
\* A method with one request line, and one with data after it, which may say
\* noreply.
Command(f, op) ==
    /\ MayBegin(f) /\ op \in Methods \ Gets /\ calls < MaxCalls
    /\ Starts(f, "send", op)
    /\ Writes(calls + 1, IF op \in {"line", "version"} THEN <<op>> ELSE <<op, "data">>)
    /\ Begins(f)
    /\ UNCHANGED <<wread, rmem, inbox, replies, aborted>>

\* get() and gets(): the command word, a key, and getFlush().
Get(f) ==
    /\ MayBegin(f) /\ "get" \in Methods /\ calls < MaxCalls
    /\ Starts(f, "send", "get")
    /\ Writes(calls + 1, <<"get", "key", "crlf">>)
    /\ Begins(f)
    /\ UNCHANGED <<wread, rmem, inbox, replies, aborted>>

(***************************************************************************)
(* get_multi() and gets_multi() write the command word and then each key   *)
(* as the iterator gives it.  An iterator that raises ends the loop like   *)
(* one that has no more keys: what was written is flushed.                 *)
(***************************************************************************)
GetMulti(f) ==
    /\ MayBegin(f) /\ "multi" \in Methods /\ calls < MaxCalls
    /\ Starts(f, "keys", "multi")
    /\ Writes(calls + 1, <<"get">>)
    /\ IF Nested THEN Begins(f) ELSE UNCHANGED active
    /\ UNCHANGED <<wread, rmem, inbox, replies, aborted>>

GetKeyWrite(f) ==
    /\ MayStep(f, "keys") /\ frames[f].keys < MaxKeys
    /\ frames' = [frames EXCEPT ![f].keys = @ + 1]
    /\ Writes(frames[f].id, <<"key">>)
    /\ UNCHANGED <<active, calls, wread, rmem, inbox, replies, aborted, mixed>>

\* One that returns as soon as the iterator has raised.
GetFlushUnlessRaised(f) ==
    /\ MayStep(f, "keys")
    /\ \/ Goes(f, "send") /\ Writes(frames[f].id, <<"crlf">>) /\ Holds(f)
       \/ Goes(f, "idle") /\ Ends(f) /\ UNCHANGED wmem
    /\ UNCHANGED <<calls, wread, rmem, inbox, replies, aborted, mixed>>

GetFlush(f) ==
    /\ MayStep(f, "keys")
    /\ Goes(f, "send") /\ Writes(frames[f].id, <<"crlf">>) /\ Holds(f)
    /\ UNCHANGED <<calls, wread, rmem, inbox, replies, aborted, mixed>>

-----------------------------------------------------------------------------
(***************************************************************************)
(* sendWriteBuffer().  The adapter makes a string of everything between    *)
(* the two cursors and gives it to send(); pull() moves the cursors by     *)
(* what was sent of it, and asserts that there is as much to move over.    *)
(***************************************************************************)
\* One that always sends from the start of the buffer.
SendBeginsFromStart(f) ==
    /\ MayStep(f, "send") /\ wread < Len(wmem)
    /\ frames' = [frames EXCEPT ![f].pc = "sending", ![f].given = wmem]
    /\ Releases(f)
    /\ UNCHANGED <<calls, wmem, wread, rmem, inbox, replies, aborted, mixed>>

SendBegins(f) ==
    /\ MayStep(f, "send") /\ wread < Len(wmem)
    /\ frames' = [frames EXCEPT ![f].pc = "sending",
                                ![f].given = SubSeq(wmem, wread + 1, Len(wmem))]
    /\ Releases(f)
    /\ UNCHANGED <<calls, wmem, wread, rmem, inbox, replies, aborted, mixed>>

SendReturns(f) ==
    /\ MayStep(f, "sending")
    /\ \E k \in 1 .. Len(frames[f].given) :
          /\ inbox' = inbox \o SubSeq(frames[f].given, 1, k)
          /\ aborted' = (k > Len(wmem) - wread)
          /\ IF wread + k = Len(wmem)
             THEN wmem' = <<>> /\ wread' = 0
             ELSE wread' = wread + k /\ UNCHANGED wmem
    /\ Goes(f, "send") /\ Holds(f)
    /\ UNCHANGED <<calls, rmem, replies, mixed>>

SendDone(f) ==
    /\ MayStep(f, "send") /\ wread = Len(wmem)
    /\ IF frames[f].op = "quiet"
       THEN Goes(f, "idle") /\ Ends(f)
       ELSE Goes(f, "read") /\ Holds(f)
    /\ UNCHANGED <<calls, wmem, wread, rmem, inbox, replies, aborted, mixed>>

\* readLine(): what is in the buffer, or what recv() brings.
RecvBegins(f) ==
    /\ MayStep(f, "read") /\ rmem = <<>>
    /\ Goes(f, "receiving") /\ Releases(f)
    /\ UNCHANGED <<calls, wmem, wread, rmem, inbox, replies, aborted, mixed>>

RecvReturns(f) ==
    /\ MayStep(f, "receiving")
    /\ \E k \in 1 .. Len(replies) :
          /\ rmem' = rmem \o SubSeq(replies, 1, k)
          /\ replies' = SubSeq(replies, k + 1, Len(replies))
    /\ Goes(f, "read") /\ Holds(f)
    /\ UNCHANGED <<calls, wmem, wread, inbox, aborted, mixed>>

-----------------------------------------------------------------------------
(***************************************************************************)
(* A line is in the buffer.  A method of one line takes that line, and of  *)
(* a value only the line before it: the value is then a line by itself.    *)
(***************************************************************************)
HasLine(f, ops) == MayStep(f, "read") /\ rmem # <<>> /\ frames[f].op \in ops

Sign(line) == [id |-> line.id, whole |-> line.whole]

AfterLine ==
    IF Head(rmem).word = "value"
    THEN <<[Head(rmem) EXCEPT !.word = "data"]>> \o Tail(rmem)
    ELSE Tail(rmem)

Takes(f, pc, rest) ==
    /\ frames' = [frames EXCEPT ![f].pc = pc, ![f].got = @ \cup {Sign(Head(rmem))}]
    /\ rmem' = rest
    /\ UNCHANGED <<calls, wmem, wread, inbox, replies, aborted, mixed>>

\* getResult(), or an error line.
ResultLine(f) ==
    /\ HasLine(f, {"line", "set"})
    /\ Takes(f, "idle", AfterLine) /\ Ends(f)

VersionLine(f) ==
    /\ HasLine(f, {"version"}) /\ Head(rmem).word # "end"
    /\ Takes(f, "idle", AfterLine) /\ Ends(f)

\* END is shorter than the eight bytes version() passes over, and stays in the
\* buffer; so may a result or a value, whose length is not modelled.
ShortVersionLine(f) ==
    /\ HasLine(f, {"version"}) /\ Head(rmem).word \in {"end", "result", "data"}
    /\ Goes(f, "idle") /\ Ends(f)
    /\ UNCHANGED <<calls, wmem, wread, rmem, inbox, replies, aborted, mixed>>

\* getReadNext(): a value, and the loop of the method goes on.
ValueLine(f) ==
    /\ HasLine(f, Gets) /\ Head(rmem).word = "value"
    /\ Takes(f, "read", Tail(rmem)) /\ Holds(f)

\* END, an error line, or a line that is not a value.
LastLine(f) ==
    /\ HasLine(f, Gets) /\ Head(rmem).word # "value"
    /\ Takes(f, "idle", Tail(rmem)) /\ Ends(f)

-----------------------------------------------------------------------------
(***************************************************************************)
(* The server takes the pieces up to the end of a line, and the data of a  *)
(* store.  A line may be made of the pieces of several calls: then a get   *)
(* with a key in front takes the rest for keys, and anything else is a     *)
(* command the server does not know.  The keys of a program have no spaces *)
(* and are no commands themselves.                                         *)
(***************************************************************************)
Commands == {"line", "version", "set", "quiet"}
Closing  == Commands \cup {"data", "crlf"}

Line == SubSeq(inbox, 1, Min({ i \in DOMAIN inbox : inbox[i].word \in Closing }))

IsGet == Head(Line).word = "get" /\ Len(Line) > 1 /\ Line[2].word = "key"

\* It is what one call has written, from the first word on.
Whole == /\ Head(Line).word \in Commands \cup {"get"}
         /\ \A i \in DOMAIN Line : Line[i].id = Head(Line).id

Taken == IF Head(Line).word \in {"set", "quiet"} THEN 2 ELSE Len(Line)

Values(last) == { Append([i \in 1 .. n |-> "value"], last) : n \in 0 .. MaxValues }

Answers ==
    CASE Head(Line).word \in {"line", "set"} -> {<<"result">>, <<"error">>}
      [] Head(Line).word = "version"          -> {<<"version">>, <<"error">>}
      [] Head(Line).word = "quiet"            -> {<<>>}
      [] IsGet                                -> Values("end") \cup Values("error")
      [] OTHER                                -> {<<"error">>}

Serve ==
    /\ \E i \in DOMAIN inbox : inbox[i].word \in Closing
    /\ Taken <= Len(inbox)
    /\ inbox' = SubSeq(inbox, Taken + 1, Len(inbox))
    /\ \E words \in Answers :
          replies' = replies \o [i \in DOMAIN words |->
                        [id |-> Last(Line).id, whole |-> Whole, word |-> words[i]]]
    /\ UNCHANGED <<frames, active, calls, wmem, wread, rmem, aborted, mixed>>

-----------------------------------------------------------------------------
Step(f) ==
    \/ \E op \in Methods : Command(f, op)
    \/ Get(f) \/ GetMulti(f) \/ GetKeyWrite(f) \/ GetFlush(f)
    \/ SendBegins(f) \/ SendReturns(f) \/ SendDone(f)
    \/ RecvBegins(f) \/ RecvReturns(f)
    \/ ResultLine(f) \/ VersionLine(f) \/ ShortVersionLine(f) \/ ValueLine(f) \/ LastLine(f)

Next == (\E f \in Frames : Step(f)) \/ Serve

Spec == Init /\ [][Next]_vars

-----------------------------------------------------------------------------
Owed == { i \in DOMAIN inbox : inbox[i].word \notin {"quiet", "data"} }

(***************************************************************************)
(* Client and server stay in step: a call consumes lines of its own reply  *)
(* only, and when no call runs, no buffer holds anything and nothing is    *)
(* owed.  So it is when an iterator raises at any key, and when its code   *)
(* calls get methods, which end the line of the call they are made in the  *)
(* middle of and read whatever comes of it up to its end.  It is not when  *)
(* the code calls another method, which reads one line of that.            *)
(***************************************************************************)
InStep ==
    ~mixed =>
        /\ \A f \in Frames : \A u \in frames[f].got : u.id = frames[f].id
        /\ (\A f \in Frames : frames[f].pc = "idle") =>
               wmem = <<>> /\ rmem = <<>> /\ replies = <<>> /\ Owed = {}

(***************************************************************************)
(* What a call returns is the server's answer to its whole request and to  *)
(* no piece of another, unless it was made in an iterator or its iterator  *)
(* has made a call: so the call after one whose iterator has raised, or    *)
(* has called a get method, is not spoilt by it.                           *)
(***************************************************************************)
AnsweredAsAsked ==
    ~mixed => \A f \in Frames : frames[f].alone =>
        frames[f].got \subseteq {[id |-> frames[f].id, whole |-> TRUE]}

(***************************************************************************)
(* PacketWriter::pull: assert (cbSize <= (m_writeCursor - m_readCursor)).  *)
(* It holds of one thread, whatever its iterators call: nobody moves the   *)
(* cursors between the copy that send() is given and the pull() after it.  *)
(***************************************************************************)
PullsWhatIsThere == ~aborted

-----------------------------------------------------------------------------
(***************************************************************************)
(* The pieces that the server has yet to take, in the order in which they  *)
(* were written: those on their way and those that were not sent.          *)
(***************************************************************************)
Unsent == SubSeq(wmem, wread + 1, Len(wmem))

Coming == inbox \o Unsent

\* Up to n they are requests that ask for no reply.
QuietTo(n) ==
    \A i \in 1 .. n :
        /\ Coming[i].word \in {"quiet", "data"}
        /\ Coming[i].word = "quiet" =>
              i < n /\ Coming[i + 1] = Piece(Coming[i].id, "data")
        /\ Coming[i].word = "data" => i > 1 /\ Coming[i - 1].word = "quiet"

\* Those after n begin a get and do not end it; with the last one, they are
\* the line that the call of frame f is answered.
OpenAfter(n, m) == \A i \in n + 1 .. m : Coming[i].word \in {"get", "key"}

\* A call that is made alone has written all of them, from the first word on.
Own(f, n) ==
    frames[f].alone =>
        /\ n < Len(Coming) /\ Coming[n + 1].word \in Commands \cup {"get"}
        /\ \A i \in n + 1 .. Len(Coming) : Coming[i].id = frames[f].id

\* What ends them, by the method of the frame.
LineOf(f, n) ==
    /\ frames[f].op \in {"line", "version"}
    /\ Len(Coming) = n + 1
    /\ Coming[n + 1] = Piece(frames[f].id, frames[f].op)

StoreOf(f, n) ==
    /\ frames[f].op = "set"
    /\ Len(Coming) = n + 2
    /\ Coming[n + 1] = Piece(frames[f].id, "set")
    /\ Coming[n + 2] = Piece(frames[f].id, "data")

GetOf(f, n) ==
    /\ frames[f].op \in Gets
    /\ n < Len(Coming) /\ OpenAfter(n, Len(Coming) - 1)
    /\ Coming[Len(Coming)] = Piece(frames[f].id, "crlf")

\* The rest of a reply that the method of the frame reads to its end.
Ending(f, lines) ==
    /\ lines # <<>>
    /\ \A i \in 1 .. Len(lines) :
          /\ lines[i].id = frames[f].id
          /\ frames[f].alone => lines[i].whole
          /\ lines[i].word = "value" <=> i < Len(lines)
          /\ lines[i].word = "value" => frames[f].op \in Gets
          /\ frames[f].op = "version" => lines[i].word \notin {"end", "result", "data"}

Nothing == rmem = <<>> /\ replies = <<>>

(***************************************************************************)
(* The call of frame f writes its keys; it waits for a server that has not *)
(* seen all of its line; what is left of the reply to it is on its way,    *)
(* and nothing else; or no reply to it is expected.                        *)
(***************************************************************************)
Writing == /\ Nothing /\ wread = 0
           /\ QuietTo(Len(inbox)) /\ OpenAfter(Len(inbox), Len(Coming))

Owing(f) == /\ Nothing
            /\ \E n \in 0 .. Len(Coming) : /\ QuietTo(n) /\ Own(f, n)
                                           /\ LineOf(f, n) \/ StoreOf(f, n) \/ GetOf(f, n)

Answered(f) == Coming = <<>> /\ Ending(f, rmem \o replies)

Unanswered == Nothing /\ QuietTo(Len(Coming))

Top == active[Len(active)]

Belongs ==
    IF active = <<>> THEN Writing /\ wmem = <<>>
    ELSE IF frames[Top].pc = "keys" THEN Writing /\ Own(Top, Len(inbox))
    ELSE IF frames[Top].op = "quiet" THEN Unanswered
    ELSE Owing(Top) \/ Answered(Top)

(***************************************************************************)
(* What is under way belongs to the call on top of the stack of frames,    *)
(* but for requests without a reply and, if it was called by an iterator,  *)
(* for the pieces that the calls below it have written.  It is so until an *)
(* iterator calls a method other than a get.                               *)
(***************************************************************************)
PiecesInv == ~mixed => Belongs
=============================================================================
