---------------------------- MODULE ClientAnswers ----------------------------
(***************************************************************************)
(* What a call has of its answer while it reads it, and what the server    *)
(* has done by then: the two invariants from which AsyncBeforeSync and     *)
(* ReturnsTheAnswer follow.                                                *)
(***************************************************************************)
EXTENDS ClientStream

\* The reply to the running call is being read, or will be.
Reading == pc = "data" \/ (pc = "line" /\ ~Stuck /\ ~Waiting)

-----------------------------------------------------------------------------
(***************************************************************************)
(* The order of requests.  A noreply call that was accepted is waiting at  *)
(* the server or has been processed, unless the peer has closed; and when  *)
(* a reply can be read, its request has come after all of them.            *)
(***************************************************************************)
Processed(d) == \E i \in 1 .. Len(served) : served[i] = d
Queued(d)    == \E i \in 1 .. Len(toServer) : toServer[i].call = d

ProcessedLast ==
    \E j \in 1 .. Len(served) :
        /\ served[j] = call.id
        /\ \A d \in accepted : \E i \in 1 .. j - 1 : served[i] = d

\* What is accepted was accepted before, by a call that has ended.
AcceptedBefore ==
    /\ \A d \in accepted : d <= call.id
    /\ call.id \in accepted => pc = "idle"
    /\ sock = "new" => accepted = {}

\* While a client that is in step is connected, no accepted request is lost,
\* and a reply is there to be read only when all of them were processed: a
\* request that sendWriteBuffer() got out goes before every later one.
OrderInv ==
    /\ AcceptedBefore
    /\ pc # "idle" => outcome.kind = "none"
    /\ Intact =>
          /\ sock = "up" => \A d \in accepted : Processed(d) \/ Queued(d)
          /\ Reading => ProcessedLast
          /\ outcome.kind = "value" /\ call.op # "stats" => ProcessedLast

-----------------------------------------------------------------------------
(***************************************************************************)
(* The entries of an answer.  What a call has collected is one entry for   *)
(* each VALUE or STAT line before the position it has reached.             *)
(***************************************************************************)
EntryWord == IF call.op = "stats" THEN "STAT" ELSE "VALUE"

EntryLines == { p \in answer.reply.starts : answer.reply.toks[p].w = EntryWord }

Collected(p) ==
    /\ Len(res) = Before(p, EntryLines)
    /\ call.op # "stats" =>
          \A q \in EntryLines : q < p => res[Before(q, EntryLines) + 1].data = DataAt(q)

\* The server's last answer is r, to this call.
GivenToThis(r) == answer = [call |-> call.id, reply |-> r]

CollectingAtLine ==
    pc = "line" /\ ~Stuck /\ ~Waiting =>
        \E r \in Replies(call.op), m \in 0 .. Len(sent) : \E p \in r.starts :
            /\ GivenToThis(r) /\ AtLine(r, m)
            /\ p = Passed - m + 1 /\ Collected(p)

CollectingAtData ==
    pc = "data" =>
        \E r \in Replies(call.op), m \in 0 .. Len(sent) : \E p \in r.starts :
            /\ call.op \in {"get", "multi"}
            /\ GivenToThis(r) /\ AtData(r, m)
            /\ p = Passed - m - 1 /\ Collected(p)

\* Wherever recv() cuts a reply, what getReadNext() or getStats() has yielded is
\* what the server wrote up to the position the client has reached in it.
AnswerInv ==
    /\ pc # "idle" => outcome.kind = "none"
    /\ pc = "send" => res = <<>>
    /\ Intact =>
          /\ pc = "line" /\ Waiting /\ ~Stuck => res = <<>>
          /\ CollectingAtLine
          /\ CollectingAtData
          /\ outcome.kind = "value" /\ call.op # "stats" => toServer = <<>>
          /\ ReturnsTheAnswer

-----------------------------------------------------------------------------
(***************************************************************************)
(* Room in the receive buffer.  Only stats() lets replies add up, so the   *)
(* buffer must hold the largest reply after one to stats() by every other  *)
(* call.                                                                   *)
(***************************************************************************)
Room(stats, largest) ==
    /\ stats <= largest
    /\ \A r \in Replies("stats") : Len(r.toks) <= stats
    /\ \A op \in Ops : \A r \in Replies(op) : Len(r.toks) <= largest
    /\ stats * (MaxCalls - 1) + largest < RCap

RoomForReplies == \E stats, largest \in Nat : Room(stats, largest)

\* What the buffer holds when all that is on its way has been received.
Load == WriteCursor(m_reader) + (Len(sent) - rcvd)

\* recv() may still return something.
MayReceive == prv /\ ~(sock = "closed" /\ rcvd = Len(sent))

\* How much that may be: what calls to stats() have left, and the reply that
\* is being read.
OfReply(stats, largest) == IF call.op = "stats" THEN stats ELSE largest

Allowed(stats, largest) ==
    IF pc = "idle" THEN stats * call.id
    ELSE stats * (call.id - 1) + IF Reading THEN OfReply(stats, largest) ELSE 0

RoomInv(stats, largest) ==
    /\ ~falseReset
    /\ call.id \in (IF pc = "idle" THEN 0 ELSE 1) .. MaxCalls
    /\ WriteCursor(m_reader) < RCap
    /\ prv /\ pc \in {"line", "data"} => sock # "new"
    /\ MayReceive => Load <= Allowed(stats, largest)
=============================================================================
