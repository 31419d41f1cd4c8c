---------------------------- MODULE ClientStream ----------------------------
(***************************************************************************)
(* Where a client stands in the stream of replies: the invariant that      *)
(* keeps client and server in step, phase by phase of a call.  It is       *)
(* inductive, and OwnReply, Drained and Rewound follow from it.            *)
(***************************************************************************)
EXTENDS ClientProperties

\* How much of the stream is no longer in the reader's unread part.
Passed == rcvd - Unread(m_reader)

\* The unread part of the buffer is the stream from Passed on.
Aligned ==
    /\ rcvd <= Len(sent) /\ 0 <= Passed
    /\ \A i \in 1 .. Unread(m_reader) :
          m_reader.mem[m_reader.readCursor + i] = sent[Passed + i]

\* No request that will be answered is waiting, the first n apart.
AsyncFrom(n) == \A i \in 1 .. n : toServer[i].async

OwnRequest == [call |-> call.id, op |-> call.op, async |-> call.async, clean |-> TRUE]

\* Nothing is owed to the client.  On a connection the peer has closed, a
\* beginning of a reply may be left in the buffer.
Settled ==
    /\ rcvd = Len(sent)
    /\ ~HaveLine(m_reader)
    /\ sock # "closed" => Unread(m_reader) = 0 /\ AsyncFrom(Len(toServer))

\* The call waits for a reply that cannot come: it will fail.
Stuck ==
    /\ ~HaveLine(m_reader)
    /\ prv => sock = "closed" /\ rcvd = Len(sent)

\* Its request has been received by the server and is the only one that
\* will be answered.
Waiting ==
    /\ sock = "up"
    /\ rcvd = Len(sent) /\ Unread(m_reader) = 0
    /\ toServer # <<>>
    /\ toServer[Len(toServer)] = OwnRequest /\ ~call.async
    /\ AsyncFrom(Len(toServer) - 1)

\* The last thing in the stream, from m on, is the reply r to this call, or
\* what a peer that has closed let through of it.
Answered(r, m) ==
    /\ toServer = <<>>
    /\ m <= Passed
    /\ Len(sent) <= m + Len(r.toks)
    /\ \A i \in m + 1 .. Len(sent) : sent[i] = [call |-> call.id, tok |-> r.toks[i - m]]

\* A line of the reply comes next.
AtLine(r, m) == Answered(r, m) /\ Passed - m + 1 \in r.starts

\* The data of the value whose VALUE line was read last comes next.
AtData(r, m) ==
    /\ Answered(r, m)
    /\ Passed - m - 1 \in r.starts
    /\ head.unit.tok = r.toks[Passed - m - 1]
    /\ head.unit.tok.w = "VALUE"

(***************************************************************************)
(* The parts of the invariant.                                             *)
(***************************************************************************)
InStep ==
    /\ Aligned
    /\ from \subseteq {call.id}
    /\ \A i \in 1 .. Len(toServer) : toServer[i].clean

WriterReady ==
    prv /\ sock # "closed" =>
        IF pc = "send"
        THEN m_writer.reqs = <<OwnRequest>>
        ELSE m_writer = NewWriter

BetweenReplies ==
    /\ pc = "send" => prv /\ from = {}
    /\ pc \in {"idle", "send"} /\ prv => Settled

ReadingLine ==
    pc = "line" =>
        \/ Stuck
        \/ Waiting
        \/ \E r \in Replies(call.op), m \in 0 .. Len(sent) : AtLine(r, m)

ReadingData ==
    pc = "data" =>
        /\ call.op \in {"get", "multi"}
        /\ \E r \in Replies(call.op), m \in 0 .. Len(sent) : AtData(r, m)

\* A client and its server are in step: what the client has not consumed is
\* what the server still has to send of the reply to the running call, and
\* nothing when no call is running.
StreamInv ==
    /\ prv => call.linked
    /\ Intact => /\ InStep
                 /\ WriterReady
                 /\ BetweenReplies
                 /\ ReadingLine
                 /\ ReadingData
                 /\ Rewound

(***************************************************************************)
(* A call of a client in step with its server returns, when the server     *)
(* answers what it receives and no socket call fails: no read loop waits   *)
(* for bytes that are not coming, whatever the values spell and however    *)
(* full the buffer is.  A client out of step has no such promise: a get    *)
(* may take what a value of another call's reply spells for a VALUE line,  *)
(* and wait for ever for as many bytes as that asks for.                   *)
(***************************************************************************)
Termination == pc # "idle" /\ Intact /\ StreamInv ~> pc = "idle"
=============================================================================
