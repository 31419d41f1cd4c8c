------------------------------ MODULE RemoteCall ------------------------------
(***************************************************************************)
(* What a client promises the program that uses it, in terms of calls,     *)
(* requests and answers alone: no buffer, no stream, no bytes.             *)
(*                                                                         *)
(* A call makes at most one request.  Requests reach the server whole and  *)
(* in the order of the calls, and each is performed at most once.  A       *)
(* noreply call returns once its request is out.  Any other call returns   *)
(* what the server answered to its own request, or fails; and when it      *)
(* fails while an answer may still be on its way, the client is closed,    *)
(* makes no further request and is never opened again.                     *)
(***************************************************************************)
EXTENDS Integers, Sequences

CONSTANTS
    Operations,    \* the operations of a client
    Answers(_),    \* Answers(op): what a server may answer to op
    Outcome(_, _)  \* Outcome(op, a): what a call of op gives for answer a

VARIABLES
    phase,    \* of the last call: "begun", "sent" or "idle" when it has ended
    call,     \* its number, operation, noreply, and whether the client was open
    outcome,  \* what it gave to the program
    open,     \* what is_connected() answers
    link,     \* "new", "up", or "closed" once the peer has closed
    queue,    \* the requests the server has received and not performed
    done,     \* the calls whose requests it has performed, in order
    answer    \* its last answer, and the call it answers

vars == <<phase, call, outcome, open, link, queue, done, answer>>

Nothing == [kind |-> "none", val |-> <<>>]
Raise   == [kind |-> "raise", val |-> <<>>]

Init ==
    /\ phase = "idle"
    /\ call.id = 0
    /\ outcome = Nothing
    /\ open = TRUE /\ link = "new"
    /\ queue = <<>> /\ done = <<>>
    /\ answer.call = 0

-----------------------------------------------------------------------------
\* connect(), and disconnect().  An attempt to connect that fails, or is
\* refused, changes nothing but what the program is told.
Connect ==
    /\ phase = "idle" /\ open /\ link = "new"
    /\ link' = "up"
    /\ outcome' = Nothing
    /\ UNCHANGED <<phase, call, open, queue, done, answer>>

ConnectFails ==
    /\ phase = "idle"
    /\ outcome' = Raise
    /\ UNCHANGED <<phase, call, open, link, queue, done, answer>>

Disconnect ==
    /\ phase = "idle" /\ open
    /\ open' = FALSE
    /\ outcome' = Nothing
    /\ UNCHANGED <<phase, call, link, queue, done, answer>>

\* A call begins, or is refused before anything is written.
Begin ==
    /\ phase = "idle"
    /\ call'.id = call.id + 1 /\ call'.op \in Operations /\ call'.linked = open
    /\ \/ phase' = "begun" /\ outcome' = Nothing
       \/ phase' = "idle" /\ outcome' = Raise
    /\ UNCHANGED <<open, link, queue, done, answer>>

\* The whole of the request is out: the server receives it, unless it is gone.
Submit ==
    /\ phase = "begun" /\ open /\ link # "new"
    /\ queue' = IF link = "up"
                THEN Append(queue, [call |-> call.id, op |-> call.op,
                                    async |-> call.async, clean |-> TRUE])
                ELSE queue
    /\ phase' = IF call.async THEN "idle" ELSE "sent"
    /\ UNCHANGED <<call, outcome, open, link, done, answer>>

Perform ==
    /\ queue # <<>> /\ link = "up"
    /\ queue' = Tail(queue)
    /\ done' = Append(done, Head(queue).call)
    /\ IF Head(queue).async
       THEN UNCHANGED answer
       ELSE /\ answer'.call = Head(queue).call
            /\ answer'.reply \in Answers(Head(queue).op)
    /\ UNCHANGED <<phase, call, outcome, open, link>>

\* What a failure may do to the client: it is closed, unless nothing more
\* can come over its link.
Closes == open' = FALSE \/ (open' = open /\ link # "up")

\* The request could not be sent, and the call goes on to find that out.
SendFails ==
    /\ phase = "begun" /\ phase' = "sent"
    /\ Closes
    /\ UNCHANGED <<call, outcome, link, queue, done, answer>>

Return ==
    /\ phase = "sent" /\ phase' = "idle"
    /\ answer.call = call.id
    /\ outcome' = Outcome(call.op, answer.reply)
    /\ UNCHANGED <<call, open, link, queue, done, answer>>

Fail ==
    /\ phase # "idle" /\ phase' = "idle"
    /\ outcome' = Raise
    /\ Closes
    /\ UNCHANGED <<call, link, queue, done, answer>>

(***************************************************************************)
(* Two calls of which less is promised: stats() returns what it has read   *)
(* of its answer when it fails, and a call on a client that was not open   *)
(* when it began may give anything, but makes no request.                  *)
(***************************************************************************)
StatsEnds ==
    /\ phase = "sent" /\ phase' = "idle"
    /\ call.op = "stats" /\ outcome'.kind = "value"
    /\ Closes \/ (answer.call = call.id /\ open' = open)
    /\ UNCHANGED <<call, link, queue, done, answer>>

ClosedCallEnds ==
    /\ phase = "sent" /\ phase' = "idle"
    /\ ~call.linked
    /\ UNCHANGED <<call, open, link, queue, done, answer>>

\* The peer closes, and what it has not performed is gone.
LinkLost ==
    /\ link = "up" /\ link' = "closed"
    /\ queue' = <<>>
    /\ UNCHANGED <<phase, call, outcome, open, done, answer>>

-----------------------------------------------------------------------------
Next ==
    \/ Connect \/ ConnectFails \/ Disconnect
    \/ Begin \/ Submit \/ SendFails \/ Return \/ Fail \/ StatsEnds \/ ClosedCallEnds
    \/ Perform \/ LinkLost

Spec == Init /\ [][Next]_vars
=============================================================================
