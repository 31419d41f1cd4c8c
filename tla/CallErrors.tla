----------------------------- MODULE CallErrors -----------------------------
(***************************************************************************)
(* What the program is told when a call fails (python/umemcache.cpp).      *)
(*                                                                         *)
(* There are two places an error is kept: the exception that is pending in *)
(* the interpreter, which the adapter's socket calls set, and the text     *)
(* m_error, which the engine sets.  A method that fails raises the first   *)
(* when there is one and otherwise a MemcachedError with the second, but   *)
(* for version() and stats(), which say no more than that they failed.     *)
(* An error is the call it comes from, its kind, and what went wrong.      *)
(***************************************************************************)
EXTENDS Naturals

CONSTANTS
    Methods,   \* the kinds of methods the program calls
    MaxCalls   \* BOUND: the number of calls

ASSUME ErrorsAssumption ==
    /\ Methods \subseteq {"command", "get", "multi", "version", "stats"}
    /\ MaxCalls \in Nat

VARIABLES
    pc,        \* "idle", or the loop the method is in: "keys", "send", "read"
    call,      \* its number, its kind, noreply
    connected, \* desc.prv # NULL
    peer,      \* TRUE until the peer closes
    rest,      \* TRUE when a call has left lines in the buffer
    pending,   \* the exception that is set in the interpreter
    m_error,
    told,      \* what the last call gave: a value, or the error it raised
    wordless   \* history: the last call failed, and nothing said why

vars == <<pc, call, connected, peer, rest, pending, m_error, told, wordless>>

NoError == [call |-> 0, kind |-> "command", what |-> "none"]
Error(what) == [call |-> call.n, kind |-> call.kind, what |-> what]

Init ==
    /\ pc = "idle"
    /\ call = [n |-> 0, kind |-> "command", async |-> FALSE]
    /\ connected = TRUE /\ peer = TRUE /\ rest = FALSE
    /\ pending = NoError /\ m_error = NoError
    /\ told = [kind |-> "value", error |-> NoError]
    /\ wordless = FALSE

-----------------------------------------------------------------------------
(***************************************************************************)
(* The ends of a method.  A value is returned whatever is pending, and     *)
(* then it stays pending.                                                  *)
(***************************************************************************)
Gives == pc' = "idle" /\ told' = [kind |-> "value", error |-> NoError]

Raises(error) == pc' = "idle" /\ told' = [kind |-> "raise", error |-> error]

\* if (!PyErr_Occurred()) PyErr_Format(...); else the pending exception.
Fails(p, m) == Raises(IF p # NoError THEN p ELSE m) /\ pending' = NoError

\* PyErr_Format() in the place of whatever is pending.
FailsFlatly == Raises(Error("failed")) /\ pending' = NoError

(***************************************************************************)
(* The engine returned false, when p is pending and m is its text.  get()  *)
(* and get_multi() take no notice of getFlush() and read on; stats()       *)
(* returns the statistics that it has.                                     *)
(***************************************************************************)
CommandFails(p, m) == call.kind = "command" /\ Fails(p, m)

GetsFail(p, m) ==
    /\ call.kind \in {"get", "multi"}
    /\ \/ pc = "send" /\ pc' = "read" /\ pending' = p /\ UNCHANGED told
       \/ pc = "read" /\ Fails(p, m)

VersionFails == call.kind = "version" /\ FailsFlatly

StatsFails(p) ==
    /\ call.kind = "stats"
    /\ \/ pc = "send" /\ FailsFlatly
       \/ pc = "read" /\ Gives /\ pending' = p

EngineFails(p, m) == CommandFails(p, m) \/ GetsFail(p, m) \/ VersionFails \/ StatsFails(p)

-----------------------------------------------------------------------------
Begins(kind, async) ==
    /\ pc = "idle" /\ call.n < MaxCalls /\ kind \in Methods
    /\ async => kind = "command"
    /\ call' = [n |-> call.n + 1, kind |-> kind, async |-> async]
    /\ wordless' = FALSE

Own(kind, what) == [call |-> call.n + 1, kind |-> kind, what |-> what]

\* Arguments of the wrong type, or a value larger than max_item_size.
BadArguments(kind) ==
    /\ Begins(kind, FALSE) /\ kind \in {"command", "get", "multi"}
    /\ Raises(Own(kind, "arguments")) /\ pending' = NoError
    /\ UNCHANGED <<connected, peer, rest, m_error>>

TooLarge(async) ==
    /\ Begins("command", async)
    /\ m_error' = Own("command", "size")
    /\ Fails(pending, Own("command", "size"))
    /\ UNCHANGED <<connected, peer, rest>>

Begin(kind, async) ==
    /\ Begins(kind, async)
    /\ pc' = IF kind = "multi" THEN "keys" ELSE "send"
    /\ UNCHANGED <<connected, peer, rest, pending, m_error, told>>

\* The iterator has no more keys, or it raises: the method goes on.
KeysEnd ==
    /\ pc = "keys" /\ pc' = "send"
    /\ pending' \in {pending, Error("iterator")}
    /\ UNCHANGED <<call, connected, peer, rest, m_error, told, wordless>>

-----------------------------------------------------------------------------
\* The request is out.
Sent ==
    /\ pc = "send" /\ connected
    /\ IF call.async THEN Gives ELSE pc' = "read" /\ UNCHANGED told
    /\ UNCHANGED <<call, connected, peer, rest, pending, m_error, wordless>>

\* A socket call raised, or the adapter did, which finds no client object.
IOErrorKeepingSocket ==
    /\ pc \in {"send", "read"}
    /\ EngineFails(Error("io"), m_error)
    /\ UNCHANGED <<call, connected, peer, rest, m_error, wordless>>

IOError ==
    /\ pc \in {"send", "read"}
    /\ connected' = FALSE
    /\ EngineFails(Error("io"), m_error)
    /\ UNCHANGED <<call, peer, rest, m_error, wordless>>

\* It returned nothing: "Connection reset by peer".
ResetWithoutText ==
    /\ pc \in {"send", "read"} /\ connected /\ ~peer
    /\ EngineFails(pending, m_error)
    /\ UNCHANGED <<call, connected, peer, rest, m_error, wordless>>

Reset ==
    /\ pc \in {"send", "read"} /\ connected /\ ~peer
    /\ m_error' = Error("reset")
    /\ EngineFails(pending, Error("reset"))
    /\ UNCHANGED <<call, connected, peer, rest, wordless>>

\* A line is in the buffer, or comes.
LineRead == pc = "read" /\ (connected \/ rest)

\* An error line, or a line that does not begin as a value should.
ErrorLine ==
    /\ LineRead
    /\ m_error' = Error("server")
    /\ EngineFails(pending, Error("server"))
    /\ UNCHANGED <<call, connected, peer, rest, wordless>>

\* A line that is too short for getResult(), or for version(), which leaves it.
ShortLine ==
    /\ LineRead /\ call.kind \in {"command", "version"}
    /\ FailsFlatly
    /\ rest' = (rest \/ call.kind = "version")
    /\ UNCHANGED <<call, connected, peer, m_error, wordless>>

\* A VALUE line without a key, flags or a length: getReadNext() sets no text,
\* and leaves what it has not read of the line, and the value.
RefusedValue ==
    /\ LineRead /\ call.kind \in {"get", "multi"}
    /\ EngineFails(pending, m_error)
    /\ rest' \in BOOLEAN
    /\ wordless' = TRUE
    /\ UNCHANGED <<call, connected, peer, m_error>>

(***************************************************************************)
(* The rest of a value does not come: recv() raised, or it returned        *)
(* nothing, and then getReadNext() disconnects but sets no text.  What did *)
(* come stays in the buffer, and may read as lines.                        *)
(***************************************************************************)
ValueCut ==
    /\ LineRead /\ call.kind \in {"get", "multi"}
    /\ connected' = FALSE
    /\ rest' \in BOOLEAN
    /\ \/ EngineFails(Error("io"), m_error) /\ UNCHANGED wordless
       \/ connected /\ ~peer /\ EngineFails(pending, m_error) /\ wordless' = TRUE
    /\ UNCHANGED <<call, peer, m_error>>

Answered ==
    /\ LineRead
    /\ Gives
    /\ UNCHANGED <<call, connected, peer, rest, pending, m_error, wordless>>

PeerCloses ==
    /\ peer /\ peer' = FALSE
    /\ UNCHANGED <<pc, call, connected, rest, pending, m_error, told, wordless>>

Disconnect ==
    /\ pc = "idle" /\ connected /\ connected' = FALSE
    /\ UNCHANGED <<pc, call, peer, rest, pending, m_error, told, wordless>>

-----------------------------------------------------------------------------
Next ==
    \/ \E kind \in Methods : BadArguments(kind) \/ Begin(kind, FALSE)
    \/ \E async \in BOOLEAN : TooLarge(async)
    \/ Begin("command", TRUE)
    \/ KeysEnd \/ Sent \/ IOError \/ Reset
    \/ ErrorLine \/ ShortLine \/ RefusedValue \/ ValueCut \/ Answered
    \/ PeerCloses \/ Disconnect

Spec == Init /\ [][Next]_vars

-----------------------------------------------------------------------------
(***************************************************************************)
(* A call that fails says why it failed.  When it tells the error of an    *)
(* earlier call instead, then that was the exception of an iterator, or    *)
(* one of the socket inside stats(), which returns all the same, or inside *)
(* a get that found its reply in the buffer of a closed client; or the     *)
(* call itself had nothing to say: the peer closed in the middle of its    *)
(* value, or its VALUE line was refused.  Nothing else an earlier call     *)
(* has left behind, no text and no exception, is told.                     *)
(***************************************************************************)
RaisesItsOwn ==
    pc = "idle" /\ told.kind = "raise" /\ told.error.call # call.n =>
        \/ told.error.what = "iterator"
        \/ told.error.what = "io" /\ told.error.kind \in {"stats", "get", "multi"}
        \/ wordless

(***************************************************************************)
(* An exception of the socket reaches the program only from a client that  *)
(* is closed, whatever call it comes out of and however late: after a      *)
(* timeout that the program sees no later call reads what came too late.   *)
(***************************************************************************)
SocketErrorCloses == told.error.what = "io" \/ pending.what = "io" => ~connected
=============================================================================
