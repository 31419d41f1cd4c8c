-------------------------- MODULE CallErrorsProofs --------------------------
(***************************************************************************)
(* What the program is told when a call fails: the properties of           *)
(* CallErrors, for any number of calls.                                    *)
(***************************************************************************)
EXTENDS CallErrors, TLAPS

Kinds == {"command", "get", "multi", "version", "stats"}

Errors ==
    [call : Nat, kind : Kinds,
     what : {"none", "arguments", "size", "iterator", "io", "reset", "server", "failed"}]

ErrorsTypeOK ==
    /\ pc \in {"idle", "keys", "send", "read"}
    /\ call \in [n : Nat, kind : Kinds, async : BOOLEAN]
    /\ connected \in BOOLEAN /\ peer \in BOOLEAN /\ rest \in BOOLEAN
    /\ pending \in Errors /\ m_error \in Errors
    /\ told \in [kind : {"value", "raise"}, error : Errors]
    /\ wordless \in BOOLEAN

(***************************************************************************)
(* An exception that is pending is always one of those that a later call   *)
(* may tell: only an iterator, stats() and the methods that read a value   *)
(* go on with one.                                                         *)
(***************************************************************************)
Stray(error) ==
    \/ error.what = "iterator"
    \/ error.what = "io" /\ error.kind \in {"stats", "get", "multi"}

OnlyStrays == pending = NoError \/ Stray(pending)

\* No text is that of an exception.
TextsAreNotIO == m_error.what # "io"

Tells == SocketErrorCloses /\ OnlyStrays /\ TextsAreNotIO /\ RaisesItsOwn

ErrorsInv == ErrorsTypeOK /\ Tells

-----------------------------------------------------------------------------
LEMMA ErrorsInit == Init => ErrorsInv
<1> SUFFICES ASSUME Init PROVE ErrorsInv
    OBVIOUS
<1>1. NoError \in Errors /\ NoError.what = "none"
      BY DEF NoError, Errors, Kinds
<1>2. ErrorsTypeOK
      BY <1>1 DEF Init, ErrorsTypeOK, Kinds
<1>3. SocketErrorCloses /\ TextsAreNotIO /\ OnlyStrays /\ RaisesItsOwn
      BY <1>1 DEF Init, SocketErrorCloses, OnlyStrays, TextsAreNotIO, RaisesItsOwn
<1>. QED BY <1>2, <1>3 DEF ErrorsInv, Tells

\* An error is one, and it is not the absence of one.
LEMMA ErrorType ==
    ASSUME ErrorsTypeOK, NEW kind \in Kinds,
           NEW what \in {"arguments", "size", "iterator", "io", "reset", "server", "failed"}
    PROVE  /\ Error(what) \in Errors /\ Own(kind, what) \in Errors
           /\ Error(what) # NoError /\ Own(kind, what) # NoError
           /\ Error(what).call = call.n /\ Error(what).what = what
           /\ Error(what).kind = call.kind
           /\ Own(kind, what).call = call.n + 1 /\ Own(kind, what).what = what
BY DEF ErrorsTypeOK, Errors, Error, Own, NoError

\* What a failure of the engine comes to, by the method and the loop it is in.
LEMMA WaysToFail ==
    ASSUME NEW p, NEW m, EngineFails(p, m)
    PROVE  \/ /\ pc' = "idle" /\ pending' = NoError
              /\ \/ told' = [kind |-> "raise", error |-> Error("failed")]
                 \/ p # NoError /\ told' = [kind |-> "raise", error |-> p]
                 \/ p = NoError /\ told' = [kind |-> "raise", error |-> m]
           \/ /\ call.kind = "stats" /\ pc = "read"
              /\ pc' = "idle" /\ told' = [kind |-> "value", error |-> NoError] /\ pending' = p
           \/ /\ call.kind \in {"get", "multi"} /\ pc = "send"
              /\ pc' = "read" /\ pending' = p /\ UNCHANGED told
BY DEF EngineFails, CommandFails, GetsFail, VersionFails, StatsFails, Fails, FailsFlatly,
       Raises, Gives

\* The types, when the engine fails with errors that are errors.
LEMMA FailureTypes ==
    ASSUME ErrorsTypeOK, NEW p \in Errors, NEW m \in Errors, EngineFails(p, m),
           connected' \in BOOLEAN, rest' \in BOOLEAN, wordless' \in BOOLEAN, m_error' \in Errors,
           UNCHANGED <<call, peer>>
    PROVE  ErrorsTypeOK'
<1>1. Error("failed") \in Errors /\ NoError \in Errors
      BY ErrorType DEF NoError, Errors, Kinds
<1>2. /\ pc' \in {"idle", "read"} /\ pending' \in Errors
      /\ told' \in [kind : {"value", "raise"}, error : Errors]
      BY <1>1, WaysToFail DEF ErrorsTypeOK
<1>. QED BY <1>2 DEF ErrorsTypeOK

\* What is told is this call's own or a stray, or the text, which is this
\* call's own unless there is no word of what went wrong.
LEMMA FailureTells ==
    ASSUME ErrorsInv, NEW p, NEW m, EngineFails(p, m), UNCHANGED call,
           p = NoError \/ Stray(p),
           p = NoError => m.call = call.n \/ wordless'
    PROVE  OnlyStrays' /\ RaisesItsOwn'
<1>1. Error("failed").call = call.n
      BY ErrorType DEF ErrorsInv, Tells, Kinds
<1>2. OnlyStrays'
      BY WaysToFail DEF OnlyStrays, Stray
<1>3. RaisesItsOwn'
      BY <1>1, WaysToFail DEF RaisesItsOwn, Stray
<1>. QED BY <1>2, <1>3

\* The record of a call that begins.
LEMMA BeginsTyped ==
    ASSUME ErrorsTypeOK, NEW kind \in Kinds, NEW async \in BOOLEAN
    PROVE  LET c == [n |-> call.n + 1, kind |-> kind, async |-> async]
           IN  c \in [n : Nat, kind : Kinds, async : BOOLEAN] /\ c.n = call.n + 1
BY DEF ErrorsTypeOK

LEMMA ErrorsStep == ErrorsInv /\ [Next]_vars => ErrorsInv'
<1> SUFFICES ASSUME ErrorsInv, [Next]_vars PROVE ErrorsInv'
    OBVIOUS
<1> USE DEF ErrorsInv, Tells
<1>0. /\ NoError \in Errors /\ NoError.what = "none" /\ wordless \in BOOLEAN
      /\ m_error \in Errors /\ pending \in Errors
      /\ Methods \subseteq Kinds /\ "command" \in Kinds
      BY ErrorsAssumption DEF NoError, Errors, ErrorsTypeOK, Kinds
<1>1. ASSUME NEW kind \in Methods, BadArguments(kind) PROVE ErrorsInv'
  <2>1. /\ call' = [n |-> call.n + 1, kind |-> kind, async |-> FALSE] /\ wordless' = FALSE
        /\ pc' = "idle" /\ told' = [kind |-> "raise", error |-> Own(kind, "arguments")]
        /\ pending' = NoError /\ UNCHANGED <<connected, peer, rest, m_error>>
        BY <1>1 DEF BadArguments, Begins, Raises
  <2>2. kind \in Kinds
        BY <1>0
  <2>. QED BY <1>0, <2>1, <2>2, ErrorType, BeginsTyped
           DEF ErrorsTypeOK, SocketErrorCloses, OnlyStrays, TextsAreNotIO, RaisesItsOwn
<1>2. ASSUME NEW async \in BOOLEAN, TooLarge(async) PROVE ErrorsInv'
  <2> DEFINE size == Own("command", "size")
  <2>1. /\ call' = [n |-> call.n + 1, kind |-> "command", async |-> async] /\ wordless' = FALSE
        /\ pc' = "idle" /\ pending' = NoError /\ m_error' = size
        /\ told' = [kind |-> "raise", error |-> IF pending # NoError THEN pending ELSE size]
        /\ UNCHANGED <<connected, peer, rest>>
        BY <1>2 DEF TooLarge, Begins, Fails, Raises
  <2>2. size \in Errors /\ size.call = call.n + 1 /\ size.what = "size"
        BY <1>0, ErrorType
  <2> HIDE DEF size
  <2>3. ErrorsTypeOK'
        BY <1>0, <2>1, <2>2, BeginsTyped DEF ErrorsTypeOK
  <2>4. Tells'
        BY <1>0, <2>1, <2>2
            DEF SocketErrorCloses, OnlyStrays, Stray, TextsAreNotIO, RaisesItsOwn
  <2>. QED BY <2>3, <2>4
<1>3. ASSUME NEW kind \in Methods, NEW async \in BOOLEAN, Begin(kind, async) PROVE ErrorsInv'
  <2>1. /\ call' = [n |-> call.n + 1, kind |-> kind, async |-> async] /\ wordless' = FALSE
        /\ pc' \in {"keys", "send"}
        /\ UNCHANGED <<connected, peer, rest, pending, m_error, told>>
        BY <1>3 DEF Begin, Begins
  <2>2. kind \in Kinds
        BY <1>0
  <2>. QED BY <2>1, <2>2, BeginsTyped
           DEF ErrorsTypeOK, SocketErrorCloses, OnlyStrays, TextsAreNotIO, RaisesItsOwn
<1>4. CASE KeysEnd
      BY <1>0, <1>4, ErrorType
         DEF KeysEnd, ErrorsTypeOK, SocketErrorCloses, OnlyStrays, Stray, TextsAreNotIO,
             RaisesItsOwn
<1>5. CASE Sent
      BY <1>0, <1>5
         DEF Sent, Gives, ErrorsTypeOK, SocketErrorCloses, OnlyStrays, TextsAreNotIO,
             RaisesItsOwn
<1>6. ASSUME EngineFails(Error("io"), m_error), connected' = FALSE, rest' \in BOOLEAN,
             UNCHANGED <<call, peer, m_error, wordless>>
      PROVE  ErrorsInv'
  <2>1. /\ Error("io") \in Errors /\ Error("io") # NoError
        /\ Error("io").call = call.n /\ Error("io").kind = call.kind
        /\ Error("io").what = "io"
        BY <1>0, ErrorType
  <2>2. ErrorsTypeOK'
        BY <1>0, <1>6, <2>1, FailureTypes
  <2>3. SocketErrorCloses' /\ TextsAreNotIO'
        BY <1>6 DEF SocketErrorCloses, TextsAreNotIO
  <2>4. Error("failed").call = call.n
        BY <1>0, ErrorType
  <2>5. OnlyStrays'
        BY <1>6, <2>1, WaysToFail DEF OnlyStrays, Stray
  <2>6. RaisesItsOwn'
        BY <1>6, <2>1, <2>4, WaysToFail DEF RaisesItsOwn
  <2>. QED BY <2>2, <2>3, <2>5, <2>6
<1>7. CASE IOError
      BY <1>6, <1>7 DEF IOError, ErrorsTypeOK
<1>8. ASSUME NEW what \in {"reset", "server"}, EngineFails(pending, Error(what)),
             m_error' = Error(what), UNCHANGED <<call, connected, peer, rest, wordless>>
      PROVE  ErrorsInv'
  <2>1. Error(what) \in Errors /\ Error(what).call = call.n /\ Error(what).what = what
        BY <1>0, ErrorType
  <2>2. ErrorsTypeOK'
        BY <1>0, <1>8, <2>1, FailureTypes DEF ErrorsTypeOK
  <2>3. SocketErrorCloses' /\ TextsAreNotIO'
    <3>1. Error("failed").what = "failed"
          BY <1>0, ErrorType
    <3>. QED BY <1>0, <1>8, <2>1, <3>1, WaysToFail DEF SocketErrorCloses, TextsAreNotIO
  <2>4. OnlyStrays' /\ RaisesItsOwn'
        BY <1>8, <2>1, FailureTells DEF OnlyStrays
  <2>. QED BY <2>2, <2>3, <2>4
<1>9. CASE Reset
      BY <1>8, <1>9 DEF Reset
<1>10. CASE ErrorLine
       BY <1>8, <1>10 DEF ErrorLine
<1>11. CASE ShortLine
  <2>1. /\ FailsFlatly /\ rest' \in BOOLEAN
        /\ UNCHANGED <<call, connected, peer, m_error, wordless>>
        BY <1>11 DEF ShortLine, ErrorsTypeOK
  <2>. QED BY <1>0, <2>1, ErrorType
           DEF FailsFlatly, Raises, ErrorsTypeOK, SocketErrorCloses, OnlyStrays,
               TextsAreNotIO, RaisesItsOwn
<1>12. ASSUME EngineFails(pending, m_error), rest' \in BOOLEAN, wordless' = TRUE,
              connected' = connected \/ connected' = FALSE,
              UNCHANGED <<call, peer, m_error>>
       PROVE  ErrorsInv'
  <2>1. ErrorsTypeOK'
        BY <1>0, <1>12, FailureTypes DEF ErrorsTypeOK
  <2>2. SocketErrorCloses' /\ TextsAreNotIO'
    <3>1. Error("failed").what = "failed"
          BY <1>0, ErrorType
    <3>. QED BY <1>0, <1>12, <3>1, WaysToFail DEF SocketErrorCloses, TextsAreNotIO
  <2>3. OnlyStrays' /\ RaisesItsOwn'
        BY <1>12, FailureTells DEF OnlyStrays
  <2>. QED BY <2>1, <2>2, <2>3
<1>13. CASE RefusedValue
       BY <1>12, <1>13 DEF RefusedValue
<1>14. CASE ValueCut
  <2>1. CASE EngineFails(Error("io"), m_error) /\ UNCHANGED wordless
        BY <1>6, <1>14, <2>1 DEF ValueCut
  <2>2. CASE EngineFails(pending, m_error) /\ wordless' = TRUE
        BY <1>12, <1>14, <2>2 DEF ValueCut
  <2>. QED BY <1>14, <2>1, <2>2 DEF ValueCut
<1>15. CASE Answered
       BY <1>0, <1>15
          DEF Answered, LineRead, Gives, ErrorsTypeOK, SocketErrorCloses, OnlyStrays,
              TextsAreNotIO, RaisesItsOwn
<1>16. CASE PeerCloses \/ Disconnect \/ UNCHANGED vars
  <2>1. /\ UNCHANGED <<pc, call, rest, pending, m_error, told, wordless>>
        /\ connected' = connected \/ connected' = FALSE
        /\ peer' = peer \/ peer' = FALSE
        BY <1>16 DEF PeerCloses, Disconnect, vars
  <2>2. ErrorsTypeOK'
        BY <2>1 DEF ErrorsTypeOK
  <2>3. connected' => connected
        BY <2>1
  <2>. QED BY <2>1, <2>2, <2>3 DEF SocketErrorCloses, OnlyStrays, TextsAreNotIO, RaisesItsOwn
<1>17. ASSUME Begin("command", TRUE) PROVE ErrorsInv'
       BY <1>3, <1>17 DEF Begin, Begins
<1>. QED BY <1>1, <1>2, <1>3, <1>4, <1>5, <1>7, <1>9, <1>10, <1>11, <1>13, <1>14, <1>15,
            <1>16, <1>17
         DEF Next

LEMMA ErrorsAlways == Spec => []ErrorsInv
<1>. QED BY ErrorsInit, ErrorsStep, PTL DEF Spec

(***************************************************************************)
(* An exception of the socket is told only by a client that is closed,     *)
(* after any number of calls.                                              *)
(***************************************************************************)
THEOREM SocketErrorsClose == Spec => []SocketErrorCloses
<1>1. ErrorsInv => SocketErrorCloses
      BY DEF ErrorsInv, Tells
<1>. QED BY <1>1, ErrorsAlways, PTL

(***************************************************************************)
(* A call that fails tells its own error, or one of the few that           *)
(* RaisesItsOwn names, whatever the calls before it have left behind.      *)
(***************************************************************************)
THEOREM ErrorsAreOwn == Spec => []RaisesItsOwn
<1>1. ErrorsInv => RaisesItsOwn
      BY DEF ErrorsInv, Tells
<1>. QED BY <1>1, ErrorsAlways, PTL
=============================================================================
