------------------------------- MODULE MCClient -------------------------------
(***************************************************************************)
(* Small instances of the client for TLC: the replies of a server.         *)
(***************************************************************************)
EXTENDS ClientAnswers, ClientRefinement

CONSTANTS k1, k2

MCKeys == {k1, k2}

OneLine(w) == [toks |-> <<Tok(w), Tok("CRLF")>>, starts |-> {1}]

EndLine == <<Tok("END"), Tok("CRLF")>>

ValueOf(k, data) ==
    <<ValueTok(k, Len(data)), Tok("CRLF")>> \o data \o <<Tok("CRLF")>>

\* The reply of one value, and of two, and what stats answers.
OneValue(data) ==
    [toks |-> ValueOf(k1, data) \o EndLine, starts |-> {1, 4 + Len(data)}]

TwoValues(d1, d2) ==
    [toks   |-> ValueOf(k1, d1) \o ValueOf(k2, d2) \o EndLine,
     starts |-> {1, 4 + Len(d1), 7 + Len(d1) + Len(d2)}]

StatReply ==
    [toks |-> <<Tok("STAT"), Tok("CRLF"), Tok("STAT"), Tok("CRLF")>> \o EndLine,
     starts |-> {1, 3, 5}]

\* A value may spell lines of the protocol: the end of a reply, a VALUE line
\* without a length, and the VALUE line of a value that never comes.
BrokenLine  == <<Tok("BROKEN"), Tok("END"), Tok("CRLF")>>
SpelledLine == <<ValueTok(k2, 9), Tok("CRLF")>>

MCReplies(op) ==
    CASE op = "store"   -> {OneLine("RESULT")}
      [] op = "line"    -> {OneLine("RESULT"), OneLine("ERROR")}
      [] op = "version" -> {OneLine("VERSION")}
      [] op = "stats"   -> {StatReply}
      [] op = "get"     -> {OneLine("END"), OneValue(EndLine), OneValue(SpelledLine)}
      [] op = "multi"   -> {OneLine("ERROR"), TwoValues(BrokenLine, <<Tok("x")>>)}

\* As above, with an error line after a value, a value that is empty and keys
\* not found.
ValueThenError ==
    [toks |-> ValueOf(k1, <<>>) \o <<Tok("ERROR"), Tok("CRLF")>>, starts |-> {1, 4}]

MoreReplies(op) ==
    MCReplies(op) \cup
        CASE op = "get"   -> {ValueThenError, OneValue(<<>>)}
          [] op = "multi" -> {ValueThenError, OneLine("END")}
          [] OTHER        -> {OneLine("ERROR")}

\* One kind of reply to each method, and of get() one of each value that spells
\* a line.
FewReplies(op) ==
    CASE op = "store"   -> {OneLine("RESULT")}
      [] op = "line"    -> {OneLine("RESULT")}
      [] op = "version" -> {OneLine("VERSION")}
      [] op = "stats"   -> {StatReply}
      [] op = "get"     -> {OneValue(EndLine), OneValue(SpelledLine)}
      [] op = "multi"   -> {TwoValues(BrokenLine, <<Tok("x")>>)}
=============================================================================
