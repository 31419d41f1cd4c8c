---------------------------- MODULE ReplyStream -----------------------------
(***************************************************************************)
(* What a memcached server may answer, as the client's code takes it to    *)
(* be.  The server is not part of the repository: its replies are a        *)
(* constant of the model, and WellFormed states what lib/Client.cpp relies *)
(* on when it reads them.                                                  *)
(*                                                                         *)
(* A token stands for the bytes of one word of a reply: the word that      *)
(* opens a line together with what follows it on that line, a piece of a   *)
(* value, or CRLF.  The token of a VALUE line carries the key and the      *)
(* length of the value, everything getReadNext() parses out of the line.   *)
(***************************************************************************)
EXTENDS Integers, Sequences

CONSTANTS Keys,        \* the keys a program asks for
          NoKey,       \* the key field of a token that names no key
          Replies(_)   \* Replies(op): the replies a server may give to an op

ASSUME KeyAssumption == NoKey \notin Keys

\* The operations a client waits for a reply to, by how it reads the reply:
\* store and line take one line, get and multi a list of values.
Ops == {"store", "line", "version", "stats", "get", "multi"}

(***************************************************************************)
(* ERROR stands for the three prefixes of an error line, RESULT for any    *)
(* one-line answer (STORED, DELETED, a number ...), BROKEN for VALUE and   *)
(* its space on a line that goes on, with the tokens after it, as no VALUE *)
(* line does, and x for bytes of a value; a value may also contain the     *)
(* bytes of any other token.                                               *)
(***************************************************************************)
Words == {"RESULT", "ERROR", "VERSION", "VALUE", "BROKEN", "STAT", "END", "x", "CRLF"}

Tokens == [w : Words, key : Keys \cup {NoKey}, n : Nat]

Tok(word) == [w |-> word, key |-> NoKey, n |-> 0]
ValueTok(k, len) == [w |-> "VALUE", key |-> k, n |-> len]

\* A unit of the stream: a token and the call whose request it answers.
Units == [call : Nat, tok : Tokens]

Stamp(ts, c) == [i \in 1 .. Len(ts) |-> [call |-> c, tok |-> ts[i]]]

(***************************************************************************)
(* A reply is a sequence of tokens and the set of positions at which its   *)
(* lines start.  A line is one token and CRLF; a VALUE line is followed by *)
(* exactly n tokens of value, whatever they are, and CRLF, and no line     *)
(* starts among them.  Only a VALUE in the reply to a get, or a STAT in    *)
(* the reply to stats, is followed by more; an error line may come in the  *)
(* place of any other.                                                     *)
(***************************************************************************)
IsLine(ts, p) == /\ p + 1 \in 2 .. Len(ts)
                 /\ ts[p].w # "CRLF"
                 /\ ts[p + 1].w = "CRLF"

LastWords(op) ==
    {"ERROR"} \cup CASE op \in {"store", "line"}         -> {"RESULT"}
                     [] op = "version"                   -> {"VERSION"}
                     [] op \in {"stats", "get", "multi"} -> {"END"}

\* The line after a VALUE line and its value.
AfterValue(r, p) == p + 3 + r.toks[p].n

Follows(op, r, p) ==
    \/ /\ op \in {"get", "multi"} /\ r.toks[p].w = "VALUE"
       /\ AfterValue(r, p) \in r.starts
       /\ \A q \in r.starts : q <= p \/ AfterValue(r, p) <= q
    \/ op = "stats" /\ r.toks[p].w = "STAT" /\ p + 2 \in r.starts
    \/ r.toks[p].w \in LastWords(op) /\ p + 1 = Len(r.toks)

WellFormed(op, r) ==
    /\ r \in [toks : Seq(Tokens), starts : SUBSET (Nat \ {0})]
    /\ 1 \in r.starts
    /\ \A p \in r.starts : IsLine(r.toks, p) /\ Follows(op, r, p)

ASSUME ReplyAssumption ==
    \A op \in Ops : \A r \in Replies(op) : WellFormed(op, r)
=============================================================================
