--------------------------- MODULE ClientRefinement ---------------------------
(***************************************************************************)
(* A umemcache.Client implements RemoteCall: what its program sees of its  *)
(* buffers, its partial sends and its short reads are calls that make one  *)
(* request each and return its answer.                                     *)
(***************************************************************************)
EXTENDS ClientProperties

\* The VALUE line of a reply with i - 1 others before it.
NthValueLine(reply, i) ==
    CHOOSE p \in ValueLines(reply) : Before(p, ValueLines(reply)) = i - 1

\* The values of a reply, in the order of their lines, each as its tokens.
ValueAt(reply, p) == SubSeq(reply.toks, p + 2, p + 1 + reply.toks[p].n)

ValuesOf(reply) ==
    [i \in 1 .. Cardinality(ValueLines(reply)) |-> ValueAt(reply, NthValueLine(reply, i))]

IsFailure(reply) == \E p \in reply.starts : reply.toks[p].w = "ERROR"

\* What each method makes of the server's answer to it.
AnswerOutcome(op, reply) ==
    IF IsFailure(reply) THEN [kind |-> "raise", val |-> <<>>]
    ELSE [kind |-> "value",
          val  |-> CASE op = "get"   -> SubSeq(ValuesOf(reply), 1,
                                               IF ValueLines(reply) = {} THEN 0 ELSE 1)
                     [] op = "multi" -> ValuesOf(reply)
                     [] OTHER        -> SubSeq(reply.toks, 1, 1)]

(***************************************************************************)
(* The refinement mapping.  Of what a call gives to the program the stamps *)
(* are left out, and of a value the key it was filed under.                *)
(***************************************************************************)
WordsIn(units) == [i \in DOMAIN units |-> units[i].tok]

SeenOutcome ==
    [kind |-> outcome.kind,
     val  |-> IF call.op \in {"get", "multi", "stats"}
              THEN [i \in DOMAIN outcome.val |-> WordsIn(outcome.val[i].data)]
              ELSE WordsIn(outcome.val)]

Phase == IF pc = "idle" THEN "idle" ELSE IF pc = "send" THEN "begun" ELSE "sent"

Promise == INSTANCE RemoteCall WITH
    Operations <- Ops,
    Answers    <- Replies,
    Outcome    <- AnswerOutcome,
    phase      <- Phase,
    outcome    <- SeenOutcome,
    open       <- prv,
    link       <- sock,
    queue      <- toServer,
    done       <- served

(***************************************************************************)
(* Whatever the cuts of the stream, the timeouts, the failures in the      *)
(* middle of a send or of a reply and the peers that close, every step of  *)
(* a client is a step of RemoteCall or no step of it.                      *)
(***************************************************************************)
KeepsItsPromise == Promise!Spec

\* Besides the invariants of the client itself: a call that runs has given
\* nothing to the program, and no request is spoilt by a get_multi() of bad keys.
SeenInv ==
    /\ pc # "idle" => outcome = [kind |-> "none", val |-> <<>>]
    /\ ~m_writer.stem
    /\ \A i \in 1 .. Len(m_writer.reqs) : m_writer.reqs[i].clean
    /\ \A i \in 1 .. Len(toServer) : toServer[i].clean
=============================================================================
