--------------------------- MODULE LifecycleProofs ---------------------------
(***************************************************************************)
(* Nothing of a client is used after it was freed, and its socket is given *)
(* up exactly once: the properties of Lifecycle, for any number of threads *)
(* and of calls to __init__.                                               *)
(***************************************************************************)
EXTENDS Lifecycle, FiniteSetTheorems, TLAPS

-----------------------------------------------------------------------------
(***************************************************************************)
(* The inductive invariant: the count of an object is the number of its    *)
(* holders.  A second __init__ drops what the fields held without giving   *)
(* it up, and the host is counted once too often from the start: then the  *)
(* count is larger, and never smaller.                                     *)
(***************************************************************************)
Count(b) == IF b THEN 1 ELSE 0

SockCalls(o) == Cardinality({ t \in Threads : calls[t].sock = o })
HostCalls(o) == Cardinality({ t \in Threads : calls[t].host = o })

SockHolders(o) == Count(sock = o) + Count(o \in heldSock) + SockCalls(o)
HostHolders(o) == Count(host = o) + Count(o \in heldHost) + HostCalls(o)

CountedAt(o) ==
    /\ sockRefs[o] >= SockHolders(o)
    /\ ~odd => sockRefs[o] = SockHolders(o)
    /\ hostRefs[o] >= HostHolders(o)

Counted == \A o \in Objects : CountedAt(o)

\* Nobody has an object that __init__ has not made yet.
OnlyMade ==
    /\ sock <= made /\ host <= made
    /\ heldSock \subseteq 1 .. made /\ heldHost \subseteq 1 .. made
    /\ \A t \in Threads : calls[t].sock <= made /\ calls[t].host <= made

\* Which of the fields are null together.
FieldsAgree ==
    /\ \A t \in Threads : calls[t] # NoCall => calls[t].sock # NULL
    /\ client => host # NULL
    /\ stage \in {"none", "new"} => sock = NULL
    /\ ~odd => /\ prv <=> sock # NULL
               /\ stage = "ready" => client
               /\ stage # "crashed"

LifeInv == TypeOK /\ OnlyMade /\ FieldsAgree /\ Counted

-----------------------------------------------------------------------------
(***************************************************************************)
(* Counting.                                                               *)
(***************************************************************************)
LEMMA Recount ==
    ASSUME NEW S \in SUBSET Threads, NEW T \in SUBSET Threads, NEW t \in Threads,
           S \ {t} = T \ {t}
    PROVE  /\ Cardinality(S) \in Nat /\ Cardinality(T) \in Nat
           /\ t \in S => Cardinality(S) >= 1
           /\ Cardinality(T) = Cardinality(S) + Count(t \in T) - Count(t \in S)
<1> DEFINE R == S \ {t}
<1>1. IsFiniteSet(S) /\ IsFiniteSet(T) /\ IsFiniteSet(R)
      BY LifecycleAssumption, FS_Subset
<1>2. Cardinality(S) \in Nat /\ Cardinality(T) \in Nat /\ Cardinality(R) \in Nat
      BY <1>1, FS_CardinalityType
<1>3. Cardinality(R) = IF t \in S THEN Cardinality(S) - 1 ELSE Cardinality(S)
      BY <1>1, FS_RemoveElement
<1>4. Cardinality(R) = IF t \in T THEN Cardinality(T) - 1 ELSE Cardinality(T)
  <2>1. R = T \ {t}
        OBVIOUS
  <2>. QED BY <1>1, <2>1, FS_RemoveElement
<1>. QED BY <1>2, <1>3, <1>4 DEF Count

LEMMA CallsCounted ==
    ASSUME NEW o
    PROVE  /\ SockCalls(o) \in Nat /\ HostCalls(o) \in Nat
           /\ \A t \in Threads : /\ calls[t].sock = o => SockCalls(o) >= 1
                                 /\ calls[t].host = o => HostCalls(o) >= 1
           /\ (\A t \in Threads : calls[t].sock # o) => SockCalls(o) = 0
           /\ (\A t \in Threads : calls[t].host # o) => HostCalls(o) = 0
<1> DEFINE S == { t \in Threads : calls[t].sock = o }
           H == { t \in Threads : calls[t].host = o }
<1>1. IsFiniteSet(S) /\ IsFiniteSet(H)
      BY LifecycleAssumption, FS_Subset
<1>2. Cardinality(S) \in Nat /\ Cardinality(H) \in Nat
      BY <1>1, FS_CardinalityType
<1>3. (Cardinality(S) = 0 <=> S = {}) /\ (Cardinality(H) = 0 <=> H = {})
      BY <1>1, FS_EmptySet
<1>4. \A t \in Threads : /\ calls[t].sock = o => S # {}
                         /\ calls[t].host = o => H # {}
      OBVIOUS
<1>5. /\ (\A t \in Threads : calls[t].sock # o) => S = {}
      /\ (\A t \in Threads : calls[t].host # o) => H = {}
      OBVIOUS
<1>6. SockCalls(o) = Cardinality(S) /\ HostCalls(o) = Cardinality(H)
      BY DEF SockCalls, HostCalls
<1> HIDE DEF S, H
<1>. QED BY <1>2, <1>3, <1>4, <1>5, <1>6

\* A thread begins a call, or ends one.
LEMMA CallChanges ==
    ASSUME NEW t \in Threads, \A u \in Threads \ {t} : calls'[u] = calls[u], NEW o
    PROVE  /\ SockCalls(o)' = SockCalls(o) + Count(calls'[t].sock = o) - Count(calls[t].sock = o)
           /\ HostCalls(o)' = HostCalls(o) + Count(calls'[t].host = o) - Count(calls[t].host = o)
<1> DEFINE S == { u \in Threads : calls[u].sock = o }
           T == { u \in Threads : calls'[u].sock = o }
           H == { u \in Threads : calls[u].host = o }
           I == { u \in Threads : calls'[u].host = o }
<1>2. /\ S \ {t} = T \ {t} /\ H \ {t} = I \ {t}
      /\ (t \in S <=> calls[t].sock = o) /\ (t \in T <=> calls'[t].sock = o)
      /\ (t \in H <=> calls[t].host = o) /\ (t \in I <=> calls'[t].host = o)
      OBVIOUS
<1>3. /\ Cardinality(T) = Cardinality(S) + Count(t \in T) - Count(t \in S)
      /\ Cardinality(I) = Cardinality(H) + Count(t \in I) - Count(t \in H)
  <2>1. S \in SUBSET Threads /\ T \in SUBSET Threads /\ H \in SUBSET Threads /\ I \in SUBSET Threads
        OBVIOUS
  <2> HIDE DEF S, T, H, I
  <2>. QED BY <1>2, <2>1, Recount
<1>4. /\ SockCalls(o)' = Cardinality(T) /\ SockCalls(o) = Cardinality(S)
      /\ HostCalls(o)' = Cardinality(I) /\ HostCalls(o) = Cardinality(H)
      BY DEF SockCalls, HostCalls
<1> HIDE DEF S, T, H, I
<1>. QED BY <1>2, <1>3, <1>4 DEF Count

LEMMA SameCalls ==
    ASSUME UNCHANGED calls, NEW o
    PROVE  SockCalls(o)' = SockCalls(o) /\ HostCalls(o)' = HostCalls(o)
BY DEF SockCalls, HostCalls

-----------------------------------------------------------------------------
(***************************************************************************)
(* The steps.  What has a holder has a count above zero.                   *)
(***************************************************************************)
LEMMA HeldIsCounted ==
    ASSUME LifeInv, NEW o \in Objects
    PROVE  /\ sockRefs[o] \in Nat /\ hostRefs[o] \in Nat
           /\ sock = o \/ o \in heldSock => sockRefs[o] >= 1
           /\ host = o \/ o \in heldHost => hostRefs[o] >= 1
           /\ \A t \in Threads :
                 /\ calls[t].sock = o => sockRefs[o] >= 1
                 /\ calls[t].sock = o /\ sock = o => sockRefs[o] >= 2
                 /\ calls[t].host = o => hostRefs[o] >= 1
<1>1. /\ sockRefs[o] \in Nat /\ hostRefs[o] \in Nat
      /\ sockRefs[o] >= SockHolders(o) /\ hostRefs[o] >= HostHolders(o)
      BY DEF LifeInv, TypeOK, Counted, CountedAt
<1>. QED BY <1>1, CallsCounted DEF SockHolders, HostHolders, Count

\* Steps that leave every field, every count and every call alone.
LEMMA QuietLife ==
    ASSUME LifeInv, UNCHANGED <<fields, heap, odd, calls>>,
           outcome' \in {"ok", "raise"},
           \/ stage' = stage
           \/ stage = "none" /\ stage' = "new"
           \/ stage' = "crashed" /\ odd
    PROVE  LifeInv'
<1> USE DEF LifeInv, fields, heap
<1>1. TypeOK' /\ OnlyMade'
      BY DEF TypeOK, OnlyMade
<1>2. FieldsAgree'
      BY DEF FieldsAgree, TypeOK
<1>3. Counted'
      BY SameCalls DEF Counted, CountedAt, SockHolders, HostHolders
<1>. QED BY <1>1, <1>2, <1>3

\* A null pointer is used only by a client that is odd.
LEMMA CrashLife ==
    ASSUME LifeInv, Crash, odd
    PROVE  LifeInv'
BY QuietLife DEF Crash, LifeInv, TypeOK

LEMMA NullIsOdd ==
    ASSUME LifeInv, DestroysNull \/ (stage = "ready" /\ ~client)
    PROVE  odd
BY DEF LifeInv, FieldsAgree, DestroysNull

LEMMA InitRaisesLife ==
    ASSUME LifeInv, InitRaises
    PROVE  LifeInv'
<1>0. /\ stage \in {"new", "ready"} /\ stage' \in {"gone", "ready"}
      /\ stage = "new" <=> stage' = "gone"
      /\ client' = FALSE /\ host' = NULL /\ outcome' = "raise"
      /\ UNCHANGED <<prv, sock, made, sockRefs, hostRefs, heldSock, heldHost, calls>>
      BY DEF InitRaises, MayInit, heap
<1>1. odd' = (odd \/ stage = "ready")
      BY DEF InitRaises
<1>2. odd' \in BOOLEAN /\ (odd => odd') /\ (stage = "ready" => odd')
      BY <1>1, Zenon
<1>3. TypeOK'
      BY <1>0, <1>2 DEF LifeInv, TypeOK
<1>4. OnlyMade'
  <2>1. host' <= made'
        BY <1>0 DEF LifeInv, TypeOK, NULL
  <2>. QED BY <1>0, <2>1 DEF LifeInv, OnlyMade
<1>5. FieldsAgree'
      BY <1>0, <1>2 DEF LifeInv, TypeOK, FieldsAgree
<1>6. Counted'
  <2> SUFFICES ASSUME NEW o \in Objects PROVE CountedAt(o)'
      BY DEF Counted
  <2>1. CountedAt(o) /\ hostRefs[o] \in Nat
        BY DEF LifeInv, Counted, TypeOK
  <2>2. SockHolders(o)' = SockHolders(o)
        BY <1>0, SameCalls DEF SockHolders
  <2>3. HostHolders(o)' = Count(o \in heldHost) + HostCalls(o)
        BY <1>0, SameCalls DEF HostHolders, Objects, NULL, Count
  <2>4. hostRefs[o] >= HostHolders(o)'
        BY <2>1, <2>3, CallsCounted DEF CountedAt, HostHolders, Count
  <2>. QED BY <1>0, <1>2, <2>1, <2>2, <2>4 DEF CountedAt
<1>. QED BY <1>3, <1>4, <1>5, <1>6 DEF LifeInv

LEMMA InitReturnsLife ==
    ASSUME LifeInv, NEW created \in BOOLEAN, InitReturns(created)
    PROVE  LifeInv'
<1> USE DEF LifeInv, InitReturns, MayInit
<1> DEFINE n == made + 1
<1>1. made \in Nat /\ MaxInits \in Nat /\ n \in Objects
      BY LifecycleAssumption DEF TypeOK, Objects
<1>2. TypeOK'
  <2>1. odd' \in BOOLEAN
        BY Zenon
  <2>2. /\ made' \in 0 .. MaxInits /\ host' \in Objects /\ sock' \in Objects \cup {NULL}
        BY <1>1 DEF TypeOK, Objects
  <2>3. sockRefs' \in [Objects -> Nat] /\ hostRefs' \in [Objects -> Nat]
        BY DEF TypeOK
  <2>. QED BY <2>1, <2>2, <2>3 DEF TypeOK
<1>3. OnlyMade'
  <2>1. made' = made + 1 /\ host' <= made' /\ sock' <= made'
        BY <1>1 DEF NULL
  <2>2. 1 .. made \subseteq 1 .. made'
        BY <1>1, <2>1
  <2>3. \A t \in Threads : calls[t].sock <= made' /\ calls[t].host <= made'
    <3> SUFFICES ASSUME NEW t \in Threads
                 PROVE  calls[t].sock <= made' /\ calls[t].host <= made'
        OBVIOUS
    <3>1. calls[t].sock \in Int /\ calls[t].host \in Int
          BY DEF TypeOK, Objects, NULL
    <3>. QED BY <1>1, <2>1, <3>1 DEF OnlyMade
  <2>. QED BY <2>1, <2>2, <2>3 DEF OnlyMade
<1>4. FieldsAgree'
  <2>1. /\ stage' = "ready" /\ client' = TRUE /\ prv' = TRUE /\ host' # NULL
        /\ calls' = calls
        /\ created => sock' # NULL
        BY <1>1 DEF NULL
  <2>2. ~created => odd'
        BY Zenon
  <2>. QED BY <2>1, <2>2 DEF FieldsAgree
<1>5. Counted'
  <2> SUFFICES ASSUME NEW o \in Objects PROVE CountedAt(o)'
      BY DEF Counted
  <2>1. /\ sockRefs[o] >= SockHolders(o)
        /\ ~odd => sockRefs[o] = SockHolders(o)
        /\ hostRefs[o] >= HostHolders(o)
        /\ sockRefs[o] \in Nat /\ hostRefs[o] \in Nat
        BY DEF Counted, CountedAt, TypeOK
  <2>2. SockCalls(o)' = SockCalls(o) /\ HostCalls(o)' = HostCalls(o)
        BY SameCalls
  <2>3. CASE o = n
    <3>1. /\ \A t \in Threads : calls[t].sock # o /\ calls[t].host # o
          /\ o \notin heldSock /\ o \notin heldHost /\ sock # o /\ host # o
      <4>1. ~(n <= made) /\ n \notin 1 .. made
            BY <1>1
      <4>. QED BY <2>3, <4>1 DEF OnlyMade
    <3>2. SockCalls(o) = 0 /\ HostCalls(o) = 0
          BY <3>1, CallsCounted
    <3>3. /\ sockRefs'[o] = IF created THEN 1 ELSE 0
          /\ hostRefs'[o] = 2
          BY <2>3 DEF TypeOK
    <3>4. /\ SockHolders(o)' = Count(sock' = o)
          /\ HostHolders(o)' = 1
      <4>1. /\ heldSock' = heldSock /\ heldHost' = heldHost /\ host' = o
            /\ SockCalls(o)' = 0 /\ HostCalls(o)' = 0
            BY <2>2, <2>3, <3>2
      <4>2. Count(sock' = o) \in {0, 1}
            BY DEF Count
      <4>. QED BY <3>1, <4>1, <4>2 DEF SockHolders, HostHolders, Count
    <3>5. Count(sock' = o) = IF created THEN 1 ELSE 0
          BY <1>1, <2>3 DEF Count, NULL
    <3>. QED BY <3>3, <3>4, <3>5 DEF CountedAt
  <2>4. CASE o # n
    <3>1. sockRefs'[o] = sockRefs[o] /\ hostRefs'[o] = hostRefs[o]
          BY <2>4 DEF TypeOK
    <3>2. sock' # o /\ host' # o
          BY <2>4 DEF NULL, Objects
    <3>3. /\ SockHolders(o)' = Count(o \in heldSock) + SockCalls(o)
          /\ HostHolders(o)' = Count(o \in heldHost) + HostCalls(o)
          BY <2>2, <3>2 DEF SockHolders, HostHolders, Count
    <3>4. ~odd' => sock = NULL
          BY DEF FieldsAgree, TypeOK
    <3>5. sock = NULL => SockHolders(o) = Count(o \in heldSock) + SockCalls(o)
          BY CallsCounted DEF SockHolders, Count, NULL, Objects
    <3>. QED BY <2>1, <3>1, <3>3, <3>4, <3>5, CallsCounted
             DEF CountedAt, SockHolders, HostHolders, Count, TypeOK
  <2>. QED BY <2>3, <2>4
<1>. QED BY <1>2, <1>3, <1>4, <1>5

-----------------------------------------------------------------------------
(***************************************************************************)
(* The methods.  Each gains or gives up a reference for each holder that   *)
(* comes or goes.                                                          *)
(***************************************************************************)
Balanced(o) ==
    /\ sockRefs'[o] - SockHolders(o)' = sockRefs[o] - SockHolders(o)
    /\ hostRefs'[o] - HostHolders(o)' = hostRefs[o] - HostHolders(o)

LEMMA HoldersAreNat ==
    ASSUME NEW o
    PROVE  SockHolders(o) \in Nat /\ HostHolders(o) \in Nat
BY CallsCounted DEF SockHolders, HostHolders, Count

LEMMA HoldersStayNat ==
    ASSUME NEW o
    PROVE  SockHolders(o)' \in Nat /\ HostHolders(o)' \in Nat
<1> DEFINE S == { t \in Threads : calls'[t].sock = o }
           H == { t \in Threads : calls'[t].host = o }
<1>1. IsFiniteSet(S) /\ IsFiniteSet(H)
      BY LifecycleAssumption, FS_Subset
<1>2. SockCalls(o)' \in Nat /\ HostCalls(o)' \in Nat
      BY <1>1, FS_CardinalityType DEF SockCalls, HostCalls
<1>3. /\ Count((sock = o)') \in Nat /\ Count((o \in heldSock)') \in Nat
      /\ Count((host = o)') \in Nat /\ Count((o \in heldHost)') \in Nat
      BY DEF Count
<1>. QED BY <1>2, <1>3 DEF SockHolders, HostHolders

LEMMA BalancedLife ==
    ASSUME LifeInv, UNCHANGED <<stage, client, host, made, odd>>,
           outcome' \in {"ok", "raise"},
           sockRefs' \in [Objects -> Nat], hostRefs' \in [Objects -> Nat],
           UNCHANGED <<prv, sock>> \/ (prv' = FALSE /\ sock' = NULL),
           heldSock' \subseteq heldSock \cup ({sock} \ {NULL}),
           heldHost' \subseteq heldHost \cup ({host} \ {NULL}),
           calls' \in [Threads -> [sock : Objects \cup {NULL}, host : Objects \cup {NULL}]],
           \A t \in Threads : \/ calls'[t] \in {calls[t], NoCall}
                              \/ /\ calls'[t].sock = sock /\ calls'[t].host \in {NULL, host}
                                 /\ sock # NULL,
           \A o \in Objects : Balanced(o)
    PROVE  LifeInv'
<1> USE DEF LifeInv
<1>0. NoCall.sock = NULL /\ NoCall.host = NULL
      BY DEF NoCall
<1>1. TypeOK'
  <2>1. sock' \in Objects \cup {NULL} /\ prv' \in BOOLEAN
        BY DEF TypeOK
  <2>2. heldSock' \subseteq Objects /\ heldHost' \subseteq Objects
        BY DEF TypeOK
  <2>. QED BY <2>1, <2>2 DEF TypeOK
<1>2. OnlyMade'
  <2>1. made \in Nat /\ sock' <= made /\ host <= made /\ NULL <= made
        BY DEF TypeOK, OnlyMade, NULL
  <2>2. /\ sock # NULL => sock \in 1 .. made
        /\ host # NULL => host \in 1 .. made
        BY DEF TypeOK, OnlyMade, Objects, NULL
  <2>3. heldSock' \subseteq 1 .. made /\ heldHost' \subseteq 1 .. made
        BY <2>2 DEF OnlyMade
  <2>4. \A t \in Threads : calls'[t].sock <= made /\ calls'[t].host <= made
        BY <1>0, <2>1 DEF OnlyMade
  <2>. QED BY <2>1, <2>3, <2>4 DEF OnlyMade
<1>3. FieldsAgree'
  <2>1. \A t \in Threads : calls'[t] # NoCall => calls'[t].sock # NULL
        BY <1>0 DEF FieldsAgree
  <2>2. ~odd => (prv' <=> sock' # NULL)
        BY DEF FieldsAgree
  <2>. QED BY <2>1, <2>2 DEF FieldsAgree
<1>4. Counted'
  <2> SUFFICES ASSUME NEW o \in Objects PROVE CountedAt(o)'
      BY DEF Counted
  <2>1. CountedAt(o) /\ Balanced(o)
        BY DEF Counted
  <2>2. /\ sockRefs[o] \in Nat /\ hostRefs[o] \in Nat
        /\ sockRefs'[o] \in Nat /\ hostRefs'[o] \in Nat
        BY DEF TypeOK
  <2>. QED BY <2>1, <2>2, HoldersAreNat, HoldersStayNat DEF CountedAt, Balanced
<1>. QED BY <1>1, <1>2, <1>3, <1>4

\* The counts after one reference more, and after one less.
LEMMA OneMore ==
    ASSUME NEW refs \in [Objects -> Nat], NEW x \in Objects
    PROVE  /\ IncRef(refs, x) \in [Objects -> Nat]
           /\ \A o \in Objects : IncRef(refs, x)[o] = refs[o] + Count(x = o)
BY DEF IncRef, Count

LEMMA OneLess ==
    ASSUME NEW refs \in [Objects -> Nat], NEW x \in Objects, refs[x] >= 1
    PROVE  /\ DecRef(refs, x) \in [Objects -> Nat]
           /\ \A o \in Objects : DecRef(refs, x)[o] = refs[o] - Count(x = o)
BY DEF DecRef, Count

\* disconnect(), with the counts refs it finds.
LEMMA DestroysLife ==
    ASSUME LifeInv, NEW refs \in [Objects -> Nat], Destroys(refs),
           sock # NULL => refs[sock] >= 1
    PROVE  /\ sockRefs' \in [Objects -> Nat]
           /\ UNCHANGED <<prv, sock>> \/ (prv' = FALSE /\ sock' = NULL)
           /\ \A o \in Objects :
                 sockRefs'[o] = refs[o] - (Count(sock = o) - Count(sock' = o))
<1> USE DEF LifeInv
<1>1. CASE prv
  <2>1. sock \in Objects /\ sockRefs' = DecRef(refs, sock) /\ prv' = FALSE /\ sock' = NULL
        BY <1>1 DEF Destroys, DestroysNull, TypeOK
  <2>2. \A o \in Objects : Count(sock' = o) = 0
        BY <2>1 DEF Count, NULL, Objects
  <2>3. sock # NULL
        BY <2>1 DEF NULL, Objects
  <2>4. \A o \in Objects : refs[o] \in Nat /\ Count(sock = o) \in Nat
        BY DEF Count
  <2>. QED BY <2>1, <2>2, <2>3, <2>4, OneLess
<1>2. CASE ~prv
  <2>1. sockRefs' = refs /\ UNCHANGED <<prv, sock>>
        BY <1>2 DEF Destroys, TypeOK
  <2>2. \A o \in Objects : refs[o] \in Nat /\ Count(sock = o) \in Nat
        BY DEF Count
  <2>. QED BY <2>1, <2>2
<1>. QED BY <1>1, <1>2

\* The numbers that the balance of an object is made of.
LEMMA BalanceParts ==
    ASSUME LifeInv, NEW o \in Objects
    PROVE  /\ sockRefs[o] \in Nat /\ hostRefs[o] \in Nat
           /\ SockCalls(o) \in Nat /\ HostCalls(o) \in Nat
           /\ \A b : Count(b) \in Nat
BY CallsCounted DEF LifeInv, TypeOK, Count

LEMMA DisconnectLife ==
    ASSUME LifeInv, NEW t \in Threads, Disconnect(t)
    PROVE  LifeInv'
<1>1. /\ Destroys(sockRefs) /\ outcome' = "ok"
      /\ UNCHANGED <<stage, client, host, made, odd, hostRefs, heldSock, heldHost, calls>>
      BY DEF Disconnect
<1>2. /\ sockRefs' \in [Objects -> Nat]
      /\ UNCHANGED <<prv, sock>> \/ (prv' = FALSE /\ sock' = NULL)
      /\ \A o \in Objects : sockRefs'[o] = sockRefs[o] - (Count(sock = o) - Count(sock' = o))
  <2>1. sockRefs \in [Objects -> Nat]
        BY DEF LifeInv, TypeOK
  <2>2. sock # NULL => sock \in Objects /\ sockRefs[sock] >= 1
        BY HeldIsCounted DEF LifeInv, TypeOK
  <2>. QED BY <1>1, <2>1, <2>2, DestroysLife
<1>3. ASSUME NEW o \in Objects PROVE Balanced(o)
  <2>1. SockCalls(o)' = SockCalls(o) /\ HostHolders(o)' = HostHolders(o)
        BY <1>1, SameCalls DEF HostHolders
  <2>. QED BY <1>1, <1>2, <2>1, BalanceParts DEF Balanced, SockHolders
<1>4. hostRefs' \in [Objects -> Nat] /\ calls \in [Threads -> [sock : Objects \cup {NULL}, host : Objects \cup {NULL}]]
      BY <1>1 DEF LifeInv, TypeOK
<1>. QED BY <1>1, <1>2, <1>3, <1>4, BalancedLife

LEMMA ConnectBeginsLife ==
    ASSUME LifeInv, NEW t \in Threads, ConnectBegins(t)
    PROVE  LifeInv'
<1> DEFINE n == [sock |-> sock, host |-> host]
<1>1. /\ calls[t] = NoCall /\ client /\ sock # NULL
      /\ calls' = [calls EXCEPT ![t] = n]
      /\ sockRefs' = IncRef(sockRefs, sock) /\ hostRefs' = IncRef(hostRefs, host)
      /\ UNCHANGED <<stage, client, prv, sock, host, made, odd, heldSock, heldHost, outcome>>
      BY DEF ConnectBegins, Method, fields
<1>2. sock \in Objects /\ host \in Objects
      BY <1>1 DEF LifeInv, TypeOK, FieldsAgree
<1>3. /\ sockRefs' \in [Objects -> Nat] /\ hostRefs' \in [Objects -> Nat]
      /\ \A o \in Objects : /\ sockRefs'[o] = sockRefs[o] + Count(sock = o)
                            /\ hostRefs'[o] = hostRefs[o] + Count(host = o)
      BY <1>1, <1>2, OneMore DEF LifeInv, TypeOK
<1>4. ASSUME NEW o \in Objects PROVE Balanced(o)
  <2>1. Count(calls[t].sock = o) = 0 /\ Count(calls[t].host = o) = 0
        BY <1>1 DEF Count, NoCall, NULL, Objects
  <2>2. /\ SockCalls(o)' = SockCalls(o) + Count(sock = o)
        /\ HostCalls(o)' = HostCalls(o) + Count(host = o)
    <3>1. /\ SockCalls(o)' = SockCalls(o) + Count(n.sock = o) - Count(calls[t].sock = o)
          /\ HostCalls(o)' = HostCalls(o) + Count(n.host = o) - Count(calls[t].host = o)
      <4>1. calls'[t] = n /\ \A u \in Threads \ {t} : calls'[u] = calls[u]
            BY <1>1 DEF LifeInv, TypeOK
      <4>. QED BY <4>1, CallChanges
    <3>. QED BY <2>1, <3>1, BalanceParts
  <2>. QED BY <1>1, <1>3, <2>2, BalanceParts DEF Balanced, SockHolders, HostHolders
<1>5. /\ calls' \in [Threads -> [sock : Objects \cup {NULL}, host : Objects \cup {NULL}]]
      /\ \A u \in Threads : calls'[u] = IF u = t THEN n ELSE calls[u]
      BY <1>1, <1>2 DEF LifeInv, TypeOK
<1>6. outcome' \in {"ok", "raise"}
      BY <1>1 DEF LifeInv, TypeOK
<1>. QED BY <1>1, <1>3, <1>4, <1>5, <1>6, BalancedLife

LEMMA QueryBeginsLife ==
    ASSUME LifeInv, NEW t \in Threads, QueryBegins(t)
    PROVE  LifeInv'
<1> DEFINE n == [sock |-> sock, host |-> NULL]
<1>1. /\ calls[t] = NoCall /\ sock # NULL
      /\ calls' = [calls EXCEPT ![t] = n]
      /\ sockRefs' = IncRef(sockRefs, sock)
      /\ UNCHANGED <<stage, client, prv, sock, host, made, odd, hostRefs, heldSock, heldHost, outcome>>
      BY DEF QueryBegins, Method, fields
<1>2. sock \in Objects
      BY <1>1 DEF LifeInv, TypeOK
<1>3. /\ sockRefs' \in [Objects -> Nat] /\ hostRefs' \in [Objects -> Nat]
      /\ \A o \in Objects : sockRefs'[o] = sockRefs[o] + Count(sock = o)
      BY <1>1, <1>2, OneMore DEF LifeInv, TypeOK
<1>4. ASSUME NEW o \in Objects PROVE Balanced(o)
  <2>1. /\ Count(calls[t].sock = o) = 0 /\ Count(calls[t].host = o) = 0
        /\ Count(n.host = o) = 0
        BY <1>1 DEF Count, NoCall, NULL, Objects
  <2>2. /\ SockCalls(o)' = SockCalls(o) + Count(sock = o)
        /\ HostCalls(o)' = HostCalls(o)
    <3>1. /\ SockCalls(o)' = SockCalls(o) + Count(n.sock = o) - Count(calls[t].sock = o)
          /\ HostCalls(o)' = HostCalls(o) + Count(n.host = o) - Count(calls[t].host = o)
      <4>1. calls'[t] = n /\ \A u \in Threads \ {t} : calls'[u] = calls[u]
            BY <1>1 DEF LifeInv, TypeOK
      <4>. QED BY <4>1, CallChanges
    <3>. QED BY <2>1, <3>1, BalanceParts
  <2>. QED BY <1>1, <1>3, <2>2, BalanceParts DEF Balanced, SockHolders, HostHolders
<1>5. /\ calls' \in [Threads -> [sock : Objects \cup {NULL}, host : Objects \cup {NULL}]]
      /\ \A u \in Threads : calls'[u] = IF u = t THEN n ELSE calls[u]
      BY <1>1, <1>2 DEF LifeInv, TypeOK
<1>6. outcome' \in {"ok", "raise"}
      BY <1>1 DEF LifeInv, TypeOK
<1>. QED BY <1>1, <1>3, <1>4, <1>5, <1>6, BalancedLife

\* What is true of a call that is inside a method of the socket.
LEMMA CallInSocket ==
    ASSUME LifeInv, NEW t \in Threads, calls[t] # NoCall
    PROVE  /\ calls[t].sock \in Objects /\ sockRefs[calls[t].sock] >= 1
           /\ calls[t].sock = sock => sockRefs[sock] >= 2
           /\ calls[t].host # NULL => calls[t].host \in Objects /\ hostRefs[calls[t].host] >= 1
<1>1. /\ calls[t].sock \in Objects
      /\ calls[t].host # NULL => calls[t].host \in Objects
      BY DEF LifeInv, TypeOK, FieldsAgree
<1>. QED BY <1>1, HeldIsCounted

\* A call that ends gives up the objects it kept alive.
LEMMA CallEnds ==
    ASSUME LifeInv, NEW t \in Threads, calls[t] # NoCall,
           calls' = [calls EXCEPT ![t] = NoCall]
    PROVE  /\ calls' \in [Threads -> [sock : Objects \cup {NULL}, host : Objects \cup {NULL}]]
           /\ \A u \in Threads : calls'[u] \in {calls[u], NoCall}
           /\ \A o \in Objects :
                 /\ SockCalls(o)' = SockCalls(o) - Count(calls[t].sock = o)
                 /\ HostCalls(o)' = HostCalls(o) - Count(calls[t].host = o)
<1>1. NoCall.sock = NULL /\ NoCall.host = NULL
      /\ NoCall \in [sock : Objects \cup {NULL}, host : Objects \cup {NULL}]
      BY DEF NoCall
<1>2. \A o \in Objects : Count(NoCall.sock = o) = 0 /\ Count(NoCall.host = o) = 0
      BY <1>1 DEF Count, Objects, NULL
<1>3. ASSUME NEW o \in Objects
      PROVE  /\ SockCalls(o)' = SockCalls(o) - Count(calls[t].sock = o)
             /\ HostCalls(o)' = HostCalls(o) - Count(calls[t].host = o)
  <2>1. /\ SockCalls(o)' = SockCalls(o) + Count(NoCall.sock = o) - Count(calls[t].sock = o)
        /\ HostCalls(o)' = HostCalls(o) + Count(NoCall.host = o) - Count(calls[t].host = o)
    <3>1. calls'[t] = NoCall /\ \A u \in Threads \ {t} : calls'[u] = calls[u]
          BY DEF LifeInv, TypeOK
    <3>. QED BY <3>1, CallChanges
  <2>. QED BY <1>2, <2>1, BalanceParts
<1>. QED BY <1>1, <1>3 DEF LifeInv, TypeOK

LEMMA ConnectEndsLife ==
    ASSUME LifeInv, NEW t \in Threads, ConnectEnds(t)
    PROVE  LifeInv'
<1>1. /\ calls[t] # NoCall /\ calls[t].host # NULL
      /\ calls' = [calls EXCEPT ![t] = NoCall]
      /\ sockRefs' = DecRef(sockRefs, calls[t].sock)
      /\ hostRefs' = DecRef(hostRefs, calls[t].host)
      /\ outcome' \in {"ok", "raise"}
      /\ UNCHANGED <<stage, client, prv, sock, host, made, odd, heldSock, heldHost>>
      BY DEF ConnectEnds, fields
<1>2. /\ sockRefs' \in [Objects -> Nat] /\ hostRefs' \in [Objects -> Nat]
      /\ \A o \in Objects : /\ sockRefs'[o] = sockRefs[o] - Count(calls[t].sock = o)
                            /\ hostRefs'[o] = hostRefs[o] - Count(calls[t].host = o)
      BY <1>1, CallInSocket, OneLess DEF LifeInv, TypeOK
<1>3. ASSUME NEW o \in Objects PROVE Balanced(o)
  <2>1. /\ SockCalls(o)' = SockCalls(o) - Count(calls[t].sock = o)
        /\ HostCalls(o)' = HostCalls(o) - Count(calls[t].host = o)
        BY <1>1, CallEnds
  <2>2. /\ SockHolders(o)' = SockHolders(o) - Count(calls[t].sock = o)
        /\ HostHolders(o)' = HostHolders(o) - Count(calls[t].host = o)
        BY <1>1, <2>1, BalanceParts DEF SockHolders, HostHolders
  <2>. QED BY <1>2, <2>2, BalanceParts, HoldersAreNat DEF Balanced
<1>. QED BY <1>1, <1>2, <1>3, CallEnds, BalancedLife

LEMMA QueryReturnsLife ==
    ASSUME LifeInv, NEW t \in Threads, QueryReturns(t)
    PROVE  LifeInv'
<1>1. /\ calls[t] # NoCall /\ calls[t].host = NULL
      /\ calls' = [calls EXCEPT ![t] = NoCall]
      /\ sockRefs' = DecRef(sockRefs, calls[t].sock)
      /\ outcome' = "ok"
      /\ UNCHANGED <<stage, client, prv, sock, host, made, odd, hostRefs, heldSock, heldHost>>
      BY DEF QueryReturns, InQuery, fields
<1>2. /\ sockRefs' \in [Objects -> Nat] /\ hostRefs' \in [Objects -> Nat]
      /\ \A o \in Objects : sockRefs'[o] = sockRefs[o] - Count(calls[t].sock = o)
      BY <1>1, CallInSocket, OneLess DEF LifeInv, TypeOK
<1>3. ASSUME NEW o \in Objects PROVE Balanced(o)
  <2>1. Count(calls[t].host = o) = 0
        BY <1>1 DEF Count, Objects, NULL
  <2>2. SockCalls(o)' = SockCalls(o) - Count(calls[t].sock = o) /\ HostCalls(o)' = HostCalls(o)
    <3>1. /\ SockCalls(o)' = SockCalls(o) - Count(calls[t].sock = o)
          /\ HostCalls(o)' = HostCalls(o) - Count(calls[t].host = o)
          BY <1>1, CallEnds
    <3>. QED BY <2>1, <3>1, BalanceParts
  <2>3. /\ SockHolders(o)' = SockHolders(o) - Count(calls[t].sock = o)
        /\ HostHolders(o)' = HostHolders(o)
        BY <1>1, <2>2, BalanceParts DEF SockHolders, HostHolders
  <2>. QED BY <1>1, <1>2, <2>3, BalanceParts, HoldersAreNat DEF Balanced
<1>. QED BY <1>1, <1>2, <1>3, CallEnds, BalancedLife

LEMMA QueryFailsLife ==
    ASSUME LifeInv, NEW t \in Threads, QueryFails(t)
    PROVE  LifeInv'
<1> DEFINE refs == DecRef(sockRefs, calls[t].sock)
<1>1. /\ calls[t] # NoCall /\ calls[t].host = NULL
      /\ calls' = [calls EXCEPT ![t] = NoCall]
      /\ Destroys(refs)
      /\ outcome' = "raise"
      /\ UNCHANGED <<stage, client, host, made, odd, hostRefs, heldSock, heldHost>>
      BY DEF QueryFails, InQuery
<1>2. /\ refs \in [Objects -> Nat]
      /\ \A o \in Objects : refs[o] = sockRefs[o] - Count(calls[t].sock = o)
      BY <1>1, CallInSocket, OneLess DEF LifeInv, TypeOK
<1> HIDE DEF refs
<1>3. sock # NULL => refs[sock] >= 1
  <2>1. ASSUME sock # NULL PROVE sock \in Objects /\ sockRefs[sock] >= 1 /\ sockRefs[sock] \in Nat
        BY <2>1, HeldIsCounted DEF LifeInv, TypeOK
  <2>2. calls[t].sock = sock => sockRefs[sock] >= 2
        BY <1>1, CallInSocket
  <2>. QED BY <1>2, <2>1, <2>2 DEF Count
<1>4. /\ sockRefs' \in [Objects -> Nat]
      /\ UNCHANGED <<prv, sock>> \/ (prv' = FALSE /\ sock' = NULL)
      /\ \A o \in Objects : sockRefs'[o] = refs[o] - (Count(sock = o) - Count(sock' = o))
      BY <1>1, <1>2, <1>3, DestroysLife
<1>5. ASSUME NEW o \in Objects PROVE Balanced(o)
  <2>1. Count(calls[t].host = o) = 0
        BY <1>1 DEF Count, Objects, NULL
  <2>2. SockCalls(o)' = SockCalls(o) - Count(calls[t].sock = o) /\ HostCalls(o)' = HostCalls(o)
    <3>1. /\ SockCalls(o)' = SockCalls(o) - Count(calls[t].sock = o)
          /\ HostCalls(o)' = HostCalls(o) - Count(calls[t].host = o)
          BY <1>1, CallEnds
    <3>. QED BY <2>1, <3>1, BalanceParts
  <2>3. HostHolders(o)' = HostHolders(o)
        BY <1>1, <2>2 DEF HostHolders
  <2>4. SockHolders(o)' = SockHolders(o) - Count(calls[t].sock = o)
                          - (Count(sock = o) - Count(sock' = o))
        BY <1>1, <2>2, BalanceParts DEF SockHolders
  <2>. QED BY <1>1, <1>2, <1>4, <2>3, <2>4, BalanceParts, HoldersAreNat DEF Balanced
<1>6. hostRefs' \in [Objects -> Nat]
      BY <1>1 DEF LifeInv, TypeOK
<1>. QED BY <1>1, <1>4, <1>5, <1>6, CallEnds, BalancedLife

\* The attributes: a set of holders gains a member, or loses one.
LEMMA ReadLife ==
    ASSUME LifeInv, NEW t \in Threads, ReadSock(t) \/ ReadHost(t)
    PROVE  LifeInv'
<1>1. /\ UNCHANGED <<stage, client, prv, sock, host, made, odd, calls, outcome>>
      /\ outcome' \in {"ok", "raise"}
      /\ calls' \in [Threads -> [sock : Objects \cup {NULL}, host : Objects \cup {NULL}]]
      BY DEF ReadSock, ReadHost, fields, LifeInv, TypeOK
<1>2. CASE ReadSock(t)
  <2>1. /\ sock \in Objects /\ sock # NULL /\ sock \notin heldSock
        /\ heldSock' = heldSock \cup {sock}
        /\ sockRefs' = IncRef(sockRefs, sock) /\ UNCHANGED <<hostRefs, heldHost>>
        BY <1>2 DEF ReadSock, LifeInv, TypeOK
  <2>2. /\ sockRefs' \in [Objects -> Nat] /\ hostRefs' \in [Objects -> Nat]
        /\ \A o \in Objects : sockRefs'[o] = sockRefs[o] + Count(sock = o)
        BY <2>1, OneMore DEF LifeInv, TypeOK
  <2>3. ASSUME NEW o \in Objects PROVE Balanced(o)
    <3>1. Count((o \in heldSock)') = Count(o \in heldSock) + Count(sock = o)
          BY <2>1 DEF Count
    <3>2. SockHolders(o)' = SockHolders(o) + Count(sock = o)
          BY <1>1, <3>1, SameCalls, BalanceParts DEF SockHolders
    <3>3. HostHolders(o)' = HostHolders(o)
          BY <1>1, <2>1, SameCalls DEF HostHolders
    <3>. QED BY <2>1, <2>2, <3>2, <3>3, BalanceParts, HoldersAreNat DEF Balanced
  <2>. QED BY <1>1, <2>1, <2>2, <2>3, BalancedLife
<1>3. CASE ReadHost(t)
  <2>1. /\ host \in Objects /\ host # NULL /\ host \notin heldHost
        /\ heldHost' = heldHost \cup {host}
        /\ hostRefs' = IncRef(hostRefs, host) /\ UNCHANGED <<sockRefs, heldSock>>
        BY <1>3 DEF ReadHost, LifeInv, TypeOK
  <2>2. /\ sockRefs' \in [Objects -> Nat] /\ hostRefs' \in [Objects -> Nat]
        /\ \A o \in Objects : hostRefs'[o] = hostRefs[o] + Count(host = o)
        BY <2>1, OneMore DEF LifeInv, TypeOK
  <2>3. ASSUME NEW o \in Objects PROVE Balanced(o)
    <3>1. Count((o \in heldHost)') = Count(o \in heldHost) + Count(host = o)
          BY <2>1 DEF Count
    <3>2. HostHolders(o)' = HostHolders(o) + Count(host = o)
          BY <1>1, <3>1, SameCalls, BalanceParts DEF HostHolders
    <3>3. SockHolders(o)' = SockHolders(o)
          BY <1>1, <2>1, SameCalls DEF SockHolders
    <3>. QED BY <2>1, <2>2, <3>2, <3>3, BalanceParts, HoldersAreNat DEF Balanced
  <2>. QED BY <1>1, <2>1, <2>2, <2>3, BalancedLife
<1>. QED BY <1>2, <1>3

LEMMA DropLife ==
    ASSUME LifeInv, DropSock \/ DropHost
    PROVE  LifeInv'
<1>1. /\ UNCHANGED <<stage, client, prv, sock, host, made, odd, calls, outcome>>
      /\ outcome' \in {"ok", "raise"}
      /\ calls' \in [Threads -> [sock : Objects \cup {NULL}, host : Objects \cup {NULL}]]
      BY DEF DropSock, DropHost, fields, LifeInv, TypeOK
<1>2. CASE DropSock
  <2>1. PICK x \in heldSock : heldSock' = heldSock \ {x} /\ sockRefs' = DecRef(sockRefs, x)
        BY <1>2 DEF DropSock
  <2>2. x \in Objects /\ sockRefs[x] >= 1 /\ UNCHANGED <<hostRefs, heldHost>>
        BY <1>2, HeldIsCounted DEF DropSock, LifeInv, TypeOK
  <2>3. /\ sockRefs' \in [Objects -> Nat] /\ hostRefs' \in [Objects -> Nat]
        /\ \A o \in Objects : sockRefs'[o] = sockRefs[o] - Count(x = o)
        BY <2>1, <2>2, OneLess DEF LifeInv, TypeOK
  <2>4. ASSUME NEW o \in Objects PROVE Balanced(o)
    <3>1. Count((o \in heldSock)') = Count(o \in heldSock) - Count(x = o)
          BY <2>1 DEF Count
    <3>. QED BY <1>1, <2>2, <2>3, <3>1, SameCalls, BalanceParts
             DEF Balanced, SockHolders, HostHolders
  <2>. QED BY <1>1, <2>1, <2>2, <2>3, <2>4, BalancedLife
<1>3. CASE DropHost
  <2>1. PICK x \in heldHost : heldHost' = heldHost \ {x} /\ hostRefs' = DecRef(hostRefs, x)
        BY <1>3 DEF DropHost
  <2>2. x \in Objects /\ hostRefs[x] >= 1 /\ UNCHANGED <<sockRefs, heldSock>>
        BY <1>3, HeldIsCounted DEF DropHost, LifeInv, TypeOK
  <2>3. /\ sockRefs' \in [Objects -> Nat] /\ hostRefs' \in [Objects -> Nat]
        /\ \A o \in Objects : hostRefs'[o] = hostRefs[o] - Count(x = o)
        BY <2>1, <2>2, OneLess DEF LifeInv, TypeOK
  <2>4. ASSUME NEW o \in Objects PROVE Balanced(o)
    <3>1. Count((o \in heldHost)') = Count(o \in heldHost) - Count(x = o)
          BY <2>1 DEF Count
    <3>. QED BY <1>1, <2>2, <2>3, <3>1, SameCalls, BalanceParts
             DEF Balanced, SockHolders, HostHolders
  <2>. QED BY <1>1, <2>1, <2>2, <2>3, <2>4, BalancedLife
<1>. QED BY <1>2, <1>3

LEMMA DestructorLife ==
    ASSUME LifeInv, Destructor
    PROVE  LifeInv'
<1>1. /\ stage = "ready" /\ stage' = "gone"
      /\ client => ~DestroysNull
      /\ sockRefs' = IF client /\ prv THEN DecRef(sockRefs, sock) ELSE sockRefs
      /\ hostRefs' = IF host = NULL THEN hostRefs ELSE DecRef(hostRefs, host)
      /\ client' = FALSE /\ prv' = FALSE /\ sock' = NULL /\ host' = NULL
      /\ UNCHANGED <<made, odd, heldSock, heldHost, calls, outcome>>
      BY DEF Destructor, Dropped
<1>2. /\ sockRefs' \in [Objects -> Nat]
      /\ \A o \in Objects : \/ sockRefs'[o] = sockRefs[o] - Count(sock = o)
                            \/ sockRefs'[o] = sockRefs[o] /\ (odd \/ sock # o)
  <2>1. CASE client /\ prv
    <3>1. sock \in Objects
          BY <1>1, <2>1 DEF DestroysNull, LifeInv, TypeOK
    <3>. QED BY <1>1, <2>1, <3>1, HeldIsCounted, OneLess DEF LifeInv, TypeOK
  <2>2. CASE ~(client /\ prv)
    <3>1. \A o \in Objects : o # NULL
          BY DEF Objects, NULL
    <3>2. odd \/ sock = NULL
          BY <1>1, <2>2 DEF LifeInv, FieldsAgree
    <3>. QED BY <1>1, <2>2, <3>1, <3>2 DEF LifeInv, TypeOK
  <2>. QED BY <2>1, <2>2
<1>3. /\ hostRefs' \in [Objects -> Nat]
      /\ \A o \in Objects : hostRefs'[o] = hostRefs[o] - Count(host = o)
  <2>1. CASE host = NULL
    <3>1. \A o \in Objects : Count(host = o) = 0 /\ hostRefs[o] \in Nat
          BY <2>1 DEF Count, Objects, NULL, LifeInv, TypeOK
    <3>. QED BY <1>1, <2>1, <3>1 DEF LifeInv, TypeOK
  <2>2. CASE host # NULL
    <3>1. host \in Objects
          BY <2>2 DEF LifeInv, TypeOK
    <3>. QED BY <1>1, <2>2, <3>1, HeldIsCounted, OneLess DEF LifeInv, TypeOK
  <2>. QED BY <2>1, <2>2
<1>4. TypeOK'
      BY <1>1, <1>2, <1>3 DEF LifeInv, TypeOK
<1>5. OnlyMade'
      BY <1>1 DEF LifeInv, TypeOK, OnlyMade, NULL
<1>6. FieldsAgree'
      BY <1>1 DEF LifeInv, FieldsAgree
<1>7. Counted'
  <2> SUFFICES ASSUME NEW o \in Objects PROVE CountedAt(o)'
      BY DEF Counted
  <2>1. CountedAt(o)
        BY DEF LifeInv, Counted
  <2>2. Count((sock = o)') = 0 /\ Count((host = o)') = 0
        BY <1>1 DEF Count, Objects, NULL
  <2>3. /\ SockHolders(o) = Count(sock = o) + SockHolders(o)'
        /\ HostHolders(o) = Count(host = o) + HostHolders(o)'
        BY <1>1, <2>2, SameCalls, BalanceParts DEF SockHolders, HostHolders
  <2>4. sock # o => Count(sock = o) = 0
        BY DEF Count
  <2>5. Count(sock = o) \in Nat /\ Count(host = o) \in Nat
        BY DEF Count
  <2>6. /\ sockRefs'[o] >= SockHolders(o)' /\ hostRefs'[o] >= HostHolders(o)'
        /\ ~odd => sockRefs'[o] = SockHolders(o)'
        BY <1>2, <1>3, <2>1, <2>3, <2>4, <2>5, BalanceParts, HoldersStayNat DEF CountedAt
  <2>. QED BY <1>1, <2>6 DEF CountedAt
<1>. QED BY <1>4, <1>5, <1>6, <1>7 DEF LifeInv

LEMMA GivesLife ==
    ASSUME LifeInv, NEW result \in {"ok", "raise"}, Gives(result)
    PROVE  LifeInv'
BY QuietLife DEF Gives

LEMMA LifeInit == Init => LifeInv
<1> SUFFICES ASSUME Init PROVE LifeInv
    OBVIOUS
<1>1. TypeOK
  <2>1. NoCall \in [sock : Objects \cup {NULL}, host : Objects \cup {NULL}]
        BY DEF NoCall
  <2>2. 0 \in 0 .. MaxInits
        BY LifecycleAssumption
  <2>. QED BY <2>1, <2>2 DEF Init, TypeOK
<1>2. NoCall.sock = NULL /\ NoCall.host = NULL /\ \A o \in Objects : o # NULL
      BY DEF NoCall, Objects, NULL
<1>3. OnlyMade /\ FieldsAgree
      BY <1>2 DEF Init, OnlyMade, FieldsAgree, NULL
<1>4. Counted
  <2> SUFFICES ASSUME NEW o \in Objects PROVE CountedAt(o)
      BY DEF Counted
  <2>1. SockCalls(o) = 0 /\ HostCalls(o) = 0
        BY <1>2, CallsCounted DEF Init
  <2>2. SockHolders(o) = 0 /\ HostHolders(o) = 0
        BY <1>2, <2>1 DEF Init, SockHolders, HostHolders, Count
  <2>. QED BY <2>2 DEF Init, CountedAt
<1>. QED BY <1>1, <1>3, <1>4 DEF LifeInv

LEMMA LifeStep == LifeInv /\ [Next]_vars => LifeInv'
<1> SUFFICES ASSUME LifeInv, [Next]_vars PROVE LifeInv'
    OBVIOUS
<1>1. CASE Construct
  <2>1. Allocate => LifeInv'
        BY QuietLife DEF Allocate, LifeInv, TypeOK
  <2>. QED BY <1>1, <2>1, InitRaisesLife, InitReturnsLife DEF Construct
<1>2. ASSUME NEW t \in Threads, Use(t) PROVE LifeInv'
  <2>1. Timeouts(t) \/ ConnectRaises(t) \/ QueryRefused(t) \/ AttributeError(t) => LifeInv'
        BY GivesLife DEF Timeouts, ConnectRaises, QueryRefused, AttributeError
  <2>. QED BY <1>2, <2>1, DisconnectLife, ConnectBeginsLife, ConnectEndsLife, QueryBeginsLife,
              QueryReturnsLife, QueryFailsLife, ReadLife
           DEF Use
<1>3. ASSUME NEW t \in Threads, UseOfNull(t) PROVE LifeInv'
  <2>1. Crash /\ (DestroysNull \/ (stage = "ready" /\ ~client))
        BY <1>3 DEF UseOfNull, NoEngine, DisconnectNull, QueryFailsNull, QueryNoSocket, Method
  <2>. QED BY <2>1, NullIsOdd, CrashLife
<1>4. CASE DestructorNull
      BY <1>4, NullIsOdd, CrashLife DEF DestructorNull
<1>5. CASE UNCHANGED vars
      BY <1>5, QuietLife DEF vars, fields, heap, LifeInv, TypeOK
<1>. QED BY <1>1, <1>2, <1>3, <1>4, <1>5, DropLife, DestructorLife DEF Next

LEMMA LifeAlways == Spec => []LifeInv
<1>. QED BY LifeInit, LifeStep, PTL DEF Spec

-----------------------------------------------------------------------------
(***************************************************************************)
(* The types of the fields, of the objects and of the calls.               *)
(***************************************************************************)
THEOREM LifecycleTypes == Spec => []TypeOK
<1>1. LifeInv => TypeOK
      BY DEF LifeInv
<1>. QED BY <1>1, LifeAlways, PTL

(***************************************************************************)
(* Whatever the threads do to the client, nothing that a field, a running  *)
(* method or the program points to has been freed.                         *)
(***************************************************************************)
THEOREM NothingDangles == Spec => []NoUseAfterFree
<1>1. ASSUME LifeInv PROVE NoUseAfterFree
  <2>1. /\ sock # NULL => sock \in Objects
        /\ host # NULL => host \in Objects
        /\ heldSock \subseteq Objects /\ heldHost \subseteq Objects
        BY <1>1 DEF LifeInv, TypeOK
  <2>2. ASSUME NEW o \in Objects
        PROVE  /\ sock = o \/ o \in heldSock => sockRefs[o] > 0
               /\ host = o \/ o \in heldHost => hostRefs[o] > 0
        BY <1>1, HeldIsCounted
  <2>3. ASSUME NEW t \in Threads, calls[t] # NoCall
        PROVE  /\ sockRefs[calls[t].sock] > 0
               /\ calls[t].host # NULL => hostRefs[calls[t].host] > 0
    <3>1. /\ calls[t].sock \in Objects /\ sockRefs[calls[t].sock] >= 1
          /\ calls[t].host # NULL => calls[t].host \in Objects /\ hostRefs[calls[t].host] >= 1
          BY <1>1, <2>3, CallInSocket
    <3>2. sockRefs \in [Objects -> Nat] /\ hostRefs \in [Objects -> Nat]
          BY <1>1 DEF LifeInv, TypeOK
    <3>. QED BY <3>1, <3>2
  <2>. QED BY <2>1, <2>2, <2>3 DEF NoUseAfterFree
<1>. QED BY <1>1, LifeAlways, PTL

(***************************************************************************)
(* A socket is closed as soon as nobody holds it, and not before.          *)
(***************************************************************************)
THEOREM SocketGivenUpOnce == Spec => []SocketReleased
<1>1. ASSUME LifeInv PROVE SocketReleased
  <2> SUFFICES ASSUME ~odd, NEW o \in 1 .. made
               PROVE  sockRefs[o] = 0 <=> /\ sock # o
                                          /\ o \notin heldSock
                                          /\ \A t \in Threads : calls[t].sock # o
      BY DEF SocketReleased
  <2>1. o \in Objects
        BY <1>1, LifecycleAssumption DEF LifeInv, TypeOK, Objects
  <2>2. sockRefs[o] = Count(sock = o) + Count(o \in heldSock) + SockCalls(o)
        BY <1>1, <2>1 DEF LifeInv, Counted, CountedAt, SockHolders
  <2>3. /\ Count(sock = o) \in Nat /\ (Count(sock = o) = 0 <=> sock # o)
        /\ Count(o \in heldSock) \in Nat /\ (Count(o \in heldSock) = 0 <=> o \notin heldSock)
        BY DEF Count
  <2>4. /\ SockCalls(o) \in Nat
        /\ SockCalls(o) = 0 <=> \A t \in Threads : calls[t].sock # o
        BY CallsCounted
  <2>. QED BY <2>2, <2>3, <2>4
<1>. QED BY <1>1, LifeAlways, PTL

(***************************************************************************)
(* A client that was made once, with a socket, never uses a null pointer.  *)
(***************************************************************************)
THEOREM NullIsNeverUsed == Spec => []NoNullUse
<1>1. LifeInv => NoNullUse
      BY DEF LifeInv, FieldsAgree, NoNullUse
<1>. QED BY <1>1, LifeAlways, PTL
=============================================================================
