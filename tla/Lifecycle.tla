------------------------------ MODULE Lifecycle ------------------------------
(***************************************************************************)
(* The life of one umemcache.Client as a Python object: construction,      *)
(* methods of several threads, destruction, and the reference counts of    *)
(* the socket and of the host string it owns (python/umemcache.cpp).       *)
(*                                                                         *)
(* The interpreter lock is released only inside a method of the socket:    *)
(* a call is two steps there, and one step everywhere else.  What goes     *)
(* over the connection is the subject of module Client.                    *)
(***************************************************************************)
EXTENDS Integers, FiniteSets

CONSTANTS
    Threads,      \* the threads of the program
    SocketFails,  \* TRUE when creating a socket may fail
    Reinit,       \* TRUE when the program may call __init__ again
    MaxInits      \* BOUND: the number of sockets that are created

ASSUME LifecycleAssumption ==
    /\ IsFiniteSet(Threads)
    /\ SocketFails \in BOOLEAN /\ Reinit \in BOOLEAN
    /\ MaxInits \in Nat \ {0}

\* The socket and the host made by the n-th __init__ are both called n.
Objects == 1 .. MaxInits
NULL == 0

VARIABLES
    stage,     \* "none", "new" (allocated), "ready", "gone", or "crashed"
    \* The fields of the object.
    client,    \* self->client # NULL
    prv,       \* self->desc.prv # NULL
    sock,
    host,
    \* The objects outside it.
    made,      \* how many sockets and hosts __init__ has asked for
    sockRefs,  \* the reference count of each socket; 0 when it is closed
    hostRefs,
    heldSock,  \* the sockets, and the hosts, the program has got by
    heldHost,  \* reading the attributes of the client, and still holds
    \* The methods that are inside a method of the socket.
    calls,     \* calls[t]: NoCall, or the objects it keeps alive
    outcome,   \* what the last method to end gave: "ok" or "raise"
    odd        \* history: __init__ was called again, or made no socket

fields == <<client, prv, sock, host>>
heap   == <<made, sockRefs, hostRefs, heldSock, heldHost>>
vars   == <<stage, client, prv, sock, host, made, sockRefs, hostRefs,
            heldSock, heldHost, calls, outcome, odd>>

NoCall == [sock |-> NULL, host |-> NULL]

IncRef(refs, o) == [refs EXCEPT ![o] = @ + 1]
DecRef(refs, o) == [refs EXCEPT ![o] = @ - 1]

Init ==
    /\ stage = "none"
    /\ client = FALSE /\ prv = FALSE /\ sock = NULL /\ host = NULL
    /\ made = 0
    /\ sockRefs = [o \in Objects |-> 0] /\ hostRefs = [o \in Objects |-> 0]
    /\ heldSock = {} /\ heldHost = {}
    /\ calls = [t \in Threads |-> NoCall]
    /\ outcome = "ok"
    /\ odd = FALSE

\* The null pointer is used: the process is gone.
Crash ==
    /\ stage' = "crashed"
    /\ UNCHANGED <<fields, heap, odd, calls, outcome>>

-----------------------------------------------------------------------------
(***************************************************************************)
(* Construction: Client(...) allocates the object, all zero, and calls     *)
(* __init__; an object whose __init__ fails is destroyed at once.          *)
(***************************************************************************)
Allocate ==
    /\ stage = "none" /\ stage' = "new"
    /\ UNCHANGED <<fields, heap, odd, calls, outcome>>

MayInit == stage = "new" \/ (Reinit /\ stage = "ready")

\* Arguments that cannot be parsed, or an address without a colon: engine
\* and host have been cleared already, socket and descriptor have not.
InitRaises ==
    /\ MayInit
    /\ stage' = IF stage = "new" THEN "gone" ELSE "ready"
    /\ client' = FALSE /\ host' = NULL
    /\ outcome' = "raise"
    /\ odd' = (odd \/ stage = "ready")
    /\ UNCHANGED <<prv, sock, heap, calls>>

(***************************************************************************)
(* A host string with a reference more than the field holds, a socket      *)
(* unless API_createSocket() fails, which is not looked at, and an engine. *)
(***************************************************************************)
InitReturns(created) ==
    /\ MayInit /\ made < MaxInits
    /\ made' = made + 1
    /\ host' = made + 1
    /\ hostRefs' = [hostRefs EXCEPT ![made + 1] = 2]
    /\ sock' = IF created THEN made + 1 ELSE NULL
    /\ sockRefs' = [sockRefs EXCEPT ![made + 1] = IF created THEN 1 ELSE 0]
    /\ prv' = TRUE /\ client' = TRUE
    /\ stage' = "ready"
    /\ outcome' = "ok"
    /\ odd' = (odd \/ stage = "ready" \/ ~created)
    /\ UNCHANGED <<heldSock, heldHost, calls>>

Construct ==
    \/ Allocate
    \/ InitRaises
    \/ \E created \in BOOLEAN : (created \/ SocketFails) /\ InitReturns(created)

-----------------------------------------------------------------------------
(***************************************************************************)
(* Client::disconnect: API_destroy() gives up the reference of the field,  *)
(* whatever it is, and clears the field; a second disconnect() returns     *)
(* before it.                                                              *)
(***************************************************************************)
\* One whose disconnect() has lost its early return.
DestroysAnyNull == sock = NULL

DestroysNull == prv /\ sock = NULL

Destroys(refs) ==
    /\ ~DestroysNull
    /\ sockRefs' = IF prv THEN DecRef(refs, sock) ELSE refs
    /\ sock' = IF prv THEN NULL ELSE sock
    /\ prv' = FALSE

Method(t) == stage = "ready" /\ calls[t] = NoCall

\* Every method but the timeouts goes through self->client.
NoEngine(t) == Method(t) /\ ~client /\ Crash

Disconnect(t) ==
    /\ Method(t) /\ client
    /\ Destroys(sockRefs)
    /\ outcome' = "ok"
    /\ UNCHANGED <<stage, client, host, made, odd, hostRefs, heldSock, heldHost, calls>>

DisconnectNull(t) == Method(t) /\ client /\ DestroysNull /\ Crash

\* A method that ends without touching any of it.
Gives(result) ==
    /\ outcome' = result
    /\ UNCHANGED <<stage, fields, heap, odd, calls>>

\* settimeout and gettimeout of a null object raise.
Timeouts(t) == Method(t) /\ Gives(IF sock = NULL THEN "raise" ELSE "ok")

-----------------------------------------------------------------------------
(***************************************************************************)
(* connect(): the tuple of the arguments takes a reference to the host and *)
(* the bound method one to the socket, until the socket's connect returns. *)
(***************************************************************************)
\* One that lends the tuple the reference of the field.
ConnectLendsHost(t) ==
    /\ Method(t) /\ prv /\ client /\ sock # NULL
    /\ calls' = [calls EXCEPT ![t] = [sock |-> sock, host |-> host]]
    /\ sockRefs' = IncRef(sockRefs, sock)
    /\ UNCHANGED <<stage, fields, made, odd, hostRefs, heldSock, heldHost, outcome>>

ConnectBegins(t) ==
    /\ Method(t) /\ prv /\ client /\ sock # NULL
    /\ calls' = [calls EXCEPT ![t] = [sock |-> sock, host |-> host]]
    /\ sockRefs' = IncRef(sockRefs, sock)
    /\ hostRefs' = IncRef(hostRefs, host)
    /\ UNCHANGED <<stage, fields, made, odd, heldSock, heldHost, outcome>>

\* It succeeds or it raises; the client stays as it is.
ConnectEnds(t) ==
    /\ calls[t] # NoCall /\ calls[t].host # NULL
    /\ sockRefs' = DecRef(sockRefs, calls[t].sock)
    /\ hostRefs' = DecRef(hostRefs, calls[t].host)
    /\ calls' = [calls EXCEPT ![t] = NoCall]
    /\ outcome' \in {"ok", "raise"}
    /\ UNCHANGED <<stage, fields, made, odd, heldSock, heldHost>>

\* "Client can not be reconnected", or no socket to connect.
ConnectRaises(t) == Method(t) /\ (~prv \/ (client /\ sock = NULL)) /\ Gives("raise")

(***************************************************************************)
(* Any method that sends and receives, at one of its socket calls.  When   *)
(* the socket raises, the client disconnects; when there is no client      *)
(* object any more, the adapter raises without using the socket.           *)
(***************************************************************************)
QueryBegins(t) ==
    /\ Method(t) /\ prv /\ client /\ sock # NULL
    /\ calls' = [calls EXCEPT ![t] = [sock |-> sock, host |-> NULL]]
    /\ sockRefs' = IncRef(sockRefs, sock)
    /\ UNCHANGED <<stage, fields, made, odd, hostRefs, heldSock, heldHost, outcome>>

InQuery(t) == calls[t] # NoCall /\ calls[t].host = NULL

\* The socket call returns; the next one of the method is another QueryBegins.
QueryReturns(t) ==
    /\ InQuery(t)
    /\ sockRefs' = DecRef(sockRefs, calls[t].sock)
    /\ calls' = [calls EXCEPT ![t] = NoCall]
    /\ outcome' = "ok"
    /\ UNCHANGED <<stage, fields, made, odd, hostRefs, heldSock, heldHost>>

QueryFails(t) ==
    /\ InQuery(t)
    /\ Destroys(DecRef(sockRefs, calls[t].sock))
    /\ calls' = [calls EXCEPT ![t] = NoCall]
    /\ outcome' = "raise"
    /\ UNCHANGED <<stage, client, host, made, odd, hostRefs, heldSock, heldHost>>

QueryFailsNull(t) == InQuery(t) /\ DestroysNull /\ Crash

QueryRefused(t) == Method(t) /\ client /\ ~prv /\ Gives("raise")

\* A socket that was never created raises, and is destroyed.
QueryNoSocket(t) == Method(t) /\ client /\ DestroysNull /\ Crash

-----------------------------------------------------------------------------
(***************************************************************************)
(* The attributes sock and host: reading one makes the program a holder;   *)
(* a null field raises AttributeError.                                     *)
(***************************************************************************)
ReadSock(t) ==
    /\ Method(t) /\ sock # NULL /\ sock \notin heldSock
    /\ heldSock' = heldSock \cup {sock}
    /\ sockRefs' = IncRef(sockRefs, sock)
    /\ UNCHANGED <<stage, fields, made, odd, hostRefs, heldHost, calls, outcome>>

ReadHost(t) ==
    /\ Method(t) /\ host # NULL /\ host \notin heldHost
    /\ heldHost' = heldHost \cup {host}
    /\ hostRefs' = IncRef(hostRefs, host)
    /\ UNCHANGED <<stage, fields, made, odd, sockRefs, heldSock, calls, outcome>>

AttributeError(t) == Method(t) /\ (sock = NULL \/ host = NULL) /\ Gives("raise")

DropSock ==
    /\ stage # "crashed"
    /\ \E o \in heldSock : /\ heldSock' = heldSock \ {o}
                           /\ sockRefs' = DecRef(sockRefs, o)
    /\ UNCHANGED <<stage, fields, made, odd, hostRefs, heldHost, calls, outcome>>

DropHost ==
    /\ stage # "crashed"
    /\ \E o \in heldHost : /\ heldHost' = heldHost \ {o}
                           /\ hostRefs' = DecRef(hostRefs, o)
    /\ UNCHANGED <<stage, fields, made, odd, sockRefs, heldSock, calls, outcome>>

-----------------------------------------------------------------------------
(***************************************************************************)
(* Client_Destructor: the program has dropped the client, and a method     *)
(* that runs holds it.  Deleting the engine disconnects; without an engine *)
(* nothing gives the socket up.  The memory of the fields is freed.        *)
(***************************************************************************)
Dropped == stage = "ready" /\ \A t \in Threads : calls[t] = NoCall

\* One whose engine is deleted without disconnecting.
DestructorKeepsSocket ==
    /\ Dropped
    /\ stage' = "gone"
    /\ hostRefs' = IF host = NULL THEN hostRefs ELSE DecRef(hostRefs, host)
    /\ client' = FALSE /\ prv' = FALSE /\ sock' = NULL /\ host' = NULL
    /\ UNCHANGED <<made, odd, sockRefs, heldSock, heldHost, calls, outcome>>

Destructor ==
    /\ Dropped /\ (client => ~DestroysNull)
    /\ stage' = "gone"
    /\ sockRefs' = IF client /\ prv THEN DecRef(sockRefs, sock) ELSE sockRefs
    /\ hostRefs' = IF host = NULL THEN hostRefs ELSE DecRef(hostRefs, host)
    /\ client' = FALSE /\ prv' = FALSE /\ sock' = NULL /\ host' = NULL
    /\ UNCHANGED <<made, odd, heldSock, heldHost, calls, outcome>>

DestructorNull == Dropped /\ client /\ DestroysNull /\ Crash

-----------------------------------------------------------------------------
Use(t) ==
    \/ Disconnect(t) \/ Timeouts(t)
    \/ ConnectBegins(t) \/ ConnectEnds(t) \/ ConnectRaises(t)
    \/ QueryBegins(t) \/ QueryReturns(t) \/ QueryFails(t) \/ QueryRefused(t)
    \/ ReadSock(t) \/ ReadHost(t) \/ AttributeError(t)

UseOfNull(t) == NoEngine(t) \/ DisconnectNull(t) \/ QueryFailsNull(t) \/ QueryNoSocket(t)

Next ==
    \/ Construct
    \/ \E t \in Threads : Use(t) \/ UseOfNull(t)
    \/ DropSock \/ DropHost
    \/ Destructor \/ DestructorNull

Spec == Init /\ [][Next]_vars

-----------------------------------------------------------------------------
TypeOK ==
    /\ stage \in {"none", "new", "ready", "gone", "crashed"}
    /\ client \in BOOLEAN /\ prv \in BOOLEAN
    /\ sock \in Objects \cup {NULL} /\ host \in Objects \cup {NULL}
    /\ made \in 0 .. MaxInits
    /\ sockRefs \in [Objects -> Nat] /\ hostRefs \in [Objects -> Nat]
    /\ heldSock \subseteq Objects /\ heldHost \subseteq Objects
    /\ calls \in [Threads -> [sock : Objects \cup {NULL}, host : Objects \cup {NULL}]]
    /\ outcome \in {"ok", "raise"}
    /\ odd \in BOOLEAN

(***************************************************************************)
(* Nothing is used after it was freed: the objects the fields point to,    *)
(* those a running method has handed to the socket, and those the program  *)
(* has got from an attribute are alive, whichever thread disconnects,      *)
(* connects again or fails in the middle of a call of another.             *)
(***************************************************************************)
NoUseAfterFree ==
    /\ sock # NULL => sockRefs[sock] > 0
    /\ host # NULL => hostRefs[host] > 0
    /\ \A o \in heldSock : sockRefs[o] > 0
    /\ \A o \in heldHost : hostRefs[o] > 0
    /\ \A t \in Threads : calls[t] # NoCall =>
          /\ sockRefs[calls[t].sock] > 0
          /\ calls[t].host # NULL => hostRefs[calls[t].host] > 0

(***************************************************************************)
(* A client that is disconnected, by any thread, by a failure or by its    *)
(* destructor, gives its socket up exactly once: the connection is closed  *)
(* as soon as nobody else holds the socket, and not before.  (A second     *)
(* __init__ leaves the socket of the first to nobody.)                     *)
(***************************************************************************)
SocketReleased ==
    ~odd => \A o \in 1 .. made :
                sockRefs[o] = 0 <=> /\ sock # o
                                    /\ o \notin heldSock
                                    /\ \A t \in Threads : calls[t].sock # o

(***************************************************************************)
(* No method and no destructor uses a null pointer, whatever was done to   *)
(* the client before: connect() that failed, disconnect() twice, a query   *)
(* on a client that is closed (testConnectFails and testConnectTwice).     *)
(* __init__ does not look at the socket it made, and clears the engine     *)
(* before it looks at its arguments; so it must have been called once, and *)
(* have made a socket.                                                     *)
(***************************************************************************)
NoNullUse == ~odd => stage # "crashed"
=============================================================================
