# ultramemcache: a verification project

TLA+ models of *ultramemcache*, a memcached client written in C++ with Python
bindings, with the TLC runs that check small instances of them and theorems that
the TLA+ proof system checks for every value of the constants. Paths and line
numbers refer to the repository.

## The system

A Python program makes a `umemcache.Client`, connects it, and calls its methods.
Each method writes a request into a send buffer, sends the buffer, and reads the
reply from the same socket into a receive buffer. A `noreply` ("async") call does
not wait for a reply, because the server sends none. Replies carry nothing that says
which request they answer: the client and the server stay in step only because each
call consumes exactly its own reply, or drops the connection.

| Component | Code | State | Operations |
| --- | --- | --- | --- |
| PacketReader, the receive buffer | `lib/PacketReader.cpp` | `m_buffStart`, `m_buffEnd`, `m_readCursor`, `m_writeCursor`, `m_packetEnd` | `reset`, `push`, `skip`, `haveLine`, `setEndPtr`, `beginsWithString`, `readUntil`, `readBytes`, `readNumeric` |
| PacketWriter, the send buffer | `lib/PacketWriter.cpp` | `m_buffStart`, `m_buffEnd`, `m_readCursor`, `m_writeCursor` | `reset`, `writeChar`, `writeChars`, `writeNumeric`, `pull` |
| Client, the protocol engine | `lib/Client.cpp` | the two buffers, the socket descriptor, `m_error` | `connect`, `disconnect`, `command`, `cas`, `del`, `incr`, `decr`, `flushAll`, `version`, `stats`, `getStats`, `getBegin`, `getKeyWrite`, `getFlush`, `getReadNext`, `getResult`, `readLine`, `sendWriteBuffer`, `extractErrorFromReader` |
| Python binding | `python/umemcache.cpp` 241-1126 | the object: engine, descriptor, socket, host, port, `maxSize` | the methods of `umemcache.Client` |
| Socket adapter | `python/umemcache.cpp` 69-237 | `desc.prv`: the object, or NULL once disconnected | `API_send`, `API_recv`, `API_connect`, `API_destroy`, `API_createSocket` |
| memcached, the network | not in the repository | requests on their way, replies on their way | external |

How they interact. A method of the binding calls the engine; the engine fills and
drains its buffers and calls the socket through the descriptor; the adapter calls
`send`, `recv` and `connect` of a Python socket object, which may raise (a timeout is
an exception) or, for `recv`, return nothing when the peer has closed. `-1` from the
adapter makes the engine disconnect; `0` makes `sendWriteBuffer` and `readLine` fail
without disconnecting and makes `getReadNext` disconnect. The methods differ in which
failures they look at: the get methods ignore that of `getFlush`, and `stats` takes
that of `readLine` for the end of the reply.

What is hard here: framing (a reply is cut anywhere by `recv`, values contain line
ends and words of the protocol, one `recv` may bring more than one line); failure
(a timeout in the middle of a reply, a send that fails half-way, a peer that closes
between two steps); what is left in the two buffers when a call ends early; the order
of noreply requests and later ones; buffers of a fixed size that are rewound only
when they are empty; pointers into a buffer that is rewound.

What makes each part correct:

- PacketReader: the cursors never cross, and a packet end never outlives the contents
  it belongs to; the buffer is rewound whenever everything in it was consumed.
- PacketWriter: what is written fits; the buffer is empty when a request begins.
- Client: a call consumes its own reply, all of it and nothing else; what it returns
  is what the reply says; noreply requests are carried out before a later call is
  answered; and while it is in step no read loop waits for bytes that are not coming.
- Binding and adapter: a client that was disconnected stays disconnected and its calls
  raise; a failed call is not reported as a success, and says why it failed; a number
  that goes to the server comes back as it was given; a call that is made in the middle
  of another does not take its reply.
- Life cycle: the socket is given up once, by whichever thread or failure comes first,
  and nothing is used after it was freed.

## The modules

| Module | Models |
| --- | --- |
| `PacketReader` | The receive buffer as a record of what it holds and its cursors; its methods as operators on such records. |
| `PacketWriter` | The send buffer, likewise. |
| `ReplyStream` | What the code takes a server's reply to be: a sequence of tokens and the positions its lines start at. The replies themselves are a constant, `Replies(op)`, with an assumption (`WellFormed`). |
| `Client` | One client object: the binding's methods, the engine, the adapter's outcomes, the connection and the server. |
| `ClientProperties` | The properties. |
| `ClientStream` | Where a client stands in the stream of replies: the invariant `StreamInv`, and `Termination`, which is stated of a client in step. |
| `ClientAnswers` | What a call has of its answer, what the server has done by then, and what the receive buffer holds: `OrderInv`, `AnswerInv`, `RoomInv`. |
| `RemoteCall` | What a client promises: calls, requests and answers, without buffers or bytes. |
| `ClientRefinement` | `Client` as an implementation of `RemoteCall`: the refinement mapping. |
| `ValueLine` | Numbers on the wire, modulo the width of a `UINT64`, and what `getReadNext()` makes of the characters of a `VALUE` line. |
| `ItemFields` | The flags, expiration, length and cas of an item from `set()` to the server and back through `gets_multi()` to `cas()`; `max_item_size`. |
| `SharedClient` | One client in the middle of more than one call: iterators that call the client, and threads. |
| `CallErrors` | What the program is told when a call fails: the pending exception and `m_error`. |
| `Lifecycle` | The Python object: construction, destruction, and the reference counts of socket and host. |
| `MCClient`, `MCItemFields` | Small instances for TLC. |
| `ClientProofs` | Theorems: types, cursors, a closed client, room in the send buffer. |
| `StreamProofs` | Theorems: `StreamInv` and what follows from it. |
| `AnswerProofs` | Theorems: noreply calls come first, and what is returned is the answer. |
| `PromiseProofs` | Theorems: room in the receive buffer, and `Client` implements `RemoteCall`. |
| `CallErrorsProofs`, `LifecycleProofs` | Theorems about `CallErrors` and `Lifecycle`. |
| `SharedClientProofs` | Theorems: in one thread, what `pull()` asserts; calls nested in iterators stay in step as long as these keep to `get()` and `get_multi()`. |
| `FieldsProofs` | Theorems: numbers are read as they were written, items come back as stored, stores are right. |

`Client` is composed of `PacketReader`, `PacketWriter` and `ReplyStream`, and `ItemFields`
of `ValueLine`. `SharedClient`, `CallErrors` and `Lifecycle` are views of the same
object that each keep the state their question needs and abstract the rest: a reply is
a sequence of whole lines in the first, a line is an event in the second, a whole
exchange with the server a pair of steps in the third. What one of them takes from another is checked
there: `CallErrors` that a failed read closes the client (`RemoteCall`'s `Closes`),
`Client` that a refused `VALUE` line leaves the cursor in one of two places
(`StopsAtEitherEnd`).

### The client and its connection

**State.** `m_reader` and `m_writer` are the two buffers, `prv` is `desc.prv # NULL`,
`sock` and `sent`, `rcvd`, `toServer` are the connection: everything the server sent
and the network will deliver, how much of it `recv` returned, and the requests the
server has yet to process. `pc` says which loop the running call is in ("send",
"line", "data"), `call` which call it is, `head` holds the locals of `getReadNext`
that outlive a `recv`, `res` what the method has collected. `from`, `accepted`,
`served`, `answer` and `falseReset` are history: nothing reads them but properties.

**Units.** A unit stands for the bytes of one word of a reply with what follows it on
its line, one piece of a value, or a line end; every unit is stamped with the call
whose request it answers. A value may contain the bytes of any unit, so data can look
like protocol lines. `BROKEN` stands for the word `VALUE` and its space on a line that
lacks some of what must follow, and the units behind it are the rest of that line; no
server sends one, values may contain one. `BrokenValueLine` leaves either all of that
rest unread or none of it. In the send buffer a
request is a number of units (a command line, each key, each piece of a value and its
line end), with its identity kept beside the cursors. A `get` left unfinished by a
failed `get_multi()` is the flag `stem`: the next request continues its line, and the
server does not recognise it (`clean = FALSE`).

**Actions.** The code of a call runs without interruption from one socket call to the
next, so an action is one such stretch: `Command`, `Get`, ... (arguments, the request
into the buffer), `SendPart`, `SendRest`, `SendRaises`, `SendZero` (the outcomes of
one `send`), `RecvLine`, `RecvLineEmpty`, `RecvLineRaises`, `RecvData`,
`RecvDataFails` (those of one `recv`, in each of the two loops), and one action for
each kind of line a loop may find: `ErrorLine`, `ResultLine`, `VersionLine`,
`StatLine`, `StatsEnd`, `GetEnd`, `ValueLine`, `DataComplete`, and for lines that
answer something else `ForeignVersionLine`, `ForeignStatsLine`, `MalformedLine`,
`BrokenValueLine`. The server processes requests at any time (`ServeQuietly`,
`ServeReply`, `ServeGarbled`) and the peer may close, losing what it has not processed
and any suffix of what was not received (`PeerCloses`). Between two stretches nothing
of the client object changes, because one program drives it and waits.

`Command` stands for the five storage commands and `Get` and `GetMulti` for their
`gets` forms, which differ only in words and in the cas of an entry.

**RemoteCall.** A call that begins (`Begin`), gets its whole request out (`Submit`), and
returns what the server answered to it (`Return`) or fails (`Fail`); a failure while an
answer may still come closes the client, for good. `Phase` maps the loops of `Client` to
"begun" and "sent", `prv` is `open`, `toServer`, `served` and `answer` map to themselves,
and `SeenOutcome` forgets the stamps of what is returned. Two steps say where less is
promised: `StatsEnds` and `ClosedCallEnds`. Receiving, parsing and partial sends are
stutters.

**The null pointer.** The code compares `m_packetEnd` with other pointers without
asking whether it is NULL; NULL is -1 here, below every offset. `LineSpace` keeps the
`size_t` of `readLine`: a write cursor beyond the end gives a huge number, capped by
65536.

### Numbers

`ValueLine` keeps the characters of a `VALUE` line, each digit one, and the offset
`m_readCursor` reaches: `ReadUntil`, `ReadBytes` and `ReadNumeric` are the methods of
`PacketReader` as functions of a line and a scan, and `ReadValueLine` is the chain of
them in `getReadNext()`, in which the first failure ends everything. `WriteNumeric` is
its counterpart. `Digits` and `Number` are what the two do with digits. `Word` and `IntRange` stand for 2^64 and 2^32, and `ToUInt64` and
`ToInt` are the conversions the callers make by passing an `int` where a `UINT64` is
taken, and by `(int) flags`. In `ItemFields` a call is one step, except
`gets_multi()`, whose local `cas` is one variable for all of its values, not initialised
(`Leftover`), and assigned only by lines that carry one.

### More than one call

A frame of `SharedClient` is an activation of a method. With `Nested`, a frame may begin
while the one below it is in its iterator, and ends before that goes on; without, each
frame is a thread, and `active` holds the one that has the interpreter lock, which is
released in `send()`, in `recv()` and in an iterator. The send buffer holds the pieces of
requests in the order they were written: `Command` and `Get` write theirs at once,
`GetMulti`, `GetKeyWrite` and `GetFlush` one at a time. `send()` is given a copy of what
is between the cursors (`SendBegins`) and `pull()` moves the cursors later
(`SendReturns`), by a number that may by then be too large.

The server reads lines (`Line`), and a line may be put together from the pieces of
several calls. A `get` with a key in front is then a valid `get`, whose keys are all that
follows: `get a` and `delete b` make `get adelete b`. Anything else is a command the
server does not know. What it answers is a sequence of lines, each stamped with the call
that ended the request and with whether the request was all of that call's making. Of a
value and its data the stamp is on one element as long as `getReadNext()` takes them
together (`ValueLine`); a method that reads one line takes the `VALUE` line only and
leaves the data as a line of its own (`AfterLine`). `ResultLine` is `getResult()` and the
error lines, `VersionLine` and `ShortVersionLine` are `version()`, which leaves a line
of fewer than eight bytes where it is, and `LastLine` is how `getReadNext()` ends. A call
that finds no more lines waits.

### Errors

`CallErrors` follows the exception that is pending in the interpreter and the text
`m_error` through every way a method can end (`Gives`, `Fails`, `FailsFlatly`). What a
method does when the engine returns false differs by its kind: `CommandFails`, `GetsFail`,
`VersionFails` and `StatsFails`, of which `EngineFails` is the one that fits. An error is
known by the call and the kind of method it comes from, and by what went wrong. The
engine fails with a text (`Reset`, `ErrorLine`, `TooLarge`), with an exception pending
(`IOError`), or with neither: `ValueCut` when the peer closes inside a value, and
`RefusedValue` for the early returns of `getReadNext()` (`Client.cpp:599-651`). The last
two set the history variable `wordless`. `ShortLine` is a failure whose text is written
by the binding itself.

### The object

`Lifecycle` has the fields of `PyClient` and the reference counts of each socket and host
`__init__` made. The interpreter lock is released only inside a method of the socket, so a
method is one step, or two with a socket call between them, during which the call holds
its own references: `ConnectBegins`, `ConnectEnds`, `QueryBegins`, `QueryReturns`,
`QueryFails`. A query is one socket call here; the next one of the same method is another
`QueryBegins`, which sees what other threads have done in between. The program reads the
attributes `sock` and `host` and may keep what it got. The actions whose names end in
`Null`, `NoEngine` and `QueryNoSocket` are those in which a null pointer is used.

## What the runs check

`core` (`MCCore.cfg`) lets a program make three calls of any kind on a connection on which
every socket call may fail, `send` and `recv` may stop anywhere and the peer may close
at any time, with connect and disconnect tried at any time between calls. It checks

- `TypeOK`;
- `CursorOrder`: the reader's cursors stay in order (what `skip()` asserts);
- `OwnReply`: a call consumes no unit of another call's reply;
- `Drained`: between calls a connected client owes nothing and is owed nothing;
- `Rewound`: after a whole reply the reader is as good as new (`stats` excepted);
- `ReturnsTheAnswer`: the value returned is what the server's answer to this call
  says, each value with exactly its own bytes; of `stats()`, every entry, as long as
  the connection holds;
- `AsyncBeforeSync`: when a call has returned a value, every accepted noreply call
  before it was processed, and before it;
- `WriterFits`: what a connected client writes stays inside the send buffer;
- `ReaderFits`: replies do not add up in the receive buffer: it never holds more than
  the largest reply after two of `stats()`;
- `ResetsAreReal`: in such a buffer `readLine()` never asks for nothing, so the "reset by
  peer" it reports is a peer that has closed;
- `StreamInv`: client and server are in step in every phase of a call; `OrderInv`: where
  every accepted request is, in every phase; `AnswerInv`: what has been collected of a
  reply, wherever it is cut (the inductive invariants of the proofs, checked before they
  are proved);
- `ClosedForGood`: a disconnected client is never connected again, receives nothing
  and sends nothing;
- `KeepsItsPromise`: the client implements `RemoteCall`.

Those about replies are stated for calls that began with a connection (`Intact`):
what other calls do is the subject of `closed`.

`desync` (`MCDesync.cfg`) is a client that a failed `get_multi()` may have put out of
step with its server, so that every method meets replies to other methods, with a
receive buffer small enough to fill up and values that spell `END` and whole `VALUE`
lines. It checks `CursorOrder` again and, under fairness, `Termination`: a call of a
client that is in step returns, so none waits for bytes that a value has spelled; and
`AsyncCarriedOut`: the server deals with every noreply request that was accepted,
whatever the program does next. In step means `StreamInv`, which `core` checks of every
client that is never interrupted. A client out of step may wait for ever, and in this run
it does ("Seen while modelling"), which is why its cfg does not check for deadlock.

`fields` (`MCFields.cfg`) stores items with flags of both signs and changes them behind
the program's back, while `gets_multi()` and `cas()` are used in any order. `FieldsKept`:
items come back with the numbers they were stored with. `StoresAreRight`: a store is
refused exactly when it should be: `set()` by the limit the program asked for, and
`cas()` when somebody has stored the item since, so that no value of `gets_multi()` is
given the cas of another or the leftover of the stack. In its first state the run also
looks at every `VALUE` line up to a length: `StopsAtEitherEnd` says where a line that is
refused leaves the cursor (the two cases of `BrokenValueLine` in `Client`), and
`ReadsWhatWasWritten` that a line a server writes is read back.

`lifecycle` (`MCLifecycle.cfg`) lets three threads do everything to one object, including
a second `__init__` and a socket that cannot be created. `NoUseAfterFree` holds even
then. `SocketReleased` (the socket is closed when, and only when, the client and
everybody else have let go of it) and `NoNullUse` hold for an object that was
constructed once and has a socket; the history variable `odd` tells which.

`shared` (`MCShared.cfg`) has methods of every kind, three deep, and iterators that raise at
any key or call any of them. `InStep`: whatever runs together on one line, every call
consumes lines of one reply, to itself, and nothing is left over when all have ended.
`AnsweredAsAsked`: a call that is made alone gets the answer to its whole request, also
after an iterator has raised or has called something. `PiecesInv` is the invariant behind
both: whatever is in the send buffer, on its way to the server or on its way back belongs
to the call that runs, to those below it in whose iterators it runs, or to noreply
requests. The three hold until an iterator calls a method that is not a get; the history
variable `mixed` says when. The get methods read whatever reply there is up to its end;
another method takes one line of it, and then client and server are out of step ("Seen
while modelling"). `PullsWhatIsThere`, the assertion of `pull()`, holds even then, because all
calls are of one thread; `threads` (below) shows what two threads do to it. A call out of
step may wait for a line that another has taken, so this cfg does not check for deadlock
either.

`errors` (`MCErrors.cfg`) is every method over a failing connection. `SocketErrorCloses`:
an exception of the socket, however late it comes out, comes out of a closed client, which
is what makes a timeout safe. `RaisesItsOwn`: a call that fails tells why it failed
itself, and when it tells the error of an earlier call instead, then that is the exception
of an iterator, or one of the socket out of `stats()` or a get method, or this call is one
of those for which the engine has no words. Each of the exceptions is needed.

Six runs show a disagreement between the code and what the repository says; each
checks one property and is expected to find it violated.

| Run | What it shows |
| --- | --- |
| `residue` | A request that could not be sent stays in the send buffer, every later call on the closed client adds another, and nothing resets it: it grows beyond the end. |
| `bad_keys` | `get_multi()` of something not iterable leaves `get` in the send buffer; the next request continues its line, and calls then read each other's replies. |
| `stats_full` | `stats()` leaves `END` consumed and not skipped, so the receive buffer is never rewound by `stats()` alone; when it is full, `recv(0)` is taken for a closed connection and `stats()` returns an incomplete dictionary. |
| `closed` | `get()` on a closed client reads on in the receive buffer and may return instead of raising. |
| `keys` | `get_multi()` uses a key pointer into the buffer that `skip()` has rewound and `recv()` has overwritten. |
| `threads` | Two threads in one client: the second `pull()` fails the assertion of `PacketWriter`. |

### Seen while modelling

Not given runs of their own; each is where a premise of a property above comes from.

- A reply that fills the receive buffer exactly has the same effect as `stats_full`: the
  call fails with "Connection reset by peer", but `readLine()` does not disconnect
  (`Client.cpp:107`), and the next call reads the rest of the reply. `Intact` excludes
  it with `falseReset`; `ResetsAreReal` says when it cannot happen, and the assumption
  `RoomForReplies` of the theorems what size of buffer is enough.
- `stats()` returns what it has when the connection fails (`umemcache.cpp:911`), with the
  exception of the socket pending; the next method that fails raises that exception.
  So does a `get` on a closed client that finds a reply in its buffer, and an iterator of
  `get_multi()` that raises leaves its exception in the same way. A value that is cut off
  by a peer that closes (`Client.cpp:671`) and a `VALUE` line that is refused
  (`Client.cpp:599-651`) are reported with the text of an earlier error. These are the
  cases that `RaisesItsOwn` excepts.
- A client out of step with its server may take what a value of another reply spells for
  a `VALUE` line, and wait for ever for as many bytes as its length says
  (`Client.cpp:660-679`), or swallow the line it would have read next, unless the socket
  has a timeout. `desync` reaches it in four calls: `get_multi()` is interrupted; the next
  request, a noreply one, is garbled and answered by an error line; a `get` raises at that
  line, when its `VALUE` line is in the buffer too; `connect()` on the connected client fails,
  having emptied the buffer in the middle of the reply; and the last `get` begins to read at
  the value. `Termination` is therefore stated of a client in step.
- An iterator of `get_multi()` that calls `delete("b")`, or another method of one line,
  behind a key `a` makes `get adelete b` of the two requests (`umemcache.cpp:557-581`), a
  valid get. `getResult()` takes one line of its reply, and a later call reads the rest as
  its own. An iterator that calls `version()` there leaves even a lone `END` in the buffer
  (`Client.cpp:432`), and one that calls a storage command has its data read as a line of its
  own. `mixed` in `SharedClient` tells: without it, `InStep` and `AnsweredAsAsked` do not hold.
- `max_item_size` may be larger than the send buffer, whose size is fixed
  (`PacketWriter.cpp:119`): the assumption `RoomForRequests` of the theorem `RequestsFit`.
  A value larger than the receive buffer is received beyond its end (`Client.cpp:669`):
  the size of the buffer in `core`, and `RoomForReplies`. Neither is checked by the code,
  so no property here forbids them: the properties say that requests and replies that
  fit one by one do not add up to more.
- `writeNumeric()` writes a negative expiration as a number near 2^64
  (`PacketWriter.cpp:132`); flags survive the same conversion.
- `__init__` succeeds without a socket (`umemcache.cpp:279`), and clears the engine before
  it parses its arguments (`umemcache.cpp:247`): `odd` in `Lifecycle`.
- `max_item_size` is parsed into half of a `size_t` (`umemcache.cpp:257`), the right one only
  when the lower half comes first, which is the order `ItemFields` has.

### Bounds

| Constant | Meaning | Values and why they are enough |
| --- | --- | --- |
| `MaxCalls` | calls a program makes | 3 in `core`: one that fails or is noreply, one that meets what it left, one more; 4 in `desync`: the interrupted one, the garbled one, and two that read each other's replies, or two of `stats()` that fill the buffer and one that finds it full; 3 in `shared`: three that are nested, or two and one after them; 4 in `errors`: one that leaves an error, one that hides it, two that may raise it. |
| `RecvMax` | the 65536 of one `recv` | 3, smaller than every reply of more than a line, so that a reply takes several `recv`s and is cut at every place. |
| `RCap`, `WCap` | the buffers' sizes | `core`: a writer that just holds the largest request, and a reader that has room for the largest reply after two of `stats()` (24 units; all the replies of three calls would be up to 36); `desync` and `stats_full`: a reader that fills up. |
| `DataSizes`, `MaxSize` | sizes of stored values, `max_item_size` | one accepted size and one above the limit. |
| `KeyCounts` | keys of a `get_multi` | 2. |
| `Replies` | what a server may answer | each kind of reply, with values that spell `END`, a broken `VALUE` line and the `VALUE` line of a value that never comes, a value that is empty, replies of no value and of two; an error line in the place of a reply, and after a value. |
| `Faults`, `BadKeys` | whether socket calls fail, and whether a `get_multi` is given something not iterable | switched per run, so that each run asks one question. |
| `Word`, `IntRange` | 2^64 and 2^32 | 256 and 16: the one is a power of the other, as in the code, and numbers of one, two and three digits lie on both sides of each. |
| `Flags`, `Sizes`, `Limits`, `DefaultSize` | what a program passes | the smallest and the largest `int` and one of each sign; sizes below, at and above the limit. |
| `FirstCas`, `MaxStores`, `Leftover` | the server's cas counter, how often it counts, and what is on the stack | 8, 9, 10: the last gains a digit; the leftover is the first of them, so that it can be mistaken for a cas. |
| `ItemKeys`, `Expirations` | keys of items, expirations a program gives | two keys, so that one item's cas could be taken for the other's; one expiration of each sign. |
| `AnyLines`, `Numbers` | lines that are scanned, numbers a server writes | every line of digits, spaces, line ends and keys up to `MaxLine`; numbers of one to three digits, below, at and above `Word`. |
| `MaxLine` | the length of a `VALUE` line | 10: a line with a key, flags, length and cas of one character each, and one to spare. |
| `Frames`, `MaxKeys`, `MaxValues` | calls in progress, keys of one iterator, values of one reply | 3 frames in `shared`, so that an iterator nests twice, and 1 key, so that every frame has a state before and after it; 2 frames for threads; replies of no value and of one, so that `END` is or is not the first line. |
| `Threads`, `MaxInits` | threads, and sockets made | 3 threads: one inside the socket, one that disconnects, one that begins afterwards; 3 sockets: one replaced while another thread is inside it, and one after that. |

The runs that make no fault say so because a fault would end the history they are
about: a client never reconnects.

### Fairness

`Termination` and `AsyncCarriedOut` are checked under `FairSpec`, which assumes weak fairness of the running call (`Send \/ Recv \/ Parse`: the
interpreter does not abandon a call, and a blocking `recv` returns once bytes are
there) and of the server (`Serve`: it processes what it has received). Nothing makes
the program begin a call and nothing makes a socket call fail; a timeout is not needed
for a call to return.

## What is proved

`ClientProofs` proves, for every size of the buffers, every set of well-formed replies
and any number of calls:

- `TypeCorrect`: `Spec => []TypeOK`.
- `CursorsOrdered`: `Spec => []CursorOrder`. It is the invariant that carries the types: without
  the order of the cursors the subsequences taken from the buffer have no type and a
  packet end could be NULL where `skip()` uses it, so `TypeOK /\ CursorOrder` is proved
  inductive as a whole, one lemma per group of actions. It needs no assumption about
  the server staying in step. The lemmas under it say what the operators of the
  two buffers preserve (`SkipOrdered`, `PushOrdered`, `LineFound`, `WriteRequestFields`, ...).
- `StaysClosed`: `Spec => ClosedForGood`.
- `RequestsFit`: `Spec => []WriterFits`, assuming `RoomForRequests` (the send buffer
  holds the largest request, and `get_multi()` is given iterables: "Seen while
  modelling" tells what a larger `max_item_size` does, and `bad_keys` shows that the
  second is needed). `WriterFits` is not inductive, since nothing in it
  bounds the buffer a request is added to; `WriterInv` adds that the buffer is empty
  unless a request is being sent.

`StreamProofs` proves that a client stays in step with its server, under the same
generality:

- `StaysInStep`: `~BadKeys => Spec => []StreamInv`.
- `OwnReplyOnly`, `DrainedBetweenCalls`, `RewoundAfterReply`: `Spec => []OwnReply`,
  `[]Drained` and `[]Rewound`, under the same assumption; each follows from `StreamInv`
  alone. `BadKeys` is FALSE in them because `bad_keys` shows that without it the first
  does not hold.

None of the three is inductive. `OwnReply` says what was consumed, and what will be
consumed next depends on what lies in the buffer, on its way, and in the server's queue;
so `StreamInv` says all of that, by the phase the call is in:

- at every moment the unread part of the receive buffer is the stream `sent` from
  `Passed` on (`Aligned`), and no request in the queue is garbled;
- between calls and while a request is being sent, nothing is owed (`Settled`) and the
  send buffer is empty or holds exactly the call's own request (`WriterReady`);
- a call that reads a line is `Stuck` (the reply cannot come and the call will fail),
  or `Waiting` (its request is the only one in the queue that will be answered), or
  `AtLine(r, m)`: the stream ends with its reply `r`, from `m` on, and what comes next
  is where a line of `r` starts;
- a call that reads a value is `AtData(r, m)`: the same, just after a `VALUE` line.

The step that carries the argument is `NextLine`: in such a state the first line end that
`haveLine()` finds is the end of a line of `r`, so a value that spells lines of the
protocol cannot be taken for one. From it, one lemma per way a line or a value is taken
(`LineEndsCall`, `LineFollowsLine`, `LineOfValue`, `DataStream`); the four actions for lines that
answer something else (`ForeignVersionLine`, ...) are shown never to happen. The other
lemmas follow the groups of actions: a receive moves units from the stream to the buffer
(`ReceiveStream`), a request goes out whole (`SendRestStream`), a reply is appended for
the call that waits and for no other (`ServeReplyStream`), a peer that closes cuts off
only what was not received (`PeerClosesStream`), and every failure drops the connection
or leaves one that is closed and will bring nothing more (`RecvStream`).

`AnswerProofs` says what a call returns, still for `~BadKeys`:

- `KeepsOrder`: `Spec => []OrderInv`, and from it `AsyncComesFirst`: `Spec => []AsyncBeforeSync`.
  `AsyncBeforeSync` looks at a call that has ended. `OrderInv` says where the accepted
  requests were before: each is in the server's queue or was processed as long as the
  peer has not closed, and as soon as a reply can be read (`Reading`), all of them were
  processed, and before the request the reply is for. The step that carries it is
  `ServeOrder`: a request that is answered is the last of the queue (`Waiting`), so when it is
  processed nothing that was accepted is left behind it.
- `KeepsAnswers`: `Spec => []AnswerInv`, and from it `AnswersReturned`: `Spec => []ReturnsTheAnswer`.
  `AnswerInv` adds to the position in the reply what was collected on the way
  (`Collected`): as many entries as there are `VALUE` or `STAT` lines before the position,
  and the entry of each such line is the data the reply has there. One entry is added from
  a line to the next (`CollectOne`, by counting: `BeforeNext`), its bytes are those of the
  reply because the unread part of the buffer is (`ValueTaken`), and at the last line none is
  missing (`CollectAll`).

The proof of the second found an assumption the model had not stated: that no line of
a reply starts inside a value. A set `starts` with such a position would satisfy the
former `WellFormed` and make `ReturnsTheAnswer` false of a correct client, since its values would
be counted wrongly. `Follows` in `ReplyStream` now says it.

`PromiseProofs` proves three theorems, for `~BadKeys` and `RoomForReplies`:

- `NoResetMadeUp`: `Spec => []ResetsAreReal`, and `RepliesFit`: `Spec => []ReaderFits`. What the
  buffer holds now says nothing of what may come, so the invariant `RoomInv` bounds
  `Load`: what is in the buffer together with all that the server has sent and `recv()` has
  not returned. `RoomForReplies` asks for two numbers, the length of the longest reply to
  `stats()` and that of the longest reply, such that one of the latter after one of the
  former for every other call is less than the buffer (in `core`, 6 for each of two calls
  and 12 in a buffer of 24). Between calls the load is at most what the calls so far may
  have left (`Allowed`), every step but the server's reply leaves it as it is or makes it
  smaller (`ReceiveRoom`, `ParseShrinks`), a reply adds itself to a client that waits for it
  (`ReplyRoom`), and a call other than `stats()` that comes to the end of its reply has rewound the
  buffer, because nothing was left unread (`EndConsumes`).
- `KeepsPromise`: `Spec => KeepsItsPromise`: a client implements `RemoteCall`. There is one lemma
  for each group of actions (`SocketPromise`, `BeginPromise`, `SendPromise`, `RecvPromise`,
  `ParsePromise`, `ServerPromise`), and each names the step of `RemoteCall` an action maps to, or
  shows that it is not seen. All the invariants meet here: `Submit` appends exactly one
  request because of `StreamInv`; a `Fail` that leaves the client open is one whose peer has
  closed because of `ResetsAreReal`; a `Return` gives `AnswerOutcome` because of `AnswerInv`, once
  counting shows that the entries in the order they were collected are the values in the
  order of their lines (`BeforeOnto`, `ValuesSeen`); and a call that meets an error line is
  exactly one whose reply has one (`FailureIsLast`). `SeenInv` adds what the program sees of a call
  that runs, which is nothing, and that no request is garbled, also when the client is not
  in step.

`CallErrorsProofs` proves `SocketErrorsClose` (`[]SocketErrorCloses`) and `ErrorsAreOwn`
(`[]RaisesItsOwn`) of `CallErrors`, for any number of calls. What a call tells is what was
pending or what the text was, so the invariant speaks of those: `OnlyStrays` says that what is
pending is always the exception of an iterator, or of the socket from `stats()` or a get
method, and `TextsAreNotIO` that no text is an exception. `FailureTells` is the lemma under every
way to fail: an error that is told is the one pending, or the text, and a call without words
is the only one whose text is not its own.

`LifecycleProofs` proves of `Lifecycle`, for any number of threads and sockets:
`LifecycleTypes` (`[]TypeOK`), `NothingDangles` (`[]NoUseAfterFree`), `SocketGivenUpOnce`
(`[]SocketReleased`) and `NullIsNeverUsed` (`[]NoNullUse`). The invariant `LifeInv` is the one
reference counting is meant to keep: the count of a socket is the number of its holders,
the field, the program and the calls that are inside it (`Counted`), and never smaller, also
after a second `__init__`, which drops fields without giving them up. With it go which
fields are null together (`FieldsAgree`) and that nobody has what was not made (`OnlyMade`).

`SharedClientProofs` proves of `SharedClient`, for any number of frames, keys and calls,
when all frames are of one thread (`OneThread`):

- `OneThreadPulls`: `Spec => []PullsWhatIsThere`, whatever the iterators call. `StackInv`
  says that every frame below the top is in its iterator, so when one is inside `send()`
  it is the top and nobody else writes; `PullInv` says that what `send()` was given is still
  what lies between the cursors, which is what `pull()` asserts.
- `PiecesBelong`, `SharedStaysInStep`, `AnsweredAlone`: `Spec => []PiecesInv`, `[]InStep` and
  `[]AnsweredAsAsked`, each stated until an iterator calls a method that is not a get
  (`mixed`, which stays once it is, `MixedStays`). `InStep` looks at calls that have ended.
  `PiecesInv` looks at `Coming`, the pieces the server has yet to take, sent or not: they are noreply requests, and after them those of the line that the call
  on top will be answered (`Owing`), or none, and then what is left of the reply to it is
  all there is on its way: value after value and one line that ends it, and more than one
  line only for a method that reads to the end (`Answered`, `Ending`). In an iterator
  (`Writing`) the line is begun and not ended, whichever calls began it. A command or a flush
  ends it (`CommandPieces`, `GetPieces`, `GetFlushPieces`), what `send()` takes stays in
  `Coming` (`SendReturnsBase`), the server takes either one noreply request or all that is
  left (`QuietServed`, `OwedIsServed`), every line that is read is one of the reply
  (`ReadsAnswer`), and the call that consumes its last leaves nothing to those below it
  (`EndsReply`). `GotInv` adds what each call has consumed.

`FieldsProofs` proves of `ItemFields` and `ValueLine`, for every `Word` that is a multiple of a
smaller, even `IntRange` (as 2^64 is of 2^32), and any number of keys, stores and lines:

- `LinesStop` (`[]StopsAtEitherEnd`), for any set of lines of any length, and `LinesRead`
  (`[]ReadsWhatWasWritten`), for any numbers, however many digits they have. `Ends` says
  where a scan may stand after each method of the chain, and `NumberEnds` that reading one
  more number keeps it so. `LineLayout` says where the parts of a line stand, and
  `NumberRead` that a scan which stands at the digits of a number stops behind them with
  that number.
- `FieldsTyped`, `FieldsReturn` and `StoresDecided`: `Spec => []TypeOK`, `[]FieldsKept` and
  `[]StoresAreRight`. `FieldsInv` adds to them that each item has the numbers it was given, in
  the form the server has them (`Items`); that an item is stored under a cas value below the
  next; that an item read by `gets_multi()` is either the one the server has or has a
  smaller cas value (`ReadEarlier`), which is why `cas()` compares the right thing; and that
  each line yet to be read is that of an item as it is now (`TrueLines`), because nobody
  stores while they are read. The step that carries it is `ItemRead`: what
  `getReadNext()` makes of such a line is the item, and its cas if the line has one
  (`CasLineRead`, `PlainLineRead`); a leftover is taken only when it has none.

That digits make their number is induction over data: the folds and the recursive function
`LastDigitFirst` must first be shown to be defined at all. The theorems of the library for
this take an operator as a parameter, which the provers cannot instantiate, so the
induction is over sets: `AllNumbers` (from `WFMin`) and `UpTo` say of a set of numbers what
the induction rule says of a predicate. With them `FoldExists`, `DecimalIs` and `NumberIs` pin
down the two folds as sequences of partial results, `DigitsExist` and `DigitsAgree` build
the one function that satisfies the definition of `LastDigitFirst`, and `DigitsRead`
says that the digits of a number make that number again, and modulo `Word` what
`readNumeric()` makes of it. `IntKept` is the lemma about signs: a negative `int` that is sent
as a `UINT64`, kept in 32 bits and made an `int` again is what it was.

The assumptions are those of the modules: the constants have their types, the threads
and the keys of items are finitely many, and the replies are well formed.

Only model-checked: `Termination` and `AsyncCarriedOut`, since liveness under fairness is
beyond the prover; and the runs that show a disagreement. Every other property of a
passing run is a theorem.

## What is not modelled

- Bytes in `Client`: a line is one unit and a line end. `ValueLine` has the characters of
  a `VALUE` line; the case of a line that ends in `\n` without `\r`, and the words of
  other lines, are left out.
- Which bytes of a closed client's buffer `get()` may return, beyond that it may.
- What a server makes of an expiration that is out of its range.
- Failures of the connection in `SharedClient`, `stats()` and `connect()` called by an
  iterator, keys that contain spaces or are commands themselves, and what two threads do
  to the receive buffer once the send buffer has failed its assertion. There a value is
  one line that spells none of the protocol, and whether `version()` finds it too short
  is left open.
- The host string has a reference too many from the start (`umemcache.cpp:277`), and a
  second `__init__` leaks the first engine, socket and host; the model has the counts of
  the latter two and no property that they reach zero. A bound method of the socket that
  the program keeps, and code that runs because a socket is destroyed while the field
  still points to it (`umemcache.cpp:138`), are left out.
- What the interpreter does with an exception that is pending when a method returns a
  value, beyond that the next failing method raises it.
- `PrintBuffer`, `finalize`, `rewind`, `getSize`, `socketdefs.h`: not used.

## Plan

1. `Client` and its properties; types, cursors and the stream of replies proved. *Done.*
2. `RemoteCall`, and `Client` as an implementation of it. *Done; proved.*
3. `ValueLine` and `ItemFields`: numbers and the fields of an item. *Done.*
4. `SharedClient`: iterators and threads. *Done.*
5. `CallErrors`: the pending exception and the error text. *Done.*
6. `Lifecycle`. *Done.*
7. Proofs. The stream of replies, the order of requests, the answers, the room in both
   buffers, the refinement of `RemoteCall`, `CallErrors`, `Lifecycle`, nested calls of
   `SharedClient`, numbers and the fields of an item. *Done*; liveness is left to TLC.
