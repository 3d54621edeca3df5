# A TLA+ model of grapec

grapec is a gRPC and thrift client library in pure Python, for threads and for
asyncio. This directory holds TLA+ modules that model its core (the sharing of
connections by calls, the two connection protocols, the lifetime of clients, the
protobuf and thrift codecs, the dict and JSON forms), the TLC configurations that
check them on small instances, and proofs that hold for every value of the
constants, about both sessions, both connections, the clients, the schema check,
field numbers, varints and times.
Paths below are relative to
`src/` of the repository, `grapec/` standing for `src/grapec/`.

`PROJECT.json` lists the components, the runs, the source lines behind every
definition, the hazards the properties are for, the findings and the theorems.

## The system

| component | state | operations | talks to |
|---|---|---|---|
| Idle pool, `grapec/pool.py` | `_idle`, `_closed`, under a lock | `take`, `give_back`, `drain` | called by a session; never opens or closes a connection itself |
| Session, `grapec/session.py` | the pool, a bounded semaphore of `max_conns` permits; per call `conn` | `call` (`_acquire`, `_release`), `close` | pool, connections, calling threads |
| AsyncSession, `grapec/session.py` | the pool, an `asyncio.Semaphore`; per task `conn` | `call`, `aclose`, `close`; a task may be cancelled at any await | pool, connections, event loop |
| gRPC connection, `grapec/grpc.py` under `sync.py` and `aio.py` | an h2 connection, `dead`, `_call` (stream, pending body, answer) | `poll`, `unary` (`start`, `data_to_send`, `feed`, `result`, `cancel`, `abort`), `close` | h2, the peer's bytes, its session |
| thrift connection, `grapec/thrift.py` under `sync.py` and `aio.py` | `dead`, `_call`, `_seqid`, `_inbuf` | `poll`, `unary` (`start`, `feed`, `result`, `abort`), `close` | the peer's bytes, its session |
| Schema, `grapec/schema.py` | one cached schema per class | `build_schema`, `schema_of`, `zero_value` | the codecs |
| Protobuf codec, `grapec/wire.py`, `protobuf.py` | none | `encode`, `decode` | schema; called by sessions and by users |
| Thrift schema check and codec, `grapec/thrift.py` | `_checked`, a global set of marked classes | `check_schema`, `encode`, `decode`, `decode_result` | schema; any thread |
| Dict and JSON, `grapec/dict.py` | none | `to_dict`, `from_dict`, `to_json`, `from_json` | schema |
| Clients and services, `grapec/service.py` | per client its session and whether it owns it; method tables | construction, bound methods, calls, `close`, `__del__` | sessions, schema, the garbage collector |
| Proto export, `grapec/proto.py` | none | `export_proto` | schema, services |
| Structs and errors, `grapec/struct.py`, `errors.py` | none | `struct`, exceptions | everything |

What is hard in it:

* Threads share a pool and a semaphore without one lock around both. A call
  holds a permit for a long time in which it takes, opens, uses and gives back a
  connection, while others do the same and `close()` drains the pool.
* A task can be cancelled at every `await`: in the preface of a connection that
  is being opened, in the poll of an idle one, in the GOAWAY of one it closes.
* A connection outlives its calls. A thrift call cannot be cancelled and a gRPC
  call is only reset, so late answers meet later calls.
* A deadline can strike while a frame is half written or half read.
* Control frames (SETTINGS, PING, WINDOW_UPDATE, GOAWAY, RST_STREAM) come at any
  time, also before a call and in the same read as its answer.
* Peers write the same message in many ways and with other versions of a class.
* `check_schema` walks classes that may be recursive, faulty or half defined, in
  several threads, on one global set and without a lock.
* A client that owns its session closes it when it is collected, at a moment the
  program does not choose: between two calls, in the middle of one, or inside the
  lock of a pool.

What makes each part correct: one call at a time on a connection; no connection
leaked, closed twice or used once it failed; permits neither lost nor made; the
documented cap; calls that return; a closed session that ends with nothing open;
answers that belong to the call that returns them; messages that come back as
they were sent, whoever rewrote them, and errors for those that are spoilt; one
outcome for a reply; classes refused only for a fault of their own; sessions closed
by their owner and by nobody else.

## Modules

| module | models | instantiated by |
|---|---|---|
| `Pool` | `Pool`: the idle list, oldest first, and its clock | `Session`, `AsyncSession` (EXTENDS) |
| `Session` | the threaded session, one action per step between shared accesses | `MCSession` |
| `ConnLease` | the abstract session: exclusive leases under a cap | `Lease` in both session modules |
| `PoolProofs` | lemmas about `Pool`, for both sessions | `SessionProofs`, `AsyncSessionProofs` (EXTENDS) |
| `SessionProofs` | theorems about `Session` | |
| `AsyncSession` | the asyncio session, one action from await to await | `MCAsyncSession` |
| `AsyncSessionProofs` | theorems about `AsyncSession` | |
| `Clients` | how long clients, sessions, bound methods and calls live | `MCClients` |
| `ClientsProofs` | theorems about `Clients` | |
| `UnaryConn` | the abstract connection: the `Connection` protocol of session.py | `Contract` in both connection modules |
| `ThriftConn` | a thrift connection and its server over the connection's life | `MCThriftConn` |
| `GrpcConn` | a gRPC connection, h2 below it and its server | `MCGrpcConn` |
| `ThriftConnProofs`, `GrpcConnProofs` | theorems about the two connections | |
| `SchemaCheck` | `check_schema` of thrift.py, call by call, in several threads | `MCSchemaCheck` |
| `SchemaCheckProofs` | theorems about `SchemaCheck` | |
| `Wire`, `Times` | wire.py, and the timestamps and durations of protobuf.py, as operators | the codecs |
| `Schema`, `Values` | schema.py as operators: `build_schema`; and zero values, enums and unions | the codecs |
| `CodecProofs` | theorems about `Schema`, `Wire` and `Times` | |
| `Protobuf`, `ThriftCodec`, `DictForm` | protobuf.py, the codec of thrift.py and dict.py as operators | `Exchange` |
| `Exchange` | a message on its way between two implementations, in any form | `MCExchange` |

`MC...` modules give the constants of an instance; the configurations name them.

### Pool and Session

`idle` is `Pool._idle`, newest last; an entry carries its age instead of the time
it was returned, and ages stop one past `max_idle_time`, where they are all
alike. `Take`, `GiveBack` and `Drain` are the three methods, each atomic because
each holds the lock. `Tick` is the clock.

In `Session`, `pc[t]` is where thread t is in `_acquire`, `call`, `_release` or
`close`; `held[t]` is its local `conn`; `toClose[t]` are connections it took out
of the pool only to close them (what expired, what `close` drained); `permits` is
the semaphore. A step ends where another thread may get in: at a lock, at the
semaphore, at I/O. So "take from the pool" (`TakeFromPool`), "close what expired"
(`CloseTaken`), "connect" (`Connect`, `ConnectFails`), "poll" (`Poll`,
`Discard`), the call itself (`Unary`), "give back or close" (`ReleaseToPool`,
`ReleaseRefused`, `CloseHeld`) and "release the permit" (`ReleasePermit`) are
actions of their own. `status[c]` is all a session sees of a connection: absent,
healthy, doomed (the peer has left and nobody has read so yet) or broken.

### AsyncSession

The same pool under tasks. One action is what runs between two awaits. The
semaphore is asyncio's, as in CPython 3.11 and 3.12: a queue of waiters
(`waiters`) of which some are already woken (`granted`), and `Wake` is
`_wake_up_next`. `Cancel` cancels a task at the await it is at. `abandoned` holds
the open connections that no variable refers to any more; the interpreter closes
them when it collects their stream writer (`Collect`), at any later time.

### ThriftConn and GrpcConn

Both follow one connection through the pool: `pooled`, polled, sending,
receiving, pooled again, until `gone`. `Client` is the transport and the
protocol object, `Server` what a server may do. The bytes on the way are a
sequence of pieces or frames (`toClient`) of which a read takes what is there.

In `ThriftConn` a reply is two pieces, so that reads and crashes cut it; a server
may answer late, twice, or with messages that answer nothing. In `GrpcConn` call
c is stream c; `out` is what h2 has queued, `window` what the server's flow
control admits, `openStreams` and `endSent` how h2 counts streams; `blocking`
chooses sync.py's socket, whose writes may be cut by a deadline, or aio.py's
buffered writer, whose writes are not; `torn` and `confused` say what has become
of the byte stream; `heard` what the server knows of each stream. h2, TCP and the
servers are modelled as the code uses them and marked external in the map.

### Clients

A client made from a URL owns its session (which bears the client's name), one made
from a session shares it. `client[c]` has what the object has, and `held`, whether a
variable of the program refers to it; `kept` are the sessions that variables refer
to. A call is a method access: `bound` says that the bound method exists, which
keeps its client alive, and `pc` where its frame or coroutine is. For blocking calls
the frame holds the bound method; the coroutine of an asyncio call holds the session
only. `Reachable` and `Referenced` are what the interpreter goes by; `Collect` is
`__del__` of a client and `CollectSession` that of a session. What the session does
with a call is reduced to `Take` and `GiveBack`, the two places where it looks at
the pool. `CollectUnderLock` is the cyclic collector running inside one of them.

### SchemaCheck

`stack[t]` holds the calls of `check_schema` in thread t, with the class and the
place in its fields; `checked` is the global set `_checked`. `Mark`, `Pass`,
`Enter`, `Refuse`, `Unwind` and `Return` are the steps between two looks at the set;
`EnterUndefined` is the NameError of a forward reference that is not defined yet.
`tangled` remembers that two walks overlapped or one was broken off.

### Wire, Schema, the codecs and Exchange

A protobuf or thrift message is a sequence of tokens [number, wire type, body]. In
protobuf the body of a varint is its groups of bits, that of a length delimited
field the bytes it holds, which a decoder reads as characters, packed items or
tokens; in thrift a body is a value, a list with the type of its items, a map, or a
struct that ends with `Stop`. A dict is a function from keys to values, its strings
known by what they spell (a number, an enum's name, a time with its offset).
`EncodeStruct` and `DecodeStruct`, `WriteFields` and `ReadFields`, `ToDict` and
`FromDict` are the pairs of functions of the three files, with everything they call;
what raises gives a result that is not ok. Integers have `Bits` bits, in groups of
`Group`, and narrower ones and enums theirs. `Schema` gives out the field numbers
and rejects what `build_schema` rejects. Operators that descend into nested values are
RECURSIVE and stand in `Values`, `Protobuf`, `ThriftCodec` and `DictForm`; what needs no
descent stands in `Wire`, `Times` and `Schema`, as recursive functions where there is a
loop in the code, and is proved about.

`Exchange` starts from every object of every class in every form that has the class
(`protobuf`, `thrift`, `json`, `dict`, and `reply`, the result of a thrift method),
encoded, and lets a peer take up to two steps: rewrite the message as a conforming
implementation may (fields in another order, unknown or repeated; lists unpacked or
in chunks, defaults written, padded varints, dict entries in every form; sets for
lists, zeros left out; keys in either case, nulls, numbers for strings and strings
for numbers, another time zone), or spoil it once (cut, bytes too many, an overlong
varint, a negative size, a bad tag, another type).

## Runs

| run | question | instance |
|---|---|---|
| `session_safety` | do ownership, permits and the cap on leases hold in every interleaving, and does `Session` implement `ConnLease`? | 3 threads, 4 connections, 2 permits, 2 idle, expiry after 1 tick |
| `session_liveness` | does every call return, and does a closed session end empty? And without expiry, is the documented cap kept? | 3 threads, 3 connections, 2 permits, no expiry |
| `session_open_cap_expiry` | is the documented cap kept with expiry? (no) | as session_safety, without a pool_timeout |
| `async_session` | the same for tasks that are cancelled anywhere | 3 tasks, 3 connections, 2 permits, immediate expiry |
| `clients` | is a call only ever refused by who closed or let go, and does every owned session end closed? | 2 clients (one asyncio, one in a cycle), 1 shared session, 2 calls |
| `clients_async_call` | does a call keep its client alive in asyncio, too? (no) | 1 client, 1 call |
| `thrift_conn` | does a call only get its own reply, and does `ThriftConn` implement `UnaryConn`? | 3 calls, 2 replies to each, sequence numbers modulo 3 |
| `grpc_conn` | the same for gRPC: streams, resets, whole frames | 2 calls, 2 chunks each, 1 ping, 2 frames on their way, 1 concurrent stream |
| `grpc_torn_frame` | is a connection whose call timed out still HTTP/2? (no) | no ping, 2 concurrent streams |
| `grpc_early_answer` | has a kept connection room for its next call? (no) | no ping, 1 concurrent stream |
| `schema_check` | is a class refused only for a fault, and again on every use? | 2 threads, 8 classes, 3 uses |
| `exchange` | does a message come back as it was sent, in every form, however peers rewrite it, and is a spoilt one refused? | 925 messages, 2 steps, 4-bit integers in groups of 3, 3-bit enums |

Why the bounds are enough. Two permits and three threads give a caller that
waits, two that run, and one of them is enough to close the session; a fourth
connection shows what is open beyond the cap. `MaxIdle` equal to `MaxConns`
together with expiry reaches full, empty and expired pools; the refused return
comes from a closed pool. A third call on a thrift connection, with sequence
numbers modulo three, makes the number wrap while replies to the first are
still about. Two gRPC calls are a call given up and the one that meets
its frames; two chunks of body make a request that is partly sent; one concurrent
stream makes the limit bite at the second call.

In `clients` two calls are one that runs while the other lets go of what it needs;
one client is blocking and in a reference cycle, the other asyncio, and the shared
session serves the blocking one. The classes of `schema_check` are a chain with a
fault at its end, two classes that mention each other with a fault in one, two that
do so without, and one whose forward reference is defined late; three uses are two
that overlap and one that meets what they left behind. In `exchange` four bits in
groups of three need two groups and leave two bits of the last unused, as sixty four
bits in groups of seven leave six; every pair of steps meets; and the classes hold
every kind of field in every place it may stand, and in 216 classes of three fields
every mixture of missing numbers and the five explicit ones that are not reserved.

### What each property says

`session_safety`: `TypeOK`; `ExclusiveOwner`, a connection is in the pool once or
in one thread's hands; `NothingLeaks`, open means owned, and a closed pool owns
nothing; `PermitsConserved`; `LeaseCap`, the pool and the running calls are under
the cap although a call connects long after it found the pool empty; `IdleSorted`,
on which the expiry of a prefix rests; `ExhaustedOnlyWhenBusy`, RESOURCE_EXHAUSTED
is true when it is raised; `CallsAreNotCut`, neither close nor expiry closes a
connection in use; `Leases`, the refinement. `session_liveness`: `OpenCap`,
`CallsReturn`, `CloseIsFinal`. `async_session`: `ExclusiveOwner`,
`PermitsConserved`; `NothingElseLeaks` names the only four ways to lose a
connection; `NoPermitIdles`, a free permit is always on its way to the queue;
`OwnedCap`, apart from lost connections the cap holds exactly; `CallsReturn`, also
for a call that never gives up waiting.

`clients`: `RefusedOnlyIfClosed`, a blocking call through the owner of a session, or
a call on the program's own session, never finds it closed behind its back;
`SharedLeftAlone`, a shared session outlives its clients; `FallbackCloses`, what an
unreachable client owns ends closed and empty, also while calls run or the program
keeps the session.

`thrift_conn` and `grpc_conn`: `OwnReply`, `PooledIsClean`, `CallsEnd` and
`KeepsContract` (the refinement of `UnaryConn`, which is what the sessions assume of
`Unary`); for gRPC also `OnlyAnsweredStreamsStayOpen`, `WholeFrames` and
`FinishedSurvives`.

`schema_check`: `OnlyFaultyRefused`; `AcceptedIsSound`, for classes that are not
recursive and walks that do not overlap; `EnteredOnce`, recursion ends.

`exchange`: `DecodesToValue`; `OldReaderReads`, a class that lacks a field reads the
others; `SpoiltIsAnError`; `NumbersAreLegal`; `ReplyIsOne`, a thrift reply means the
same to a caller that knows all the exceptions and, but for those it lacks, to one
that does not.

### Fairness

`Session`: a thread inside a call or inside `close` keeps running. Threads are
scheduled, connecting is bounded by `connect_timeout` and a call by its timeout
or its answer; nobody has to start a call, to close the session or to give up.
With `pool_timeout` set, waiting for a permit ends because the wait is itself a
step that must happen. `CallsReturn` assumes that hang-ups stop in the end:
`_acquire` goes round as long as idle connections turn out dead.
`AsyncSession`: the loop runs every task that can run, and no more. The one await
without a bound of its own is the GOAWAY that a task flushes when it closes a
connection (aio.py:88); the model takes it to end.
`ThriftConn` and `GrpcConn`: the transport's deadline strikes in the end, and
gRPC code that waits for nobody runs on. Servers and writes owe nothing.
`Clients`: a call that has begun runs on, and the interpreter collects what nothing
refers to; the program owes nothing. `SchemaCheck`: a walk goes on (no property of
its run needs it). `Exchange` needs no fairness.

`CHECK_DEADLOCK FALSE` stands where a model really stops: a connection that is
gone, with all calls made; a program that has let everything go; a schema that was
used often enough; and a message that has been rewritten enough. The sessions are
checked for deadlock.

## What is proved

The theorems hold for every value of the constants that the assumptions admit; each
is about the specification of its module with all its actions, cancellations,
failures and servers included. Where a run checks the property too, the run shows it
on its instance. `TypeCorrect`, `Spec => []TypeOK`, is proved for every system below.

The assumptions are those the modules state about their constants: `None` is none of
the things it could be confused with, the sets of threads and of tasks are finite,
the bounds are naturals, `max_conns` is positive or None. Those of the codecs: an integer is at least as
wide as a group (`WidthAssumption`), the body of a cut field is no sequence of groups
(`CutAssumption`), the nanos of a second fit an integer (`TimeAssumption`; 10^9 in
2^64), and a hint has as many ids as it has fields or members, each one that `Id`
admits (`HintsAssumption`). One limits what is shown: in `ThriftConn` a connection makes at most as many calls as there are sequence
numbers (`BoundsAssumption`; 2^31 in the code). A number that came round again could
answer for an old call.

### Session: `SessionProofs`

`PermitsAreConserved`, `LeasesAreCapped`; `OwnersAreExclusive`, `NothingIsLeaked`,
`CallsAreNeverCut`, `ExhaustionIsTrue`, `IdleIsSorted`, `SessionImplementsLeases`
(`Spec => Lease!Spec`), and `OpenIsCapped`: without expiry (`MaxIdleTime = None`) the
documented cap holds. With expiry it does not, which is finding 1.

The first inductive invariant is `Counts == TypeOK /\ PermitsConserved /\ LeaseCap`.
`LeaseCap` alone is not inductive: a thread that has a permit and finds the pool
empty becomes a lease, and only `PermitsConserved` says that not all leases were
taken then; and a permit is counted by the control points of `TypeOK`. The lemmas
say what `Take`, `GiveBack`, `Drain` and `Tick` do to the list (`PoolProofs`), and
how a cardinality changes when one thread moves (`OneThreadMoves`, `CountStep`).

The second is `Ownership == ExclusiveOwner /\ NothingLeaks /\ (closed => Idle = {})`,
over `Counts`. Neither half is inductive alone: that a connection just opened is in
nobody's hands follows from `NothingLeaks`, and that closing one leaves the others'
open from `ExclusiveOwner`. Every step that moves connections is an instance of one
lemma, `HandOver`: a thread ends up with connections that came from the pool, from
its own hands or from those that were not open. The refinement then maps
`TakeFromPool` to `Reuse` or `Expire`, `Connect` to `Open`, `ReleaseToPool` to
`Park`, `Discard` and `CloseHeld` to `Drop`, `Close` to `Shut`, and the other steps
to stutters; that there is room for `Open` is `RoomToOpen`, from `LeaseCap`.

`OpenCap` needs a third, `Spared`: until the session is closed nobody holds
connections only to close them, and from then on what was drained and the leases
together stay under the cap, because both only shrink (`ClosedShrinks`).

### AsyncSession: `AsyncSessionProofs`

`PermitsAreConserved`, `PermitsNeverIdle` (`NoPermitIdles`), `OwnersAreExclusive`,
`NothingElseIsLost` (`NothingElseLeaks`), `OwnedAreCapped` (`OwnedCap`) and
`AsyncSessionImplementsLeases` (`Leases`), wherever tasks are cancelled.

`SemInv` says that the queue holds each waiting task once, that only waiting tasks
are woken, that every permit is free, on its way or in use, and that none is free
while all in the queue sleep. The first two make the third inductive: a task that is
cancelled after it was woken must take exactly itself out of the queue and out of
`granted`. `Ownership` is that of the session with the abandoned connections beside,
and `HandOver` gains the ones a cancellation abandons. `CapInv` gives `OwnedCap`: the
connections in the pool or drained from it and the busy tasks are together under the
cap. The cap does not follow from the permits alone, for idle connections have none;
it holds because a task that opens a connection has found the pool empty, and one
that gives a connection back gives its permit back in the same step.

`Leases` is not a property of a run but only a theorem: callers of both sessions see the
same `ConnLease`. The lease of a task is its `held`, through the flush of a GOAWAY. A task
that finds its connection dead closes it and takes the next one without an await between:
`Reuse` lets a caller that has a lease move on to a parked connection, `Drop` lets parked
ones expire in the same step, and a cancelled task drops its lease whatever becomes of the
connection. The room for `Open` is `CapInv` again, at the one busy task without a lease.

### ThriftConn and GrpcConn: `ThriftConnProofs`, `GrpcConnProofs`

For both: `RepliesAreOwn` (`OwnReply`), `PoolHoldsCleanConnections` (`PooledIsClean`)
and the refinement of `UnaryConn`, `ThriftKeepsContract` and `GrpcKeepsContract`; for
gRPC also `DeadlinesFreeStreams` (`OnlyAnsweredStreamsStayOpen`),
`StreamWritersStayInStep` (`WholeFrames`) and `AnswersSurvive` (`FinishedSurvives`).

For thrift, `OwnReply` is about what a call returns and says nothing of what is on its
way to it. `StreamInv` does: while a call is under way, the message that is read next
is its first reply if it bears its number, and what comes between the poll and the
call answers an earlier call. That numbers tell calls apart needs `Numbered`: `_seqid` counts the
calls that started. `ReplyInv` adds that a server replies to what it has read only.

For gRPC the frames carry streams and no number comes round, so `EndInv` is simpler: an
answer on its way is the one the server gave on that stream. But a call also writes
while it reads. `OutInv` says what h2 can have queued (between calls only control
frames, which is what makes a pooled connection clean), `HeardInv` that through a
stream writer no RST_STREAM overtakes its HEADERS, `GrantInv` and `CallInv` that a
call sends no more than it was granted, and `StreamInv` which streams h2 counts as open.

### Clients: `ClientsProofs`

`RefusalsAreDeserved` (`RefusedOnlyIfClosed`) and `SharedSessionsSurvive`
(`SharedLeftAlone`). What makes them inductive is who keeps what alive: an owned
session is dropped only after its client (`ClientInv`), a bound method keeps its client
and the frame of a blocking call its method (`CallInv`), what a variable refers to
exists (`KeptInv`), and what the interpreter dropped nobody refers to again
(`DroppedInv`). `CallInv` says nothing of that kind about a coroutine, which is finding 4.

### SchemaCheck: `SchemaCheckProofs`

`RefusalsAreDue` (`OnlyFaultyRefused`), for all classes and any number of threads;
`AcceptanceIsSound` (`AcceptedIsSound`) and `NoClassTwice` (`EnteredOnce`), with the
conditions these properties state.

The invariant of the first says that a thread has calls of `check_schema` exactly as
long as its use goes on, and that the walk stays inside every sound set of classes that
its root is in, so that it meets no fault there. It does not speak of the marks:
whatever other threads do to the set, at worst a class is not entered.

Acceptance rests on the marks, and `WalkInv` says what they are worth as long as
nothing tangled them: one thread walks at a time, its calls are a path of marked
classes that mention each other, no class twice, and the hierarchical classes that
are marked and not on that path are, as a set, sound (`Orderly`). A mark on a class
of the path is no such promise; a walk passes one all the same, and the lemma
`MetAgainIsDone` is why that does no harm: the class would be mentioned by one that it
mentions itself, and so is not hierarchical.

### Schema, Wire and Times: `CodecProofs`

These theorems are about functions and not about behaviours. What the code computes in
a loop is a recursive function here, and two things make them reachable without an
induction theorem, which the provers cannot instantiate. `SetInduction` is the induction
itself: a set of naturals that has 0 and with each number the next has all, because
otherwise some interval 0..n that ends in a number it lacks would be the smallest one,
and strict inclusion is well-founded on the subsets of a finite set. And for every
function a lemma (`TakeNumbersTakesThem`, `BuildSchemaUnfolds`, `Pow2Doubles`,
`JoinedUnfolds`, `ReadingUnfolds`) shows that some function meets its definition, so
that the defined one does.

`NumbersLegal` (`NumbersAreLegal`): however a class mixes explicit and consecutive
numbers, fields and unions, if `build_schema` accepts it, all its numbers are different,
at most the maximum, and not reserved. `NextNumberIsFree` says that the search for the
next number ends at the least free one above the last; `TakeNumberTakesOne` and
`TakeNumbersTakesThem` carry it to a number and to the members of a union; and
`WellBuilt`, the invariant of the loop, says that all numbers given out are in `used`,
without which a later field could be given one of them.
`LaterFieldsKeepNumbers`: a field declared after the others changes nothing about them.

`VarintsRoundTrip`: `decode_varint` accepts what `encode_varint` writes for any integer,
and returns it modulo 2^64. `GroupsJoin` adds up the groups place by place (`Digits`),
and `EncodedVarint` shows that they are never too many for the check on the length,
also where the groups do not divide the width, as seven does not divide sixty-four.
`SignedVarintsRoundTrip`: with `to_signed64` every signed integer comes back.
`DecodedIntegersFit`: whatever groups a peer writes, what is accepted fits.
`PaddingIsHarmless`: a zero group at the end changes nothing.

`TimestampsRoundTrip` and `DurationsRoundTrip`: times whose seconds fit come back to the
microsecond, before 1970 and negative ones too, though the two split them differently
and one divides nanos of either sign.

### Only model-checked

* Liveness: `CallsReturn` of both sessions, `CloseIsFinal`, `CallsEnd` of both
  connections, `FallbackCloses`. Fairness and ENABLED are out of the prover's reach.
* `Exchange` with `Protobuf`, `ThriftCodec` and `DictForm`: `DecodesToValue`,
  `OldReaderReads`, `SpoiltIsAnError`, `ReplyIsOne`. A message holds messages, so their
  operators are RECURSIVE, and what they compute would be shown by induction over data;
  both are beyond the provers. `NumbersAreLegal`, checked in the same run, is proved.

## Findings

Each is a run that must find its property violated; `PROJECT.json` quotes the
sentence that the code departs from.

1. `session_open_cap_expiry`: `take()` forgets expired connections, the caller
   closes them afterwards; meanwhile another thread connects, above `max_conns`.
2. `grpc_torn_frame`: a deadline inside `sendall` leaves half a frame on the wire,
   RST_STREAM may follow it, and the connection is pooled.
3. `grpc_early_answer`: a stream answered before its request was complete is
   never closed; kept connections run out of streams.
4. `clients_async_call`: the coroutine of `Greeter(url).say_hello(req)` does not hold
   its client, which is collected, and closes its session, before the call starts.

### Known departures without a run

The models take these steps; the properties name them as exceptions, or leave the
case out by a condition that is stated with them: no property is about what goes wrong
there, and the hazards list none for these lines (of the overlapping walks of
`check_schema` it is only the refusals that `OnlyFaultyRefused` covers).

* A task cancelled in `conn.poll()` gives its permit back and drops an open
  connection, which stays open until it is collected: above `max_conns`
  (grapec/session.py:528, docs/reference.md:187). `NothingElseLeaks` and `OwnedCap`
  have `abandoned` for it.
* A complete answer is thrown away when the control frame queued behind it cannot be
  written (grapec/sync.py:110, grapec/grpc.py:181).
* A dict field that arrives as a VARINT 0 is read as an entry
  (grapec/protobuf.py:244, docs/reference.md:122). `MistypeMap` takes the step.
* A class stays marked when a forward reference in a nested class raises NameError,
  and so do parts of a recursive class that is refused; and a second thread accepts
  a class that the first is still walking (grapec/thrift.py:73-103, against
  grapec/thrift.py:4-5 and docs/reference.md:321). A later use then fails an
  assertion in `type_of`. `AcceptedIsSound` excludes these cases.
* The cyclic collector inside the lock of a pool waits for that very lock
  (grapec/pool.py:40, docs/reference.md:198). `FallbackCloses` names it.
* A dict is read as the first of two structs in a union (grapec/dict.py:255), and
  of two fields with the same camel-case key the last takes both
  (grapec/dict.py:157). `KeysApart` excludes them.

## Left out

* In the sessions: KeyboardInterrupt inside `_acquire`, options and arguments.
  `__del__` is in `Clients`, not in `Session`.
* In the connections: bytes of HPACK, metadata and compression; connection-level
  flow control; the further RST_STREAM that h2 sends for late frames of a stream
  that was reset; real time (a deadline may strike at any step), so also that
  `sendall` runs with the time left at the read before it (sync.py:110) and that
  the flush of a GOAWAY has no bound of its own (aio.py:88); TLS, ALPN and name
  resolution.
* In the codecs: the bytes of strings and doubles, `bytes` (as strings), base64, NaN
  and digits, integers in float fields, dates that no `datetime` can hold, naive
  times; the header of a thrift message and application exceptions.
* In the services: the checks of method declarations and the tables of inherited
  methods, which run once at import.
* Not modelled at all: proto export (a text generator without state), structs (a
  layer over dataclasses) and the exception classes: they hold little that a model
  would show.

## Plan

Next to model: a clock for the deadlines of sync.py and the flush in aio.py; the
OverflowError of a reply whose dates no `datetime` can hold (session.py:109); method
tables under inheritance.

Next to prove: that a chain of `ConnLease` and `UnaryConn` is what a call sees; the
round trips of protobuf's packed lists and of the numbers of `ThriftCodec` and `DictForm`,
for which their leaves would have to stand in modules without RECURSIVE operators, as
`Times` does.
