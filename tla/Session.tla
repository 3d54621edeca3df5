------------------------------ MODULE Session ------------------------------
(***************************************************************************)
(* The threaded Session (session.py, class Session): calls by several      *)
(* threads share a pool of connections (Pool.tla) and a bounded semaphore  *)
(* of max_conns permits.  A thread outside a call starts one or closes the *)
(* session.  A call takes a permit, takes an idle connection or opens one, *)
(* runs on it, gives it back or closes it, and releases the permit.        *)
(*                                                                         *)
(* A connection is what the session sees of it: absent (not open), healthy,*)
(* doomed (the peer's hang-up or GOAWAY has arrived but was not read yet)  *)
(* or broken (healthy() says False).  What a call on the wire does to it   *)
(* is the subject of the connection modules.                               *)
(***************************************************************************)
EXTENDS Pool, FiniteSets

CONSTANTS
    Threads,     \* the threads that use the session
    MaxConns,    \* max_conns, or None for no cap
    PoolTimeout  \* BOOLEAN: pool_timeout is not None

ASSUME ThreadsAssumption == IsFiniteSet(Threads) /\ None \notin Threads
ASSUME MaxConnsAssumption == MaxConns \in (Nat \ {0}) \cup {None}
ASSUME PoolTimeoutAssumption == PoolTimeout \in BOOLEAN

VARIABLES
    pc,       \* where each thread is
    held,     \* the local variable conn of each thread's call, or None
    toClose,  \* connections a thread took out of the pool only to close them
    status,   \* what each connection is
    permits   \* value of the bounded semaphore, None when there is no cap

vars == <<idle, closed, pc, held, toClose, status, permits>>

\* Control points of _acquire, call, _release and close, by what comes next.
Waiting == {"permit"}
Permitted ==
    {"take", "taken", "discard", "unary", "release", "close", "unpermit"}
Using == {"discard", "unary", "release", "close"}  \* conn is a connection
PC == {"out", "closing"} \cup Waiting \cup Permitted

Status == {"absent", "healthy", "doomed", "broken"}
Open == {c \in Conns : status[c] # "absent"}

Capped == MaxConns # None

Init ==
    /\ PoolInit
    /\ pc = [t \in Threads |-> "out"]
    /\ held = [t \in Threads |-> None]
    /\ toClose = [t \in Threads |-> {}]
    /\ status = [c \in Conns |-> "absent"]
    /\ permits = MaxConns

Goto(t, label) == pc' = [pc EXCEPT ![t] = label]
Hold(t, c) == held' = [held EXCEPT ![t] = c]
SetStatus(c, s) == status' = [status EXCEPT ![c] = s]

-----------------------------------------------------------------------------
(* A call: Session.call, _acquire and _release.                            *)

Call(t) ==
    /\ pc[t] = "out"
    /\ Goto(t, IF Capped THEN "permit" ELSE "take")
    /\ UNCHANGED <<idle, closed, held, toClose, status, permits>>

AcquirePermit(t) ==
    /\ pc[t] = "permit"
    /\ permits > 0
    /\ permits' = permits - 1
    /\ Goto(t, "take")
    /\ UNCHANGED <<idle, closed, held, toClose, status>>

\* Mutant: goes on without a permit when acquire returns False.
GiveUpIgnored(t) ==
    /\ pc[t] = "permit"
    /\ PoolTimeout /\ permits = 0
    /\ Goto(t, "take")
    /\ UNCHANGED <<idle, closed, held, toClose, status, permits>>

\* acquire(timeout=...) returns False, RESOURCE_EXHAUSTED.  It looks at the
\* value once more before it gives up, so it fails only when there is none.
GiveUpWaiting(t) ==
    /\ pc[t] = "permit"
    /\ PoolTimeout /\ permits = 0
    /\ Goto(t, "out")
    /\ UNCHANGED <<idle, closed, held, toClose, status, permits>>

\* Pool.take on an open session.
TakeFromPool(t) ==
    /\ pc[t] = "take"
    /\ \E k \in 0..Len(idle) :
          /\ Take(k)
          /\ Hold(t, Newest(k))
          /\ toClose' = [toClose EXCEPT ![t] = StaleConns(k)]
    /\ Goto(t, "taken")
    /\ UNCHANGED <<status, permits>>

\* Mutant: the error leaves _acquire without releasing the permit.
TakeFailsKeepingPermit(t) ==
    /\ pc[t] = "take"
    /\ closed
    /\ Goto(t, "out")
    /\ UNCHANGED <<idle, closed, held, toClose, status, permits>>

\* Pool.take raises TransportError.
TakeFails(t) ==
    /\ pc[t] = "take"
    /\ closed
    /\ Goto(t, "unpermit")
    /\ UNCHANGED <<idle, closed, held, toClose, status, permits>>

\* old.close() on an expired connection in _acquire, conn.close() on a drained
\* one in Session.close.  Not under the lock, other threads run in between.
CloseTaken(t) ==
    /\ \E c \in toClose[t] :
          /\ toClose' = [toClose EXCEPT ![t] = @ \ {c}]
          /\ SetStatus(c, "absent")
    /\ UNCHANGED <<idle, closed, pc, held, permits>>

ReadyToRun(t) == pc[t] = "taken" /\ toClose[t] = {}

Connect(t) ==
    /\ ReadyToRun(t) /\ held[t] = None
    /\ \E c \in Conns \ Open : Hold(t, c) /\ SetStatus(c, "healthy")
    /\ Goto(t, "unary")
    /\ UNCHANGED <<idle, closed, toClose, permits>>

\* Mutant: a failed connect leaves _acquire without releasing the permit.
ConnectFailsKeepingPermit(t) ==
    /\ ReadyToRun(t) /\ held[t] = None
    /\ Goto(t, "out")
    /\ UNCHANGED <<idle, closed, held, toClose, status, permits>>

ConnectFails(t) ==
    /\ ReadyToRun(t) /\ held[t] = None
    /\ Goto(t, "unpermit")
    /\ UNCHANGED <<idle, closed, held, toClose, status, permits>>

\* conn.poll() reads what the peer sent meanwhile, then healthy is looked at.
Poll(t) ==
    /\ ReadyToRun(t) /\ held[t] # None
    /\ IF status[held[t]] = "healthy"
       THEN Goto(t, "unary") /\ UNCHANGED status
       ELSE Goto(t, "discard") /\ SetStatus(held[t], "broken")
    /\ UNCHANGED <<idle, closed, held, toClose, permits>>

\* Mutant: the unhealthy connection is forgotten, not closed.
DiscardUnclosed(t) ==
    /\ pc[t] = "discard"
    /\ Hold(t, None)
    /\ Goto(t, "take")
    /\ UNCHANGED <<idle, closed, toClose, status, permits>>

\* Mutant: the loop polls the same connection again.
DiscardRetries(t) ==
    /\ pc[t] = "discard"
    /\ Goto(t, "taken")
    /\ UNCHANGED <<idle, closed, held, toClose, status, permits>>

\* The connection that did not survive the poll is closed, and the loop goes
\* back to the pool.
Discard(t) ==
    /\ pc[t] = "discard"
    /\ SetStatus(held[t], "absent")
    /\ Hold(t, None)
    /\ Goto(t, "take")
    /\ UNCHANGED <<idle, closed, toClose, permits>>

\* conn.unary returns or raises.  It leaves the connection usable, or finds
\* it broken; a hang-up may have arrived behind the answer, unread.
Unary(t) ==
    /\ pc[t] = "unary"
    /\ \/ UNCHANGED status
       \/ SetStatus(held[t], "broken")
    /\ Goto(t, "release")
    /\ UNCHANGED <<idle, closed, held, toClose, permits>>

Healthy(c) == status[c] # "broken"

\* Mutant: closes the connection although the pool kept it.
ReleaseAndClose(t) ==
    /\ pc[t] = "release"
    /\ Healthy(held[t])
    /\ GiveBack(held[t])
    /\ Goto(t, "close")
    /\ UNCHANGED <<held, toClose, status, permits>>

\* conn.healthy and give_back(conn): the pool keeps the connection.
ReleaseToPool(t) ==
    /\ pc[t] = "release"
    /\ Healthy(held[t])
    /\ GiveBack(held[t])
    /\ Hold(t, None)
    /\ Goto(t, "unpermit")
    /\ UNCHANGED <<toClose, status, permits>>

\* It is not healthy, or give_back returns False.
ReleaseRefused(t) ==
    /\ pc[t] = "release"
    /\ ~(Healthy(held[t]) /\ HasRoom)
    /\ Goto(t, "close")
    /\ UNCHANGED <<idle, closed, held, toClose, status, permits>>

\* Mutant: the permit is released here and once more in the finally clause.
CloseHeldAndPermit(t) ==
    /\ pc[t] = "close"
    /\ SetStatus(held[t], "absent")
    /\ Hold(t, None)
    /\ permits' = IF Capped THEN permits + 1 ELSE permits
    /\ Goto(t, "unpermit")
    /\ UNCHANGED <<idle, closed, toClose>>

CloseHeld(t) ==
    /\ pc[t] = "close"
    /\ SetStatus(held[t], "absent")
    /\ Hold(t, None)
    /\ Goto(t, "unpermit")
    /\ UNCHANGED <<idle, closed, toClose, permits>>

ReleasePermit(t) ==
    /\ pc[t] = "unpermit"
    /\ permits' = IF Capped THEN permits + 1 ELSE permits
    /\ Goto(t, "out")
    /\ UNCHANGED <<idle, closed, held, toClose, status>>

-----------------------------------------------------------------------------
(* Session.close, by any thread and any number of times.                   *)

\* Mutant: close() closes every connection of the session, leased ones too.
CloseEverything(t) ==
    /\ pc[t] = "out"
    /\ Drain
    /\ toClose' = [toClose EXCEPT ![t] = Open]
    /\ Goto(t, "closing")
    /\ UNCHANGED <<held, status, permits>>

Close(t) ==
    /\ pc[t] = "out"
    /\ Drain
    /\ toClose' = [toClose EXCEPT ![t] = Idle]
    /\ Goto(t, "closing")
    /\ UNCHANGED <<held, status, permits>>

CloseReturns(t) ==
    /\ pc[t] = "closing" /\ toClose[t] = {}
    /\ Goto(t, "out")
    /\ UNCHANGED <<idle, closed, held, toClose, status, permits>>

-----------------------------------------------------------------------------
(* The environment: peers hang up at any time, the clock ticks.            *)

HangUp(c) ==
    /\ status[c] = "healthy"
    /\ SetStatus(c, "doomed")
    /\ UNCHANGED <<idle, closed, pc, held, toClose, permits>>

ClockTick ==
    /\ Tick
    /\ UNCHANGED <<pc, held, toClose, status, permits>>

InCall(t) ==
    \/ AcquirePermit(t) \/ GiveUpWaiting(t)
    \/ TakeFromPool(t) \/ TakeFails(t)
    \/ CloseTaken(t) \/ Connect(t) \/ ConnectFails(t)
    \/ Poll(t) \/ Discard(t) \/ Unary(t)
    \/ ReleaseToPool(t) \/ ReleaseRefused(t) \/ CloseHeld(t)
    \/ ReleasePermit(t) \/ CloseReturns(t)

HangUps == \E c \in Conns : HangUp(c)

Next ==
    \/ \E t \in Threads : Call(t) \/ Close(t) \/ InCall(t)
    \/ HangUps
    \/ ClockTick

Spec == Init /\ [][Next]_vars

\* A thread inside a call or inside close keeps running: every wait in the code
\* is bounded (connect_timeout, the call's timeout) or ends with an answer.
Fairness == \A t \in Threads : WF_vars(InCall(t))

FairSpec == Spec /\ Fairness

-----------------------------------------------------------------------------
(* Correctness.                                                            *)

TypeOK ==
    /\ PoolTypeOK
    /\ pc \in [Threads -> PC]
    /\ held \in [Threads -> Conns \cup {None}]
    /\ toClose \in [Threads -> SUBSET Conns]
    /\ status \in [Conns -> Status]
    /\ permits \in IF Capped THEN 0..MaxConns ELSE {None}
    /\ \A t \in Threads :
          /\ pc[t] \in Using => held[t] # None
          /\ held[t] # None => pc[t] \in Using \cup {"taken"}
          /\ toClose[t] # {} => pc[t] \in {"taken", "closing"}

\* What a thread alone may touch: its call's connection and the ones it closes.
Mine(t) == ({held[t]} \ {None}) \cup toClose[t]

Busy == {t \in Threads : pc[t] \in Permitted}

\* Threads that run on a connection, or that found the pool empty and will
\* open one.
Leasing == {t \in Threads : pc[t] \in Using \cup {"taken"}}

\* A connection carries one call at a time: it is in the pool once, or in the
\* hands of one thread, never both (Pool.take, give_back and drain against the
\* calls between them).
ExclusiveOwner ==
    /\ \A i, j \in 1..Len(idle) : i # j => idle[i].conn # idle[j].conn
    /\ \A t \in Threads : Idle \cap Mine(t) = {}
    /\ \A t \in Threads : held[t] \notin toClose[t]
    /\ \A t, u \in Threads : t # u => Mine(t) \cap Mine(u) = {}

\* What somebody will close or give back.  The pool of a closed session would
\* never be looked at again.
Owned == (IF closed THEN {} ELSE Idle) \cup UNION {Mine(t) : t \in Threads}

\* Every open connection has an owner that will close it or give it back, and
\* nobody owns a closed one: no path through _acquire, _release or close
\* drops a socket or closes it twice, or leaves one in a closed pool.
NothingLeaks == Open = Owned

\* Every permit is free or held by a call that will release it, on every path,
\* the failed connect and the closed session included.
PermitsConserved == Capped => permits + Cardinality(Busy) = MaxConns

\* Pooled connections and running calls together stay within max_conns, even
\* though a call that found the pool empty opens its connection later, when
\* others have given theirs back.
LeaseCap == Capped => Len(idle) + Cardinality(Leasing) <= MaxConns

\* The list is oldest first: what take() drops is a prefix, and what it hands
\* out is the connection returned last.
IdleSorted == \A i, j \in 1..Len(idle) : i < j => idle[i].age >= idle[j].age

\* RESOURCE_EXHAUSTED is the truth: when a call gives up waiting, max_conns
\* other calls are under way.
ExhaustedOnlyWhenBusy ==
    [][\A t \in Threads : pc[t] = "permit" /\ pc'[t] = "out"
            => Cardinality(Busy) = MaxConns]_vars

\* Neither close() nor the expiry of idle connections closes a connection
\* while a call runs on it.
CallsAreNotCut ==
    [][\A t \in Threads : pc[t] = "unary" => status'[held[t]] # "absent"]_vars

\* The documented cap: at most max_conns connections are open at once.
OpenCap == Capped => Cardinality(Open) <= MaxConns

\* With a pool_timeout every call returns, unless peers keep hanging up on the
\* idle connections it tries (each such try closes one and takes another).
CallsReturn ==
    <>[][~HangUps]_vars =>
        \A t \in Threads : pc[t] \in Waiting \cup Permitted ~> pc[t] = "out"

\* Once the session is closed, every connection is closed in the end and none
\* is opened any more: not by calls under way, not by those that still wait
\* for a permit, not by later ones.
CloseIsFinal == closed ~> [](Open = {})

-----------------------------------------------------------------------------
(* The session implements ConnLease.                                       *)

Lease == INSTANCE ConnLease WITH
    Callers <- Threads, lease <- held, parked <- Idle, shut <- closed

\* Whatever the interleaving, callers see exclusive leases under the cap, and
\* a shut session parks nothing.
Leases == Lease!Spec

=============================================================================
