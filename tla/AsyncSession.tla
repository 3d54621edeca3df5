---------------------------- MODULE AsyncSession ----------------------------
(***************************************************************************)
(* The asyncio session (session.py, class AsyncSession) over the same pool *)
(* (Pool.tla).  Tasks run on one thread and interleave only where they     *)
(* await, so one action here is what a task does from one await to the     *)
(* next.  A task may be cancelled at any await.  The permits are an        *)
(* asyncio.Semaphore, which queues its waiters (external).                 *)
(***************************************************************************)
EXTENDS Pool, FiniteSets, SequencesExt

CONSTANTS
    Tasks,
    MaxConns,    \* max_conns, or None for no cap
    PoolTimeout  \* BOOLEAN: pool_timeout is not None

ASSUME TasksAssumption == IsFiniteSet(Tasks) /\ None \notin Tasks
ASSUME MaxConnsAssumption == MaxConns \in (Nat \ {0}) \cup {None}
ASSUME PoolTimeoutAssumption == PoolTimeout \in BOOLEAN

VARIABLES
    pc,        \* the await each task is at, "out" outside of call and aclose
    held,      \* the local variable conn of each task's call, or None
    toClose,   \* connections aclose() drained and has not closed yet
    status,    \* what each connection is, as in Session.tla
    abandoned, \* open connections nobody refers to any more
    value,     \* the semaphore's value, None when there is no cap
    waiters,   \* tasks in its queue
    granted    \* waiters it has woken and that have not run yet

vars == <<idle, closed, pc, held, toClose, status, abandoned, value, waiters, granted>>
semaphore == <<value, waiters, granted>>

Status == {"absent", "healthy", "doomed", "broken"}
Open == {c \in Conns : status[c] # "absent"}
InUse == {"connect", "greet", "poll", "unary", "flush"}
Capped == MaxConns # None

Init ==
    /\ PoolInit
    /\ pc = [t \in Tasks |-> "out"]
    /\ held = [t \in Tasks |-> None]
    /\ toClose = [t \in Tasks |-> {}]
    /\ status = [c \in Conns |-> "absent"]
    /\ abandoned = {}
    /\ value = MaxConns
    /\ waiters = <<>> /\ granted = {}

Goto(t, label) == pc' = [pc EXCEPT ![t] = label]
Hold(t, c) == held' = [held EXCEPT ![t] = c]
SetStatus(S, s) == status' = [c \in Conns |-> IF c \in S THEN s ELSE status[c]]

-----------------------------------------------------------------------------
(* asyncio.Semaphore.                                                      *)

Locked == value = 0 \/ waiters # <<>>

\* The first of the waiters ws that sleeps is woken, with one of the permits v.
Wake(v, ws, woken) ==
    /\ waiters' = ws
    /\ \/ /\ v > 0 /\ value' = v - 1
          /\ \E i \in 1..Len(ws) :
                /\ ws[i] \notin woken /\ \A j \in 1..(i - 1) : ws[j] \in woken
                /\ granted' = woken \cup {ws[i]}
       \/ /\ v = 0 \/ \A i \in 1..Len(ws) : ws[i] \in woken
          /\ value' = v /\ granted' = woken

\* The queue without the task t, which waits in one place of it.
QueueWithout(t) == RemoveAt(waiters, CHOOSE i \in 1..Len(waiters) : waiters[i] = t)

ReleasePermit ==
    IF Capped THEN Wake(value + 1, waiters, granted) ELSE UNCHANGED semaphore

\* Mutant: nobody is woken when a woken task does not acquire.
LeaveQueueSilently(t) ==
    /\ value' = IF t \in granted THEN value + 1 ELSE value
    /\ waiters' = QueueWithout(t) /\ granted' = granted \ {t}

\* acquire() does not return: the permit the task was woken with goes on.
LeaveQueue(t) ==
    IF t \in granted
    THEN Wake(value + 1, QueueWithout(t), granted \ {t})
    ELSE waiters' = QueueWithout(t) /\ UNCHANGED <<value, granted>>

-----------------------------------------------------------------------------
(* A call.                                                                 *)

\* Mutant: what expired is left for the interpreter to close.
TakeOnForgetting(t, S) ==
    /\ \E k \in 0..Len(idle) :
          /\ Take(k)
          /\ Hold(t, Newest(k))
          /\ Goto(t, IF Newest(k) = None THEN "connect" ELSE "poll")
    /\ SetStatus(S, "absent")
    /\ UNCHANGED <<toClose, abandoned>>

\* Round the loop of _acquire: take, close what expired and S, poll or connect.
TakeOn(t, S) ==
    /\ \E k \in 0..Len(idle) :
          /\ Take(k)
          /\ SetStatus(S \cup StaleConns(k), "absent")
          /\ Hold(t, Newest(k))
          /\ Goto(t, IF Newest(k) = None THEN "connect" ELSE "poll")
    /\ UNCHANGED <<toClose, abandoned>>

\* On a closed session a call takes the permit and releases it at once.
Call(t) ==
    /\ pc[t] = "out"
    /\ ~closed
    /\ Capped => ~Locked
    /\ value' = IF Capped THEN value - 1 ELSE value
    /\ TakeOn(t, {})
    /\ UNCHANGED <<waiters, granted>>

CallWaits(t) ==
    /\ pc[t] = "out"
    /\ Capped /\ Locked
    /\ waiters' = Append(waiters, t)
    /\ Goto(t, "acquire")
    /\ UNCHANGED <<idle, closed, held, toClose, status, abandoned, value, granted>>

Acquires(t) ==
    /\ pc[t] = "acquire" /\ t \in granted
    /\ ~closed
    /\ Wake(value, QueueWithout(t), granted \ {t})
    /\ TakeOn(t, {})

\* The task leaves the queue: it is cancelled, out of time, or its permit
\* comes when the session is closed and take() raises.
StopsWaiting(t) ==
    /\ pc[t] = "acquire"
    /\ LeaveQueue(t)
    /\ Goto(t, "out")
    /\ UNCHANGED <<idle, closed, held, toClose, status, abandoned>>

AcquiresInVain(t) == t \in granted /\ closed /\ StopsWaiting(t)
GiveUpWaiting(t) == PoolTimeout /\ StopsWaiting(t)

\* The socket is open, the preface is being written.
Connect(t) ==
    /\ pc[t] = "connect"
    /\ \E c \in Conns \ Open : SetStatus({c}, "healthy") /\ Hold(t, c)
    /\ Goto(t, "greet")
    /\ UNCHANGED <<idle, closed, toClose, abandoned, semaphore>>

Greet(t) ==
    /\ pc[t] = "greet"
    /\ Goto(t, "unary")
    /\ UNCHANGED <<idle, closed, held, toClose, status, abandoned, semaphore>>

\* A task leaves its call and releases the permit.
Leave(t) ==
    /\ Goto(t, "out")
    /\ Hold(t, None)
    /\ ReleasePermit
    /\ UNCHANGED toClose

ConnectFails(t) ==
    /\ pc[t] \in {"connect", "greet"}
    /\ Leave(t)
    /\ SetStatus({held[t]}, "absent")
    /\ UNCHANGED <<idle, closed, abandoned>>

\* poll() reads what the event loop has buffered, which may lack the news.
Poll(t) ==
    /\ pc[t] = "poll"
    /\ Goto(t, "unary")
    /\ UNCHANGED <<idle, closed, held, toClose, status, abandoned, semaphore>>

\* The connection turns out unusable: close() it and take again.
Discard(t) ==
    /\ pc[t] = "poll" /\ status[held[t]] = "doomed"
    /\ IF closed
       THEN /\ Leave(t) /\ SetStatus({held[t]}, "absent")
            /\ UNCHANGED <<idle, closed, abandoned>>
       ELSE TakeOn(t, {held[t]}) /\ UNCHANGED semaphore

\* unary ends and _release gives the connection back.
ReturnToPool(t) ==
    /\ pc[t] = "unary"
    /\ GiveBack(held[t])
    /\ Leave(t)
    /\ UNCHANGED <<status, abandoned>>

\* unary ends and _release closes the connection, which awaits.
\* Cancellation breaks a connection in unary too.
CloseHeld(t) ==
    /\ pc[t] = "unary"
    /\ \/ SetStatus({held[t]}, "broken")
       \/ ~HasRoom /\ UNCHANGED status
    /\ Goto(t, "flush")
    /\ UNCHANGED <<idle, closed, held, toClose, abandoned, semaphore>>

\* Mutant: the permit comes back before the connection is closed.
FlushedAfterPermit(t) ==
    /\ pc[t] = "flush"
    /\ Leave(t)
    /\ UNCHANGED <<idle, closed, status, abandoned>>

Flushed(t) ==
    /\ pc[t] = "flush"
    /\ SetStatus({held[t]}, "absent")
    /\ Leave(t)
    /\ UNCHANGED <<idle, closed, abandoned>>

-----------------------------------------------------------------------------
(* Closing.                                                                *)

Aclose(t) ==
    /\ pc[t] = "out"
    /\ Drain
    /\ toClose' = [toClose EXCEPT ![t] = Idle]
    /\ Goto(t, "draining")
    /\ UNCHANGED <<held, status, abandoned, semaphore>>

CloseDrained(t) ==
    /\ \E c \in toClose[t] :
          /\ SetStatus({c}, "absent")
          /\ toClose' = [toClose EXCEPT ![t] = @ \ {c}]
    /\ UNCHANGED <<idle, closed, pc, held, abandoned, semaphore>>

AcloseReturns(t) ==
    /\ pc[t] = "draining" /\ toClose[t] = {}
    /\ Goto(t, "out")
    /\ UNCHANGED <<idle, closed, held, toClose, status, abandoned, semaphore>>

\* The synchronous close().
Close ==
    /\ Drain
    /\ SetStatus(Idle, "absent")
    /\ UNCHANGED <<pc, held, toClose, abandoned, semaphore>>

-----------------------------------------------------------------------------
(* Cancellation, wherever a task awaits.                                   *)

CancelAcquire(t) == StopsWaiting(t)

\* Mutant: _acquire releases the permit on errors, which a cancellation is not.
CancelConnectKeepingPermit(t) ==
    /\ pc[t] = "connect"
    /\ Goto(t, "out")
    /\ UNCHANGED <<idle, closed, held, toClose, status, abandoned, semaphore>>

\* open_connection cleans up after itself.
CancelConnect(t) ==
    /\ pc[t] = "connect"
    /\ Leave(t)
    /\ UNCHANGED <<idle, closed, status, abandoned>>

\* The preface, the poll, the GOAWAY: the connection is dropped as it is.
CancelDropping(t) ==
    /\ pc[t] \in {"greet", "poll", "flush"}
    /\ abandoned' = abandoned \cup {held[t]}
    /\ Leave(t)
    /\ UNCHANGED <<idle, closed, status>>

\* unary aborts the connection, and _release still runs.
CancelUnary(t) ==
    /\ pc[t] = "unary"
    /\ SetStatus({held[t]}, "broken")
    /\ Goto(t, "flush")
    /\ UNCHANGED <<idle, closed, held, toClose, abandoned, semaphore>>

CancelAclose(t) ==
    /\ pc[t] = "draining"
    /\ abandoned' = abandoned \cup toClose[t]
    /\ toClose' = [toClose EXCEPT ![t] = {}]
    /\ Goto(t, "out")
    /\ UNCHANGED <<idle, closed, held, status, semaphore>>

Cancel(t) ==
    \/ CancelAcquire(t) \/ CancelConnect(t) \/ CancelDropping(t)
    \/ CancelUnary(t) \/ CancelAclose(t)

-----------------------------------------------------------------------------
(* The environment: peers hang up, the clock ticks, garbage is collected.  *)

HangUp(c) ==
    /\ status[c] = "healthy"
    /\ SetStatus({c}, "doomed")
    /\ UNCHANGED <<idle, closed, pc, held, toClose, abandoned, semaphore>>

\* StreamWriter.__del__ closes the socket.
Collect(c) ==
    /\ c \in abandoned
    /\ abandoned' = abandoned \ {c}
    /\ SetStatus({c}, "absent")
    /\ UNCHANGED <<idle, closed, pc, held, toClose, semaphore>>

ClockTick ==
    /\ Tick
    /\ UNCHANGED <<pc, held, toClose, status, abandoned, semaphore>>

Runs(t) ==
    \/ Acquires(t) \/ AcquiresInVain(t)
    \/ Connect(t) \/ Greet(t) \/ ConnectFails(t) \/ Poll(t) \/ Discard(t)
    \/ ReturnToPool(t) \/ CloseHeld(t) \/ Flushed(t)
    \/ CloseDrained(t) \/ AcloseReturns(t)

HangUps == \E c \in Conns : HangUp(c)
Collects == \E c \in Conns : Collect(c)

Next ==
    \/ \E t \in Tasks : Call(t) \/ CallWaits(t) \/ Aclose(t) \/ Runs(t)
    \/ \E t \in Tasks : GiveUpWaiting(t) \/ Cancel(t)
    \/ Close
    \/ HangUps \/ Collects \/ ClockTick

Spec == Init /\ [][Next]_vars

\* The loop runs every task that can run.  The awaits of a call are bounded
\* (connect_timeout, the call's timeout) or end with an answer.  Nobody has to
\* give up or to be cancelled.
FairSpec == Spec /\ \A t \in Tasks : WF_vars(Runs(t))

-----------------------------------------------------------------------------
(* Correctness.                                                            *)

Mine(t) == ({held[t]} \ {None}) \cup toClose[t]
Busy == {t \in Tasks : pc[t] \in InUse}
\* The pool of a closed session would never be looked at again.
Owned == (IF closed THEN {} ELSE Idle) \cup UNION {Mine(t) : t \in Tasks}

\* A connection carries one call at a time, whoever is cancelled meanwhile.
ExclusiveOwner ==
    /\ \A i, j \in 1..Len(idle) : i # j => idle[i].conn # idle[j].conn
    /\ \A t \in Tasks : (Idle \cup abandoned) \cap Mine(t) = {}
    /\ \A t, u \in Tasks : t # u => Mine(t) \cap Mine(u) = {}

\* Every open connection is owned, by the pool of an open session or by a task,
\* or was abandoned by a task cancelled in its preface, its poll, its GOAWAY or
\* in aclose().
NothingElseLeaks == Open = Owned \cup abandoned

\* No permit is lost or made, wherever a task is cancelled, out of time or
\* woken in vain.
PermitsConserved ==
    Capped => value + Cardinality(granted) + Cardinality(Busy) = MaxConns

\* A free permit is on its way to those who sleep in the queue: some task was
\* woken, and wakes the next when it runs.
NoPermitIdles == Capped /\ value > 0 /\ waiters # <<>> => granted # {}

\* The cap on open connections, abandoned ones left aside.  Unlike a thread, a
\* task closes what expired before another task can open a connection.
OwnedCap == Capped => Cardinality(Open \ abandoned) <= MaxConns

\* The queue is first in, first out: every call is served, or finds the session
\* closed, whatever the others do and however they are cancelled, unless peers
\* keep hanging up on the connections it tries.  It need not give up waiting.
CallsReturn ==
    <>[][~HangUps]_vars => \A t \in Tasks : pc[t] # "out" ~> pc[t] = "out"

-----------------------------------------------------------------------------
(* The asyncio session implements ConnLease too.                           *)

Lease == INSTANCE ConnLease WITH
    Callers <- Tasks, lease <- held, parked <- Idle, shut <- closed

\* Wherever tasks are cancelled, callers see exclusive leases under the cap, and
\* a shut session parks nothing.
Leases == Lease!Spec

=============================================================================
