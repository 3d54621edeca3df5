------------------------------ MODULE Clients -------------------------------
(***************************************************************************)
(* How long clients and sessions live (service.py, and the lifetime of a   *)
(* session in session.py).  A client made from a URL owns its session and  *)
(* closes it when it is collected; a client made from a session shares it. *)
(* A bound method keeps its client alive, and the frame of a call keeps    *)
(* the bound method alive; the coroutine of an asyncio call is another     *)
(* thing than the bound method that made it.                               *)
(*                                                                         *)
(* The session of a client made from a URL has the name of the client.     *)
(* What a session does with its connections is left to Session.tla and     *)
(* AsyncSession.tla; here it has idle ones, which calls take and give      *)
(* back under the lock of the pool.                                        *)
(***************************************************************************)
EXTENDS Integers, FiniteSets

CONSTANTS
    Client,     \* client objects
    Shared,     \* sessions that the program makes itself
    Call,       \* method accesses, each called once at most
    Async,      \* the clients and shared sessions that are for asyncio
    Cyclic,     \* clients in a reference cycle, left to the cyclic collector
    MaxIdle,    \* max_idle
    None

ASSUME ClientsAssumption ==
    /\ Client \cap Shared = {} /\ None \notin Client \cup Shared \cup Call
    /\ Async \subseteq Client \cup Shared /\ Cyclic \subseteq Client
    /\ MaxIdle \in Nat

VARIABLES
    client,     \* client -> [state, session, owned, held]
    session,    \* session -> "none", "open", or its pool is closed: "asked"
                \* when the program did so, "dropped" when the interpreter did
    idle,       \* session -> number of idle connections
    kept,       \* the sessions that a variable of the program refers to
    call        \* call -> [pc, via, on, bound]

vars == <<client, session, idle, kept, call>>

Session == Client \cup Shared

\* Frames and coroutines of calls; "stuck" is one whose thread waits for itself.
InFlight == {"called", "using", "stuck"}

TypeOK ==
    /\ client \in [Client -> [state : {"none", "alive", "dead"},
                              session : Session \cup {None}, owned : BOOLEAN, held : BOOLEAN]]
    /\ session \in [Session -> {"none", "open", "asked", "dropped"}]
    /\ idle \in [Session -> 0..MaxIdle]
    /\ kept \subseteq Session
    /\ call \in [Call -> [pc : {"new", "ready", "done", "refused"} \cup InFlight,
                          via : Client \cup {None}, on : Session \cup {None}, bound : BOOLEAN]]

Init ==
    /\ client = [c \in Client |-> [state |-> "none", session |-> None, owned |-> FALSE, held |-> FALSE]]
    /\ session = [s \in Session |-> IF s \in Shared THEN "open" ELSE "none"]
    /\ idle = [s \in Session |-> 0]
    /\ kept = Shared
    /\ call = [k \in Call |-> [pc |-> "new", via |-> None, on |-> None, bound |-> FALSE]]

\* Mutant: the bound method refers to the session only.
ReachableByVariable(c) == client[c].held

\* call.__self__ of a bound method is its client.
Reachable(c) == client[c].held \/ \E k \in Call : call[k].via = c /\ call[k].bound

\* What refers to a session: variables, clients, bound methods, frames and coroutines.
Referenced(s) ==
    \/ s \in kept
    \/ \E c \in Client : client[c].state = "alive" /\ client[c].session = s
    \/ \E k \in Call : call[k].on = s /\ (call[k].bound \/ call[k].pc \in InFlight)

Step(k, pc) == call' = [call EXCEPT ![k].pc = pc]

\* What a call leaves behind is its bound method, if the program has it.
Done == [pc |-> "done", via |-> None, on |-> None, bound |-> FALSE]
Ends(k) == call' = [call EXCEPT ![k] = IF @.bound THEN [@ EXCEPT !.pc = "done"] ELSE Done]

\* No call holds the lock of the pool for ever.
Unlocked(s) == \A k \in Call : call[k].on = s => call[k].pc # "stuck"

\* drain, and its connections are closed.
Drained(s, by) ==
    /\ Unlocked(s)
    /\ session' = [session EXCEPT ![s] = IF @ = "open" THEN by ELSE @]
    /\ idle' = [idle EXCEPT ![s] = 0]
-----------------------------------------------------------------------------
(* The program.                                                            *)

NewOwning(c) ==
    /\ client[c].state = "none" /\ session[c] = "none"
    /\ session' = [session EXCEPT ![c] = "open"]
    /\ client' = [client EXCEPT ![c] = [state |-> "alive", session |-> c, owned |-> TRUE, held |-> TRUE]]
    /\ UNCHANGED <<idle, kept, call>>

NewSharing(c, s) ==
    /\ client[c].state = "none"
    /\ s \in kept /\ (s \in Async) = (c \in Async)
    /\ client' = [client EXCEPT ![c] = [state |-> "alive", session |-> s, owned |-> FALSE, held |-> TRUE]]
    /\ UNCHANGED <<session, idle, kept, call>>

\* check_service refuses a method: an object that never gets its session, and
\* a session that nothing refers to.
NewFails(c) ==
    /\ client[c].state = "none" /\ session[c] = "none"
    /\ session' = [session EXCEPT ![c] = "open"]
    /\ client' = [client EXCEPT ![c].state = "dead"]
    /\ UNCHANGED <<idle, kept, call>>

\* _bind: the closure of a method.
Bind(k, c) == call' = [call EXCEPT ![k] = [pc |-> "ready", via |-> c, on |-> client[c].session, bound |-> TRUE]]

Access(k, c) ==
    /\ call[k].pc = "new"
    /\ client[c].state = "alive" /\ client[c].held
    /\ Bind(k, c)
    /\ UNCHANGED <<client, session, idle, kept>>

Invoke(k) ==
    /\ call[k].pc = "ready" /\ call[k].bound
    /\ call' = [call EXCEPT ![k].pc = "called"]
    /\ UNCHANGED <<client, session, idle, kept>>

\* session.call with an unbound method.
CallSession(k, s) ==
    /\ call[k].pc = "new" /\ s \in kept
    /\ call' = [call EXCEPT ![k] = [@ EXCEPT !.pc = "called", !.on = s]]
    /\ UNCHANGED <<client, session, idle, kept>>

\* The program forgets a bound method.  While a call runs its frame holds it,
\* but the coroutine that an asyncio call returns does not.
DropMethod(k) ==
    /\ call[k].bound
    /\ call[k].pc \in InFlight => call[k].via \in Async
    /\ call' = [call EXCEPT ![k] = IF @.pc = "done" THEN Done ELSE [@ EXCEPT !.bound = FALSE]]
    /\ UNCHANGED <<client, session, idle, kept>>

\* A coroutine that is never awaited.
DropCoroutine(k) ==
    /\ call[k].pc = "called" /\ call[k].on \in Async
    /\ Ends(k)
    /\ UNCHANGED <<client, session, idle, kept>>

DropClient(c) ==
    /\ client[c].held
    /\ client' = [client EXCEPT ![c].held = FALSE]
    /\ UNCHANGED <<session, idle, kept, call>>

SessionOf(c) ==
    /\ client[c].state = "alive" /\ client[c].held /\ client[c].session \notin kept
    /\ kept' = kept \cup {client[c].session}
    /\ UNCHANGED <<client, session, idle, call>>

DropSession(s) ==
    /\ s \in kept
    /\ kept' = kept \ {s}
    /\ UNCHANGED <<client, session, idle, call>>

CloseSession(s) ==
    /\ s \in kept
    /\ Drained(s, "asked")
    /\ UNCHANGED <<client, kept, call>>

\* Mutant: close does not ask who owns the session.
CloseAnyway(c) ==
    /\ client[c].state = "alive" /\ client[c].held
    /\ Drained(client[c].session, IF client[c].owned THEN "asked" ELSE "dropped")
    /\ UNCHANGED <<client, kept, call>>

\* grapec.close and grapec.aclose; nothing happens to a shared session.
Close(c) ==
    /\ client[c].state = "alive" /\ client[c].held /\ client[c].owned
    /\ Drained(client[c].session, "asked")
    /\ UNCHANGED <<client, kept, call>>
-----------------------------------------------------------------------------
(* The calls.                                                              *)

\* Pool.take: some idle connections turn out old or dead; one is used, or a
\* new one.
Take(k) == LET s == call[k].on IN
    /\ call[k].pc = "called" /\ Unlocked(s)
    /\ \/ /\ session[s] # "open"
          /\ Step(k, "refused")
          /\ UNCHANGED idle
       \/ /\ session[s] = "open"
          /\ Step(k, "using")
          /\ \E n \in 0..idle[s] : (n < idle[s] \/ n = 0) /\ idle' = [idle EXCEPT ![s] = n]
    /\ UNCHANGED <<client, session, kept>>

Fails(k) ==
    /\ call[k].pc = "using"
    /\ Ends(k)
    /\ UNCHANGED <<client, session, idle, kept>>

\* Pool.give_back, or the connection is closed.
GiveBack(k) == LET s == call[k].on IN
    /\ call[k].pc = "using" /\ Unlocked(s)
    /\ Ends(k)
    /\ idle' = [idle EXCEPT ![s] = IF session[s] = "open" /\ @ < MaxIdle THEN @ + 1 ELSE @]
    /\ UNCHANGED <<client, session, kept>>
-----------------------------------------------------------------------------
(* The interpreter.                                                        *)

\* Mutant: __del__ leaves the session to its own.
CollectLeaving(c) ==
    /\ client[c].state = "alive" /\ ~Reachable(c)
    /\ client' = [client EXCEPT ![c].state = "dead"]
    /\ UNCHANGED <<session, idle, kept, call>>

\* __del__, at once when nothing refers to the client or later for a cycle.
Collect(c) ==
    /\ client[c].state = "alive" /\ ~Reachable(c)
    /\ client' = [client EXCEPT ![c].state = "dead"]
    /\ IF client[c].owned
       THEN Drained(client[c].session, "dropped")
       ELSE UNCHANGED <<session, idle>>
    /\ UNCHANGED <<kept, call>>

\* The cyclic collector runs in the thread of k while take or give_back hold
\* the lock of the pool: __del__ waits for a lock that its own thread holds.
CollectUnderLock(c, k) ==
    /\ c \in Cyclic /\ client[c].state = "alive" /\ ~Reachable(c) /\ client[c].owned
    /\ call[k].on = client[c].session /\ call[k].pc \in {"called", "using"}
    /\ Unlocked(call[k].on)
    /\ Step(k, "stuck")
    /\ UNCHANGED <<client, session, idle, kept>>

\* Session.__del__.
CollectSession(s) ==
    /\ session[s] = "open" /\ ~Referenced(s)
    /\ Drained(s, "dropped")
    /\ UNCHANGED <<client, kept, call>>
-----------------------------------------------------------------------------
Runs(k) == Take(k) \/ Fails(k) \/ GiveBack(k)

Next ==
    \/ \E c \in Client :
        \/ NewOwning(c) \/ NewFails(c) \/ DropClient(c) \/ SessionOf(c) \/ Close(c) \/ Collect(c)
        \/ \E s \in Session : NewSharing(c, s)
        \/ \E k \in Call : Access(k, c) \/ CollectUnderLock(c, k)
    \/ \E s \in Session : DropSession(s) \/ CloseSession(s) \/ CollectSession(s)
    \/ \E k \in Call :
        \/ Invoke(k) \/ DropMethod(k) \/ DropCoroutine(k) \/ Runs(k)
        \/ \E s \in Session : CallSession(k, s)

\* A call that has begun runs on, and the interpreter collects what nothing
\* refers to.  The program owes nothing.
Fairness ==
    /\ \A k \in Call : WF_vars(Runs(k))
    /\ \A c \in Client : WF_vars(Collect(c))
    /\ \A s \in Session : WF_vars(CollectSession(s))

Spec == Init /\ [][Next]_vars /\ Fairness
-----------------------------------------------------------------------------
Using(s) == {k \in Call : call[k].on = s /\ call[k].pc = "using"}

\* "session is closed" is only raised to those who closed it, or who let its
\* owner go: not to a blocking call through the owner, which the bound method
\* keeps alive in `Greeter(url).say_hello(request)`, and not to a call on a
\* session of the program's own, whatever its clients do.
RefusedOnlyIfClosed ==
    \A k \in Call : call[k].pc = "refused" =>
        LET s == call[k].on IN
        \/ session[s] = "asked"
        \/ s \in Client /\ client[s].state = "dead" /\ (call[k].via # s \/ s \in Async)

\* close() and the collection of a client leave a shared session alone: it
\* is closed when the program does so or when nothing refers to it any more.
SharedLeftAlone == [][\A s \in Shared :
    session'[s] = "dropped" => session[s] = "dropped" \/ ~Referenced(s)]_vars

\* src/docs/reference.md:198: "Garbage collection closes owned sessions as a
\* fallback."  Once nothing refers to a client its session is closed, and
\* nothing stays open in it, also when the program or a call still has the
\* session; unless the collector ran under the lock of this very pool.
FallbackCloses == \A c \in Client :
    (client[c].state = "alive" /\ client[c].owned /\ ~Reachable(c))
        ~> \/ session[c] # "open" /\ idle[c] = 0 /\ Using(c) = {}
           \/ \E k \in Call : call[k].on = c /\ call[k].pc = "stuck"

\* src/src/grapec/service.py:183: "the closure must keep ``instance`` alive for
\* the duration of the call, otherwise ``Greeter(url).say_hello(req)`` would
\* collect the client (and close its session) before the call starts."
\* Violated for asyncio: the closure ends with the call that returns the
\* coroutine, before the coroutine starts.
CallsKeepTheirClient ==
    \A k \in Call : call[k].pc = "refused" /\ call[k].via = call[k].on => session[call[k].on] = "asked"

=============================================================================
