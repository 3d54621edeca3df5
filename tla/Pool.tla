-------------------------------- MODULE Pool --------------------------------
(***************************************************************************)
(* The idle-connection list of a session (pool.py).  The pool never blocks *)
(* and never opens or closes a connection: its owner does.  Each method    *)
(* runs under the pool's lock, so each is one action here.                 *)
(*                                                                         *)
(* An entry remembers when its connection was given back.  Only how long   *)
(* ago that was matters, so an entry carries an age, which Tick advances   *)
(* and which stops one past MaxIdleTime: older entries are all alike.      *)
(***************************************************************************)
EXTENDS Integers, Sequences

CONSTANTS
    Conns,       \* identities of connections
    MaxIdle,     \* max_idle: how many idle connections are kept
    MaxIdleTime, \* max_idle_time, or None for no expiry
    None         \* Python's None

ASSUME NoneAssumption == None \notin Conns /\ None \notin Int
ASSUME MaxIdleAssumption == MaxIdle \in Nat
ASSUME MaxIdleTimeAssumption == MaxIdleTime \in Nat \cup {None}

VARIABLES
    idle,   \* sequence of [conn, age], the most recently returned last
    closed  \* BOOLEAN: drain has run

poolVars == <<idle, closed>>

Entry == [conn : Conns, age : Nat]

PoolTypeOK ==
    /\ idle \in Seq(Entry)
    /\ closed \in BOOLEAN

PoolInit ==
    /\ idle = <<>>
    /\ closed = FALSE

Idle == {idle[i].conn : i \in 1..Len(idle)}

-----------------------------------------------------------------------------

Expired(entry) == MaxIdleTime # None /\ entry.age > MaxIdleTime

\* take() filters the list by age.  Entries are appended under the lock, with
\* the clock read there, so the list is sorted oldest first (IdleSorted) and
\* the expired entries are its first k.
ExpiredPrefix(k) ==
    /\ k \in 0..Len(idle)
    /\ \A i \in 1..Len(idle) : i <= k <=> Expired(idle[i])

\* What take() hands out once the first k entries are gone: the newest of the
\* others, or None when the owner must open a connection.
Newest(k) == IF k < Len(idle) THEN idle[Len(idle)].conn ELSE None

StaleConns(k) == {idle[i].conn : i \in 1..k}

\* Mutant: peeks at the newest connection without popping it.
TakePeeks(k) ==
    /\ ~closed
    /\ ExpiredPrefix(k)
    /\ idle' = SubSeq(idle, k + 1, Len(idle))
    /\ UNCHANGED closed

Take(k) ==
    /\ ~closed
    /\ ExpiredPrefix(k)
    /\ idle' = SubSeq(idle, k + 1, Len(idle) - 1)
    /\ UNCHANGED closed

\* Mutant: give_back forgets that the pool may be closed.
RoomEvenClosed == Len(idle) < MaxIdle

HasRoom == ~closed /\ Len(idle) < MaxIdle

\* Mutant: puts the connection at the wrong end of the list.
GiveBackFirst(c) ==
    /\ HasRoom
    /\ idle' = <<[conn |-> c, age |-> 0]>> \o idle
    /\ UNCHANGED closed

GiveBack(c) ==
    /\ HasRoom
    /\ idle' = Append(idle, [conn |-> c, age |-> 0])
    /\ UNCHANGED closed

Drain ==
    /\ closed' = TRUE
    /\ idle' = <<>>

\* The monotonic clock.  No tick once every entry has expired.
Tick ==
    /\ \E i \in 1..Len(idle) : MaxIdleTime # None /\ idle[i].age <= MaxIdleTime
    /\ idle' = [i \in 1..Len(idle) |->
                   [idle[i] EXCEPT !.age = IF @ > MaxIdleTime THEN @ ELSE @ + 1]]
    /\ UNCHANGED closed

=============================================================================
