----------------------------- MODULE ConnLease -----------------------------
(***************************************************************************)
(* What a session promises about connections, without permits, locks or    *)
(* control points.  A caller leases a connection, nobody else uses it      *)
(* while the lease runs, and then it is parked for the next caller or      *)
(* dropped.  Leased and parked connections never exceed the cap, at most   *)
(* MaxIdle are parked, and once the session is shut none is parked again.  *)
(* Session.tla and AsyncSession.tla implement this: their property Leases. *)
(***************************************************************************)
EXTENDS Integers, FiniteSets

CONSTANTS
    Callers,  \* who leases
    Conns,    \* identities of connections
    MaxIdle,  \* how many connections may be parked
    MaxConns, \* how many may be leased or parked, or None for no cap
    None

VARIABLES
    lease,   \* [Callers -> Conns \cup {None}]
    parked,  \* connections kept for the next caller
    shut     \* BOOLEAN

vars == <<lease, parked, shut>>

Leased == {lease[x] : x \in Callers} \ {None}

Init ==
    /\ lease = [x \in Callers |-> None]
    /\ parked = {}
    /\ shut = FALSE

\* Parked connections may expire at any time, the reused one excepted.  A caller
\* that has a lease drops it: its connection turned out to be dead.
Reuse(x, c) ==
    /\ c \in parked
    /\ lease' = [lease EXCEPT ![x] = c]
    /\ parked' \in SUBSET (parked \ {c})
    /\ UNCHANGED shut

Expire ==
    /\ parked' \in SUBSET parked
    /\ UNCHANGED <<lease, shut>>

Open(x, c) ==
    /\ lease[x] = None
    /\ c \notin parked \cup Leased
    /\ MaxConns # None => Cardinality(parked \cup Leased) < MaxConns
    /\ lease' = [lease EXCEPT ![x] = c]
    /\ UNCHANGED <<parked, shut>>

Park(x) ==
    /\ lease[x] # None
    /\ ~shut /\ Cardinality(parked) < MaxIdle
    /\ parked' = parked \cup {lease[x]}
    /\ lease' = [lease EXCEPT ![x] = None]
    /\ UNCHANGED shut

Drop(x) ==
    /\ lease[x] # None
    /\ lease' = [lease EXCEPT ![x] = None]
    /\ parked' \in SUBSET parked
    /\ UNCHANGED shut

Shut ==
    /\ shut' = TRUE
    /\ parked' = {}
    /\ UNCHANGED lease

Next ==
    \/ \E x \in Callers : \E c \in Conns : Reuse(x, c) \/ Open(x, c)
    \/ \E x \in Callers : Park(x) \/ Drop(x)
    \/ Expire
    \/ Shut

Spec == Init /\ [][Next]_vars

=============================================================================
