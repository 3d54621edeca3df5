---------------------------- MODULE ClientsProofs ----------------------------
(***************************************************************************)
(* Proofs about the lifetime of clients and sessions (Clients.tla): who    *)
(* can meet a closed session, and that nobody closes a shared one but its  *)
(* program.  What makes them hold is what keeps what alive: a bound method *)
(* its client, and a client, a method, a frame or a variable the session.  *)
(***************************************************************************)
EXTENDS Clients, TLAPS

-----------------------------------------------------------------------------
(* The inductive invariant.                                                *)

\* What can be reached is alive, an alive client has a session, a client made
\* from a URL its own; and the session of that name is dropped after it.
ClientInv == \A c \in Client :
    /\ client[c].held => client[c].state = "alive"
    /\ client[c].state = "alive" =>
          client[c].session \in Session /\ session[client[c].session] # "none"
    /\ client[c].state = "alive" /\ client[c].owned => client[c].session = c
    /\ session[c] # "none" => client[c].state # "none"
    /\ session[c] # "none" /\ client[c].state = "alive" => client[c].session = c
    /\ session[c] = "dropped" => client[c].state = "dead"

\* A bound method keeps its client alive, and the frame of a blocking call its
\* method.
CallInv == \A k \in Call :
    /\ call[k].pc = "new" =>
          call[k].via = None /\ call[k].on = None /\ call[k].bound = FALSE
    /\ call[k].bound /\ call[k].via # None => client[call[k].via].state = "alive"
    /\ call[k].pc = "called" /\ call[k].via # None /\ call[k].via \notin Async => call[k].bound
    /\ call[k].pc \in InFlight \cup {"ready", "refused"} =>
          call[k].on \in Session /\ session[call[k].on] # "none"

KeptInv == \A s \in kept : session[s] # "none"

\* What the interpreter dropped cannot be referred to again.
DroppedInv == \A s \in Shared : session[s] = "dropped" => ~Referenced(s)

Inv == TypeOK /\ ClientInv /\ CallInv /\ KeptInv /\ DroppedInv /\ RefusedOnlyIfClosed

-----------------------------------------------------------------------------
(* Steps that many actions have in common.                                 *)

LEMMA InitInv == Init => Inv
<1> SUFFICES ASSUME Init PROVE Inv
  OBVIOUS
<1>1. TypeOK
  BY ClientsAssumption DEF Init, TypeOK, Session, InFlight
<1>2. ClientInv
  BY ClientsAssumption DEF Init, ClientInv, Session
<1>3. CallInv
  BY DEF Init, CallInv, InFlight
<1>4. KeptInv
  BY DEF Init, KeptInv, Session
<1>5. DroppedInv
  BY DEF Init, DroppedInv, Session
<1>6. RefusedOnlyIfClosed
  BY DEF Init, RefusedOnlyIfClosed
<1>7. QED
  BY <1>1, <1>2, <1>3, <1>4, <1>5, <1>6 DEF Inv

CallRecords == [pc : {"new", "ready", "done", "refused"} \cup InFlight,
                via : Client \cup {None}, on : Session \cup {None}, bound : BOOLEAN]

ClientRecords == [state : {"none", "alive", "dead"},
                  session : Session \cup {None}, owned : BOOLEAN, held : BOOLEAN]

\* Whom a refusal is due.
Due(r) ==
    \/ session[r.on] = "asked"
    \/ r.on \in Client /\ client[r.on].state = "dead" /\ (r.via # r.on \/ r.on \in Async)

\* A call takes the place r: what has to be known of it.
LEMMA CallMoves ==
    ASSUME Inv, NEW k \in Call, NEW r \in CallRecords,
           call' = [call EXCEPT ![k] = r],
           UNCHANGED <<client, session, kept>>, idle' \in [Session -> 0..MaxIdle],
           r.pc # "new",
           r.bound /\ r.via # None => client[r.via].state = "alive",
           r.pc = "called" /\ r.via # None /\ r.via \notin Async => r.bound,
           r.pc \in InFlight \cup {"ready", "refused"} => r.on \in Session /\ session[r.on] # "none",
           r.on \in Shared /\ (r.bound \/ r.pc \in InFlight) => session[r.on] # "dropped",
           r.pc = "refused" => Due(r)
    PROVE  Inv'
<1>1. /\ TypeOK /\ ClientInv /\ CallInv /\ KeptInv /\ DroppedInv /\ RefusedOnlyIfClosed
      /\ client' = client /\ session' = session /\ kept' = kept
  BY DEF Inv
<1>2. \A j \in Call : call'[j] = IF j = k THEN r ELSE call[j]
  BY <1>1 DEF TypeOK
<1>3. TypeOK'
  BY <1>1 DEF TypeOK, CallRecords
<1>4. ClientInv'
  BY <1>1 DEF ClientInv
<1>5. CallInv'
  BY <1>1, <1>2 DEF CallInv
<1>6. KeptInv'
  BY <1>1 DEF KeptInv
<1>7. DroppedInv'
  BY <1>1, <1>2 DEF DroppedInv, Referenced
<1>8. RefusedOnlyIfClosed'
  BY <1>1, <1>2 DEF RefusedOnlyIfClosed, Due
<1>9. QED
  BY <1>3, <1>4, <1>5, <1>6, <1>7, <1>8 DEF Inv

\* Sessions are closed and clients collected: a client that can be reached is
\* not, and a session is dropped when its client is dead, or when it is a
\* shared one that nothing refers to.
LEMMA SessionsEnd ==
    ASSUME Inv, UNCHANGED <<kept, call>>,
           client' \in [Client -> ClientRecords],
           session' \in [Session -> {"none", "open", "asked", "dropped"}],
           idle' \in [Session -> 0..MaxIdle],
           \A c \in Client :
              \/ client'[c] = client[c]
              \/ ~Reachable(c) /\ client'[c] = [client[c] EXCEPT !.state = "dead"]
                 /\ client[c].state # "none",
           \A s \in Session :
              \/ session'[s] = session[s]
              \/ session[s] = "open" /\ session'[s] = "asked"
              \/ /\ session[s] = "open" /\ session'[s] = "dropped"
                 /\ s \in Client => client'[s].state = "dead"
                 /\ s \in Shared => ~Referenced(s)
    PROVE  Inv'
<1>1. /\ TypeOK /\ ClientInv /\ CallInv /\ KeptInv /\ DroppedInv /\ RefusedOnlyIfClosed
      /\ kept' = kept /\ call' = call
  BY DEF Inv
<1>2. \A s \in Session : /\ session'[s] = "none" <=> session[s] = "none"
                         /\ session[s] = "asked" => session'[s] = "asked"
                         /\ session[s] = "dropped" => session'[s] = "dropped"
  OBVIOUS
<1>3. \A c \in Client :
         /\ client'[c].session = client[c].session
         /\ client'[c].held = client[c].held /\ client'[c].owned = client[c].owned
         /\ \/ client'[c].state = client[c].state
            \/ ~Reachable(c) /\ client'[c].state = "dead" /\ client[c].state # "none"
  <2>1. TAKE c \in Client
  <2>2. client[c] \in ClientRecords
    BY <1>1 DEF TypeOK, ClientRecords
  <2>3. CASE client'[c] = client[c]
    BY <2>3
  <2>4. CASE ~Reachable(c) /\ client'[c] = [client[c] EXCEPT !.state = "dead"]
             /\ client[c].state # "none"
    BY <2>2, <2>4 DEF ClientRecords
  <2>5. QED
    BY <2>3, <2>4
<1>4. TypeOK'
  BY <1>1 DEF TypeOK, ClientRecords
<1>5. ClientInv'
  BY <1>1, <1>2, <1>3 DEF ClientInv, Reachable, Session
<1>6. CallInv'
  BY <1>1, <1>2, <1>3 DEF CallInv, Reachable, TypeOK
<1>7. KeptInv'
  BY <1>1, <1>2 DEF KeptInv, TypeOK
<1>8. DroppedInv'
  <2>1. \A s \in Shared : Referenced(s)' => Referenced(s)
    BY <1>1, <1>3 DEF Referenced
  <2>2. QED
    BY <1>1, <2>1 DEF DroppedInv, Session
<1>9. RefusedOnlyIfClosed'
  BY <1>1, <1>2, <1>3 DEF RefusedOnlyIfClosed, CallInv
<1>10. QED
  BY <1>4, <1>5, <1>6, <1>7, <1>8, <1>9 DEF Inv

-----------------------------------------------------------------------------
(* The program.                                                            *)

LEMMA NewOwningInv == ASSUME Inv, NEW c \in Client, NewOwning(c) PROVE Inv'
<1>1. /\ TypeOK /\ ClientInv /\ CallInv /\ KeptInv /\ DroppedInv /\ RefusedOnlyIfClosed
      /\ idle' = idle /\ kept' = kept /\ call' = call
      /\ client[c].state = "none" /\ session[c] = "none"
      /\ session' = [session EXCEPT ![c] = "open"]
      /\ client' = [client EXCEPT ![c] =
            [state |-> "alive", session |-> c, owned |-> TRUE, held |-> TRUE]]
  BY DEF Inv, NewOwning
<1>2. c \in Session /\ c \notin Shared
  BY ClientsAssumption DEF Session
<1>3. \A s \in Session : session'[s] = IF s = c THEN "open" ELSE session[s]
  BY <1>1, <1>2 DEF TypeOK
<1>4. \A d \in Client : client'[d] =
         IF d = c THEN [state |-> "alive", session |-> c, owned |-> TRUE, held |-> TRUE]
                  ELSE client[d]
  BY <1>1 DEF TypeOK
<1>5. TypeOK'
  BY <1>1, <1>2 DEF TypeOK
<1>6. ClientInv'
  BY <1>1, <1>2, <1>3, <1>4 DEF ClientInv, Session
<1>7. CallInv'
  <2>1. \A k \in Call : call[k].via # None => call[k].via \in Client
    BY <1>1 DEF TypeOK
  <2>2. QED
    BY <1>1, <1>3, <1>4, <2>1 DEF CallInv
<1>8. KeptInv'
  BY <1>1, <1>3 DEF KeptInv, TypeOK
<1>9. DroppedInv'
  <2>1. \A s \in Shared : Referenced(s)' => Referenced(s)
    BY <1>1, <1>2, <1>4 DEF Referenced
  <2>2. QED
    BY <1>1, <1>2, <1>3, <2>1 DEF DroppedInv, Session
<1>10. RefusedOnlyIfClosed'
  BY <1>1, <1>3, <1>4 DEF RefusedOnlyIfClosed, CallInv
<1>11. QED
  BY <1>5, <1>6, <1>7, <1>8, <1>9, <1>10 DEF Inv

LEMMA NewSharingInv ==
    ASSUME Inv, NEW c \in Client, NEW s \in Session, NewSharing(c, s) PROVE Inv'
<1>1. /\ TypeOK /\ ClientInv /\ CallInv /\ KeptInv /\ DroppedInv /\ RefusedOnlyIfClosed
      /\ idle' = idle /\ kept' = kept /\ call' = call /\ session' = session
      /\ client[c].state = "none" /\ s \in kept
      /\ client' = [client EXCEPT ![c] =
            [state |-> "alive", session |-> s, owned |-> FALSE, held |-> TRUE]]
  BY DEF Inv, NewSharing
<1>2. \A d \in Client : client'[d] =
         IF d = c THEN [state |-> "alive", session |-> s, owned |-> FALSE, held |-> TRUE]
                  ELSE client[d]
  BY <1>1 DEF TypeOK
<1>3. TypeOK'
  BY <1>1 DEF TypeOK
<1>4. ClientInv'
  BY <1>1, <1>2 DEF ClientInv, KeptInv
<1>5. CallInv'
  <2>1. \A k \in Call : call[k].via # None => call[k].via \in Client
    BY <1>1 DEF TypeOK
  <2>2. QED
    BY <1>1, <1>2, <2>1 DEF CallInv
<1>6. KeptInv'
  BY <1>1 DEF KeptInv
<1>7. DroppedInv'
  <2>1. \A x \in Shared : Referenced(x)' => Referenced(x)
    BY <1>1, <1>2 DEF Referenced
  <2>2. QED
    BY <1>1, <2>1 DEF DroppedInv
<1>8. RefusedOnlyIfClosed'
  BY <1>1, <1>2 DEF RefusedOnlyIfClosed
<1>9. QED
  BY <1>3, <1>4, <1>5, <1>6, <1>7, <1>8 DEF Inv

LEMMA NewFailsInv == ASSUME Inv, NEW c \in Client, NewFails(c) PROVE Inv'
<1>1. /\ TypeOK /\ ClientInv /\ CallInv /\ KeptInv /\ DroppedInv /\ RefusedOnlyIfClosed
      /\ idle' = idle /\ kept' = kept /\ call' = call
      /\ client[c].state = "none" /\ session[c] = "none"
      /\ session' = [session EXCEPT ![c] = "open"]
      /\ client' = [client EXCEPT ![c].state = "dead"]
  BY DEF Inv, NewFails
<1>2. c \in Session /\ c \notin Shared
  BY ClientsAssumption DEF Session
<1>3. \A s \in Session : session'[s] = IF s = c THEN "open" ELSE session[s]
  BY <1>1, <1>2 DEF TypeOK
<1>4. \A d \in Client :
         /\ client'[d].session = client[d].session
         /\ client'[d].held = client[d].held /\ client'[d].owned = client[d].owned
         /\ client'[d].state = IF d = c THEN "dead" ELSE client[d].state
  BY <1>1 DEF TypeOK
<1>5. TypeOK'
  BY <1>1, <1>2 DEF TypeOK
<1>6. ClientInv'
  BY <1>1, <1>2, <1>3, <1>4 DEF ClientInv, Session
<1>7. CallInv'
  <2>1. \A k \in Call : call[k].via # None => call[k].via \in Client
    BY <1>1 DEF TypeOK
  <2>2. QED
    BY <1>1, <1>3, <1>4, <2>1 DEF CallInv
<1>8. KeptInv'
  BY <1>1, <1>3 DEF KeptInv, TypeOK
<1>9. DroppedInv'
  <2>1. \A s \in Shared : Referenced(s)' => Referenced(s)
    BY <1>1, <1>2, <1>4 DEF Referenced
  <2>2. QED
    BY <1>1, <1>2, <1>3, <2>1 DEF DroppedInv, Session
<1>10. RefusedOnlyIfClosed'
  BY <1>1, <1>3, <1>4 DEF RefusedOnlyIfClosed, CallInv
<1>11. QED
  BY <1>5, <1>6, <1>7, <1>8, <1>9, <1>10 DEF Inv

LEMMA DropClientInv == ASSUME Inv, NEW c \in Client, DropClient(c) PROVE Inv'
<1>1. /\ TypeOK /\ ClientInv /\ CallInv /\ KeptInv /\ DroppedInv /\ RefusedOnlyIfClosed
      /\ idle' = idle /\ kept' = kept /\ call' = call /\ session' = session
      /\ client' = [client EXCEPT ![c].held = FALSE]
  BY DEF Inv, DropClient
<1>2. \A d \in Client :
         /\ client'[d].session = client[d].session /\ client'[d].state = client[d].state
         /\ client'[d].owned = client[d].owned
         /\ client'[d].held = IF d = c THEN FALSE ELSE client[d].held
  BY <1>1 DEF TypeOK
<1>3. TypeOK'
  BY <1>1 DEF TypeOK
<1>4. ClientInv'
  BY <1>1, <1>2 DEF ClientInv
<1>5. CallInv'
  <2>1. \A k \in Call : call[k].via # None => call[k].via \in Client
    BY <1>1 DEF TypeOK
  <2>2. QED
    BY <1>1, <1>2, <2>1 DEF CallInv
<1>6. KeptInv'
  BY <1>1 DEF KeptInv
<1>7. DroppedInv'
  <2>1. \A x \in Shared : Referenced(x)' => Referenced(x)
    BY <1>1, <1>2 DEF Referenced
  <2>2. QED
    BY <1>1, <2>1 DEF DroppedInv
<1>8. RefusedOnlyIfClosed'
  BY <1>1, <1>2 DEF RefusedOnlyIfClosed
<1>9. QED
  BY <1>3, <1>4, <1>5, <1>6, <1>7, <1>8 DEF Inv

\* A variable refers to a session or no longer does.
LEMMA KeepsSession ==
    ASSUME Inv, UNCHANGED <<client, session, idle, call>>, kept' \subseteq Session,
           \A s \in kept' \ kept : session[s] # "none" /\ Referenced(s)
    PROVE  Inv'
<1>1. /\ TypeOK /\ ClientInv /\ CallInv /\ KeptInv /\ DroppedInv /\ RefusedOnlyIfClosed
      /\ client' = client /\ session' = session /\ idle' = idle /\ call' = call
  BY DEF Inv
<1>2. TypeOK'
  BY <1>1 DEF TypeOK
<1>3. ClientInv'
  BY <1>1 DEF ClientInv
<1>4. CallInv'
  BY <1>1 DEF CallInv
<1>5. KeptInv'
  BY <1>1 DEF KeptInv
<1>6. DroppedInv'
  <2>1. \A s \in Shared : Referenced(s)' => Referenced(s)
    BY <1>1 DEF Referenced
  <2>2. QED
    BY <1>1, <2>1 DEF DroppedInv
<1>7. RefusedOnlyIfClosed'
  BY <1>1 DEF RefusedOnlyIfClosed
<1>8. QED
  BY <1>2, <1>3, <1>4, <1>5, <1>6, <1>7 DEF Inv

LEMMA SessionOfInv == ASSUME Inv, NEW c \in Client, SessionOf(c) PROVE Inv'
<1>1. /\ client[c].session \in Session /\ session[client[c].session] # "none"
      /\ Referenced(client[c].session)
  BY DEF Inv, ClientInv, SessionOf, Referenced
<1>2. QED
  BY <1>1, KeepsSession DEF SessionOf, Inv, TypeOK

LEMMA DropSessionInv == ASSUME Inv, NEW s \in Session, DropSession(s) PROVE Inv'
<1>1. QED
  BY KeepsSession DEF DropSession, Inv, TypeOK

-----------------------------------------------------------------------------
(* What closes a session.                                                  *)

\* The program closes a session: one that it keeps, or that of a client.
LEMMA ProgramCloses ==
    ASSUME Inv, NEW s \in Session, Drained(s, "asked"), UNCHANGED <<client, kept, call>>
    PROVE  Inv'
<1>1. TypeOK /\ client' = client
  BY DEF Inv
<1>2. /\ session' \in [Session -> {"none", "open", "asked", "dropped"}]
      /\ idle' \in [Session -> 0..MaxIdle]
      /\ \A x \in Session :
            session'[x] # session[x] => session[x] = "open" /\ session'[x] = "asked"
  BY <1>1, ClientsAssumption DEF Drained, TypeOK
<1>3. client' \in [Client -> ClientRecords]
  BY <1>1 DEF TypeOK, ClientRecords
<1>4. QED
  BY <1>1, <1>2, <1>3, SessionsEnd

LEMMA CloseSessionInv == ASSUME Inv, NEW s \in Session, CloseSession(s) PROVE Inv'
BY ProgramCloses DEF CloseSession

LEMMA CloseInv == ASSUME Inv, NEW c \in Client, Close(c) PROVE Inv'
<1>1. PICK s \in Session : s = client[c].session
  BY DEF Inv, ClientInv, Close
<1>2. Drained(s, "asked") /\ UNCHANGED <<client, kept, call>>
  BY <1>1 DEF Close
<1>3. QED
  BY <1>2, ProgramCloses

\* The collector finds a session that nothing refers to: its client is dead.
LEMMA CollectSessionInv == ASSUME Inv, NEW s \in Session, CollectSession(s) PROVE Inv'
<1>1. /\ TypeOK /\ ClientInv /\ client' = client /\ UNCHANGED <<kept, call>>
      /\ session[s] = "open" /\ ~Referenced(s) /\ Drained(s, "dropped")
  BY DEF Inv, CollectSession
<1>2. s \in Client => client[s].state = "dead"
  BY <1>1 DEF ClientInv, Referenced, TypeOK
<1>3. /\ session' \in [Session -> {"none", "open", "asked", "dropped"}]
      /\ idle' \in [Session -> 0..MaxIdle]
      /\ \A x \in Session : session'[x] = IF x = s THEN "dropped" ELSE session[x]
  BY <1>1, ClientsAssumption DEF Drained, TypeOK
<1>4. client' \in [Client -> ClientRecords]
  BY <1>1 DEF TypeOK, ClientRecords
<1>5. QED
  BY <1>1, <1>2, <1>3, <1>4, SessionsEnd

\* __del__ of a client: it closes the session when it is the client's own.
LEMMA CollectInv == ASSUME Inv, NEW c \in Client, Collect(c) PROVE Inv'
<1>1. /\ TypeOK /\ ClientInv /\ UNCHANGED <<kept, call>>
      /\ client[c].state = "alive" /\ ~Reachable(c)
      /\ client' = [client EXCEPT ![c].state = "dead"]
  BY DEF Inv, Collect
<1>2. /\ client' \in [Client -> ClientRecords]
      /\ client'[c] = [client[c] EXCEPT !.state = "dead"] /\ client'[c].state = "dead"
      /\ \A d \in Client : d # c => client'[d] = client[d]
  BY <1>1 DEF TypeOK, ClientRecords
<1>3. c \in Session /\ c \notin Shared
  BY ClientsAssumption DEF Session
<1>4. CASE client[c].owned
  <2>1. Drained(c, "dropped")
    BY <1>1, <1>4 DEF Collect, ClientInv
  <2>2. /\ session' \in [Session -> {"none", "open", "asked", "dropped"}]
        /\ idle' \in [Session -> 0..MaxIdle]
        /\ \A x \in Session : session'[x] =
              IF x = c /\ session[x] = "open" THEN "dropped" ELSE session[x]
    BY <1>1, <1>3, <2>1, ClientsAssumption DEF Drained, TypeOK
  <2>3. QED
    BY <1>1, <1>2, <1>3, <2>2, SessionsEnd
<1>5. CASE ~client[c].owned
  <2>1. session' = session /\ idle' = idle
    BY <1>5 DEF Collect
  <2>2. QED
    BY <1>1, <1>2, <2>1, SessionsEnd DEF TypeOK
<1>6. QED
  BY <1>4, <1>5

-----------------------------------------------------------------------------
(* The calls.                                                              *)

LEMMA AccessInv == ASSUME Inv, NEW k \in Call, NEW c \in Client, Access(k, c) PROVE Inv'
<1> DEFINE r == [pc |-> "ready", via |-> c, on |-> client[c].session, bound |-> TRUE]
<1>1. /\ TypeOK /\ ClientInv /\ DroppedInv /\ client[c].state = "alive"
      /\ call' = [call EXCEPT ![k] = r] /\ UNCHANGED <<client, session, kept>>
      /\ idle' \in [Session -> 0..MaxIdle]
  BY DEF Inv, Access, Bind, TypeOK
<1>2. PICK s \in Session : s = client[c].session /\ session[s] # "none" /\ Referenced(s)
  BY <1>1 DEF ClientInv, Referenced
<1>3. r \in CallRecords /\ r.pc = "ready" /\ r.via = c /\ r.on = s
  BY <1>2 DEF CallRecords
<1>4. s \in Shared => session[s] # "dropped"
  BY <1>1, <1>2 DEF DroppedInv
<1> HIDE DEF r
<1>5. QED
  BY <1>1, <1>2, <1>3, <1>4, CallMoves DEF InFlight

LEMMA CallSessionInv ==
    ASSUME Inv, NEW k \in Call, NEW s \in Session, CallSession(k, s) PROVE Inv'
<1> DEFINE r == [call[k] EXCEPT !.pc = "called", !.on = s]
<1>1. /\ TypeOK /\ CallInv /\ KeptInv /\ DroppedInv /\ call[k].pc = "new" /\ s \in kept
      /\ call' = [call EXCEPT ![k] = r] /\ UNCHANGED <<client, session, kept>>
      /\ idle' \in [Session -> 0..MaxIdle]
  BY DEF Inv, CallSession, TypeOK
<1>2. /\ r \in CallRecords /\ r.pc = "called" /\ r.on = s
      /\ r.via = None /\ r.bound = FALSE
  BY <1>1 DEF CallRecords, TypeOK, CallInv, InFlight
<1>3. session[s] # "none" /\ (s \in Shared => session[s] # "dropped")
  BY <1>1 DEF KeptInv, DroppedInv, Referenced
<1> HIDE DEF r
<1>4. QED
  BY <1>1, <1>2, <1>3, CallMoves

\* A call goes on from where it was bound, or in flight, and refers to nothing
\* that it did not refer to.
LEMMA CallProceeds ==
    ASSUME Inv, NEW k \in Call, NEW r \in CallRecords,
           call' = [call EXCEPT ![k] = r],
           UNCHANGED <<client, session, kept>>, idle' \in [Session -> 0..MaxIdle],
           r # Done => r.via = call[k].via /\ r.on = call[k].on,
           r.bound => call[k].bound,
           r.pc \in InFlight \cup {"ready", "refused"} =>
              call[k].pc \in InFlight \cup {"ready", "refused"},
           r.pc \in InFlight /\ ~call[k].bound => call[k].pc \in InFlight,
           r.pc = "called" /\ r.via # None /\ r.via \notin Async => r.bound,
           r.pc # "new",
           r.pc = "refused" => Due(r)
    PROVE  Inv'
<1>1. TypeOK /\ CallInv /\ DroppedInv
  BY DEF Inv
<1>2. CASE r = Done
  BY <1>2, CallMoves, ClientsAssumption DEF Done, InFlight, Session
<1>3. CASE r.via = call[k].via /\ r.on = call[k].on
  <2>1. r.bound /\ r.via # None => client[r.via].state = "alive"
    BY <1>1, <1>3 DEF CallInv
  <2>2. r.pc \in InFlight \cup {"ready", "refused"} => r.on \in Session /\ session[r.on] # "none"
    BY <1>1, <1>3 DEF CallInv, InFlight
  <2>3. r.on \in Shared /\ (r.bound \/ r.pc \in InFlight) => session[r.on] # "dropped"
    BY <1>1, <1>3 DEF DroppedInv, Referenced
  <2>4. QED
    BY <1>3, <2>1, <2>2, <2>3, CallMoves
<1>4. QED
  BY <1>2, <1>3

LEMMA InvokeInv == ASSUME Inv, NEW k \in Call, Invoke(k) PROVE Inv'
<1> DEFINE r == [call[k] EXCEPT !.pc = "called"]
<1>1. /\ TypeOK /\ call[k].pc = "ready" /\ call[k].bound
      /\ call' = [call EXCEPT ![k] = r] /\ UNCHANGED <<client, session, kept>>
      /\ idle' \in [Session -> 0..MaxIdle]
  BY DEF Inv, Invoke, TypeOK
<1>2. /\ r \in CallRecords /\ r.pc = "called" /\ r.on = call[k].on
      /\ r.via = call[k].via /\ r.bound = call[k].bound
  BY <1>1 DEF CallRecords, TypeOK, InFlight
<1> HIDE DEF r
<1>3. QED
  BY <1>1, <1>2, CallProceeds

LEMMA DropMethodInv == ASSUME Inv, NEW k \in Call, DropMethod(k) PROVE Inv'
<1> DEFINE r == IF call[k].pc = "done" THEN Done ELSE [call[k] EXCEPT !.bound = FALSE]
<1>1. /\ TypeOK /\ CallInv /\ call[k].bound
      /\ call[k].pc \in InFlight => call[k].via \in Async
      /\ call' = [call EXCEPT ![k] = r] /\ UNCHANGED <<client, session, kept>>
      /\ idle' \in [Session -> 0..MaxIdle]
  BY DEF Inv, DropMethod, TypeOK
<1>2. call[k] \in CallRecords /\ call[k].pc # "new"
  BY <1>1 DEF CallRecords, TypeOK, CallInv
<1>3. CASE call[k].pc = "done"
  <2>1. r = Done /\ r \in CallRecords /\ r.pc = "done" /\ r.bound = FALSE
    BY <1>3 DEF Done, CallRecords
  <2> HIDE DEF r
  <2>2. QED
    BY <1>1, <2>1, CallProceeds DEF InFlight
<1>4. CASE call[k].pc # "done"
  <2>1. /\ r \in CallRecords /\ r.pc = call[k].pc /\ r.on = call[k].on
        /\ r.via = call[k].via /\ r.bound = FALSE
    BY <1>2, <1>4 DEF CallRecords
  <2>2. call[k].pc = "refused" => Due(r)
    BY <2>1 DEF Inv, RefusedOnlyIfClosed, Due
  <2> HIDE DEF r
  <2>3. QED
    BY <1>1, <1>2, <2>1, <2>2, CallProceeds DEF InFlight
<1>5. QED
  BY <1>3, <1>4

\* The end of a call leaves its bound method, or nothing.
LEMMA CallEnds ==
    ASSUME Inv, NEW k \in Call, call[k].pc \in {"called", "using"}, Ends(k),
           UNCHANGED <<client, session, kept>>, idle' \in [Session -> 0..MaxIdle]
    PROVE  Inv'
<1> DEFINE r == IF call[k].bound THEN [call[k] EXCEPT !.pc = "done"] ELSE Done
<1>1. TypeOK /\ call' = [call EXCEPT ![k] = r]
  BY DEF Inv, Ends
<1>2. call[k] \in CallRecords
  BY <1>1 DEF CallRecords, TypeOK
<1>3. /\ r \in CallRecords /\ r.pc = "done" /\ (r.bound => call[k].bound)
      /\ r # Done => r.via = call[k].via /\ r.on = call[k].on
  BY <1>2 DEF Done, CallRecords
<1> HIDE DEF r
<1>4. QED
  BY <1>1, <1>3, CallProceeds DEF InFlight

LEMMA DropCoroutineInv == ASSUME Inv, NEW k \in Call, DropCoroutine(k) PROVE Inv'
BY CallEnds DEF DropCoroutine, Inv, TypeOK

LEMMA FailsInv == ASSUME Inv, NEW k \in Call, Fails(k) PROVE Inv'
BY CallEnds DEF Fails, Inv, TypeOK

LEMMA GiveBackInv == ASSUME Inv, NEW k \in Call, GiveBack(k) PROVE Inv'
<1>1. PICK s \in Session : s = call[k].on
  BY DEF Inv, CallInv, GiveBack, InFlight
<1>2. /\ Ends(k) /\ call[k].pc = "using" /\ UNCHANGED <<client, session, kept>>
      /\ idle' = [idle EXCEPT ![s] =
            IF session[s] = "open" /\ @ < MaxIdle THEN @ + 1 ELSE @]
  BY <1>1 DEF GiveBack
<1>3. idle' \in [Session -> 0..MaxIdle]
  BY <1>2, ClientsAssumption DEF Inv, TypeOK
<1>4. QED
  BY <1>2, <1>3, CallEnds

\* The heart of RefusedOnlyIfClosed: what take() refuses was closed by the
\* program, or was dropped with a client that this call does not keep alive.
LEMMA RefusalIsDue ==
    ASSUME Inv, NEW k \in Call, call[k].pc = "called", session[call[k].on] # "open"
    PROVE  Due(call[k])
<1>1. TypeOK /\ ClientInv /\ CallInv /\ DroppedInv
  BY DEF Inv
<1>2. PICK s \in Session : s = call[k].on /\ session[s] # "none"
  BY <1>1 DEF CallInv, InFlight
<1>3. CASE session[s] = "asked"
  BY <1>2, <1>3 DEF Due
<1>4. CASE session[s] = "dropped"
  <2>1. s \notin Shared
    BY <1>1, <1>2, <1>4 DEF DroppedInv, Referenced, InFlight
  <2>2. s \in Client /\ client[s].state = "dead" /\ s # None
    BY <1>1, <1>4, <2>1, ClientsAssumption DEF ClientInv, Session
  <2>3. call[k].via = s /\ s \notin Async => client[s].state = "alive"
    BY <1>1, <2>2 DEF CallInv
  <2>4. QED
    BY <1>2, <2>2, <2>3 DEF Due
<1>5. QED
  BY <1>1, <1>2, <1>3, <1>4 DEF TypeOK

LEMMA TakeInv == ASSUME Inv, NEW k \in Call, Take(k) PROVE Inv'
<1>1. PICK s \in Session : s = call[k].on
  BY DEF Inv, CallInv, Take, InFlight
<1>2. /\ TypeOK /\ CallInv /\ call[k].pc = "called" /\ UNCHANGED <<client, session, kept>>
      /\ call[k] \in CallRecords
  BY DEF Take, Inv, TypeOK, CallRecords
<1>3. CASE session[s] # "open" /\ Step(k, "refused") /\ UNCHANGED idle
  <2> DEFINE r == [call[k] EXCEPT !.pc = "refused"]
  <2>1. /\ r \in CallRecords /\ r.pc = "refused" /\ r.on = call[k].on
        /\ r.via = call[k].via /\ r.bound = call[k].bound
    BY <1>2 DEF CallRecords
  <2>2. Due(r)
    BY <1>1, <1>2, <1>3, <2>1, RefusalIsDue DEF Due
  <2>3. call' = [call EXCEPT ![k] = r] /\ idle' \in [Session -> 0..MaxIdle]
    BY <1>2, <1>3 DEF Step, TypeOK
  <2> HIDE DEF r
  <2>4. QED
    BY <1>2, <2>1, <2>2, <2>3, CallProceeds DEF InFlight
<1>4. CASE /\ session[s] = "open" /\ Step(k, "using")
           /\ \E n \in 0..idle[s] : (n < idle[s] \/ n = 0) /\ idle' = [idle EXCEPT ![s] = n]
  <2> DEFINE r == [call[k] EXCEPT !.pc = "using"]
  <2>1. /\ r \in CallRecords /\ r.pc = "using" /\ r.on = call[k].on
        /\ r.via = call[k].via /\ r.bound = call[k].bound
    BY <1>2 DEF CallRecords, InFlight
  <2>2. call' = [call EXCEPT ![k] = r]
    BY <1>2, <1>4 DEF Step, TypeOK
  <2>3. idle' \in [Session -> 0..MaxIdle]
    BY <1>2, <1>4, ClientsAssumption DEF TypeOK
  <2> HIDE DEF r
  <2>4. QED
    BY <1>2, <2>1, <2>2, <2>3, CallProceeds DEF InFlight
<1>5. QED
  BY <1>1, <1>3, <1>4 DEF Take

LEMMA CollectUnderLockInv ==
    ASSUME Inv, NEW c \in Client, NEW k \in Call, CollectUnderLock(c, k) PROVE Inv'
<1> DEFINE r == [call[k] EXCEPT !.pc = "stuck"]
<1>1. /\ TypeOK /\ call[k].pc \in {"called", "using"} /\ call[k] \in CallRecords
      /\ call' = [call EXCEPT ![k] = r] /\ UNCHANGED <<client, session, kept>>
      /\ idle' \in [Session -> 0..MaxIdle]
  BY DEF Inv, CollectUnderLock, Step, TypeOK, CallRecords
<1>2. /\ r \in CallRecords /\ r.pc = "stuck" /\ r.on = call[k].on
      /\ r.via = call[k].via /\ r.bound = call[k].bound
  BY <1>1 DEF CallRecords, InFlight
<1> HIDE DEF r
<1>3. QED
  BY <1>1, <1>2, CallProceeds DEF InFlight

-----------------------------------------------------------------------------
(* The theorems.                                                           *)

LEMMA NextInv == Inv /\ [Next]_vars => Inv'
<1> SUFFICES ASSUME Inv, [Next]_vars PROVE Inv'
  OBVIOUS
<1>1. CASE \E c \in Client : NewOwning(c) \/ NewFails(c) \/ DropClient(c)
                             \/ SessionOf(c) \/ Close(c) \/ Collect(c)
  BY <1>1, NewOwningInv, NewFailsInv, DropClientInv, SessionOfInv, CloseInv, CollectInv
<1>2. CASE \E c \in Client, s \in Session : NewSharing(c, s)
  BY <1>2, NewSharingInv
<1>3. CASE \E c \in Client, k \in Call : Access(k, c) \/ CollectUnderLock(c, k)
  BY <1>3, AccessInv, CollectUnderLockInv
<1>4. CASE \E s \in Session : DropSession(s) \/ CloseSession(s) \/ CollectSession(s)
  BY <1>4, DropSessionInv, CloseSessionInv, CollectSessionInv
<1>5. CASE \E k \in Call : Invoke(k) \/ DropMethod(k) \/ DropCoroutine(k) \/ Runs(k)
  BY <1>5, InvokeInv, DropMethodInv, DropCoroutineInv, TakeInv, FailsInv, GiveBackInv DEF Runs
<1>6. CASE \E k \in Call, s \in Session : CallSession(k, s)
  BY <1>6, CallSessionInv
<1>7. CASE UNCHANGED vars
  <2>1. /\ client' = client /\ session' = session /\ idle' = idle
        /\ kept' = kept /\ call' = call
    BY <1>7 DEF vars
  <2>2. QED
    BY <2>1, KeepsSession DEF Inv, TypeOK
<1>8. QED
  BY <1>1, <1>2, <1>3, <1>4, <1>5, <1>6, <1>7 DEF Next

\* Every variable keeps its type.
THEOREM TypeCorrect == Spec => []TypeOK
<1>1. Inv => TypeOK
  BY DEF Inv
<1>2. QED
  BY <1>1, InitInv, NextInv, PTL DEF Spec

\* "session is closed" is only raised to those who closed the session or let
\* its owner go: for any number of clients, sessions and calls, asyncio or
\* not, whichever the collector visits and when (_bind and __del__ in
\* service.py, Pool.take in pool.py).
THEOREM RefusalsAreDeserved == Spec => []RefusedOnlyIfClosed
<1>1. Inv => RefusedOnlyIfClosed
  BY DEF Inv
<1>2. QED
  BY <1>1, InitInv, NextInv, PTL DEF Spec

\* The only steps that drop a session: the end of its own client, and the
\* collector once nothing refers to it.
LEMMA DropsOwnOrUnreferenced ==
    ASSUME Inv, [Next]_vars, NEW s \in Shared,
           session'[s] = "dropped", session[s] # "dropped"
    PROVE  ~Referenced(s)
<1>1. TypeOK /\ ClientInv /\ s \in Session /\ s \notin Client
  BY ClientsAssumption DEF Inv, Session
<1>2. CASE \E x \in Session, by \in {"asked", "dropped"} :
              Drained(x, by) /\ (by = "dropped" => x \in Client \/ ~Referenced(x))
  <2>1. PICK x \in Session, by \in {"asked", "dropped"} :
           Drained(x, by) /\ (by = "dropped" => x \in Client \/ ~Referenced(x))
    BY <1>2
  <2>2. session'[s] = IF s = x /\ session[s] = "open" THEN by ELSE session[s]
    BY <1>1, <2>1 DEF Drained, TypeOK
  <2>3. QED
    BY <1>1, <2>1, <2>2
<1>3. CASE \E c \in Client : NewOwning(c) \/ NewFails(c)
  <2>1. PICK c \in Client : session' = [session EXCEPT ![c] = "open"]
    BY <1>3 DEF NewOwning, NewFails
  <2>2. QED
    BY <1>1, <2>1 DEF TypeOK
<1>4. CASE UNCHANGED session
  BY <1>4
<1>5. ASSUME NEW c \in Client, Close(c) PROVE ~Referenced(s)
  BY <1>1, <1>2, <1>5 DEF Close, ClientInv
<1>6. ASSUME NEW c \in Client, Collect(c) PROVE ~Referenced(s)
  <2>1. CASE client[c].owned
    <3>1. Drained(c, "dropped") /\ c \in Session
      BY <1>1, <1>6, <2>1 DEF Collect, ClientInv, Session
    <3>2. QED
      BY <1>2, <3>1
  <2>2. CASE ~client[c].owned
    BY <1>4, <1>6, <2>2 DEF Collect
  <2>3. QED
    BY <2>1, <2>2
<1>7. ASSUME NEW x \in Session, CloseSession(x) \/ CollectSession(x) PROVE ~Referenced(s)
  BY <1>2, <1>7 DEF CloseSession, CollectSession
<1>8. ASSUME NEW c \in Client,
             \/ DropClient(c) \/ SessionOf(c)
             \/ \E x \in Session : NewSharing(c, x)
             \/ \E k \in Call : Access(k, c) \/ CollectUnderLock(c, k)
      PROVE ~Referenced(s)
  BY <1>4, <1>8 DEF DropClient, SessionOf, NewSharing, Access, CollectUnderLock
<1>9. ASSUME NEW x \in Session, DropSession(x) PROVE ~Referenced(s)
  BY <1>4, <1>9 DEF DropSession
<1>10. ASSUME NEW k \in Call,
              \/ Invoke(k) \/ DropMethod(k) \/ DropCoroutine(k) \/ Runs(k)
              \/ \E x \in Session : CallSession(k, x)
       PROVE ~Referenced(s)
  BY <1>4, <1>10 DEF Invoke, DropMethod, DropCoroutine, Runs, Take, Fails, GiveBack, CallSession
<1>11. CASE UNCHANGED vars
  BY <1>4, <1>11 DEF vars
<1>12. QED
  BY <1>3, <1>5, <1>6, <1>7, <1>8, <1>9, <1>10, <1>11 DEF Next

\* close(), aclose() and the collection of clients leave a shared session
\* alone: the interpreter drops it only when nothing refers to it any more.
THEOREM SharedSessionsSurvive == Spec => SharedLeftAlone
<1>1. Inv /\ [Next]_vars =>
         [\A s \in Shared :
             session'[s] = "dropped" => session[s] = "dropped" \/ ~Referenced(s)]_vars
  BY DropsOwnOrUnreferenced
<1>2. QED
  BY <1>1, InitInv, NextInv, PTL DEF Spec, SharedLeftAlone
=============================================================================
