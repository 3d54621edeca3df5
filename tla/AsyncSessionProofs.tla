------------------------- MODULE AsyncSessionProofs -------------------------
(***************************************************************************)
(* Theorems about AsyncSession, for any tasks, connections and limits,     *)
(* wherever a task is cancelled: what the semaphore counts, and who owns   *)
(* the connections.                                                        *)
(***************************************************************************)
EXTENDS AsyncSession, PoolProofs, FiniteSetTheorems, SequenceTheorems, TLAPS

PC == {"out", "acquire", "draining"} \cup InUse

\* The labels where a task has a connection.
Holding == {"greet", "poll", "unary", "flush"}

SemaphoreTypeOK ==
    /\ value \in IF Capped THEN Nat ELSE {None}
    /\ waiters \in Seq(Tasks)
    /\ granted \in SUBSET Tasks

TypeOK ==
    /\ PoolTypeOK /\ SemaphoreTypeOK
    /\ pc \in [Tasks -> PC]
    /\ held \in [Tasks -> Conns \cup {None}]
    /\ toClose \in [Tasks -> SUBSET Conns]
    /\ status \in [Conns -> Status]
    /\ abandoned \in SUBSET Conns
    /\ \A t \in Tasks : held[t] # None <=> pc[t] \in Holding
    /\ \A t \in Tasks : toClose[t] # {} => pc[t] = "draining"

-----------------------------------------------------------------------------
(* The queue of the semaphore.                                             *)

Queued(q, t) == \E i \in 1..Len(q) : q[i] = t

OnceEach(q) == \A i, j \in 1..Len(q) : i # j => q[i] # q[j]

LEMMA RemoveAtFacts ==
    ASSUME NEW q \in Seq(Tasks), NEW k \in 1..Len(q)
    PROVE  /\ RemoveAt(q, k) \in Seq(Tasks) /\ Len(q) \in Nat
           /\ Len(RemoveAt(q, k)) = Len(q) - 1
           /\ \A i \in 1..(Len(q) - 1) :
                 RemoveAt(q, k)[i] = IF i < k THEN q[i] ELSE q[i + 1]
  <1>1. /\ Len(q) \in Nat /\ k \in Int /\ 1 <= k /\ k <= Len(q)
        /\ \A i \in 1..Len(q) : q[i] \in Tasks
    BY LenProperties, ElementOfSeq
  <1> DEFINE front == SubSeq(q, 1, k - 1)
             back == SubSeq(q, k + 1, Len(q))
  <1>2. /\ front \in Seq(Tasks) /\ Len(front) = k - 1
        /\ \A i \in 1..(k - 1) : front[i] = q[i]
    <2>1. \A i \in 1..(k - 1) : q[i] \in Tasks
      BY <1>1
    <2>2. /\ front \in Seq(Tasks)
          /\ Len(front) = IF 1 <= k - 1 THEN k - 1 - 1 + 1 ELSE 0
          /\ \A i \in 1..(k - 1 - 1 + 1) : front[i] = q[1 + i - 1]
      BY <1>1, <2>1, SubSeqProperties
    <2>3. QED
      BY <1>1, <2>2
  <1>3. /\ back \in Seq(Tasks) /\ Len(back) = Len(q) - k
        /\ \A i \in 1..(Len(q) - k) : back[i] = q[k + i]
    <2>1. \A i \in (k + 1)..Len(q) : q[i] \in Tasks
      BY <1>1
    <2>2. /\ back \in Seq(Tasks)
          /\ Len(back) = IF k + 1 <= Len(q) THEN Len(q) - (k + 1) + 1 ELSE 0
          /\ \A i \in 1..(Len(q) - (k + 1) + 1) : back[i] = q[k + 1 + i - 1]
      BY <1>1, <2>1, SubSeqProperties
    <2>3. QED
      BY <1>1, <2>2
  <1>4. RemoveAt(q, k) = front \o back
    BY DEF RemoveAt
  <1> HIDE DEF front, back
  <1>5. /\ front \o back \in Seq(Tasks) /\ Len(front \o back) = Len(q) - 1
        /\ \A i \in 1..(Len(q) - 1) :
              (front \o back)[i] = IF i <= k - 1 THEN front[i] ELSE back[i - (k - 1)]
    <2>1. /\ front \o back \in Seq(Tasks)
          /\ Len(front \o back) = Len(front) + Len(back)
          /\ \A i \in 1..(Len(front) + Len(back)) :
                (front \o back)[i] = IF i <= Len(front) THEN front[i] ELSE back[i - Len(front)]
      BY <1>2, <1>3, ConcatProperties
    <2>2. Len(front) + Len(back) = Len(q) - 1
      BY <1>1, <1>2, <1>3
    <2>3. QED
      BY <1>2, <2>1, <2>2
  <1>6. ASSUME NEW i \in 1..(Len(q) - 1)
        PROVE  (front \o back)[i] = IF i < k THEN q[i] ELSE q[i + 1]
    <2>1. CASE i < k
      BY <1>1, <1>2, <1>5, <2>1
    <2>2. CASE ~(i < k)
      <3>1. i - (k - 1) \in 1..(Len(q) - k) /\ k + (i - (k - 1)) = i + 1
        BY <1>1, <2>2
      <3>2. (front \o back)[i] = back[i - (k - 1)]
        BY <1>1, <1>5, <2>2
      <3>3. back[i - (k - 1)] = q[k + (i - (k - 1))]
        BY <1>3, <3>1
      <3>4. QED
        BY <2>2, <3>1, <3>2, <3>3
    <2>3. QED
      BY <2>1, <2>2
  <1>7. QED
    BY <1>1, <1>4, <1>5, <1>6

LEMMA QueueWithoutFacts ==
    ASSUME waiters \in Seq(Tasks), OnceEach(waiters), NEW t, Queued(waiters, t)
    PROVE  /\ QueueWithout(t) \in Seq(Tasks) /\ OnceEach(QueueWithout(t))
           /\ \A u : Queued(QueueWithout(t), u) <=> Queued(waiters, u) /\ u # t
  <1> DEFINE k == CHOOSE i \in 1..Len(waiters) : waiters[i] = t
             q == RemoveAt(waiters, k)
             n == Len(waiters)
  <1>1. k \in 1..n /\ waiters[k] = t
    BY DEF Queued
  <1>2. QueueWithout(t) = q
    BY DEF QueueWithout
  <1> HIDE DEF k
  <1>3. /\ q \in Seq(Tasks) /\ n \in Nat /\ Len(q) = n - 1
        /\ \A i \in 1..(n - 1) : q[i] = IF i < k THEN waiters[i] ELSE waiters[i + 1]
    BY <1>1, RemoveAtFacts
  <1> HIDE DEF q, n
  <1>4. \A i, j \in 1..n : i # j => waiters[i] # waiters[j]
    BY DEF OnceEach, n
  <1>5. OnceEach(q)
    BY <1>1, <1>3, <1>4 DEF OnceEach
  <1>6. ASSUME NEW u, Queued(q, u) PROVE Queued(waiters, u) /\ u # t
    <2>1. PICK i \in 1..(n - 1) : q[i] = u
      BY <1>3, <1>6 DEF Queued
    <2>2. PICK j \in 1..n : j # k /\ waiters[j] = u
      BY <1>1, <1>3, <2>1
    <2>3. QED
      BY <1>1, <1>4, <2>2 DEF Queued, n
  <1>7. ASSUME NEW u, Queued(waiters, u), u # t PROVE Queued(q, u)
    <2>1. PICK i \in 1..n : waiters[i] = u
      BY <1>7 DEF Queued, n
    <2>2. i # k
      BY <1>1, <1>7, <2>1
    <2>3. CASE i < k
      <3>1. i \in 1..(n - 1) /\ q[i] = u
        BY <1>1, <1>3, <2>1, <2>3
      <3>2. QED
        BY <1>3, <3>1 DEF Queued
    <2>4. CASE i > k
      <3>1. i - 1 \in 1..(n - 1) /\ ~(i - 1 < k) /\ (i - 1) + 1 = i
        BY <1>1, <1>3, <2>4
      <3>2. q[i - 1] = u
        BY <1>3, <2>1, <3>1
      <3>3. QED
        BY <1>3, <3>1, <3>2 DEF Queued
    <2>5. QED
      BY <1>1, <1>3, <2>2, <2>3, <2>4
  <1>8. QED
    BY <1>2, <1>3, <1>5, <1>6, <1>7

LEMMA JoinQueue ==
    ASSUME waiters \in Seq(Tasks), OnceEach(waiters), NEW t \in Tasks, ~Queued(waiters, t),
           waiters' = Append(waiters, t)
    PROVE  /\ waiters' \in Seq(Tasks) /\ OnceEach(waiters')
           /\ \A u : Queued(waiters', u) <=> Queued(waiters, u) \/ u = t
           /\ waiters # <<>> <=> \E u : Queued(waiters, u)
  <1>1. /\ Len(waiters) \in Nat /\ waiters' \in Seq(Tasks) /\ Len(waiters') = Len(waiters) + 1
        /\ \A i \in 1..Len(waiters) : waiters'[i] = waiters[i]
        /\ waiters'[Len(waiters) + 1] = t
    BY AppendProperties, LenProperties
  <1>2. \A i \in 1..Len(waiters') : i \in 1..Len(waiters) \/ i = Len(waiters) + 1
    BY <1>1
  <1>3. Len(waiters) + 1 \in 1..Len(waiters') /\ \A i \in 1..Len(waiters) : i \in 1..Len(waiters')
    BY <1>1
  <1>4. OnceEach(waiters')
    BY <1>1, <1>2 DEF OnceEach, Queued
  <1>5. \A u : Queued(waiters', u) <=> Queued(waiters, u) \/ u = t
    BY <1>1, <1>2, <1>3 DEF Queued
  <1>6. waiters # <<>> <=> Len(waiters) >= 1
    BY <1>1, EmptySeq
  <1>7. QED
    BY <1>1, <1>4, <1>5, <1>6 DEF Queued

\* What one permit does: it stays, or it goes on to a task that sleeps, and it
\* stays only when nobody does.
LEMMA WakeFacts ==
    ASSUME NEW v \in Nat, NEW ws \in Seq(Tasks), NEW woken \in SUBSET Tasks, Wake(v, ws, woken)
    PROVE  /\ waiters' = ws /\ value' \in Nat /\ granted' \in SUBSET Tasks
           /\ woken \in SUBSET granted' /\ \A u \in granted' \ woken : Queued(ws, u)
           /\ value' + Cardinality(granted') = v + Cardinality(woken)
           /\ value' > 0 /\ ws # <<>> => granted' # {}
  <1>1. IsFiniteSet(woken) /\ Cardinality(woken) \in Nat
    BY TasksAssumption, FS_Subset, FS_CardinalityType
  <1>2. CASE /\ v > 0 /\ value' = v - 1
             /\ \E i \in 1..Len(ws) :
                   /\ ws[i] \notin woken
                   /\ granted' = woken \cup {ws[i]}
    <2>1. PICK i \in 1..Len(ws) : ws[i] \notin woken /\ granted' = woken \cup {ws[i]}
      BY <1>2
    <2>2. ws[i] \in Tasks
      BY ElementOfSeq
    <2>3. Cardinality(granted') = Cardinality(woken) + 1
      BY <1>1, <2>1, FS_AddElement
    <2>4. value' + Cardinality(granted') = v + Cardinality(woken)
      BY <1>1, <1>2, <2>3
    <2>5. QED
      BY <1>2, <2>1, <2>2, <2>4 DEF Wake, Queued
  <1>3. CASE /\ v = 0 \/ \A i \in 1..Len(ws) : ws[i] \in woken
             /\ value' = v /\ granted' = woken
    <2>1. v > 0 /\ ws # <<>> => woken # {}
      <3>1. ws # <<>> => 1 \in 1..Len(ws)
        BY EmptySeq, LenProperties
      <3>2. QED
        BY <1>3, <3>1
    <2>2. QED
      BY <1>3, <2>1 DEF Wake
  <1>4. QED
    BY <1>2, <1>3 DEF Wake

-----------------------------------------------------------------------------
(* What the semaphore counts.                                              *)

\* The queue holds the tasks that wait, each once, and only they are woken;
\* every permit is free, on its way or in use, and none is free in vain.
SemInv ==
    /\ SemaphoreTypeOK
    /\ OnceEach(waiters)
    /\ \A t \in Tasks : Queued(waiters, t) <=> pc[t] = "acquire"
    /\ \A t \in granted : pc[t] = "acquire"
    /\ \A t \in Tasks : pc[t] = "acquire" => Capped
    /\ PermitsConserved
    /\ NoPermitIdles

LEMMA MoveTask ==
    ASSUME pc \in [Tasks -> PC], NEW t \in Tasks, NEW l \in PC, Goto(t, l)
    PROVE  /\ pc' \in [Tasks -> PC] /\ pc'[t] = l
           /\ \A u \in Tasks \ {t} : pc'[u] = pc[u]
           /\ IsFiniteSet(Busy) /\ Cardinality(Busy) \in Nat /\ Cardinality(Busy') \in Nat
           /\ (pc[t] \in InUse <=> l \in InUse) => Busy' = Busy
           /\ pc[t] \in InUse /\ l \notin InUse => Cardinality(Busy') + 1 = Cardinality(Busy)
           /\ pc[t] \notin InUse /\ l \in InUse => Cardinality(Busy') = Cardinality(Busy) + 1
  <1>1. pc' \in [Tasks -> PC] /\ pc'[t] = l /\ \A u \in Tasks \ {t} : pc'[u] = pc[u]
    BY DEF Goto
  <1>2. Busy' = IF l \in InUse THEN Busy \cup {t} ELSE Busy \ {t}
    BY <1>1 DEF Busy
  <1>3. t \in Busy <=> pc[t] \in InUse
    BY DEF Busy
  <1>4. IsFiniteSet(Busy) /\ IsFiniteSet(Busy')
    BY TasksAssumption, FS_Subset DEF Busy
  <1>5. Cardinality(Busy) \in Nat /\ Cardinality(Busy') \in Nat
    BY <1>4, FS_CardinalityType
  <1>6. t \in Busy => Cardinality(Busy \ {t}) = Cardinality(Busy) - 1
    BY <1>4, FS_RemoveElement
  <1>7. t \notin Busy => Cardinality(Busy \cup {t}) = Cardinality(Busy) + 1
    BY <1>4, FS_AddElement
  <1>8. QED
    BY <1>1, <1>2, <1>3, <1>4, <1>5, <1>6, <1>7

\* A task moves on without the semaphore, in its call or outside of it.
LEMMA NoPermitMoves ==
    ASSUME pc \in [Tasks -> PC], SemInv, NEW t \in Tasks, NEW l \in PC, Goto(t, l),
           pc[t] # "acquire", l # "acquire", pc[t] \in InUse <=> l \in InUse,
           UNCHANGED semaphore
    PROVE  SemInv' /\ pc' \in [Tasks -> PC]
  <1>1. value' = value /\ waiters' = waiters /\ granted' = granted
    BY DEF semaphore
  <1>2. /\ pc' \in [Tasks -> PC] /\ pc'[t] = l
        /\ \A u \in Tasks \ {t} : pc'[u] = pc[u]
        /\ Busy' = Busy
    BY MoveTask
  <1>3. \A u \in Tasks : pc'[u] = "acquire" <=> pc[u] = "acquire"
    BY <1>2
  <1>4. PermitsConserved' /\ NoPermitIdles'
    BY <1>1, <1>2 DEF SemInv, PermitsConserved, NoPermitIdles, Capped
  <1>5. QED
    BY <1>1, <1>2, <1>3, <1>4 DEF SemInv, SemaphoreTypeOK, Capped

LEMMA NobodyMoves ==
    ASSUME pc \in [Tasks -> PC], SemInv, UNCHANGED pc, UNCHANGED semaphore
    PROVE  SemInv' /\ pc' \in [Tasks -> PC]
  <1>1. value' = value /\ waiters' = waiters /\ granted' = granted /\ pc' = pc /\ Busy' = Busy
    BY DEF semaphore, Busy
  <1>2. PermitsConserved' /\ NoPermitIdles'
    BY <1>1 DEF SemInv, PermitsConserved, NoPermitIdles, Capped
  <1>3. QED
    BY <1>1, <1>2 DEF SemInv, SemaphoreTypeOK, Capped

\* The end of a call.
LEMMA PermitComesBack ==
    ASSUME pc \in [Tasks -> PC], SemInv, NEW t \in Tasks, pc[t] \in InUse,
           Goto(t, "out"), ReleasePermit
    PROVE  SemInv' /\ pc' \in [Tasks -> PC]
  <1>1. /\ pc' \in [Tasks -> PC] /\ pc'[t] = "out"
        /\ \A u \in Tasks \ {t} : pc'[u] = pc[u]
        /\ Cardinality(Busy') \in Nat /\ Cardinality(Busy') + 1 = Cardinality(Busy)
    BY MoveTask DEF PC, InUse
  <1>2. pc[t] # "acquire"
    BY DEF InUse
  <1>3. \A u \in Tasks : pc'[u] = "acquire" <=> pc[u] = "acquire"
    BY <1>1, <1>2
  <1>4. CASE ~Capped
    <2>1. value' = value /\ waiters' = waiters /\ granted' = granted
      BY <1>4 DEF ReleasePermit, semaphore
    <2>2. QED
      BY <1>1, <1>3, <1>4, <2>1
      DEF SemInv, SemaphoreTypeOK, PermitsConserved, NoPermitIdles, Capped
  <1>5. CASE Capped
    <2>1. /\ value + 1 \in Nat /\ waiters \in Seq(Tasks) /\ granted \in SUBSET Tasks
          /\ value \in Nat
      BY <1>5 DEF SemInv, SemaphoreTypeOK
    <2>2. Wake(value + 1, waiters, granted)
      BY <1>5 DEF ReleasePermit
    <2>3. /\ waiters' = waiters /\ value' \in Nat /\ granted' \in SUBSET Tasks
          /\ \A u \in granted' \ granted : Queued(waiters, u)
          /\ value' + Cardinality(granted') = value + 1 + Cardinality(granted)
          /\ value' > 0 /\ waiters # <<>> => granted' # {}
      BY <2>1, <2>2, WakeFacts
    <2>4. \A u \in granted' : pc'[u] = "acquire"
      BY <1>3, <2>1, <2>3 DEF SemInv
    <2>5. PermitsConserved'
      <3>1. IsFiniteSet(granted) /\ IsFiniteSet(granted')
        BY <2>1, <2>3, TasksAssumption, FS_Subset
      <3>2. Cardinality(granted) \in Nat /\ Cardinality(granted') \in Nat
        BY <3>1, FS_CardinalityType
      <3>3. value + Cardinality(granted) + Cardinality(Busy) = MaxConns
        BY <1>5 DEF SemInv, PermitsConserved
      <3>4. value' + Cardinality(granted') + Cardinality(Busy') = MaxConns
        BY <1>1, <2>1, <2>3, <3>2, <3>3
      <3>5. QED
        BY <3>4 DEF PermitsConserved
    <2>6. QED
      BY <1>1, <1>3, <1>5, <2>3, <2>4, <2>5 DEF SemInv, SemaphoreTypeOK, NoPermitIdles, Capped
  <1>6. QED
    BY <1>1, <1>4, <1>5

\* A call that need not wait.
LEMMA PermitTaken ==
    ASSUME pc \in [Tasks -> PC], SemInv, NEW t \in Tasks, pc[t] = "out",
           NEW l \in InUse, Goto(t, l), Capped => ~Locked,
           value' = IF Capped THEN value - 1 ELSE value, UNCHANGED <<waiters, granted>>
    PROVE  SemInv' /\ pc' \in [Tasks -> PC]
  <1>1. l \in PC /\ pc[t] \notin InUse /\ l # "acquire"
    BY DEF PC, InUse
  <1>2. /\ pc' \in [Tasks -> PC] /\ pc'[t] = l
        /\ \A u \in Tasks \ {t} : pc'[u] = pc[u]
        /\ Cardinality(Busy) \in Nat /\ Cardinality(Busy') = Cardinality(Busy) + 1
    BY <1>1, MoveTask
  <1>3. \A u \in Tasks : pc'[u] = "acquire" <=> pc[u] = "acquire"
    BY <1>1, <1>2
  <1>4. Capped => /\ value \in Nat /\ value > 0 /\ value' = value - 1 /\ waiters = <<>>
                  /\ granted \in SUBSET Tasks
    BY DEF Locked, SemInv, SemaphoreTypeOK
  <1>5. Cardinality(granted) \in Nat
    BY TasksAssumption, FS_Subset, FS_CardinalityType DEF SemInv, SemaphoreTypeOK
  <1>6. PermitsConserved'
    BY <1>2, <1>4, <1>5 DEF SemInv, PermitsConserved, Capped
  <1>7. NoPermitIdles' /\ SemaphoreTypeOK'
    BY <1>4 DEF SemInv, NoPermitIdles, SemaphoreTypeOK, Capped
  <1>8. granted \in SUBSET Tasks /\ waiters' = waiters /\ granted' = granted
    BY DEF SemInv, SemaphoreTypeOK
  <1>9. QED
    BY <1>2, <1>3, <1>6, <1>7, <1>8 DEF SemInv, Capped

\* A call that has to wait.
LEMMA WaiterJoins ==
    ASSUME pc \in [Tasks -> PC], SemInv, NEW t \in Tasks, pc[t] = "out",
           Capped, Locked, waiters' = Append(waiters, t), Goto(t, "acquire"),
           UNCHANGED <<value, granted>>
    PROVE  SemInv' /\ pc' \in [Tasks -> PC]
  <1>1. /\ pc' \in [Tasks -> PC] /\ pc'[t] = "acquire"
        /\ \A u \in Tasks \ {t} : pc'[u] = pc[u]
        /\ Busy' = Busy
    BY MoveTask DEF PC, InUse
  <1>2. /\ waiters' \in Seq(Tasks) /\ OnceEach(waiters')
        /\ \A u : Queued(waiters', u) <=> Queued(waiters, u) \/ u = t
    BY JoinQueue DEF SemInv, SemaphoreTypeOK
  <1>3. PermitsConserved'
    BY <1>1 DEF SemInv, PermitsConserved
  <1>4. NoPermitIdles'
    BY DEF SemInv, NoPermitIdles, Locked, SemaphoreTypeOK
  <1>5. QED
    BY <1>1, <1>2, <1>3, <1>4 DEF SemInv, SemaphoreTypeOK, Capped

\* A woken task runs: its permit is in use, and another one may go on.
LEMMA WaiterRuns ==
    ASSUME pc \in [Tasks -> PC], SemInv, NEW t \in granted, pc[t] = "acquire",
           NEW l \in InUse, Goto(t, l), Wake(value, QueueWithout(t), granted \ {t})
    PROVE  SemInv' /\ pc' \in [Tasks -> PC]
  <1>1. /\ Capped /\ value \in Nat /\ t \in Tasks /\ granted \in SUBSET Tasks
        /\ waiters \in Seq(Tasks) /\ OnceEach(waiters) /\ Queued(waiters, t)
    BY DEF SemInv, SemaphoreTypeOK
  <1>2. /\ pc' \in [Tasks -> PC] /\ pc'[t] = l /\ l # "acquire"
        /\ \A u \in Tasks \ {t} : pc'[u] = pc[u]
        /\ Cardinality(Busy) \in Nat /\ Cardinality(Busy') = Cardinality(Busy) + 1
    BY <1>1, MoveTask DEF PC, InUse
  <1>3. /\ QueueWithout(t) \in Seq(Tasks) /\ OnceEach(QueueWithout(t))
        /\ \A u : Queued(QueueWithout(t), u) <=> Queued(waiters, u) /\ u # t
    BY <1>1, QueueWithoutFacts
  <1>4. /\ waiters' = QueueWithout(t) /\ value' \in Nat /\ granted' \in SUBSET Tasks
        /\ \A u \in granted' \ (granted \ {t}) : Queued(QueueWithout(t), u)
        /\ value' + Cardinality(granted') = value + Cardinality(granted \ {t})
        /\ value' > 0 /\ QueueWithout(t) # <<>> => granted' # {}
    BY <1>1, <1>3, WakeFacts
  <1>5. \A u \in Tasks : Queued(waiters', u) <=> pc'[u] = "acquire"
    BY <1>2, <1>3, <1>4 DEF SemInv
  <1>6. \A u \in granted' : pc'[u] = "acquire"
    <2>1. ASSUME NEW u \in granted' PROVE pc'[u] = "acquire"
      <3>1. u \in Tasks
        BY <1>4
      <3>2. CASE u \in granted \ {t}
        BY <1>2, <3>1, <3>2 DEF SemInv
      <3>3. CASE u \notin granted \ {t}
        BY <1>4, <1>5, <3>1, <3>3
      <3>4. QED
        BY <3>2, <3>3
    <2>2. QED
      BY <2>1
  <1>7. PermitsConserved'
    <2>1. IsFiniteSet(granted) /\ IsFiniteSet(granted')
      BY <1>1, <1>4, TasksAssumption, FS_Subset
    <2>2. /\ Cardinality(granted) \in Nat /\ Cardinality(granted') \in Nat
          /\ Cardinality(granted \ {t}) = Cardinality(granted) - 1
      BY <2>1, FS_CardinalityType, FS_RemoveElement
    <2>3. value + Cardinality(granted) + Cardinality(Busy) = MaxConns
      BY <1>1 DEF SemInv, PermitsConserved
    <2>4. value' + Cardinality(granted') + Cardinality(Busy') = MaxConns
      BY <1>1, <1>2, <1>4, <2>2, <2>3
    <2>5. QED
      BY <2>4 DEF PermitsConserved
  <1>8. QED
    BY <1>1, <1>2, <1>3, <1>4, <1>5, <1>6, <1>7
    DEF SemInv, SemaphoreTypeOK, NoPermitIdles, Capped

\* A task leaves the queue: the permit that it was woken with goes on.
LEMMA WaiterLeaves ==
    ASSUME pc \in [Tasks -> PC], SemInv, NEW t \in Tasks, pc[t] = "acquire",
           Goto(t, "out"), LeaveQueue(t)
    PROVE  SemInv' /\ pc' \in [Tasks -> PC]
  <1>1. /\ Capped /\ value \in Nat /\ granted \in SUBSET Tasks
        /\ waiters \in Seq(Tasks) /\ OnceEach(waiters) /\ Queued(waiters, t)
    BY DEF SemInv, SemaphoreTypeOK
  <1>2. /\ pc' \in [Tasks -> PC] /\ pc'[t] = "out"
        /\ \A u \in Tasks \ {t} : pc'[u] = pc[u]
        /\ Cardinality(Busy) \in Nat /\ Busy' = Busy
    BY MoveTask DEF PC, InUse
  <1>3. /\ QueueWithout(t) \in Seq(Tasks) /\ OnceEach(QueueWithout(t))
        /\ \A u : Queued(QueueWithout(t), u) <=> Queued(waiters, u) /\ u # t
    BY <1>1, QueueWithoutFacts
  <1>4. CASE t \in granted
    <2>1. Wake(value + 1, QueueWithout(t), granted \ {t}) /\ value + 1 \in Nat
      BY <1>1, <1>4 DEF LeaveQueue
    <2>2. /\ waiters' = QueueWithout(t) /\ value' \in Nat /\ granted' \in SUBSET Tasks
          /\ \A u \in granted' \ (granted \ {t}) : Queued(QueueWithout(t), u)
          /\ value' + Cardinality(granted') = value + 1 + Cardinality(granted \ {t})
          /\ value' > 0 /\ QueueWithout(t) # <<>> => granted' # {}
      BY <1>1, <1>3, <2>1, WakeFacts
    <2>3. \A u \in Tasks : Queued(waiters', u) <=> pc'[u] = "acquire"
      BY <1>2, <1>3, <2>2 DEF SemInv
    <2>4. \A u \in granted' : pc'[u] = "acquire"
      <3>1. ASSUME NEW u \in granted' PROVE pc'[u] = "acquire"
        <4>1. u \in Tasks
          BY <2>2
        <4>2. CASE u \in granted \ {t}
          BY <1>2, <4>1, <4>2 DEF SemInv
        <4>3. CASE u \notin granted \ {t}
          BY <2>2, <2>3, <4>1, <4>3
        <4>4. QED
          BY <4>2, <4>3
      <3>2. QED
        BY <3>1
    <2>5. PermitsConserved'
      <3>1. IsFiniteSet(granted) /\ IsFiniteSet(granted')
        BY <1>1, <2>2, TasksAssumption, FS_Subset
      <3>2. /\ Cardinality(granted) \in Nat /\ Cardinality(granted') \in Nat
            /\ Cardinality(granted \ {t}) = Cardinality(granted) - 1
        BY <1>4, <3>1, FS_CardinalityType, FS_RemoveElement
      <3>3. value + Cardinality(granted) + Cardinality(Busy) = MaxConns
        BY <1>1 DEF SemInv, PermitsConserved
      <3>4. value' + Cardinality(granted') + Cardinality(Busy') = MaxConns
        BY <1>1, <1>2, <2>2, <3>2, <3>3
      <3>5. QED
        BY <3>4 DEF PermitsConserved
    <2>6. QED
      BY <1>1, <1>2, <1>3, <2>2, <2>3, <2>4, <2>5
      DEF SemInv, SemaphoreTypeOK, NoPermitIdles, Capped
  <1>5. CASE t \notin granted
    <2>1. waiters' = QueueWithout(t) /\ value' = value /\ granted' = granted
      BY <1>5 DEF LeaveQueue
    <2>2. \A u \in Tasks : Queued(waiters', u) <=> pc'[u] = "acquire"
      BY <1>2, <1>3, <2>1 DEF SemInv
    <2>3. \A u \in granted' : pc'[u] = "acquire"
      BY <1>1, <1>2, <1>5, <2>1 DEF SemInv
    <2>4. waiters # <<>>
      <3>1. Len(waiters) # 0
        BY <1>1 DEF Queued
      <3>2. QED
        BY <3>1, EmptySeq
    <2>5. QED
      BY <1>1, <1>2, <1>3, <2>1, <2>2, <2>3, <2>4
      DEF SemInv, SemaphoreTypeOK, NoPermitIdles, PermitsConserved, Capped
  <1>6. QED
    BY <1>2, <1>4, <1>5

-----------------------------------------------------------------------------
(* Types.                                                                  *)

\* A step of the task t, to the label l, that leaves it with the connection h
\* and with the connections of S to close.
TaskStep(t, l, h, S) ==
    /\ l \in PC
    /\ Goto(t, l) /\ Hold(t, h) /\ toClose' = [toClose EXCEPT ![t] = S]
    /\ h \in Conns \cup {None} /\ S \in SUBSET Conns
    /\ h # None <=> l \in Holding
    /\ S # {} => l = "draining"

LEMMA TypeStep ==
    ASSUME TypeOK, PoolTypeOK', SemaphoreTypeOK', status' \in [Conns -> Status],
           abandoned' \in SUBSET Conns,
           NEW t \in Tasks, NEW l, NEW h, NEW S, TaskStep(t, l, h, S)
    PROVE  TypeOK'
  <1>1. pc' \in [Tasks -> PC] /\ pc'[t] = l /\ \A u \in Tasks \ {t} : pc'[u] = pc[u]
    BY DEF TypeOK, TaskStep, Goto
  <1>2. /\ held' \in [Tasks -> Conns \cup {None}]
        /\ held'[t] = h /\ \A u \in Tasks \ {t} : held'[u] = held[u]
    BY DEF TypeOK, TaskStep, Hold
  <1>3. /\ toClose' \in [Tasks -> SUBSET Conns]
        /\ toClose'[t] = S /\ \A u \in Tasks \ {t} : toClose'[u] = toClose[u]
    BY DEF TypeOK, TaskStep
  <1>4. ASSUME NEW u \in Tasks
        PROVE  /\ held'[u] # None <=> pc'[u] \in Holding
               /\ toClose'[u] # {} => pc'[u] = "draining"
    <2>1. CASE u = t
      BY <1>1, <1>2, <1>3, <2>1 DEF TaskStep
    <2>2. CASE u # t
      BY <1>1, <1>2, <1>3, <2>2 DEF TypeOK
    <2>3. QED
      BY <2>1, <2>2
  <1>5. QED
    BY <1>1, <1>2, <1>3, <1>4 DEF TypeOK

-----------------------------------------------------------------------------
(* Ownership, and how it passes on.                                        *)

Ownership ==
    /\ ExclusiveOwner
    /\ NothingElseLeaks
    /\ Idle \cap abandoned = {}
    /\ closed => Idle = {}

\* What a task has in its hands when it holds h and closes S.
Hands(h, S) == ({h} \ {None}) \cup S

LEMMA OwnedIsOpen ==
    ASSUME Ownership
    PROVE  /\ Open = Idle \cup (UNION {Mine(t) : t \in Tasks}) \cup abandoned
           /\ \A t \in Tasks : Mine(t) \in SUBSET Open
           /\ Idle \in SUBSET Open /\ abandoned \in SUBSET Open
  BY DEF Ownership, NothingElseLeaks, Owned

LEMMA StatusMoves ==
    ASSUME status \in [Conns -> Status], NEW C, NEW s \in Status, SetStatus(C, s)
    PROVE  /\ status' \in [Conns -> Status]
           /\ s = "absent" => Open' = Open \ C
           /\ s # "absent" /\ C \in SUBSET Conns => Open' = Open \cup C
  BY DEF SetStatus, Open, Status

\* A task t that ends up with h and S, taken from the pool, from what it had
\* and from what was not open, that abandons A of what it had, and that closes
\* the rest of what it and the pool gave away.
LEMMA HandOver ==
    ASSUME TypeOK, Ownership,
           NEW t \in Tasks, NEW h \in Conns \cup {None}, NEW S \in SUBSET Conns,
           NEW A \in SUBSET Mine(t),
           Hold(t, h), toClose' = [toClose EXCEPT ![t] = S],
           abandoned' = abandoned \cup A,
           Distinct', Idle' \cap Hands(h, S) = {}, A \cap (Idle' \cup Hands(h, S)) = {},
           Idle' \cup Hands(h, S) \in SUBSET (Idle \cup Mine(t) \cup (Conns \ Open)),
           Open' = (Open \ (Idle \cup Mine(t))) \cup Idle' \cup Hands(h, S) \cup A,
           closed' => Idle' = {}
    PROVE  Ownership'
  <1> DEFINE others == UNION {Mine(u) : u \in Tasks \ {t}}
  <1>1. /\ held'[t] = h /\ \A u \in Tasks \ {t} : held'[u] = held[u]
        /\ toClose'[t] = S /\ \A u \in Tasks \ {t} : toClose'[u] = toClose[u]
    BY DEF TypeOK, Hold
  <1>2. Mine(t)' = Hands(h, S) /\ \A u \in Tasks \ {t} : Mine(u)' = Mine(u)
    BY <1>1 DEF Mine, Hands
  <1>3. \A u \in Tasks \ {t} :
            /\ Mine(u) \cap (Idle \cup Mine(t) \cup abandoned) = {}
            /\ Mine(u) \in SUBSET Open
    BY OwnedIsOpen DEF Ownership, ExclusiveOwner
  <1>4. abandoned \cap (Idle \cup Mine(t)) = {} /\ abandoned \in SUBSET Open
    BY OwnedIsOpen DEF Ownership, ExclusiveOwner
  <1>5. \A u \in Tasks \ {t} : Mine(u) \cap (Idle' \cup Hands(h, S) \cup abandoned') = {}
    BY <1>3
  <1>6. abandoned' \cap (Idle' \cup Hands(h, S)) = {}
    BY <1>4
  <1>7. ExclusiveOwner'
    <2>1. \A u \in Tasks : (Idle' \cup abandoned') \cap Mine(u)' = {}
      BY <1>2, <1>5, <1>6
    <2>2. ASSUME NEW u \in Tasks, NEW v \in Tasks, u # v
          PROVE  Mine(u)' \cap Mine(v)' = {}
      <3>1. CASE u = t
        BY <1>2, <1>5, <2>2, <3>1
      <3>2. CASE v = t
        BY <1>2, <1>5, <2>2, <3>2
      <3>3. CASE u # t /\ v # t
        BY <1>2, <2>2, <3>3 DEF Ownership, ExclusiveOwner
      <3>4. QED
        BY <3>1, <3>2, <3>3
    <2>3. QED
      BY <2>1, <2>2 DEF ExclusiveOwner, Distinct
  <1>8. NothingElseLeaks'
    <2>1. Open = Idle \cup Mine(t) \cup others \cup abandoned
      BY OwnedIsOpen
    <2>2. (others \cup abandoned) \cap (Idle \cup Mine(t)) = {}
      BY <1>3, <1>4
    <2>3. Open' = Idle' \cup Hands(h, S) \cup others \cup abandoned'
      BY <2>1, <2>2
    <2>4. UNION {Mine(u)' : u \in Tasks} = Hands(h, S) \cup others
      BY <1>2
    <2>5. Owned' = Idle' \cup Hands(h, S) \cup others
      BY <2>4 DEF Owned
    <2>6. QED
      BY <2>3, <2>5 DEF NothingElseLeaks
  <1>9. QED
    BY <1>6, <1>7, <1>8 DEF Ownership

\* Nobody but the pool and the interpreter gives anything away.
LEMMA TasksKeep ==
    ASSUME Ownership, UNCHANGED <<held, toClose>>,
           Distinct', Idle' \in SUBSET Idle, abandoned' \in SUBSET abandoned,
           Open' = Open \ ((Idle \ Idle') \cup (abandoned \ abandoned')),
           closed' => Idle' = {}
    PROVE  Ownership'
  <1> DEFINE mine == UNION {Mine(u) : u \in Tasks}
  <1>1. \A t \in Tasks : Mine(t)' = Mine(t)
    BY DEF Mine
  <1>2. ExclusiveOwner'
    BY <1>1 DEF Ownership, ExclusiveOwner, Distinct
  <1>3. NothingElseLeaks'
    <2>1. Open = Idle \cup mine \cup abandoned
      BY OwnedIsOpen
    <2>2. /\ mine \cap (Idle \cup abandoned) = {}
          /\ Idle \cap abandoned = {}
      BY DEF Ownership, ExclusiveOwner
    <2>3. Open' = Idle' \cup mine \cup abandoned'
      BY <2>1, <2>2
    <2>4. UNION {Mine(u)' : u \in Tasks} = mine
      BY <1>1
    <2>5. Owned' = Idle' \cup mine
      BY <2>4 DEF Owned
    <2>6. QED
      BY <2>3, <2>5 DEF NothingElseLeaks
  <1>4. QED
    BY <1>2, <1>3 DEF Ownership

-----------------------------------------------------------------------------
(* How many connections there are.  Those in the pool, or drained from it, *)
(* have no permit: a task that finds the pool empty finds none of them     *)
(* left, and one that gives a connection back gives its permit back.       *)

Pooled == Idle \cup UNION {toClose[t] : t \in Tasks}

CapInv ==
    /\ IsFiniteSet(Open)
    /\ Capped => Cardinality(Pooled) + Cardinality(Busy) <= MaxConns
    /\ ~closed => \A t \in Tasks : toClose[t] = {}

LEMMA PooledIsOpen ==
    ASSUME Ownership, CapInv
    PROVE  Pooled \in SUBSET Open /\ IsFiniteSet(Pooled) /\ Cardinality(Pooled) \in Nat
  <1>1. Pooled \in SUBSET Open
    BY OwnedIsOpen DEF Pooled, Mine
  <1>2. QED
    BY <1>1, FS_Subset, FS_CardinalityType DEF CapInv

LEMMA BusyIsFinite == IsFiniteSet(Busy) /\ Cardinality(Busy) \in Nat
  BY TasksAssumption, FS_Subset, FS_CardinalityType DEF Busy

LEMMA CapStep ==
    ASSUME Ownership, CapInv, SemInv', IsFiniteSet(Open'),
           Cardinality(Busy') \in Nat,
           ~closed' => \A t \in Tasks : toClose'[t] = {},
           \/ Pooled' = {}
           \/ Pooled' \in SUBSET Pooled /\ Cardinality(Busy') <= Cardinality(Busy)
           \/ /\ Cardinality(Busy') + 1 = Cardinality(Busy)
              /\ \E c : Pooled' \in SUBSET (Pooled \cup {c})
           \/ /\ Cardinality(Busy') = Cardinality(Busy) + 1
              /\ \E c \in Pooled : Pooled' \in SUBSET (Pooled \ {c})
    PROVE  CapInv'
  <1>1. /\ Pooled \in SUBSET Open /\ IsFiniteSet(Pooled) /\ Cardinality(Pooled) \in Nat
        /\ Cardinality(Busy) \in Nat
    BY PooledIsOpen, BusyIsFinite
  <1> SUFFICES ASSUME Capped PROVE Cardinality(Pooled') + Cardinality(Busy') <= MaxConns
    BY DEF CapInv, Capped
  <1>2. MaxConns \in Nat /\ Cardinality(Pooled) + Cardinality(Busy) <= MaxConns
    BY MaxConnsAssumption DEF CapInv, Capped
  <1>3. CASE Pooled' = {}
    <2>1. value' \in Nat /\ granted' \in SUBSET Tasks
      BY DEF SemInv, SemaphoreTypeOK, Capped
    <2>2. Cardinality(granted') \in Nat
      BY <2>1, TasksAssumption, FS_Subset, FS_CardinalityType
    <2>3. value' + Cardinality(granted') + Cardinality(Busy') = MaxConns
      BY DEF SemInv, PermitsConserved, Capped
    <2>4. Cardinality(Pooled') = 0
      BY <1>3, FS_EmptySet
    <2>5. QED
      BY <1>2, <2>1, <2>2, <2>3, <2>4
  <1>4. CASE Pooled' \in SUBSET Pooled /\ Cardinality(Busy') <= Cardinality(Busy)
    <2>1. IsFiniteSet(Pooled') /\ Cardinality(Pooled') <= Cardinality(Pooled)
      BY <1>1, <1>4, FS_Subset
    <2>2. Cardinality(Pooled') \in Nat
      BY <2>1, FS_CardinalityType
    <2>3. QED
      BY <1>1, <1>2, <1>4, <2>1, <2>2
  <1>5. ASSUME Cardinality(Busy') + 1 = Cardinality(Busy),
               NEW c, Pooled' \in SUBSET (Pooled \cup {c})
        PROVE  Cardinality(Pooled') + Cardinality(Busy') <= MaxConns
    <2>1. /\ IsFiniteSet(Pooled \cup {c})
          /\ Cardinality(Pooled \cup {c}) \in {Cardinality(Pooled), Cardinality(Pooled) + 1}
      BY <1>1, FS_AddElement
    <2>2. IsFiniteSet(Pooled') /\ Cardinality(Pooled') <= Cardinality(Pooled \cup {c})
      BY <1>5, <2>1, FS_Subset
    <2>3. Cardinality(Pooled') \in Nat
      BY <2>2, FS_CardinalityType
    <2>4. QED
      BY <1>1, <1>2, <1>5, <2>1, <2>2, <2>3
  <1>6. ASSUME Cardinality(Busy') = Cardinality(Busy) + 1,
               NEW c \in Pooled, Pooled' \in SUBSET (Pooled \ {c})
        PROVE  Cardinality(Pooled') + Cardinality(Busy') <= MaxConns
    <2>1. /\ IsFiniteSet(Pooled \ {c})
          /\ Cardinality(Pooled \ {c}) = Cardinality(Pooled) - 1
      BY <1>1, FS_RemoveElement
    <2>2. IsFiniteSet(Pooled') /\ Cardinality(Pooled') <= Cardinality(Pooled \ {c})
      BY <1>6, <2>1, FS_Subset
    <2>3. Cardinality(Pooled') \in Nat
      BY <2>2, FS_CardinalityType
    <2>4. QED
      BY <1>1, <1>2, <1>6, <2>1, <2>2, <2>3
  <1>7. QED
    BY <1>3, <1>4, <1>5, <1>6

-----------------------------------------------------------------------------
(* The inductive invariant, and the steps.                                 *)

Inv == TypeOK /\ SemInv /\ Ownership /\ CapInv

LEMMA PoolFacts ==
    ASSUME Inv
    PROVE  /\ PoolTypeOK /\ pc \in [Tasks -> PC] /\ Distinct /\ closed \in BOOLEAN
           /\ Idle \in SUBSET Open /\ abandoned \in SUBSET Open /\ Open \in SUBSET Conns
           /\ Idle \cap abandoned = {}
           /\ None \notin Conns /\ None \notin Open /\ None \notin Idle
  <1>1. PoolTypeOK /\ pc \in [Tasks -> PC] /\ closed \in BOOLEAN
    BY DEF Inv, TypeOK, PoolTypeOK
  <1>2. /\ Distinct /\ Idle \in SUBSET Open /\ abandoned \in SUBSET Open
        /\ Open \in SUBSET Conns /\ Idle \cap abandoned = {}
    BY OwnedIsOpen DEF Inv, Ownership, ExclusiveOwner, Distinct, Open
  <1>3. QED
    BY <1>1, <1>2, NoneAssumption

LEMMA TaskFacts ==
    ASSUME Inv, NEW t \in Tasks
    PROVE  /\ pc[t] \in PC /\ held[t] \in Conns \cup {None} /\ toClose[t] \in SUBSET Conns
           /\ Idle \cap Mine(t) = {} /\ abandoned \cap Mine(t) = {} /\ Mine(t) \in SUBSET Open
           /\ Hands(held[t], toClose[t]) = Mine(t)
           /\ held[t] # None <=> pc[t] \in Holding
           /\ toClose[t] # {} => pc[t] = "draining"
           /\ pc[t] # "draining" => Mine(t) = {held[t]} \ {None}
  BY OwnedIsOpen DEF Inv, TypeOK, Ownership, ExclusiveOwner, Hands, Mine

\* A label changes and nothing moves.
LEMMA MovesInPlace ==
    ASSUME Inv, SemInv', NEW t \in Tasks, NEW l \in PC, Goto(t, l),
           UNCHANGED <<idle, closed, held, toClose, abandoned>>,
           status' \in [Conns -> Status], Open' = Open,
           l \in Holding <=> pc[t] \in Holding,
           toClose[t] = {}, l \in InUse => pc[t] \in InUse
    PROVE  Inv'
  <1>1. TypeOK'
    <2>1. TaskStep(t, l, held[t], {})
      BY TaskFacts DEF TaskStep, Hold, Inv, TypeOK
    <2>2. PoolTypeOK' /\ SemaphoreTypeOK' /\ abandoned' \in SUBSET Conns
      BY DEF Inv, TypeOK, PoolTypeOK, SemInv
    <2>3. QED
      BY <2>1, <2>2, TypeStep DEF Inv
  <1>2. Idle' = Idle /\ Distinct'
    BY PoolFacts DEF Idle, Distinct
  <1>3. Ownership'
    BY <1>2, TasksKeep DEF Inv, Ownership
  <1>4. CapInv'
    <2>1. Cardinality(Busy') \in Nat /\ Cardinality(Busy') <= Cardinality(Busy)
      BY PoolFacts, MoveTask
    <2>2. Pooled' = Pooled
      BY <1>2 DEF Pooled
    <2>3. IsFiniteSet(Open') /\ (~closed' => \A u \in Tasks : toClose'[u] = {})
      BY DEF Inv, CapInv
    <2>4. QED
      BY <2>1, <2>2, <2>3, CapStep DEF Inv
  <1>5. QED
    BY <1>1, <1>3, <1>4 DEF Inv

\* No task moves.
LEMMA WorldMoves ==
    ASSUME Inv, UNCHANGED <<pc, held, toClose>>, UNCHANGED semaphore,
           PoolTypeOK', status' \in [Conns -> Status], Distinct',
           Idle' \in SUBSET Idle, abandoned' \in SUBSET abandoned,
           Open' = Open \ ((Idle \ Idle') \cup (abandoned \ abandoned')),
           closed' => Idle' = {}, closed => closed'
    PROVE  Inv'
  <1>1. SemInv'
    BY NobodyMoves DEF Inv, TypeOK
  <1>2. TypeOK'
    BY <1>1 DEF Inv, TypeOK, SemInv
  <1>3. Ownership'
    BY TasksKeep DEF Inv
  <1>4. CapInv'
    <2>1. IsFiniteSet(Open')
      BY FS_Subset DEF Inv, CapInv
    <2>2. Pooled' \in SUBSET Pooled /\ Busy' = Busy
      BY DEF Pooled, Busy
    <2>3. ~closed' => \A u \in Tasks : toClose'[u] = {}
      BY DEF Inv, CapInv
    <2>4. QED
      BY <1>1, <2>1, <2>2, <2>3, BusyIsFinite, CapStep DEF Inv
  <1>5. QED
    BY <1>1, <1>2, <1>3, <1>4 DEF Inv

\* A task leaves its call: what it held is closed, abandoned or in the pool.
LEMMA LeaveInv ==
    ASSUME Inv, NEW t \in Tasks, pc[t] \in InUse, Leave(t),
           \/ /\ SetStatus({held[t]}, "absent")
              /\ UNCHANGED <<idle, closed, abandoned>>
           \/ /\ abandoned' = abandoned \cup ({held[t]} \ {None})
              /\ UNCHANGED <<idle, closed, status>>
           \/ /\ held[t] # None /\ GiveBack(held[t])
              /\ UNCHANGED <<status, abandoned>>
    PROVE  Inv'
  <1>1. /\ Goto(t, "out") /\ Hold(t, None) /\ ReleasePermit /\ toClose' = toClose
        /\ toClose[t] = {} /\ Mine(t) = {held[t]} \ {None}
        /\ held[t] \in Conns \cup {None} /\ Mine(t) \in SUBSET Conns
    BY TaskFacts, PoolFacts DEF Leave, InUse
  <1>2. SemInv'
    BY <1>1, PoolFacts, PermitComesBack DEF Inv
  <1>3. toClose' = [toClose EXCEPT ![t] = {}]
    BY <1>1 DEF Inv, TypeOK
  <1>4. TaskStep(t, "out", None, {})
    BY <1>1, <1>3 DEF TaskStep, PC, Holding
  <1>5. Cardinality(Busy') + 1 = Cardinality(Busy) /\ Cardinality(Busy') \in Nat
    BY <1>1, PoolFacts, MoveTask DEF PC, InUse
  <1>6. Hands(None, {}) = {}
    BY DEF Hands
  <1>7. closed => Idle = {}
    BY DEF Inv, Ownership
  <1>8. ASSUME NEW A \in SUBSET Mine(t), abandoned' = abandoned \cup A, PoolTypeOK', Distinct',
               status' \in [Conns -> Status],
               A \cap Idle' = {}, Idle' \in SUBSET (Idle \cup Mine(t)),
               Open' = (Open \ (Idle \cup Mine(t))) \cup Idle' \cup A,
               closed' => Idle' = {}, closed' = closed
        PROVE  Inv'
    <2>1. TypeOK'
      <3>1. abandoned' \in SUBSET Conns /\ SemaphoreTypeOK'
        BY <1>1, <1>2, <1>8 DEF Inv, TypeOK, SemInv
      <3>2. QED
        BY <1>4, <1>8, <3>1, TypeStep DEF Inv
    <2>2. Ownership'
      BY <1>1, <1>3, <1>6, <1>8, HandOver DEF Inv
    <2>3. CapInv'
      <3>1. Pooled' \in SUBSET (Pooled \cup {held[t]})
        BY <1>1, <1>8 DEF Pooled
      <3>2. IsFiniteSet(Open')
        <4>1. Open' \in SUBSET Open
          BY <1>8, PoolFacts, TaskFacts
        <4>2. QED
          BY <4>1, FS_Subset DEF Inv, CapInv
      <3>3. ~closed' => \A u \in Tasks : toClose'[u] = {}
        BY <1>1, <1>8 DEF Inv, CapInv
      <3>4. QED
        BY <1>2, <1>5, <3>1, <3>2, <3>3, CapStep DEF Inv
    <2>4. QED
      BY <1>2, <2>1, <2>2, <2>3 DEF Inv
  <1>9. CASE SetStatus({held[t]}, "absent") /\ UNCHANGED <<idle, closed, abandoned>>
    <2>1. Idle' = Idle /\ Distinct' /\ PoolTypeOK'
      BY <1>9, PoolFacts DEF Idle, Distinct, PoolTypeOK
    <2>2. status' \in [Conns -> Status] /\ Open' = Open \ {held[t]}
      BY <1>9, StatusMoves DEF Inv, TypeOK, Status
    <2>3. Open' = (Open \ (Idle \cup Mine(t))) \cup Idle' \cup {}
      BY <1>1, <2>1, <2>2, PoolFacts, TaskFacts
    <2>4. {} \in SUBSET Mine(t) /\ abandoned' = abandoned \cup {}
      BY <1>9
    <2>5. QED
      BY <1>7, <1>8, <1>9, <2>1, <2>2, <2>3, <2>4
  <1>10. CASE /\ abandoned' = abandoned \cup ({held[t]} \ {None})
              /\ UNCHANGED <<idle, closed, status>>
    <2>1. Idle' = Idle /\ Distinct' /\ PoolTypeOK' /\ Open' = Open
      BY <1>10, PoolFacts DEF Idle, Distinct, PoolTypeOK, Open
    <2>2. Open' = (Open \ (Idle \cup Mine(t))) \cup Idle' \cup Mine(t)
      BY <1>1, <2>1, PoolFacts, TaskFacts
    <2>3. /\ abandoned' = abandoned \cup Mine(t) /\ Mine(t) \cap Idle' = {}
          /\ status' \in [Conns -> Status]
      BY <1>1, <1>10, <2>1, TaskFacts DEF Inv, TypeOK
    <2>4. QED
      BY <1>7, <1>8, <1>10, <2>1, <2>2, <2>3
  <1>11. CASE /\ held[t] # None /\ GiveBack(held[t]) /\ UNCHANGED <<status, abandoned>>
    <2>1. held[t] \in Conns /\ Mine(t) = {held[t]} /\ held[t] \notin Idle
      BY <1>1, <1>11, TaskFacts
    <2>2. Distinct' /\ Idle' = Idle \cup {held[t]}
      BY <1>11, <2>1, PoolFacts, GiveBackIdle
    <2>3. idle' \in Seq(Entry) /\ closed = FALSE /\ closed' = FALSE
      BY <1>11, <2>1, PoolFacts, GiveBackFacts
    <2>4. Open' = (Open \ (Idle \cup Mine(t))) \cup Idle' \cup {}
      <3>1. Open' = Open
        BY <1>11 DEF Open
      <3>2. QED
        BY <2>1, <2>2, <3>1, PoolFacts, TaskFacts
    <2>5. /\ {} \in SUBSET Mine(t) /\ abandoned' = abandoned \cup {}
          /\ status' \in [Conns -> Status] /\ PoolTypeOK'
      BY <1>11, <2>3 DEF Inv, TypeOK, PoolTypeOK
    <2>6. QED
      BY <1>8, <2>1, <2>2, <2>3, <2>4, <2>5
  <1>12. QED
    BY <1>9, <1>10, <1>11

\* A task that gives up what it held takes from the pool, which it empties or
\* which has a connection for it.
LEMMA TakeOnInv ==
    ASSUME Inv, SemInv', NEW t \in Tasks, pc[t] \in {"out", "acquire", "poll"},
           TakeOn(t, Mine(t))
    PROVE  Inv'
  <1>1. PICK k \in 0..Len(idle) :
           /\ Take(k)
           /\ SetStatus(Mine(t) \cup StaleConns(k), "absent")
           /\ Hold(t, Newest(k))
           /\ Goto(t, IF Newest(k) = None THEN "connect" ELSE "poll")
    BY DEF TakeOn
  <1> DEFINE c == Newest(k)
             l == IF Newest(k) = None THEN "connect" ELSE "poll"
  <1>2. /\ Distinct' /\ Idle' \cap (StaleConns(k) \cup {c}) = {}
        /\ c \notin StaleConns(k)
        /\ Idle = Idle' \cup StaleConns(k) \cup ({c} \ {None})
    BY <1>1, PoolFacts, TakeIdle
  <1>3. /\ idle' \in Seq(Entry) /\ closed = FALSE /\ closed' = FALSE
        /\ c \in Conns \cup {None} /\ StaleConns(k) \in SUBSET Conns
        /\ Len(idle') = IF k < Len(idle) THEN Len(idle) - k - 1 ELSE 0
    BY <1>1, PoolFacts, TakeFacts
  <1>4. /\ toClose' = toClose /\ abandoned' = abandoned /\ toClose[t] = {}
        /\ \A u \in Tasks : toClose[u] = {}
    BY <1>3 DEF TakeOn, Inv, CapInv
  <1>5. c = None => Idle' = {}
    <2>1. c = None => ~(k < Len(idle))
      <3>1. Len(idle) \in Nat /\ \A i \in 1..Len(idle) : idle[i].conn \in Conns
        BY PoolFacts, IdleFacts
      <3>2. k < Len(idle) => Len(idle) \in 1..Len(idle)
        BY <3>1
      <3>3. QED
        BY <3>1, <3>2, PoolFacts DEF Newest
    <2>2. c = None => Len(idle') = 0
      BY <1>3, <2>1
    <2>3. QED
      BY <2>2 DEF Idle
  <1>6. status' \in [Conns -> Status] /\ Open' = Open \ (Mine(t) \cup StaleConns(k))
    BY <1>1, StatusMoves DEF Inv, TypeOK, Status
  <1>7. /\ l \in {"connect", "poll"} /\ Goto(t, l) /\ Hold(t, c)
        /\ c # None <=> l = "poll"
    BY <1>1
  <1> HIDE DEF c, l
  <1>8. TypeOK'
    <2>1. TaskStep(t, l, c, {})
      BY <1>3, <1>4, <1>7 DEF TaskStep, Holding, PC, InUse, Inv, TypeOK
    <2>2. PoolTypeOK' /\ SemaphoreTypeOK' /\ abandoned' \in SUBSET Conns
      BY <1>3, <1>4 DEF PoolTypeOK, SemInv, Inv, TypeOK
    <2>3. QED
      BY <1>6, <2>1, <2>2, TypeStep DEF Inv
  <1>9. Ownership'
    <2>1. Hands(c, {}) = {c} \ {None} /\ {} \in SUBSET Mine(t) /\ abandoned' = abandoned \cup {}
      BY <1>4 DEF Hands
    <2>2. /\ Idle' \cap Hands(c, {}) = {}
          /\ Idle' \cup Hands(c, {}) \in SUBSET (Idle \cup Mine(t) \cup (Conns \ Open))
      BY <1>2, <2>1
    <2>3. Open' = (Open \ (Idle \cup Mine(t))) \cup Idle' \cup Hands(c, {}) \cup {}
      BY <1>2, <1>6, <2>1, PoolFacts, TaskFacts
    <2>4. toClose' = [toClose EXCEPT ![t] = {}]
      BY <1>4 DEF Inv, TypeOK
    <2>5. QED
      BY <1>2, <1>3, <1>7, <2>1, <2>2, <2>3, <2>4, HandOver DEF Inv
  <1>10. CapInv'
    <2>1. Pooled = Idle /\ Pooled' = Idle'
      BY <1>4 DEF Pooled
    <2>2. IsFiniteSet(Open')
      BY <1>6, FS_Subset DEF Inv, CapInv
    <2>3. ~closed' => \A u \in Tasks : toClose'[u] = {}
      BY <1>4
    <2>4. Cardinality(Busy') \in Nat /\ Cardinality(Busy) \in Nat
      BY <1>7, PoolFacts, MoveTask DEF PC, InUse
    <2>5. CASE c = None
      BY <1>5, <2>1, <2>2, <2>3, <2>4, <2>5, CapStep DEF Inv
    <2>6. CASE c # None
      <3>1. c \in Pooled /\ Pooled' \in SUBSET (Pooled \ {c})
        BY <1>2, <2>1, <2>6
      <3>2. \/ Cardinality(Busy') = Cardinality(Busy)
            \/ Cardinality(Busy') = Cardinality(Busy) + 1
        BY <1>7, PoolFacts, MoveTask DEF PC, InUse
      <3>3. CASE Cardinality(Busy') = Cardinality(Busy)
        <4>1. Cardinality(Busy') <= Cardinality(Busy) /\ Pooled' \in SUBSET Pooled
          BY <2>4, <3>1, <3>3
        <4>2. QED
          BY <2>2, <2>3, <2>4, <4>1, CapStep DEF Inv
      <3>4. CASE Cardinality(Busy') = Cardinality(Busy) + 1
        BY <2>2, <2>3, <2>4, <3>1, <3>4, CapStep DEF Inv
      <3>5. QED
        BY <3>2, <3>3, <3>4
    <2>7. QED
      BY <2>5, <2>6
  <1>11. QED
    BY <1>8, <1>9, <1>10 DEF Inv

LEMMA CallInv == ASSUME Inv, NEW t \in Tasks, Call(t) PROVE Inv'
  <1>1. /\ pc[t] = "out" /\ Mine(t) = {} /\ TakeOn(t, Mine(t))
    BY TaskFacts DEF Call, Holding
  <1>2. PICK l \in InUse : Goto(t, l)
    BY DEF Call, TakeOn, InUse
  <1>3. SemInv'
    BY <1>1, <1>2, PermitTaken DEF Call, Inv, TypeOK
  <1>4. QED
    BY <1>1, <1>3, TakeOnInv

LEMMA AcquiresInv == ASSUME Inv, NEW t \in Tasks, Acquires(t) PROVE Inv'
  <1>1. /\ pc[t] = "acquire" /\ Mine(t) = {} /\ TakeOn(t, Mine(t)) /\ t \in granted
    BY TaskFacts DEF Acquires, Holding
  <1>2. PICK l \in InUse : Goto(t, l)
    BY DEF Acquires, TakeOn, InUse
  <1>3. SemInv'
    BY <1>1, <1>2, WaiterRuns DEF Acquires, Inv, TypeOK
  <1>4. QED
    BY <1>1, <1>3, TakeOnInv

LEMMA DiscardInv == ASSUME Inv, NEW t \in Tasks, Discard(t) PROVE Inv'
  <1>1. pc[t] = "poll" /\ held[t] # None /\ Mine(t) = {held[t]}
    BY TaskFacts DEF Discard, Holding
  <1>2. CASE closed
    BY <1>1, <1>2, LeaveInv DEF Discard, InUse
  <1>3. CASE ~closed
    <2>1. TakeOn(t, Mine(t)) /\ UNCHANGED semaphore
      BY <1>1, <1>3 DEF Discard
    <2>2. PICK l \in {"connect", "poll"} : Goto(t, l)
      BY <2>1 DEF TakeOn
    <2>3. SemInv'
      BY <1>1, <2>1, <2>2, NoPermitMoves DEF Inv, TypeOK, PC, InUse
    <2>4. QED
      BY <1>1, <2>1, <2>3, TakeOnInv
  <1>4. QED
    BY <1>2, <1>3

LEMMA QueueSteps ==
    ASSUME Inv, NEW t \in Tasks,
           \/ CallWaits(t) \/ StopsWaiting(t)
    PROVE  Inv'
  <1>1. /\ UNCHANGED <<idle, closed, held, toClose, abandoned, status>>
        /\ pc[t] \in {"out", "acquire"} /\ toClose[t] = {}
    BY TaskFacts DEF CallWaits, StopsWaiting
  <1>2. PICK l \in {"out", "acquire"} : Goto(t, l)
    BY DEF CallWaits, StopsWaiting
  <1>3. SemInv'
    <2>1. CASE CallWaits(t)
      BY <2>1, WaiterJoins DEF CallWaits, Inv, TypeOK
    <2>2. CASE StopsWaiting(t)
      BY <2>2, WaiterLeaves DEF StopsWaiting, Inv, TypeOK
    <2>3. QED
      BY <2>1, <2>2
  <1>4. status' \in [Conns -> Status] /\ Open' = Open
    BY <1>1 DEF Inv, TypeOK, Open
  <1>5. QED
    BY <1>1, <1>2, <1>3, <1>4, MovesInPlace DEF PC, InUse, Holding

\* Inside a call, with the connection in hand.
LEMMA HoldingSteps ==
    ASSUME Inv, NEW t \in Tasks,
           Greet(t) \/ Poll(t) \/ CloseHeld(t) \/ CancelUnary(t)
    PROVE  Inv'
  <1>1. /\ UNCHANGED <<idle, closed, held, toClose, abandoned>> /\ UNCHANGED semaphore
        /\ pc[t] \in {"greet", "poll", "unary"}
        /\ status' = status \/ SetStatus({held[t]}, "broken")
    BY DEF Greet, Poll, CloseHeld, CancelUnary
  <1>2. PICK l \in {"unary", "flush"} : Goto(t, l)
    BY DEF Greet, Poll, CloseHeld, CancelUnary
  <1>3. toClose[t] = {} /\ held[t] \in Open /\ held[t] \in Conns
    BY <1>1, TaskFacts, PoolFacts DEF Holding
  <1>4. SemInv'
    BY <1>1, <1>2, NoPermitMoves DEF Inv, TypeOK, PC, InUse
  <1>5. status' \in [Conns -> Status] /\ Open' = Open
    <2>1. CASE status' = status
      BY <2>1 DEF Inv, TypeOK, Open
    <2>2. CASE SetStatus({held[t]}, "broken")
      BY <1>3, <2>2, StatusMoves DEF Inv, TypeOK, Status
    <2>3. QED
      BY <1>1, <2>1, <2>2
  <1>6. QED
    BY <1>1, <1>2, <1>3, <1>4, <1>5, MovesInPlace DEF PC, InUse, Holding

LEMMA ConnectInv == ASSUME Inv, NEW t \in Tasks, Connect(t) PROVE Inv'
  <1>1. PICK c \in Conns \ Open : SetStatus({c}, "healthy") /\ Hold(t, c)
    BY DEF Connect
  <1>2. /\ UNCHANGED <<idle, closed, toClose, abandoned>> /\ UNCHANGED semaphore
        /\ Goto(t, "greet") /\ pc[t] = "connect" /\ toClose[t] = {} /\ Mine(t) = {}
        /\ c # None
    BY TaskFacts, PoolFacts, <1>1 DEF Connect, Holding
  <1>3. SemInv'
    BY <1>2, NoPermitMoves DEF Inv, TypeOK, PC, InUse
  <1>4. status' \in [Conns -> Status] /\ Open' = Open \cup {c}
    BY <1>1, StatusMoves DEF Inv, TypeOK, Status
  <1>5. toClose' = [toClose EXCEPT ![t] = {}]
    BY <1>2 DEF Inv, TypeOK
  <1>6. Idle' = Idle /\ Distinct'
    BY <1>2, PoolFacts DEF Idle, Distinct
  <1>7. TypeOK'
    <2>1. TaskStep(t, "greet", c, {})
      BY <1>1, <1>2, <1>5 DEF TaskStep, Holding, PC, InUse
    <2>2. PoolTypeOK' /\ SemaphoreTypeOK' /\ abandoned' \in SUBSET Conns
      BY <1>2, <1>3 DEF Inv, TypeOK, PoolTypeOK, SemInv
    <2>3. QED
      BY <1>4, <2>1, <2>2, TypeStep DEF Inv
  <1>8. Ownership'
    <2>1. Hands(c, {}) = {c} /\ {} \in SUBSET Mine(t) /\ abandoned' = abandoned \cup {}
      BY <1>2 DEF Hands
    <2>2. /\ Idle' \cap Hands(c, {}) = {}
          /\ Idle' \cup Hands(c, {}) \in SUBSET (Idle \cup Mine(t) \cup (Conns \ Open))
      BY <1>1, <1>6, <2>1, PoolFacts
    <2>3. Open' = (Open \ (Idle \cup Mine(t))) \cup Idle' \cup Hands(c, {}) \cup {}
      BY <1>2, <1>4, <1>6, <2>1, PoolFacts
    <2>4. closed' => Idle' = {}
      BY <1>2, <1>6 DEF Inv, Ownership
    <2>5. QED
      BY <1>1, <1>5, <1>6, <2>1, <2>2, <2>3, <2>4, HandOver DEF Inv
  <1>9. CapInv'
    <2>1. IsFiniteSet(Open')
      BY <1>4, FS_AddElement DEF Inv, CapInv
    <2>2. Pooled' = Pooled
      BY <1>2, <1>6 DEF Pooled
    <2>3. Busy' = Busy
      BY <1>2, PoolFacts, MoveTask DEF PC, InUse
    <2>4. ~closed' => \A u \in Tasks : toClose'[u] = {}
      BY <1>2 DEF Inv, CapInv
    <2>5. QED
      BY <1>3, <2>1, <2>2, <2>3, <2>4, BusyIsFinite, CapStep DEF Inv
  <1>10. QED
    BY <1>3, <1>7, <1>8, <1>9 DEF Inv

LEMMA LeavingSteps ==
    ASSUME Inv, NEW t \in Tasks,
           \/ ConnectFails(t) \/ ReturnToPool(t) \/ Flushed(t)
           \/ CancelConnect(t) \/ CancelDropping(t)
    PROVE  Inv'
  <1>1. CASE ConnectFails(t) \/ Flushed(t)
    BY <1>1, LeaveInv DEF ConnectFails, Flushed, InUse
  <1>2. CASE ReturnToPool(t)
    <2>1. held[t] # None
      BY <1>2, TaskFacts DEF ReturnToPool, Holding
    <2>2. QED
      BY <1>2, <2>1, LeaveInv DEF ReturnToPool, InUse
  <1>3. CASE CancelConnect(t)
    <2>1. abandoned' = abandoned \cup ({held[t]} \ {None})
      BY <1>3, TaskFacts DEF CancelConnect, Holding
    <2>2. QED
      BY <1>3, <2>1, LeaveInv DEF CancelConnect, InUse
  <1>4. CASE CancelDropping(t)
    <2>1. abandoned' = abandoned \cup ({held[t]} \ {None})
      BY <1>4, TaskFacts DEF CancelDropping, Holding
    <2>2. QED
      BY <1>4, <2>1, LeaveInv DEF CancelDropping, InUse
  <1>5. QED
    BY <1>1, <1>2, <1>3, <1>4

\* aclose(): what the task drained is closed, or abandoned.
LEMMA ClosingStep ==
    ASSUME Inv, NEW t \in Tasks, pc[t] \in {"out", "draining"},
           NEW l \in {"out", "draining"}, Goto(t, l), UNCHANGED held, UNCHANGED semaphore,
           NEW S \in SUBSET Conns, S # {} => l = "draining",
           toClose' = [toClose EXCEPT ![t] = S],
           NEW A \in SUBSET toClose[t], abandoned' = abandoned \cup A,
           PoolTypeOK', Distinct', status' \in [Conns -> Status],
           Idle' \in SUBSET Idle, S \cup Idle' \in SUBSET (Idle \cup toClose[t]),
           S \cap Idle' = {}, A \cap S = {},
           Open' = (Open \ (Idle \cup toClose[t])) \cup Idle' \cup S \cup A,
           closed => closed', closed' => Idle' = {}, ~closed' => S = {}
    PROVE  Inv'
  <1>1. held[t] = None /\ Mine(t) = toClose[t] /\ Hands(None, S) = S /\ toClose[t] \in SUBSET Conns
    BY TaskFacts DEF Mine, Holding, Hands
  <1>2. SemInv' /\ Busy' = Busy
    <2>1. l \in PC /\ l # "acquire" /\ pc[t] # "acquire" /\ l \notin InUse /\ pc[t] \notin InUse
      BY DEF PC, InUse
    <2>2. QED
      BY <2>1, PoolFacts, NoPermitMoves, MoveTask DEF Inv
  <1>3. TypeOK'
    <2>1. TaskStep(t, l, None, S)
      BY <1>1 DEF TaskStep, Holding, PC, Hold, Inv, TypeOK
    <2>2. SemaphoreTypeOK' /\ abandoned' \in SUBSET Conns
      BY <1>1, <1>2 DEF Inv, TypeOK, SemInv
    <2>3. QED
      BY <2>1, <2>2, TypeStep DEF Inv
  <1>4. Ownership'
    <2>1. Hold(t, None)
      BY <1>1 DEF Hold, Inv, TypeOK
    <2>2. A \cap (Idle' \cup S) = {}
      BY <1>1, TaskFacts
    <2>3. QED
      BY <1>1, <2>1, <2>2, HandOver DEF Inv
  <1>5. CapInv'
    <2>1. IsFiniteSet(Open')
      <3>1. Open' \in SUBSET Open
        BY <1>1, PoolFacts, TaskFacts
      <3>2. QED
        BY <3>1, FS_Subset DEF Inv, CapInv
    <2>2. \A u \in Tasks : toClose'[u] = IF u = t THEN S ELSE toClose[u]
      BY DEF Inv, TypeOK
    <2>3. Pooled' \in SUBSET Pooled
      BY <2>2 DEF Pooled
    <2>4. ~closed' => \A u \in Tasks : toClose'[u] = {}
      BY <2>2 DEF Inv, CapInv
    <2>5. QED
      BY <1>2, <2>1, <2>3, <2>4, BusyIsFinite, CapStep DEF Inv
  <1>6. QED
    BY <1>2, <1>3, <1>4, <1>5 DEF Inv

LEMMA DrainIdle ==
    ASSUME Drain
    PROVE  PoolTypeOK' /\ Idle' = {} /\ Distinct' /\ closed'
  <1>1. idle' \in Seq(Entry) /\ Len(idle') = 0 /\ closed' = TRUE
    BY DrainFacts DEF Drain
  <1>2. QED
    BY <1>1 DEF PoolTypeOK, Idle, Distinct

LEMMA ClosingSteps ==
    ASSUME Inv, NEW t \in Tasks,
           Aclose(t) \/ CloseDrained(t) \/ AcloseReturns(t) \/ CancelAclose(t)
    PROVE  Inv'
  <1>0. /\ toClose[t] \in SUBSET Open /\ Idle \cap toClose[t] = {}
        /\ Idle \in SUBSET Open /\ Open \in SUBSET Conns
    BY TaskFacts, PoolFacts DEF Mine
  <1>1. CASE Aclose(t)
    <2>1. /\ pc[t] = "out" /\ Goto(t, "draining") /\ toClose[t] = {}
          /\ UNCHANGED held /\ UNCHANGED semaphore /\ UNCHANGED <<status, abandoned>>
          /\ toClose' = [toClose EXCEPT ![t] = Idle]
          /\ PoolTypeOK' /\ Idle' = {} /\ Distinct' /\ closed'
      BY <1>1, DrainIdle, TaskFacts DEF Aclose
    <2>2. status' \in [Conns -> Status] /\ Open' = Open
      BY <2>1 DEF Inv, TypeOK, Open
    <2>3. Open' = (Open \ (Idle \cup toClose[t])) \cup Idle' \cup Idle \cup {}
      BY <1>0, <2>1, <2>2
    <2>4. {} \in SUBSET toClose[t] /\ abandoned' = abandoned \cup {} /\ Idle \in SUBSET Conns
      BY <1>0, <2>1
    <2>5. /\ Idle' \in SUBSET Idle /\ Idle \cap Idle' = {} /\ {} \cap Idle = {}
          /\ Idle \cup Idle' \in SUBSET (Idle \cup toClose[t])
      BY <2>1
    <2>6. QED
      BY <2>1, <2>2, <2>3, <2>4, <2>5, ClosingStep
  <1>2. ASSUME UNCHANGED <<idle, closed, held>>, UNCHANGED semaphore,
               pc[t] = "draining", NEW l \in {"out", "draining"}, Goto(t, l),
               NEW S \in SUBSET toClose[t], S # {} => l = "draining",
               toClose' = [toClose EXCEPT ![t] = S],
               NEW A \in SUBSET toClose[t], abandoned' = abandoned \cup A, A \cap S = {},
               SetStatus(toClose[t] \ (S \cup A), "absent")
        PROVE  Inv'
    <2>1. Idle' = Idle /\ Distinct' /\ PoolTypeOK'
      BY <1>2, PoolFacts DEF Idle, Distinct, PoolTypeOK
    <2>2. status' \in [Conns -> Status] /\ Open' = Open \ (toClose[t] \ (S \cup A))
      BY <1>2, StatusMoves DEF Inv, TypeOK, Status
    <2>3. Open' = (Open \ (Idle \cup toClose[t])) \cup Idle' \cup S \cup A
      BY <1>0, <1>2, <2>1, <2>2
    <2>4. (closed => Idle = {}) /\ (~closed => S = {})
      BY DEF Inv, CapInv, Ownership
    <2>5. /\ S \in SUBSET Conns /\ Idle' \in SUBSET Idle /\ S \cap Idle' = {}
          /\ S \cup Idle' \in SUBSET (Idle \cup toClose[t])
      BY <1>0, <2>1
    <2>6. /\ (closed => closed') /\ (closed' => Idle' = {}) /\ (~closed' => S = {})
          /\ UNCHANGED held /\ pc[t] \in {"out", "draining"}
      BY <1>2, <2>1, <2>4
    <2>7. A \in SUBSET toClose[t] /\ abandoned' = abandoned \cup A /\ A \cap S = {}
      BY <1>2
    <2>8. /\ l \in {"out", "draining"} /\ Goto(t, l) /\ UNCHANGED semaphore
          /\ (S # {} => l = "draining") /\ toClose' = [toClose EXCEPT ![t] = S]
      BY <1>2
    <2>9. QED
      BY <2>1, <2>2, <2>3, <2>5, <2>6, <2>7, <2>8, ClosingStep
  <1>3. CASE CloseDrained(t)
    <2>1. PICK c \in toClose[t] :
             SetStatus({c}, "absent") /\ toClose' = [toClose EXCEPT ![t] = @ \ {c}]
      BY <1>3 DEF CloseDrained
    <2>2. pc[t] = "draining" /\ Goto(t, "draining")
      BY <1>3, <2>1, TaskFacts DEF CloseDrained, Goto, Inv, TypeOK
    <2> DEFINE S == toClose[t] \ {c}
    <2>3. toClose[t] \ (S \cup {}) = {c} /\ abandoned' = abandoned \cup {} /\ {} \in SUBSET toClose[t]
      BY <1>3, <2>1 DEF CloseDrained
    <2>4. toClose' = [toClose EXCEPT ![t] = S] /\ S \in SUBSET toClose[t]
      BY <2>1 DEF Inv, TypeOK
    <2> HIDE DEF S
    <2>5. SetStatus(toClose[t] \ (S \cup {}), "absent") /\ {} \cap S = {}
      BY <2>1, <2>3
    <2>6. UNCHANGED <<idle, closed, held>> /\ UNCHANGED semaphore
      BY <1>3 DEF CloseDrained
    <2>7. QED
      BY <1>2, <2>2, <2>3, <2>4, <2>5, <2>6
  <1>4. ASSUME UNCHANGED status, UNCHANGED <<idle, closed, held>>, UNCHANGED semaphore,
               pc[t] = "draining", Goto(t, "out"), toClose' = [toClose EXCEPT ![t] = {}],
               abandoned' = abandoned \cup toClose[t]
        PROVE  Inv'
    <2>1. SetStatus({}, "absent")
      BY <1>4 DEF SetStatus, Inv, TypeOK
    <2>2. toClose[t] \ ({} \cup toClose[t]) = {} /\ {} \in SUBSET toClose[t]
      OBVIOUS
    <2>3. QED
      BY <1>2, <1>4, <2>1, <2>2
  <1>5. CASE AcloseReturns(t)
    <2>1. /\ toClose' = [toClose EXCEPT ![t] = {}] /\ abandoned' = abandoned \cup toClose[t]
          /\ UNCHANGED status /\ UNCHANGED <<idle, closed, held>> /\ UNCHANGED semaphore
          /\ pc[t] = "draining" /\ Goto(t, "out")
      BY <1>5 DEF AcloseReturns, Inv, TypeOK
    <2>2. QED
      BY <1>4, <2>1
  <1>6. CASE CancelAclose(t)
    BY <1>4, <1>6 DEF CancelAclose
  <1>7. QED
    BY <1>1, <1>3, <1>5, <1>6

LEMMA CloseInv == ASSUME Inv, Close PROVE Inv'
  <1>1. /\ UNCHANGED <<pc, held, toClose>> /\ UNCHANGED semaphore /\ abandoned' = abandoned
        /\ SetStatus(Idle, "absent") /\ PoolTypeOK' /\ Idle' = {} /\ Distinct' /\ closed'
    BY DrainIdle DEF Close
  <1>2. status' \in [Conns -> Status] /\ Open' = Open \ Idle
    BY <1>1, StatusMoves DEF Inv, TypeOK, Status
  <1>3. Open' = Open \ ((Idle \ Idle') \cup (abandoned \ abandoned'))
    BY <1>1, <1>2
  <1>4. QED
    BY <1>1, <1>2, <1>3, WorldMoves

LEMMA WorldSteps ==
    ASSUME Inv,
           \/ HangUps \/ Collects \/ ClockTick \/ UNCHANGED vars
    PROVE  Inv'
  <1>1. closed => Idle = {}
    BY DEF Inv, Ownership
  <1>2. ASSUME NEW c \in Conns, HangUp(c) PROVE Inv'
    <2>1. /\ UNCHANGED <<pc, held, toClose>> /\ UNCHANGED semaphore
          /\ UNCHANGED <<idle, closed, abandoned>> /\ c \in Open
      BY <1>2 DEF HangUp, Open
    <2>2. Idle' = Idle /\ Distinct' /\ PoolTypeOK'
      BY <2>1, PoolFacts DEF Idle, Distinct, PoolTypeOK
    <2>3. status' \in [Conns -> Status] /\ Open' = Open
      <3>1. SetStatus({c}, "doomed") /\ "doomed" \in Status /\ {c} \in SUBSET Conns
        BY <1>2 DEF HangUp, Status
      <3>2. status' \in [Conns -> Status] /\ Open' = Open \cup {c}
        BY <3>1, StatusMoves DEF Inv, TypeOK
      <3>3. QED
        BY <2>1, <3>2
    <2>4. QED
      BY <1>1, <2>1, <2>2, <2>3, WorldMoves
  <1>3. ASSUME NEW c \in Conns, Collect(c) PROVE Inv'
    <2>1. /\ UNCHANGED <<pc, held, toClose>> /\ UNCHANGED semaphore
          /\ UNCHANGED <<idle, closed>> /\ c \in abandoned /\ abandoned' = abandoned \ {c}
      BY <1>3 DEF Collect
    <2>2. Idle' = Idle /\ Distinct' /\ PoolTypeOK'
      BY <2>1, PoolFacts DEF Idle, Distinct, PoolTypeOK
    <2>3. status' \in [Conns -> Status] /\ Open' = Open \ {c}
      BY <1>3, StatusMoves DEF Collect, Inv, TypeOK, Status
    <2>4. Open' = Open \ ((Idle \ Idle') \cup (abandoned \ abandoned'))
      BY <2>1, <2>2, <2>3
    <2>5. QED
      BY <1>1, <2>1, <2>2, <2>3, <2>4, WorldMoves
  <1>4. CASE ClockTick
    <2>1. /\ UNCHANGED <<pc, held, toClose>> /\ UNCHANGED semaphore
          /\ UNCHANGED <<status, abandoned>> /\ Tick
      BY <1>4 DEF ClockTick
    <2>2. Idle' = Idle /\ Distinct' /\ idle' \in Seq(Entry) /\ closed' = closed
      BY <2>1, PoolFacts, TickIdle, TickFacts
    <2>3. PoolTypeOK' /\ Open' = Open /\ status' \in [Conns -> Status]
      BY <2>1, <2>2, PoolFacts DEF PoolTypeOK, Open, Inv, TypeOK
    <2>4. QED
      BY <1>1, <2>1, <2>2, <2>3, WorldMoves
  <1>5. CASE UNCHANGED vars
    <2>1. /\ UNCHANGED <<pc, held, toClose>> /\ UNCHANGED semaphore
          /\ UNCHANGED <<idle, closed, status, abandoned>>
      BY <1>5 DEF vars, semaphore
    <2>2. Idle' = Idle /\ Distinct' /\ PoolTypeOK'
      BY <2>1, PoolFacts DEF Idle, Distinct, PoolTypeOK
    <2>3. Open' = Open /\ status' \in [Conns -> Status]
      BY <2>1 DEF Open, Inv, TypeOK
    <2>4. QED
      BY <1>1, <2>1, <2>2, <2>3, WorldMoves
  <1>6. QED
    BY <1>2, <1>3, <1>4, <1>5 DEF HangUps, Collects

-----------------------------------------------------------------------------
(* The theorems.                                                           *)

LEMMA InitInv == Init => Inv
  <1> SUFFICES ASSUME Init PROVE Inv
    OBVIOUS
  <1>1. /\ idle = <<>> /\ idle \in Seq(Entry) /\ Len(idle) = 0 /\ closed = FALSE
        /\ waiters = <<>> /\ waiters \in Seq(Tasks) /\ Len(waiters) = 0
        /\ granted = {} /\ abandoned = {} /\ value = MaxConns
    BY EmptySeq DEF Init, PoolInit
  <1>2. \A t \in Tasks : pc[t] = "out" /\ held[t] = None /\ toClose[t] = {} /\ Mine(t) = {}
    BY DEF Init, Mine
  <1>3. Open = {} /\ Idle = {} /\ Busy = {} /\ Pooled = {}
    BY <1>1, <1>2 DEF Open, Idle, Busy, Pooled, Init, InUse
  <1>4. SemaphoreTypeOK
    BY <1>1, MaxConnsAssumption DEF SemaphoreTypeOK, Capped
  <1>5. TypeOK
    BY <1>1, <1>2, <1>4 DEF TypeOK, PoolTypeOK, Init, PC, Holding, Status
  <1>6. Cardinality(Busy) = 0 /\ Cardinality(granted) = 0 /\ Cardinality(Pooled) = 0
        /\ IsFiniteSet(Open)
    BY <1>1, <1>3, FS_EmptySet
  <1>7. SemInv
    BY <1>1, <1>2, <1>4, <1>6, MaxConnsAssumption
    DEF SemInv, OnceEach, Queued, PermitsConserved, NoPermitIdles, Capped
  <1>8. Ownership
    BY <1>1, <1>2, <1>3 DEF Ownership, ExclusiveOwner, NothingElseLeaks, Owned
  <1>9. CapInv
    BY <1>2, <1>6, MaxConnsAssumption DEF CapInv, Capped
  <1>10. QED
    BY <1>5, <1>7, <1>8, <1>9 DEF Inv

LEMMA NextInv == Inv /\ [Next]_vars => Inv'
  <1> SUFFICES ASSUME Inv, [Next]_vars PROVE Inv'
    OBVIOUS
  <1>1. ASSUME NEW t \in Tasks, Call(t) \/ CallWaits(t) \/ Aclose(t) PROVE Inv'
    BY <1>1, CallInv, QueueSteps, ClosingSteps
  <1>2. ASSUME NEW t \in Tasks, Runs(t) PROVE Inv'
    <2>1. CASE Acquires(t) \/ AcquiresInVain(t)
      BY <2>1, AcquiresInv, QueueSteps DEF AcquiresInVain
    <2>2. CASE Connect(t) \/ Greet(t) \/ ConnectFails(t)
      BY <2>2, ConnectInv, HoldingSteps, LeavingSteps
    <2>3. CASE Poll(t) \/ Discard(t)
      BY <2>3, HoldingSteps, DiscardInv
    <2>4. CASE ReturnToPool(t) \/ CloseHeld(t) \/ Flushed(t)
      BY <2>4, HoldingSteps, LeavingSteps
    <2>5. CASE CloseDrained(t) \/ AcloseReturns(t)
      BY <2>5, ClosingSteps
    <2>6. QED
      BY <1>2, <2>1, <2>2, <2>3, <2>4, <2>5 DEF Runs
  <1>3. ASSUME NEW t \in Tasks, GiveUpWaiting(t) \/ Cancel(t) PROVE Inv'
    BY <1>3, QueueSteps, LeavingSteps, HoldingSteps, ClosingSteps
    DEF GiveUpWaiting, Cancel, CancelAcquire
  <1>4. CASE Close
    BY <1>4, CloseInv
  <1>5. CASE HangUps \/ Collects \/ ClockTick \/ UNCHANGED vars
    BY <1>5, WorldSteps
  <1>6. QED
    BY <1>1, <1>2, <1>3, <1>4, <1>5 DEF Next

\* The task that holds a connection has a permit for it; so the connections
\* that somebody still refers to are at most the pooled ones and one a permit.
LEMMA CapHolds == Inv => OwnedCap
  <1> SUFFICES ASSUME Inv, Capped PROVE Cardinality(Open \ abandoned) <= MaxConns
    BY DEF OwnedCap
  <1> DEFINE holders == {t \in Tasks : held[t] # None}
             f == [t \in holders |-> held[t]]
             H == {held[t] : t \in holders}
  <1>1. IsFiniteSet(holders) /\ holders \in SUBSET Busy
    BY TasksAssumption, FS_Subset, TaskFacts DEF Busy, InUse, Holding
  <1>2. f \in Surjection(holders, H)
    BY DEF Surjection
  <1>3. IsFiniteSet(H) /\ Cardinality(H) <= Cardinality(holders)
    BY <1>1, <1>2, FS_Surjection
  <1>4. Cardinality(holders) <= Cardinality(Busy)
    BY <1>1, BusyIsFinite, FS_Subset
  <1>5. Open \ abandoned \in SUBSET (Pooled \cup H)
    BY OwnedIsOpen DEF Inv, Pooled, Mine
  <1>6. IsFiniteSet(Pooled) /\ Cardinality(Pooled) \in Nat
    BY PooledIsOpen DEF Inv
  <1> HIDE DEF holders, f, H
  <1>7. /\ IsFiniteSet(Pooled \cup H)
        /\ Cardinality(Pooled \cup H) = Cardinality(Pooled) + Cardinality(H) - Cardinality(Pooled \cap H)
    BY <1>3, <1>6, FS_Union
  <1>8. IsFiniteSet(Pooled \cap H)
    BY <1>6, FS_Subset
  <1>9. /\ Cardinality(H) \in Nat /\ Cardinality(holders) \in Nat
        /\ Cardinality(Pooled \cap H) \in Nat
        /\ Cardinality(Pooled \cup H) \in Nat
    BY <1>1, <1>3, <1>7, <1>8, FS_CardinalityType
  <1>10. /\ IsFiniteSet(Open \ abandoned)
         /\ Cardinality(Open \ abandoned) <= Cardinality(Pooled \cup H)
    BY <1>5, <1>7, FS_Subset
  <1>11. Cardinality(Open \ abandoned) \in Nat
    BY <1>10, FS_CardinalityType
  <1>12. MaxConns \in Nat /\ Cardinality(Pooled) + Cardinality(Busy) <= MaxConns
    BY MaxConnsAssumption DEF Capped, Inv, CapInv
  <1>13. QED
    BY <1>3, <1>4, <1>6, <1>7, <1>9, <1>10, <1>11, <1>12, BusyIsFinite

\* Whatever is cancelled and when, every variable keeps its type.
THEOREM TypeCorrect == Spec => []TypeOK
  <1>1. Inv => TypeOK
    BY DEF Inv
  <1>2. QED
    BY <1>1, InitInv, NextInv, PTL DEF Spec

\* No permit of the asyncio session is lost or made, wherever tasks are
\* cancelled, time out or are woken in vain (AsyncSession.call, _acquire).
THEOREM PermitsAreConserved == Spec => []PermitsConserved
  <1>1. Inv => PermitsConserved
    BY DEF Inv, SemInv
  <1>2. QED
    BY <1>1, InitInv, NextInv, PTL DEF Spec

\* A free permit never lies idle while tasks sleep in the queue.
THEOREM PermitsNeverIdle == Spec => []NoPermitIdles
  <1>1. Inv => NoPermitIdles
    BY DEF Inv, SemInv
  <1>2. QED
    BY <1>1, InitInv, NextInv, PTL DEF Spec

\* A connection is in the pool, in one task's hands, or abandoned, and never
\* in two of these: it carries one call at a time.
THEOREM OwnersAreExclusive == Spec => []ExclusiveOwner
  <1>1. Inv => ExclusiveOwner
    BY DEF Inv, Ownership
  <1>2. QED
    BY <1>1, InitInv, NextInv, PTL DEF Spec

\* Only a cancellation loses connections, and only those of its own task.
THEOREM NothingElseIsLost == Spec => []NothingElseLeaks
  <1>1. Inv => NothingElseLeaks
    BY DEF Inv, Ownership
  <1>2. QED
    BY <1>1, InitInv, NextInv, PTL DEF Spec

\* max_conns bounds the open connections, but for those a cancelled task left
\* to the collector.
THEOREM OwnedAreCapped == Spec => []OwnedCap
  <1>1. QED
    BY CapHolds, InitInv, NextInv, PTL DEF Spec

-----------------------------------------------------------------------------
(* The asyncio session implements ConnLease.                               *)

\* The tasks that have a connection, apart from one that has none yet.
LEMMA LeasedSize ==
    ASSUME Inv, NEW t \in Busy, held[t] = None
    PROVE  /\ IsFiniteSet(Lease!Leased) /\ Cardinality(Lease!Leased) \in Nat
           /\ Cardinality(Lease!Leased) <= Cardinality(Busy) - 1
  <1> DEFINE S == {u \in Tasks : held[u] # None}
             f == [u \in S |-> held[u]]
  <1>1. S \in SUBSET (Busy \ {t})
    BY TaskFacts DEF Busy, InUse, Holding
  <1>2. /\ Cardinality(Busy) \in Nat
        /\ IsFiniteSet(Busy \ {t}) /\ Cardinality(Busy \ {t}) = Cardinality(Busy) - 1
    BY BusyIsFinite, FS_RemoveElement
  <1>3. IsFiniteSet(S) /\ Cardinality(S) <= Cardinality(Busy) - 1 /\ Cardinality(S) \in Nat
    BY <1>1, <1>2, FS_Subset, FS_CardinalityType
  <1>4. f \in [S -> Lease!Leased] /\ \A c \in Lease!Leased : \E u \in S : f[u] = c
    BY DEF Lease!Leased
  <1> HIDE DEF f, S
  <1>5. /\ IsFiniteSet(Lease!Leased) /\ Cardinality(Lease!Leased) \in Nat
        /\ Cardinality(Lease!Leased) <= Cardinality(S)
    BY <1>3, <1>4, ImageSize
  <1>6. QED
    BY <1>2, <1>3, <1>5

\* There is room for the connection that a task is about to open: it has a
\* permit for it, which no connection in the pool stands in for.
LEMMA RoomToOpen ==
    ASSUME Inv, Capped, NEW t \in Busy, held[t] = None
    PROVE  Cardinality(Idle \cup Lease!Leased) < MaxConns
  <1>1. IsFiniteSet(Pooled) /\ Cardinality(Pooled) \in Nat
    BY PooledIsOpen DEF Inv
  <1>2. /\ IsFiniteSet(Idle) /\ Cardinality(Idle) \in Nat
        /\ Cardinality(Idle) <= Cardinality(Pooled)
    BY <1>1, FS_Subset, FS_CardinalityType DEF Pooled
  <1>3. /\ IsFiniteSet(Lease!Leased) /\ Cardinality(Lease!Leased) \in Nat
        /\ Cardinality(Busy) \in Nat
        /\ Cardinality(Lease!Leased) <= Cardinality(Busy) - 1
    BY LeasedSize, BusyIsFinite
  <1>4. /\ Cardinality(Idle \cup Lease!Leased)
              = Cardinality(Idle) + Cardinality(Lease!Leased) - Cardinality(Idle \cap Lease!Leased)
        /\ Cardinality(Idle \cap Lease!Leased) \in Nat
    BY <1>2, <1>3, FS_Union, FS_Subset, FS_CardinalityType
  <1>5. Cardinality(Pooled) + Cardinality(Busy) <= MaxConns /\ MaxConns \in Nat
    BY MaxConnsAssumption DEF Inv, CapInv, Capped
  <1>6. QED
    BY <1>1, <1>2, <1>3, <1>4, <1>5

\* The instance counts as this module does.
LEMMA SameCardinality == \A S : Lease!Cardinality(S) = Cardinality(S)
  BY DEF Cardinality, Lease!Cardinality

\* A task takes from the pool, whether or not it drops a connection for it.
LEMMA TakingIsLeaseStep ==
    ASSUME Inv, NEW t \in Tasks, NEW S, TakeOn(t, S)
    PROVE  Lease!Next
  <1>1. PICK k \in 0..Len(idle) : Take(k) /\ Hold(t, Newest(k))
    BY DEF TakeOn
  <1>2. /\ Idle' \cap (StaleConns(k) \cup {Newest(k)}) = {}
        /\ Idle = Idle' \cup StaleConns(k) \cup ({Newest(k)} \ {None})
    BY <1>1, PoolFacts, TakeIdle
  <1>3. /\ UNCHANGED closed /\ Newest(k) \in Conns \cup {None}
        /\ held \in [Tasks -> Conns \cup {None}]
    BY <1>1, PoolFacts, TakeFacts DEF Inv, TypeOK
  <1>4. CASE Newest(k) # None
    <2>1. Newest(k) \in Conns /\ Newest(k) \in Idle /\ Idle' \in SUBSET (Idle \ {Newest(k)})
      BY <1>2, <1>3, <1>4
    <2>2. Lease!Reuse(t, Newest(k))
      BY <1>1, <1>3, <2>1 DEF Lease!Reuse, Hold
    <2>3. QED
      BY <2>1, <2>2 DEF Lease!Next
  <1>5. CASE Newest(k) = None /\ held[t] = None
    <2>1. held' = held
      BY <1>1, <1>3, <1>5 DEF Hold
    <2>2. Lease!Expire
      BY <1>2, <1>3, <2>1 DEF Lease!Expire
    <2>3. QED
      BY <2>2 DEF Lease!Next
  <1>6. CASE Newest(k) = None /\ held[t] # None
    <2>1. Lease!Drop(t)
      BY <1>1, <1>2, <1>3, <1>6 DEF Lease!Drop, Hold
    <2>2. QED
      BY <2>1 DEF Lease!Next
  <1>7. QED
    BY <1>4, <1>5, <1>6

\* A task that ends its call has no lease, or drops it.
LEMMA LeavingIsLeaseStep ==
    ASSUME Inv, NEW t \in Tasks, Hold(t, None), UNCHANGED <<idle, closed>>
    PROVE  Lease!Next \/ UNCHANGED <<held, Idle, closed>>
  <1>1. Idle' = Idle /\ held \in [Tasks -> Conns \cup {None}]
    BY DEF Idle, Inv, TypeOK
  <1>2. CASE held[t] = None
    BY <1>1, <1>2 DEF Hold
  <1>3. CASE held[t] # None
    <2>1. Lease!Drop(t)
      BY <1>1, <1>3 DEF Lease!Drop, Hold
    <2>2. QED
      BY <2>1 DEF Lease!Next
  <1>4. QED
    BY <1>2, <1>3

LEMMA StepIsLeaseStep == Inv /\ [Next]_vars => [Lease!Next]_(Lease!vars)
  <1> SUFFICES ASSUME Inv, [Next]_vars
               PROVE  Lease!Next \/ UNCHANGED <<held, Idle, closed>>
    BY DEF Lease!vars
  <1>1. ASSUME UNCHANGED <<idle, closed, held>> PROVE UNCHANGED <<held, Idle, closed>>
    BY <1>1 DEF Idle
  <1>2. ASSUME NEW t \in Tasks,
               \/ CallWaits(t) \/ StopsWaiting(t) \/ Greet(t) \/ Poll(t) \/ CloseHeld(t)
               \/ CancelUnary(t) \/ CloseDrained(t) \/ AcloseReturns(t) \/ CancelAclose(t)
        PROVE  UNCHANGED <<held, Idle, closed>>
    BY <1>1, <1>2 DEF CallWaits, StopsWaiting, Greet, Poll, CloseHeld, CancelUnary,
       CloseDrained, AcloseReturns, CancelAclose
  <1>3. ASSUME NEW t \in Tasks, Call(t) \/ Acquires(t) PROVE Lease!Next
    BY <1>3, TakingIsLeaseStep DEF Call, Acquires
  <1>4. ASSUME NEW t \in Tasks,
               ConnectFails(t) \/ Flushed(t) \/ CancelConnect(t) \/ CancelDropping(t)
        PROVE  Lease!Next \/ UNCHANGED <<held, Idle, closed>>
    BY <1>4, LeavingIsLeaseStep DEF ConnectFails, Flushed, CancelConnect, CancelDropping, Leave
  <1>5. ASSUME NEW t \in Tasks, Discard(t)
        PROVE  Lease!Next \/ UNCHANGED <<held, Idle, closed>>
    BY <1>5, LeavingIsLeaseStep, TakingIsLeaseStep DEF Discard, Leave
  <1>6. ASSUME NEW t \in Tasks, Connect(t) PROVE Lease!Next
    <2>1. PICK c \in Conns \ Open : Hold(t, c)
      BY <1>6 DEF Connect
    <2>2. held[t] = None /\ t \in Busy /\ Idle' = Idle /\ UNCHANGED closed
      BY <1>6, TaskFacts DEF Connect, Busy, InUse, Holding, Idle
    <2>3. MaxConns # None => Cardinality(Idle \cup Lease!Leased) < MaxConns
      BY <2>2, RoomToOpen DEF Capped
    <2>4. c \notin Idle \cup Lease!Leased
      <3>1. Lease!Leased \in SUBSET Open
        BY TaskFacts DEF Lease!Leased, Mine
      <3>2. QED
        BY <2>1, <3>1, PoolFacts
    <2>5. Lease!Open(t, c)
      BY <2>1, <2>2, <2>3, <2>4, SameCardinality DEF Lease!Open, Hold
    <2>6. QED
      BY <2>1, <2>5 DEF Lease!Next
  <1>7. ASSUME NEW t \in Tasks, ReturnToPool(t) PROVE Lease!Next
    <2>1. /\ held[t] # None /\ held[t] \in Conns
          /\ Hold(t, None) /\ GiveBack(held[t])
      BY <1>7, TaskFacts DEF ReturnToPool, Leave, Holding
    <2>2. held[t] \in Mine(t) /\ held[t] \notin Idle
      BY <2>1, TaskFacts DEF Mine
    <2>3. Idle' = Idle \cup {held[t]} /\ closed = FALSE /\ closed' = FALSE
      BY <2>1, <2>2, PoolFacts, GiveBackIdle, GiveBackFacts
    <2>4. Cardinality(Idle) < MaxIdle
      <3>1. Len(idle) < MaxIdle /\ Len(idle) \in Nat
        BY <2>1, PoolFacts, IdleFacts DEF GiveBack, HasRoom
      <3>2. QED
        BY <3>1, PoolFacts, IdleSize, MaxIdleAssumption
    <2>5. Lease!Park(t)
      BY <2>1, <2>3, <2>4, SameCardinality DEF Lease!Park, Hold
    <2>6. QED
      BY <2>5 DEF Lease!Next
  <1>8. ASSUME Drain, UNCHANGED held PROVE Lease!Next
    <2>1. Idle' = {} /\ closed' = TRUE
      <3>1. Len(idle') = 0 /\ closed' = TRUE
        BY <1>8, DrainFacts DEF Drain
      <3>2. QED
        BY <3>1 DEF Idle
    <2>2. Lease!Shut
      BY <1>8, <2>1 DEF Lease!Shut
    <2>3. QED
      BY <2>2 DEF Lease!Next
  <1>9. ASSUME NEW t \in Tasks, Aclose(t) PROVE Lease!Next
    BY <1>8, <1>9 DEF Aclose
  <1>10. CASE Close
    BY <1>8, <1>10 DEF Close
  <1>11. CASE HangUps \/ Collects \/ UNCHANGED vars
    BY <1>1, <1>11 DEF HangUps, HangUp, Collects, Collect, vars
  <1>12. CASE ClockTick
    BY <1>12, PoolFacts, TickIdle, TickFacts DEF ClockTick
  <1>13. ASSUME NEW t \in Tasks, Runs(t) \/ GiveUpWaiting(t) \/ Cancel(t)
         PROVE  Lease!Next \/ UNCHANGED <<held, Idle, closed>>
    BY <1>2, <1>3, <1>4, <1>5, <1>6, <1>7, <1>13
    DEF Runs, AcquiresInVain, GiveUpWaiting, Cancel, CancelAcquire
  <1>14. QED
    BY <1>2, <1>3, <1>9, <1>10, <1>11, <1>12, <1>13 DEF Next

\* What the callers of an asyncio session see is what the callers of a session
\* of threads see, wherever tasks are cancelled: exclusive leases, no more than
\* max_conns of them with what is parked, and none parked once it is closed.
THEOREM AsyncSessionImplementsLeases == Spec => Leases
  <1>1. Init => Lease!Init
    <2>1. Init => Len(idle) = 0
      BY EmptySeq DEF Init, PoolInit
    <2>2. QED
      BY <2>1 DEF Init, PoolInit, Idle, Lease!Init
  <1>2. QED
    BY <1>1, InitInv, NextInv, StepIsLeaseStep, PTL DEF Spec, Leases, Lease!Spec

=============================================================================
