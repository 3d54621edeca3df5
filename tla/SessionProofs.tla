--------------------------- MODULE SessionProofs ---------------------------
(***************************************************************************)
(* Theorems about Session, for any threads, connections and limits.        *)
(***************************************************************************)
EXTENDS Session, PoolProofs, FiniteSetTheorems, SequenceTheorems, TLAPS

-----------------------------------------------------------------------------
(* How the number of threads at some labels changes when one thread moves. *)

\* S2 is S with t put in or taken out.
LEMMA OneThreadMoves ==
    ASSUME NEW S \in SUBSET Threads, NEW S2 \in SUBSET Threads,
           NEW t \in Threads, \A u \in Threads \ {t} : u \in S2 <=> u \in S
    PROVE  /\ Cardinality(S) \in Nat /\ Cardinality(S2) \in Nat
           /\ t \in S => Cardinality(S) >= 1
           /\ Cardinality(S2) = Cardinality(S)
                + (IF t \in S2 THEN 1 ELSE 0) - (IF t \in S THEN 1 ELSE 0)
  <1>1. IsFiniteSet(S) /\ IsFiniteSet(S2)
    BY ThreadsAssumption, FS_Subset
  <1>2. Cardinality(S) \in Nat /\ Cardinality(S2) \in Nat
    BY <1>1, FS_CardinalityType
  <1>3. S2 = IF t \in S2 THEN S \cup {t} ELSE S \ {t}
    OBVIOUS
  <1>4. t \in S => Cardinality(S) >= 1
    BY <1>1, <1>2, FS_EmptySet
  <1>5. CASE t \in S2
    <2>1. Cardinality(S2) = IF t \in S THEN Cardinality(S) ELSE Cardinality(S) + 1
      BY <1>1, <1>3, <1>5, FS_AddElement
    <2>2. QED
      BY <1>2, <1>4, <1>5, <2>1
  <1>6. CASE t \notin S2
    <2>1. Cardinality(S2) = IF t \in S THEN Cardinality(S) - 1 ELSE Cardinality(S)
      BY <1>1, <1>3, <1>6, FS_RemoveElement
    <2>2. QED
      BY <1>2, <1>4, <1>6, <2>1
  <1>7. QED
    BY <1>5, <1>6

LEMMA MoveThread ==
    ASSUME TypeOK, NEW t \in Threads, NEW l \in PC, Goto(t, l)
    PROVE  /\ pc' \in [Threads -> PC]
           /\ pc'[t] = l
           /\ \A u \in Threads \ {t} : pc'[u] = pc[u]
           /\ Cardinality(Busy) \in Nat /\ Cardinality(Busy') \in Nat
           /\ Cardinality(Leasing) \in Nat /\ Cardinality(Leasing') \in Nat
           /\ pc[t] \in Permitted => Cardinality(Busy) >= 1
           /\ Cardinality(Busy') = Cardinality(Busy)
                + (IF l \in Permitted THEN 1 ELSE 0)
                - (IF pc[t] \in Permitted THEN 1 ELSE 0)
           /\ Cardinality(Leasing') = Cardinality(Leasing)
                + (IF l \in Using \cup {"taken"} THEN 1 ELSE 0)
                - (IF pc[t] \in Using \cup {"taken"} THEN 1 ELSE 0)
  <1>1. /\ pc' \in [Threads -> PC]
        /\ pc'[t] = l
        /\ \A u \in Threads \ {t} : pc'[u] = pc[u]
    BY DEF TypeOK, Goto
  <1>2. /\ Busy \in SUBSET Threads /\ Busy' \in SUBSET Threads
        /\ \A u \in Threads \ {t} : u \in Busy' <=> u \in Busy
        /\ t \in Busy <=> pc[t] \in Permitted
        /\ t \in Busy' <=> l \in Permitted
    BY <1>1 DEF Busy
  <1>3. /\ Leasing \in SUBSET Threads /\ Leasing' \in SUBSET Threads
        /\ \A u \in Threads \ {t} : u \in Leasing' <=> u \in Leasing
        /\ t \in Leasing <=> pc[t] \in Using \cup {"taken"}
        /\ t \in Leasing' <=> l \in Using \cup {"taken"}
    BY <1>1 DEF Leasing
  <1>4. /\ Cardinality(Busy) \in Nat /\ Cardinality(Busy') \in Nat
        /\ t \in Busy => Cardinality(Busy) >= 1
        /\ Cardinality(Busy') = Cardinality(Busy)
             + (IF t \in Busy' THEN 1 ELSE 0) - (IF t \in Busy THEN 1 ELSE 0)
    BY <1>2, OneThreadMoves
  <1>5. /\ Cardinality(Leasing) \in Nat /\ Cardinality(Leasing') \in Nat
        /\ Cardinality(Leasing') = Cardinality(Leasing)
             + (IF t \in Leasing' THEN 1 ELSE 0) - (IF t \in Leasing THEN 1 ELSE 0)
    BY <1>3, OneThreadMoves
  <1>6. QED
    BY <1>1, <1>2, <1>3, <1>4, <1>5

-----------------------------------------------------------------------------
(* The counts are inductive together: the type of permits needs them, and  *)
(* the lease cap needs the permits at the moment a thread leaves the pool. *)

Counts == TypeOK /\ PermitsConserved /\ LeaseCap

LEMMA InitCounts == Init => Counts
  <1> SUFFICES ASSUME Init PROVE Counts
    OBVIOUS
  <1>1. TypeOK
    <2>1. PoolTypeOK
      BY EmptySeq DEF Init, PoolInit, PoolTypeOK
    <2>2. pc \in [Threads -> PC] /\ status \in [Conns -> Status]
      BY DEF Init, PC, Status
    <2>3. held \in [Threads -> Conns \cup {None}] /\ toClose \in [Threads -> SUBSET Conns]
      BY DEF Init
    <2>4. permits \in IF Capped THEN 0..MaxConns ELSE {None}
      BY MaxConnsAssumption DEF Init, Capped
    <2>5. \A t \in Threads : pc[t] = "out" /\ held[t] = None /\ toClose[t] = {}
      BY DEF Init
    <2>6. QED
      BY <2>1, <2>2, <2>3, <2>4, <2>5 DEF TypeOK, Using
  <1>2. Busy = {} /\ Leasing = {}
    BY DEF Init, Busy, Leasing, Permitted, Using
  <1>3. Len(idle) = 0
    BY EmptySeq DEF Init, PoolInit
  <1>4. QED
    BY <1>1, <1>2, <1>3, FS_EmptySet, MaxConnsAssumption
    DEF Counts, PermitsConserved, LeaseCap, Capped, Init

One(l, L) == IF l \in L THEN 1 ELSE 0

PermitsType == permits \in IF Capped THEN 0..MaxConns ELSE {None}

\* A step of one thread t, to label l, that leaves it with connection h and
\* with the connections of S to close.
ThreadStep(t, l, h, S) ==
    /\ l \in PC
    /\ Goto(t, l) /\ Hold(t, h) /\ toClose' = [toClose EXCEPT ![t] = S]
    /\ h \in Conns \cup {None} /\ S \in SUBSET Conns
    /\ l \in Using => h # None
    /\ h # None => l \in Using \cup {"taken"}
    /\ S # {} => l \in {"taken", "closing"}

LEMMA TypeStep ==
    ASSUME TypeOK, PoolTypeOK', status' \in [Conns -> Status], PermitsType',
           NEW t \in Threads, NEW l, NEW h, NEW S, ThreadStep(t, l, h, S)
    PROVE  TypeOK'
  <1>1. pc' \in [Threads -> PC] /\ pc'[t] = l /\ \A u \in Threads \ {t} : pc'[u] = pc[u]
    BY DEF TypeOK, ThreadStep, Goto
  <1>2. /\ held' \in [Threads -> Conns \cup {None}]
        /\ held'[t] = h /\ \A u \in Threads \ {t} : held'[u] = held[u]
    BY DEF TypeOK, ThreadStep, Hold
  <1>3. /\ toClose' \in [Threads -> SUBSET Conns]
        /\ toClose'[t] = S /\ \A u \in Threads \ {t} : toClose'[u] = toClose[u]
    BY DEF TypeOK, ThreadStep
  <1>4. ASSUME NEW u \in Threads
        PROVE  /\ pc'[u] \in Using => held'[u] # None
               /\ held'[u] # None => pc'[u] \in Using \cup {"taken"}
               /\ toClose'[u] # {} => pc'[u] \in {"taken", "closing"}
    <2>1. CASE u = t
      BY <1>1, <1>2, <1>3, <2>1 DEF ThreadStep
    <2>2. CASE u # t
      BY <1>1, <1>2, <1>3, <2>2 DEF TypeOK
    <2>3. QED
      BY <2>1, <2>2
  <1>5. QED
    BY <1>1, <1>2, <1>3, <1>4 DEF TypeOK, PermitsType

\* A step of one thread from label k to label l keeps the counts if it moves a
\* permit exactly when it enters or leaves the permitted labels, and if it
\* either empties the pool or adds no connection to pool and leases together.
LEMMA CountStep ==
    ASSUME TypeOK, PermitsConserved, LeaseCap, TypeOK',
           NEW t \in Threads, NEW k, pc[t] = k, NEW l \in PC, Goto(t, l),
           Capped => permits' = permits + One(k, Permitted) - One(l, Permitted),
           \/ Len(idle') = 0
           \/ Len(idle') + One(l, Using \cup {"taken"})
                 <= Len(idle) + One(k, Using \cup {"taken"})
    PROVE  PermitsConserved' /\ LeaseCap'
  <1>1. /\ Cardinality(Busy) \in Nat /\ Cardinality(Busy') \in Nat
        /\ Cardinality(Leasing) \in Nat /\ Cardinality(Leasing') \in Nat
        /\ Cardinality(Busy') = Cardinality(Busy) + One(l, Permitted) - One(k, Permitted)
        /\ Cardinality(Leasing') = Cardinality(Leasing)
             + One(l, Using \cup {"taken"}) - One(k, Using \cup {"taken"})
    BY MoveThread DEF One
  <1>2. Len(idle) \in Nat /\ Len(idle') \in Nat
    BY LenProperties DEF TypeOK, PoolTypeOK
  <1>3. /\ One(l, Permitted) \in {0, 1} /\ One(k, Permitted) \in {0, 1}
        /\ One(l, Using \cup {"taken"}) \in {0, 1}
        /\ One(k, Using \cup {"taken"}) \in {0, 1}
    BY DEF One
  <1>4. Capped => MaxConns \in Nat /\ permits \in Nat /\ permits' \in Nat
    BY MaxConnsAssumption DEF TypeOK, Capped
  <1>5. PermitsConserved'
    <2> SUFFICES ASSUME Capped PROVE permits' + Cardinality(Busy') = MaxConns
      BY DEF PermitsConserved, Capped
    <2>1. permits + Cardinality(Busy) = MaxConns
      BY DEF PermitsConserved
    <2>2. QED
      BY <1>1, <1>3, <1>4, <2>1
  <1>6. LeaseCap'
    <2> SUFFICES ASSUME Capped PROVE Len(idle') + Cardinality(Leasing') <= MaxConns
      BY DEF LeaseCap, Capped
    <2>1. CASE Len(idle') = 0
      <3>1. Cardinality(Leasing') <= Cardinality(Busy')
        <4>1. Leasing' \in SUBSET Busy' /\ IsFiniteSet(Busy')
          BY ThreadsAssumption, FS_Subset DEF Leasing, Busy, Using, Permitted
        <4>2. QED
          BY <4>1, FS_Subset
      <3>2. Cardinality(Busy') <= MaxConns
        BY <1>1, <1>4, <1>5 DEF PermitsConserved, Capped
      <3>3. QED
        BY <1>1, <1>4, <2>1, <3>1, <3>2
    <2>2. CASE Len(idle') + One(l, Using \cup {"taken"})
                  <= Len(idle) + One(k, Using \cup {"taken"})
      <3>1. Len(idle) + Cardinality(Leasing) <= MaxConns
        BY DEF LeaseCap
      <3>2. QED
        BY <1>1, <1>2, <1>3, <1>4, <2>2, <3>1
    <2>3. QED
      BY <2>1, <2>2
  <1>7. QED
    BY <1>5, <1>6

LEMMA NextCounts == Counts /\ [Next]_vars => Counts'
  <1> SUFFICES ASSUME Counts, [Next]_vars PROVE Counts'
    OBVIOUS
  <1>0. /\ TypeOK /\ PermitsConserved /\ LeaseCap
        /\ Len(idle) \in Nat
    BY LenProperties DEF Counts, TypeOK, PoolTypeOK
  <1>1. ASSUME NEW t \in Threads, Call(t) PROVE Counts'
    <2>1. CASE Capped
      <3>1. pc[t] = "out" /\ ThreadStep(t, "permit", None, toClose[t])
        BY <1>0, <1>1, <2>1 DEF Call, ThreadStep, TypeOK, Hold, PC, Waiting, Permitted, Using
      <3>2. PoolTypeOK' /\ Len(idle') = Len(idle) /\ status' \in [Conns -> Status] /\ PermitsType'
        BY <1>0, <1>1, <2>1, NoneAssumption, MaxConnsAssumption
        DEF Call, TypeOK, PoolTypeOK, SetStatus, Status, PermitsType, Capped, PermitsConserved, Permitted
      <3>3. TypeOK'
        BY <1>0, <3>1, <3>2, TypeStep
      <3>4. PermitsConserved' /\ LeaseCap'
        BY <1>0, <1>1, <2>1, <3>1, <3>2, <3>3, CountStep
        DEF Call, ThreadStep, One, Permitted, Using, Capped, TypeOK
      <3>5. QED
        BY <3>3, <3>4 DEF Counts
    <2>2. CASE ~Capped
      <3>1. pc[t] = "out" /\ ThreadStep(t, "take", None, toClose[t])
        BY <1>0, <1>1, <2>2 DEF Call, ThreadStep, TypeOK, Hold, PC, Waiting, Permitted, Using
      <3>2. PoolTypeOK' /\ Len(idle') = Len(idle) /\ status' \in [Conns -> Status] /\ PermitsType'
        BY <1>0, <1>1, <2>2, NoneAssumption, MaxConnsAssumption
        DEF Call, TypeOK, PoolTypeOK, SetStatus, Status, PermitsType, Capped, PermitsConserved, Permitted
      <3>3. TypeOK'
        BY <1>0, <3>1, <3>2, TypeStep
      <3>4. PermitsConserved' /\ LeaseCap'
        BY <1>0, <1>1, <2>2, <3>1, <3>2, <3>3, CountStep
        DEF Call, ThreadStep, One, Permitted, Using, Capped, TypeOK
      <3>5. QED
        BY <3>3, <3>4 DEF Counts
    <2>3. QED
      BY <2>1, <2>2
  <1>2. ASSUME NEW t \in Threads, AcquirePermit(t) PROVE Counts'
    <2>1. pc[t] = "permit" /\ ThreadStep(t, "take", None, toClose[t])
      BY <1>0, <1>2 DEF AcquirePermit, ThreadStep, TypeOK, Hold, PC, Waiting, Permitted, Using
    <2>2. PoolTypeOK' /\ Len(idle') = Len(idle) /\ status' \in [Conns -> Status] /\ PermitsType'
      BY <1>0, <1>2, NoneAssumption, MaxConnsAssumption
      DEF AcquirePermit, TypeOK, PoolTypeOK, SetStatus, Status, PermitsType, Capped, PermitsConserved, Permitted
    <2>3. TypeOK'
      BY <1>0, <2>1, <2>2, TypeStep
    <2>4. PermitsConserved' /\ LeaseCap'
      BY <1>0, <1>2, <2>1, <2>2, <2>3, CountStep
      DEF AcquirePermit, ThreadStep, One, Permitted, Using, Capped, TypeOK
    <2>5. QED
      BY <2>3, <2>4 DEF Counts
  <1>3. ASSUME NEW t \in Threads, GiveUpWaiting(t) PROVE Counts'
    <2>1. pc[t] = "permit" /\ ThreadStep(t, "out", None, toClose[t])
      BY <1>0, <1>3 DEF GiveUpWaiting, ThreadStep, TypeOK, Hold, PC, Waiting, Permitted, Using
    <2>2. PoolTypeOK' /\ Len(idle') = Len(idle) /\ status' \in [Conns -> Status] /\ PermitsType'
      BY <1>0, <1>3, NoneAssumption, MaxConnsAssumption
      DEF GiveUpWaiting, TypeOK, PoolTypeOK, SetStatus, Status, PermitsType, Capped, PermitsConserved, Permitted
    <2>3. TypeOK'
      BY <1>0, <2>1, <2>2, TypeStep
    <2>4. PermitsConserved' /\ LeaseCap'
      BY <1>0, <1>3, <2>1, <2>2, <2>3, CountStep
      DEF GiveUpWaiting, ThreadStep, One, Permitted, Using, Capped, TypeOK
    <2>5. QED
      BY <2>3, <2>4 DEF Counts
  <1>4. ASSUME NEW t \in Threads, TakeFromPool(t) PROVE Counts'
    <2>1. PICK k \in 0..Len(idle) :
             /\ Take(k)
             /\ Hold(t, Newest(k))
             /\ toClose' = [toClose EXCEPT ![t] = StaleConns(k)]
      BY <1>4 DEF TakeFromPool
    <2>2. /\ idle' \in Seq(Entry) /\ closed' = FALSE
          /\ Len(idle') = IF k < Len(idle) THEN Len(idle) - k - 1 ELSE 0
          /\ Newest(k) \in Conns \cup {None} /\ StaleConns(k) \in SUBSET Conns
      BY <1>0, <2>1, TakeFacts DEF TypeOK
    <2>3. pc[t] = "take" /\ ThreadStep(t, "taken", Newest(k), StaleConns(k))
      BY <1>4, <2>1, <2>2 DEF TakeFromPool, ThreadStep, PC, Permitted, Using
    <2>4. PoolTypeOK' /\ status' \in [Conns -> Status] /\ PermitsType'
      BY <1>0, <1>4, <2>2 DEF TakeFromPool, TypeOK, PoolTypeOK, PermitsType, Capped
    <2>5. TypeOK'
      BY <1>0, <2>3, <2>4, TypeStep
    <2>6. Len(idle') = 0 \/ Len(idle') + 1 <= Len(idle)
      BY <1>0, <2>2
    <2>7. PermitsConserved' /\ LeaseCap'
      BY <1>0, <1>4, <2>3, <2>5, <2>6, CountStep
      DEF TakeFromPool, ThreadStep, One, Permitted, Using, Capped, TypeOK
    <2>8. QED
      BY <2>5, <2>7 DEF Counts
  <1>5. ASSUME NEW t \in Threads, TakeFails(t) PROVE Counts'
    <2>1. pc[t] = "take" /\ ThreadStep(t, "unpermit", None, toClose[t])
      BY <1>0, <1>5 DEF TakeFails, ThreadStep, TypeOK, Hold, PC, Waiting, Permitted, Using
    <2>2. PoolTypeOK' /\ Len(idle') = Len(idle) /\ status' \in [Conns -> Status] /\ PermitsType'
      BY <1>0, <1>5, NoneAssumption, MaxConnsAssumption
      DEF TakeFails, TypeOK, PoolTypeOK, SetStatus, Status, PermitsType, Capped, PermitsConserved, Permitted
    <2>3. TypeOK'
      BY <1>0, <2>1, <2>2, TypeStep
    <2>4. PermitsConserved' /\ LeaseCap'
      BY <1>0, <1>5, <2>1, <2>2, <2>3, CountStep
      DEF TakeFails, ThreadStep, One, Permitted, Using, Capped, TypeOK
    <2>5. QED
      BY <2>3, <2>4 DEF Counts
  <1>6. ASSUME NEW t \in Threads, Connect(t) PROVE Counts'
    <2>1. PICK c \in Conns : Hold(t, c) /\ SetStatus(c, "healthy")
      BY <1>6 DEF Connect
    <2>2. pc[t] = "taken" /\ ThreadStep(t, "unary", c, {})
      BY <1>0, <1>6, <2>1, NoneAssumption
      DEF Connect, ReadyToRun, ThreadStep, TypeOK, PC, Permitted, Using
    <2>3. PoolTypeOK' /\ Len(idle') = Len(idle) /\ status' \in [Conns -> Status] /\ PermitsType'
      BY <1>0, <1>6, <2>1
      DEF Connect, TypeOK, PoolTypeOK, SetStatus, Status, PermitsType, Capped
    <2>4. TypeOK'
      BY <1>0, <2>2, <2>3, TypeStep
    <2>5. PermitsConserved' /\ LeaseCap'
      BY <1>0, <1>6, <2>2, <2>3, <2>4, CountStep
      DEF Connect, ThreadStep, One, Permitted, Using, Capped, TypeOK
    <2>6. QED
      BY <2>4, <2>5 DEF Counts
  <1>7. ASSUME NEW t \in Threads, ConnectFails(t) PROVE Counts'
    <2>1. pc[t] = "taken" /\ ThreadStep(t, "unpermit", None, {})
      BY <1>0, <1>7 DEF ConnectFails, ReadyToRun, ThreadStep, TypeOK, Hold, PC, Waiting, Permitted, Using
    <2>2. PoolTypeOK' /\ Len(idle') = Len(idle) /\ status' \in [Conns -> Status] /\ PermitsType'
      BY <1>0, <1>7, NoneAssumption, MaxConnsAssumption
      DEF ConnectFails, ReadyToRun, TypeOK, PoolTypeOK, SetStatus, Status, PermitsType, Capped, PermitsConserved, Permitted
    <2>3. TypeOK'
      BY <1>0, <2>1, <2>2, TypeStep
    <2>4. PermitsConserved' /\ LeaseCap'
      BY <1>0, <1>7, <2>1, <2>2, <2>3, CountStep
      DEF ConnectFails, ReadyToRun, ThreadStep, One, Permitted, Using, Capped, TypeOK
    <2>5. QED
      BY <2>3, <2>4 DEF Counts
  <1>8. ASSUME NEW t \in Threads, Poll(t) PROVE Counts'
    <2>1. CASE status[held[t]] = "healthy"
      <3>1. pc[t] = "taken" /\ ThreadStep(t, "unary", held[t], {})
        BY <1>0, <1>8, <2>1 DEF Poll, ReadyToRun, ThreadStep, TypeOK, Hold, PC, Waiting, Permitted, Using
      <3>2. PoolTypeOK' /\ Len(idle') = Len(idle) /\ status' \in [Conns -> Status] /\ PermitsType'
        BY <1>0, <1>8, <2>1, NoneAssumption, MaxConnsAssumption
        DEF Poll, ReadyToRun, TypeOK, PoolTypeOK, SetStatus, Status, PermitsType, Capped, PermitsConserved, Permitted
      <3>3. TypeOK'
        BY <1>0, <3>1, <3>2, TypeStep
      <3>4. PermitsConserved' /\ LeaseCap'
        BY <1>0, <1>8, <2>1, <3>1, <3>2, <3>3, CountStep
        DEF Poll, ReadyToRun, ThreadStep, One, Permitted, Using, Capped, TypeOK
      <3>5. QED
        BY <3>3, <3>4 DEF Counts
    <2>2. CASE status[held[t]] # "healthy"
      <3>1. pc[t] = "taken" /\ ThreadStep(t, "discard", held[t], {})
        BY <1>0, <1>8, <2>2 DEF Poll, ReadyToRun, ThreadStep, TypeOK, Hold, PC, Waiting, Permitted, Using
      <3>2. PoolTypeOK' /\ Len(idle') = Len(idle) /\ status' \in [Conns -> Status] /\ PermitsType'
        BY <1>0, <1>8, <2>2, NoneAssumption, MaxConnsAssumption
        DEF Poll, ReadyToRun, TypeOK, PoolTypeOK, SetStatus, Status, PermitsType, Capped, PermitsConserved, Permitted
      <3>3. TypeOK'
        BY <1>0, <3>1, <3>2, TypeStep
      <3>4. PermitsConserved' /\ LeaseCap'
        BY <1>0, <1>8, <2>2, <3>1, <3>2, <3>3, CountStep
        DEF Poll, ReadyToRun, ThreadStep, One, Permitted, Using, Capped, TypeOK
      <3>5. QED
        BY <3>3, <3>4 DEF Counts
    <2>3. QED
      BY <2>1, <2>2
  <1>9. ASSUME NEW t \in Threads, Discard(t) PROVE Counts'
    <2>1. pc[t] = "discard" /\ ThreadStep(t, "take", None, toClose[t])
      BY <1>0, <1>9 DEF Discard, ThreadStep, TypeOK, Hold, PC, Waiting, Permitted, Using
    <2>2. PoolTypeOK' /\ Len(idle') = Len(idle) /\ status' \in [Conns -> Status] /\ PermitsType'
      BY <1>0, <1>9, NoneAssumption, MaxConnsAssumption
      DEF Discard, TypeOK, PoolTypeOK, SetStatus, Status, PermitsType, Capped, PermitsConserved, Permitted
    <2>3. TypeOK'
      BY <1>0, <2>1, <2>2, TypeStep
    <2>4. PermitsConserved' /\ LeaseCap'
      BY <1>0, <1>9, <2>1, <2>2, <2>3, CountStep
      DEF Discard, ThreadStep, One, Permitted, Using, Capped, TypeOK
    <2>5. QED
      BY <2>3, <2>4 DEF Counts
  <1>10. ASSUME NEW t \in Threads, Unary(t) PROVE Counts'
    <2>1. pc[t] = "unary" /\ ThreadStep(t, "release", held[t], toClose[t])
      BY <1>0, <1>10 DEF Unary, ThreadStep, TypeOK, Hold, PC, Waiting, Permitted, Using
    <2>2. PoolTypeOK' /\ Len(idle') = Len(idle) /\ status' \in [Conns -> Status] /\ PermitsType'
      BY <1>0, <1>10, NoneAssumption, MaxConnsAssumption
      DEF Unary, TypeOK, PoolTypeOK, SetStatus, Status, PermitsType, Capped, PermitsConserved, Permitted
    <2>3. TypeOK'
      BY <1>0, <2>1, <2>2, TypeStep
    <2>4. PermitsConserved' /\ LeaseCap'
      BY <1>0, <1>10, <2>1, <2>2, <2>3, CountStep
      DEF Unary, ThreadStep, One, Permitted, Using, Capped, TypeOK
    <2>5. QED
      BY <2>3, <2>4 DEF Counts
  <1>11. ASSUME NEW t \in Threads, ReleaseToPool(t) PROVE Counts'
    <2>1. held[t] \in Conns
      BY <1>0, <1>11 DEF ReleaseToPool, TypeOK, Using
    <2>2. idle' \in Seq(Entry) /\ Len(idle') = Len(idle) + 1 /\ closed' = FALSE
      BY <1>0, <1>11, <2>1, GiveBackFacts DEF ReleaseToPool, TypeOK
    <2>3. pc[t] = "release" /\ ThreadStep(t, "unpermit", None, toClose[t])
      BY <1>0, <1>11 DEF ReleaseToPool, ThreadStep, TypeOK, PC, Permitted, Using
    <2>4. PoolTypeOK' /\ status' \in [Conns -> Status] /\ PermitsType'
      BY <1>0, <1>11, <2>2 DEF ReleaseToPool, TypeOK, PoolTypeOK, PermitsType, Capped
    <2>5. TypeOK'
      BY <1>0, <2>3, <2>4, TypeStep
    <2>6. One("release", Using \cup {"taken"}) = 1 /\ One("unpermit", Using \cup {"taken"}) = 0
      BY DEF One, Using
    <2>7. Len(idle') + One("unpermit", Using \cup {"taken"})
             <= Len(idle) + One("release", Using \cup {"taken"})
      BY <1>0, <2>2, <2>6
    <2>8. Capped => permits' = permits + One("release", Permitted) - One("unpermit", Permitted)
      BY <1>0, <1>11 DEF ReleaseToPool, One, Permitted, Capped, TypeOK
    <2>9. PermitsConserved' /\ LeaseCap'
      BY <1>0, <2>3, <2>5, <2>7, <2>8, CountStep DEF ThreadStep
    <2>10. QED
      BY <2>5, <2>9 DEF Counts
  <1>12. ASSUME NEW t \in Threads, ReleaseRefused(t) PROVE Counts'
    <2>1. pc[t] = "release" /\ ThreadStep(t, "close", held[t], toClose[t])
      BY <1>0, <1>12 DEF ReleaseRefused, ThreadStep, TypeOK, Hold, PC, Waiting, Permitted, Using
    <2>2. PoolTypeOK' /\ Len(idle') = Len(idle) /\ status' \in [Conns -> Status] /\ PermitsType'
      BY <1>0, <1>12, NoneAssumption, MaxConnsAssumption
      DEF ReleaseRefused, TypeOK, PoolTypeOK, SetStatus, Status, PermitsType, Capped, PermitsConserved, Permitted
    <2>3. TypeOK'
      BY <1>0, <2>1, <2>2, TypeStep
    <2>4. PermitsConserved' /\ LeaseCap'
      BY <1>0, <1>12, <2>1, <2>2, <2>3, CountStep
      DEF ReleaseRefused, ThreadStep, One, Permitted, Using, Capped, TypeOK
    <2>5. QED
      BY <2>3, <2>4 DEF Counts
  <1>13. ASSUME NEW t \in Threads, CloseHeld(t) PROVE Counts'
    <2>1. pc[t] = "close" /\ ThreadStep(t, "unpermit", None, toClose[t])
      BY <1>0, <1>13 DEF CloseHeld, ThreadStep, TypeOK, Hold, PC, Waiting, Permitted, Using
    <2>2. PoolTypeOK' /\ Len(idle') = Len(idle) /\ status' \in [Conns -> Status] /\ PermitsType'
      BY <1>0, <1>13, NoneAssumption, MaxConnsAssumption
      DEF CloseHeld, TypeOK, PoolTypeOK, SetStatus, Status, PermitsType, Capped, PermitsConserved, Permitted
    <2>3. TypeOK'
      BY <1>0, <2>1, <2>2, TypeStep
    <2>4. PermitsConserved' /\ LeaseCap'
      BY <1>0, <1>13, <2>1, <2>2, <2>3, CountStep
      DEF CloseHeld, ThreadStep, One, Permitted, Using, Capped, TypeOK
    <2>5. QED
      BY <2>3, <2>4 DEF Counts
  <1>14. ASSUME NEW t \in Threads, ReleasePermit(t) PROVE Counts'
    <2>1. pc[t] = "unpermit" /\ ThreadStep(t, "out", None, toClose[t])
      BY <1>0, <1>14 DEF ReleasePermit, ThreadStep, TypeOK, Hold, PC, Using
    <2>2. PoolTypeOK' /\ Len(idle') = Len(idle) /\ status' \in [Conns -> Status]
      BY <1>0, <1>14 DEF ReleasePermit, TypeOK, PoolTypeOK
    <2>3. PermitsType'
      <3>1. Cardinality(Busy) \in Nat /\ Cardinality(Busy) >= 1
        BY <1>0, <2>1, MoveThread DEF ThreadStep, Permitted
      <3>2. Capped => permits \in 0..MaxConns /\ permits + Cardinality(Busy) = MaxConns
        BY <1>0 DEF TypeOK, PermitsConserved
      <3>3. QED
        BY <1>0, <1>14, <3>1, <3>2, MaxConnsAssumption
        DEF ReleasePermit, PermitsType, TypeOK, Capped
    <2>4. TypeOK'
      BY <1>0, <2>1, <2>2, <2>3, TypeStep
    <2>5. PermitsConserved' /\ LeaseCap'
      BY <1>0, <1>14, <2>1, <2>2, <2>4, CountStep
      DEF ReleasePermit, ThreadStep, One, Permitted, Using, Capped, TypeOK
    <2>6. QED
      BY <2>4, <2>5 DEF Counts
  <1>15. ASSUME NEW t \in Threads, Close(t) PROVE Counts'
    <2>1. idle' \in Seq(Entry) /\ Len(idle') = 0 /\ closed' = TRUE
      BY <1>15, DrainFacts DEF Close, Drain
    <2>2. Idle \in SUBSET Conns
      <3>1. \A i \in 1..Len(idle) : idle[i] \in Entry
        BY <1>0, ElementOfSeq DEF TypeOK, PoolTypeOK
      <3>2. QED
        BY <3>1 DEF Idle, Entry
    <2>3. pc[t] = "out" /\ ThreadStep(t, "closing", None, Idle)
      BY <1>0, <1>15, <2>2 DEF Close, ThreadStep, TypeOK, Hold, PC, Using
    <2>4. PoolTypeOK' /\ status' \in [Conns -> Status] /\ PermitsType'
      BY <1>0, <1>15, <2>1 DEF Close, TypeOK, PoolTypeOK, PermitsType, Capped
    <2>5. TypeOK'
      BY <1>0, <2>3, <2>4, TypeStep
    <2>6. PermitsConserved' /\ LeaseCap'
      BY <1>0, <1>15, <2>1, <2>3, <2>5, CountStep
      DEF Close, ThreadStep, One, Permitted, Using, Capped, TypeOK
    <2>7. QED
      BY <2>5, <2>6 DEF Counts
  <1>16. ASSUME NEW t \in Threads, CloseReturns(t) PROVE Counts'
    <2>1. pc[t] = "closing" /\ ThreadStep(t, "out", None, {})
      BY <1>0, <1>16 DEF CloseReturns, ThreadStep, TypeOK, Hold, PC, Waiting, Permitted, Using
    <2>2. PoolTypeOK' /\ Len(idle') = Len(idle) /\ status' \in [Conns -> Status] /\ PermitsType'
      BY <1>0, <1>16, NoneAssumption, MaxConnsAssumption
      DEF CloseReturns, TypeOK, PoolTypeOK, SetStatus, Status, PermitsType, Capped, PermitsConserved, Permitted
    <2>3. TypeOK'
      BY <1>0, <2>1, <2>2, TypeStep
    <2>4. PermitsConserved' /\ LeaseCap'
      BY <1>0, <1>16, <2>1, <2>2, <2>3, CountStep
      DEF CloseReturns, ThreadStep, One, Permitted, Using, Capped, TypeOK
    <2>5. QED
      BY <2>3, <2>4 DEF Counts
  <1>17. ASSUME NEW t \in Threads, CloseTaken(t) PROVE Counts'
    <2>1. PICK c \in toClose[t] :
             toClose' = [toClose EXCEPT ![t] = @ \ {c}] /\ SetStatus(c, "absent")
      BY <1>17 DEF CloseTaken
    <2>2. UNCHANGED <<idle, closed, pc, held, permits>>
      BY <1>17 DEF CloseTaken
    <2>3. TypeOK'
      BY <1>0, <2>1, <2>2 DEF TypeOK, PoolTypeOK, SetStatus, Status, Capped
    <2>4. QED
      BY <1>0, <2>2, <2>3
      DEF Counts, PermitsConserved, LeaseCap, Busy, Leasing, Capped
  <1>18. ASSUME NEW c \in Conns, HangUp(c) PROVE Counts'
    <2>1. TypeOK'
      BY <1>0, <1>18 DEF HangUp, TypeOK, PoolTypeOK, SetStatus, Status, Capped
    <2>2. QED
      BY <1>0, <1>18, <2>1
      DEF HangUp, Counts, PermitsConserved, LeaseCap, Busy, Leasing, Capped
  <1>19. CASE ClockTick
    <2>1. idle' \in Seq(Entry) /\ Len(idle') = Len(idle) /\ closed' = closed
      BY <1>0, <1>19, TickFacts DEF ClockTick, TypeOK
    <2>2. UNCHANGED <<pc, held, toClose, status, permits>>
      BY <1>19 DEF ClockTick
    <2>3. TypeOK'
      BY <1>0, <2>1, <2>2 DEF TypeOK, PoolTypeOK, Capped
    <2>4. QED
      BY <1>0, <2>1, <2>2, <2>3
      DEF Counts, PermitsConserved, LeaseCap, Busy, Leasing, Capped
  <1>20. CASE UNCHANGED vars
    BY <1>0, <1>20
    DEF vars, Counts, TypeOK, PoolTypeOK, PermitsConserved, LeaseCap, Busy, Leasing, Capped
  <1>21. QED
    BY <1>1, <1>2, <1>3, <1>4, <1>5, <1>6, <1>7, <1>8, <1>9, <1>10,
       <1>11, <1>12, <1>13, <1>14, <1>15, <1>16, <1>17, <1>18, <1>19, <1>20 DEF Next, InCall, HangUps

\* Whatever the interleaving, every variable keeps its type; for the semaphore
\* that is the bound BoundedSemaphore enforces: no release without an acquire.
THEOREM TypeCorrect == Spec => []TypeOK
  <1>1. Spec => []Counts
    BY InitCounts, NextCounts, PTL DEF Spec
  <1>2. Counts => TypeOK
    BY DEF Counts
  <1>3. QED
    BY <1>1, <1>2, PTL

\* No path through a call, failed ones included, loses or forges a permit.
THEOREM PermitsAreConserved == Spec => []PermitsConserved
  <1>1. Spec => []Counts
    BY InitCounts, NextCounts, PTL DEF Spec
  <1>2. Counts => PermitsConserved
    BY DEF Counts
  <1>3. QED
    BY <1>1, <1>2, PTL

\* Connections in the pool and leases together never exceed max_conns.
THEOREM LeasesAreCapped == Spec => []LeaseCap
  <1>1. Spec => []Counts
    BY InitCounts, NextCounts, PTL DEF Spec
  <1>2. Counts => LeaseCap
    BY DEF Counts
  <1>3. QED
    BY <1>1, <1>2, PTL

-----------------------------------------------------------------------------
(* Ownership, and how it passes on.                                        *)

Ownership ==
    /\ ExclusiveOwner
    /\ NothingLeaks
    /\ closed => Idle = {}

\* What a thread has in its hands when it holds h and closes S.
Hands(h, S) == ({h} \ {None}) \cup S

LEMMA OwnedIsOpen ==
    ASSUME Ownership
    PROVE  /\ Open = Idle \cup UNION {Mine(t) : t \in Threads}
           /\ \A t \in Threads : Mine(t) \in SUBSET Open
           /\ Idle \in SUBSET Open
  BY DEF Ownership, NothingLeaks, Owned

\* A thread t that ends up with h and S, taken from the pool, from what it had
\* and from what was not open, and that closes what it and the pool gave away.
LEMMA HandOver ==
    ASSUME TypeOK, TypeOK', Ownership,
           NEW t \in Threads, NEW h \in Conns \cup {None}, NEW S \in SUBSET Conns,
           Hold(t, h), toClose' = [toClose EXCEPT ![t] = S],
           Distinct', h \notin S, Idle' \cap Hands(h, S) = {},
           Idle' \cup Hands(h, S) \in SUBSET (Idle \cup Mine(t) \cup (Conns \ Open)),
           Open' = (Open \ (Idle \cup Mine(t))) \cup Idle' \cup Hands(h, S),
           closed' => Idle' = {}
    PROVE  Ownership'
  <1> DEFINE others == UNION {Mine(u) : u \in Threads \ {t}}
  <1>1. /\ held'[t] = h /\ \A u \in Threads \ {t} : held'[u] = held[u]
        /\ toClose'[t] = S /\ \A u \in Threads \ {t} : toClose'[u] = toClose[u]
    BY DEF TypeOK, Hold
  <1>2. Mine(t)' = Hands(h, S) /\ \A u \in Threads \ {t} : Mine(u)' = Mine(u)
    BY <1>1 DEF Mine, Hands
  <1>3. \A u \in Threads \ {t} :
            /\ Mine(u) \cap (Idle \cup Mine(t)) = {}
            /\ Mine(u) \in SUBSET Open
    BY OwnedIsOpen DEF Ownership, ExclusiveOwner
  <1>4. \A u \in Threads \ {t} : Mine(u) \cap (Idle' \cup Hands(h, S)) = {}
    BY <1>3
  <1>5. ExclusiveOwner'
    <2>1. \A u \in Threads : Idle' \cap Mine(u)' = {}
      BY <1>2, <1>4
    <2>2. \A u \in Threads : held'[u] \notin toClose'[u]
      BY <1>1 DEF Ownership, ExclusiveOwner
    <2>3. ASSUME NEW u \in Threads, NEW v \in Threads, u # v
          PROVE  Mine(u)' \cap Mine(v)' = {}
      <3>1. CASE u = t
        BY <1>2, <1>4, <2>3, <3>1
      <3>2. CASE v = t
        BY <1>2, <1>4, <2>3, <3>2
      <3>3. CASE u # t /\ v # t
        BY <1>2, <2>3, <3>3 DEF Ownership, ExclusiveOwner
      <3>4. QED
        BY <3>1, <3>2, <3>3
    <2>4. QED
      BY <2>1, <2>2, <2>3 DEF ExclusiveOwner, Distinct
  <1>6. NothingLeaks'
    <2>1. Open = Idle \cup Mine(t) \cup others
      BY OwnedIsOpen
    <2>2. others \cap (Idle \cup Mine(t)) = {}
      BY <1>3
    <2>3. Open' = Idle' \cup Hands(h, S) \cup others
      BY <2>1, <2>2
    <2>4. UNION {Mine(u)' : u \in Threads} = Hands(h, S) \cup others
      BY <1>2
    <2>5. Owned' = Idle' \cup Hands(h, S) \cup others
      BY <2>4 DEF Owned
    <2>6. QED
      BY <2>3, <2>5 DEF NothingLeaks
  <1>7. QED
    BY <1>5, <1>6 DEF Ownership

\* A step that moves no connection, opens none and closes none.
LEMMA NothingMoves ==
    ASSUME Ownership, UNCHANGED <<held, toClose, closed>>,
           Idle' = Idle, Distinct', Open' = Open
    PROVE  Ownership'
  <1>1. \A t \in Threads : Mine(t)' = Mine(t)
    BY DEF Mine
  <1>2. Owned' = Owned
    BY <1>1 DEF Owned
  <1>3. ExclusiveOwner'
    BY <1>1 DEF Ownership, ExclusiveOwner, Distinct
  <1>4. QED
    BY <1>2, <1>3 DEF Ownership, NothingLeaks

LEMMA StatusMoves ==
    ASSUME TypeOK, NEW c \in Conns, NEW s \in Status, SetStatus(c, s)
    PROVE  /\ s = "absent" => Open' = Open \ {c}
           /\ s # "absent" => Open' = Open \cup {c}
           /\ \A d \in Conns \ {c} : status'[d] = status[d]
  BY DEF TypeOK, SetStatus, Open, Status

LEMMA InitOwnership == Init => Ownership
  <1> SUFFICES ASSUME Init PROVE Ownership
    OBVIOUS
  <1>1. Len(idle) = 0 /\ closed = FALSE
    BY EmptySeq DEF Init, PoolInit
  <1>2. Idle = {}
    BY <1>1 DEF Idle
  <1>3. \A t \in Threads : held[t] = None /\ toClose[t] = {} /\ Mine(t) = {}
    BY DEF Init, Mine
  <1>4. Open = {}
    BY DEF Init, Open
  <1>5. QED
    BY <1>1, <1>2, <1>3, <1>4 DEF Ownership, ExclusiveOwner, NothingLeaks, Owned

\* The steps that move connections between the pool and the threads.
LEMMA NextOwnership == Counts /\ Counts' /\ Ownership /\ [Next]_vars => Ownership'
  <1> SUFFICES ASSUME Counts, Counts', Ownership, [Next]_vars PROVE Ownership'
    OBVIOUS
  <1>0. /\ TypeOK /\ TypeOK' /\ PoolTypeOK /\ PoolTypeOK' /\ Distinct
        /\ Idle \in SUBSET Open /\ Open \in SUBSET Conns
        /\ None \notin Conns /\ None \notin Idle /\ None \notin Idle'
    <2>1. TypeOK /\ TypeOK' /\ PoolTypeOK /\ PoolTypeOK'
      BY DEF Counts, TypeOK
    <2>2. Distinct /\ Idle \in SUBSET Open /\ Open \in SUBSET Conns
      BY OwnedIsOpen DEF Ownership, ExclusiveOwner, Distinct, Open
    <2>3. None \notin Conns /\ Idle \in SUBSET Conns
      BY <2>2, NoneAssumption
    <2>4. Idle' \in SUBSET Conns
      <3>1. \A i \in 1..Len(idle') : idle'[i] \in Entry
        BY <2>1, ElementOfSeq DEF PoolTypeOK
      <3>2. QED
        BY <3>1 DEF Idle, Entry
    <2>5. QED
      BY <2>1, <2>2, <2>3, <2>4
  <1>00. ASSUME NEW t \in Threads
         PROVE  /\ held[t] \in Conns \cup {None} /\ toClose[t] \in SUBSET Conns
                /\ Idle \cap Mine(t) = {} /\ Mine(t) \in SUBSET Open
                /\ held[t] \notin toClose[t]
                /\ Hands(held[t], toClose[t]) = Mine(t)
    BY <1>0, OwnedIsOpen DEF TypeOK, Ownership, ExclusiveOwner, Hands, Mine
  <1>1. ASSUME UNCHANGED <<idle, closed, held, toClose, status>> PROVE Ownership'
    <2>1. Idle' = Idle /\ Distinct' /\ Open' = Open
      BY <1>0, <1>1 DEF Idle, Distinct, Open
    <2>2. QED
      BY <1>1, <2>1, NothingMoves
  <1>2. ASSUME NEW t \in Threads,
               \/ Call(t) \/ AcquirePermit(t) \/ GiveUpWaiting(t) \/ TakeFails(t)
               \/ ConnectFails(t) \/ ReleaseRefused(t) \/ ReleasePermit(t)
               \/ CloseReturns(t)
        PROVE  Ownership'
    BY <1>1, <1>2 DEF Call, AcquirePermit, GiveUpWaiting, TakeFails, ConnectFails,
                      ReleaseRefused, ReleasePermit, CloseReturns
  <1>3. ASSUME NEW c \in Open, NEW s \in Status \ {"absent"}, SetStatus(c, s),
               UNCHANGED <<idle, closed, held, toClose>>
        PROVE  Ownership'
    <2>1. Open' = Open
      BY <1>0, <1>3, StatusMoves
    <2>2. Idle' = Idle /\ Distinct'
      BY <1>0, <1>3 DEF Idle, Distinct
    <2>3. QED
      BY <1>3, <2>1, <2>2, NothingMoves
  <1>4. ASSUME NEW t \in Threads, TakeFromPool(t) PROVE Ownership'
    <2>1. PICK k \in 0..Len(idle) :
             /\ Take(k)
             /\ Hold(t, Newest(k))
             /\ toClose' = [toClose EXCEPT ![t] = StaleConns(k)]
      BY <1>4 DEF TakeFromPool
    <2>2. /\ Distinct'
          /\ Idle' \cap (StaleConns(k) \cup {Newest(k)}) = {}
          /\ Newest(k) \notin StaleConns(k)
          /\ Idle = Idle' \cup StaleConns(k) \cup ({Newest(k)} \ {None})
      BY <1>0, <2>1, TakeIdle
    <2>3. /\ closed' = FALSE /\ Newest(k) \in Conns \cup {None}
          /\ StaleConns(k) \in SUBSET Conns
      BY <1>0, <2>1, TakeFacts
    <2>4. Mine(t) = {}
      BY <1>0, <1>4, NoneAssumption DEF TakeFromPool, TypeOK, Using, Mine
    <2>5. Open' = Open
      BY <1>4 DEF TakeFromPool, Open
    <2>6. /\ Idle' \cap Hands(Newest(k), StaleConns(k)) = {}
          /\ Idle = Idle' \cup Hands(Newest(k), StaleConns(k))
      BY <2>2 DEF Hands
    <2>7. Open' = (Open \ (Idle \cup Mine(t))) \cup Idle' \cup Hands(Newest(k), StaleConns(k))
      BY <1>0, <2>4, <2>5, <2>6
    <2>8. QED
      BY <1>0, <2>1, <2>2, <2>3, <2>4, <2>6, <2>7, HandOver
  <1>5. ASSUME NEW t \in Threads, CloseTaken(t) PROVE Ownership'
    <2>1. PICK c \in toClose[t] :
             toClose' = [toClose EXCEPT ![t] = @ \ {c}] /\ SetStatus(c, "absent")
      BY <1>5 DEF CloseTaken
    <2>2. UNCHANGED <<idle, closed, held>>
      BY <1>5 DEF CloseTaken
    <2> DEFINE S == toClose[t] \ {c}
    <2>3. Hold(t, held[t]) /\ toClose' = [toClose EXCEPT ![t] = S] /\ S \in SUBSET Conns
      BY <1>0, <1>00, <2>1, <2>2 DEF TypeOK, Hold
    <2>4. Idle' = Idle /\ Distinct'
      BY <1>0, <2>2 DEF Idle, Distinct
    <2>5. c \in Conns /\ c \in Mine(t) /\ Mine(t) \ {c} = Hands(held[t], S)
      BY <1>00 DEF Mine, Hands
    <2>6. Open' = Open \ {c}
      BY <1>0, <2>1, <2>5, StatusMoves DEF Status
    <2>7. Open' = (Open \ (Idle \cup Mine(t))) \cup Idle' \cup Hands(held[t], S)
      BY <1>0, <1>00, <2>4, <2>5, <2>6
    <2>8. closed' => Idle' = {}
      BY <2>2, <2>4 DEF Ownership
    <2> HIDE DEF S
    <2>9. held[t] \notin S
      BY <1>00 DEF S
    <2>10. QED
      BY <1>0, <1>00, <2>3, <2>4, <2>5, <2>7, <2>8, <2>9, HandOver
  <1>6. ASSUME NEW t \in Threads, Connect(t) PROVE Ownership'
    <2>1. PICK c \in Conns \ Open : Hold(t, c) /\ SetStatus(c, "healthy")
      BY <1>6 DEF Connect
    <2>2. UNCHANGED <<idle, closed, toClose>> /\ held[t] = None /\ toClose[t] = {}
      BY <1>6 DEF Connect, ReadyToRun
    <2>3. toClose' = [toClose EXCEPT ![t] = {}]
      BY <1>0, <2>2 DEF TypeOK
    <2>4. Mine(t) = {} /\ Hands(c, {}) = {c}
      BY <1>0, <2>1, <2>2 DEF Mine, Hands
    <2>5. Idle' = Idle /\ Distinct'
      BY <1>0, <2>2 DEF Idle, Distinct
    <2>6. Open' = Open \cup {c}
      BY <1>0, <2>1, StatusMoves DEF Status
    <2>7. closed' => Idle' = {}
      BY <2>2, <2>5 DEF Ownership
    <2>8. /\ Idle' \cap Hands(c, {}) = {}
          /\ Idle' \cup Hands(c, {}) \in SUBSET (Idle \cup Mine(t) \cup (Conns \ Open))
          /\ Open' = (Open \ (Idle \cup Mine(t))) \cup Idle' \cup Hands(c, {})
      BY <1>0, <2>1, <2>4, <2>5, <2>6
    <2>9. c \in Conns \cup {None} /\ {} \in SUBSET Conns /\ c \notin {}
      BY <2>1
    <2>10. QED
      BY <1>0, <2>1, <2>3, <2>5, <2>7, <2>8, <2>9, HandOver
  <1>7. ASSUME NEW t \in Threads, Poll(t) PROVE Ownership'
    <2>1. CASE status[held[t]] = "healthy"
      BY <1>1, <1>7, <2>1 DEF Poll
    <2>2. CASE status[held[t]] # "healthy"
      <3>1. held[t] \in Open
        BY <1>00, <1>7 DEF Poll, Mine
      <3>2. QED
        BY <1>3, <1>7, <2>2, <3>1 DEF Poll, Status
    <2>3. QED
      BY <2>1, <2>2
  <1>8. ASSUME NEW t \in Threads, Unary(t) PROVE Ownership'
    <2>1. held[t] \in Open
      BY <1>0, <1>00, <1>8 DEF Unary, TypeOK, Using, Mine
    <2>2. UNCHANGED <<idle, closed, held, toClose>>
      BY <1>8 DEF Unary
    <2>3. CASE UNCHANGED status
      BY <1>1, <2>2, <2>3
    <2>4. CASE SetStatus(held[t], "broken")
      BY <1>3, <2>1, <2>2, <2>4 DEF Status
    <2>5. QED
      BY <1>8, <2>3, <2>4 DEF Unary
  <1>9. ASSUME NEW t \in Threads, Discard(t) \/ CloseHeld(t) PROVE Ownership'
    <2>1. /\ held[t] # None /\ toClose[t] = {} /\ held[t] \in Conns
          /\ SetStatus(held[t], "absent") /\ Hold(t, None)
          /\ UNCHANGED <<idle, closed, toClose>>
      BY <1>0, <1>9 DEF Discard, CloseHeld, TypeOK, Using
    <2>2. toClose' = [toClose EXCEPT ![t] = {}]
      BY <1>0, <2>1 DEF TypeOK
    <2>3. Mine(t) = {held[t]} /\ Hands(None, {}) = {}
      BY <2>1 DEF Mine, Hands
    <2>4. Idle' = Idle /\ Distinct'
      BY <1>0, <2>1 DEF Idle, Distinct
    <2>5. Open' = Open \ {held[t]}
      BY <1>0, <2>1, StatusMoves DEF Status
    <2>6. Open' = (Open \ (Idle \cup Mine(t))) \cup Idle'
      BY <1>0, <1>00, <2>3, <2>4, <2>5
    <2>7. closed' => Idle' = {}
      BY <2>1, <2>4 DEF Ownership
    <2>8. QED
      BY <1>0, <2>1, <2>2, <2>3, <2>4, <2>6, <2>7, HandOver
  <1>10. ASSUME NEW t \in Threads, ReleaseToPool(t) PROVE Ownership'
    <2>1. /\ held[t] # None /\ toClose[t] = {} /\ held[t] \in Conns
          /\ Hold(t, None) /\ GiveBack(held[t]) /\ UNCHANGED <<toClose, status>>
      BY <1>0, <1>10 DEF ReleaseToPool, TypeOK, Using
    <2>2. toClose' = [toClose EXCEPT ![t] = {}]
      BY <1>0, <2>1 DEF TypeOK
    <2>3. Mine(t) = {held[t]} /\ Hands(None, {}) = {}
      BY <2>1 DEF Mine, Hands
    <2>4. held[t] \notin Idle /\ held[t] \in Open
      BY <1>00, <2>3
    <2>5. Distinct' /\ Idle' = Idle \cup {held[t]} /\ closed' = FALSE
      BY <1>0, <2>1, <2>4, GiveBackIdle, GiveBackFacts
    <2>6. Open' = (Open \ (Idle \cup Mine(t))) \cup Idle'
      <3>1. Open' = Open
        BY <2>1 DEF Open
      <3>2. QED
        BY <1>0, <2>3, <2>4, <2>5, <3>1
    <2>7. QED
      BY <1>0, <2>1, <2>2, <2>3, <2>5, <2>6, HandOver
  <1>11. ASSUME NEW t \in Threads, Close(t) PROVE Ownership'
    <2>1. /\ toClose' = [toClose EXCEPT ![t] = Idle]
          /\ UNCHANGED <<held, status>> /\ held[t] = None /\ toClose[t] = {}
      BY <1>0, <1>11 DEF Close, TypeOK, Using
    <2>2. Hold(t, None)
      BY <1>0, <2>1 DEF TypeOK, Hold
    <2>3. Idle' = {} /\ Distinct'
      <3>1. Len(idle') = 0
        BY <1>11, DrainFacts DEF Close
      <3>2. QED
        BY <3>1 DEF Idle, Distinct
    <2>4. Mine(t) = {} /\ Hands(None, Idle) = Idle
      BY <2>1 DEF Mine, Hands
    <2>5. Open' = (Open \ (Idle \cup Mine(t))) \cup Idle' \cup Hands(None, Idle)
      <3>1. Open' = Open
        BY <2>1 DEF Open
      <3>2. QED
        BY <1>0, <2>3, <2>4, <3>1
    <2>6. Idle \in SUBSET Conns
      BY <1>0
    <2>7. QED
      BY <1>0, <2>1, <2>2, <2>3, <2>4, <2>5, <2>6, HandOver
  <1>12. ASSUME NEW c \in Conns, HangUp(c) PROVE Ownership'
    BY <1>3, <1>12 DEF HangUp, Open, Status
  <1>13. CASE ClockTick
    <2>1. Idle' = Idle /\ Distinct' /\ closed' = closed
      BY <1>0, <1>13, TickIdle, TickFacts DEF ClockTick
    <2>2. Open' = Open
      BY <1>13 DEF ClockTick, Open
    <2>3. QED
      BY <1>13, <2>1, <2>2, NothingMoves DEF ClockTick
  <1>14. CASE UNCHANGED vars
    BY <1>1, <1>14 DEF vars
  <1>15. QED
    BY <1>2, <1>4, <1>5, <1>6, <1>7, <1>8, <1>9, <1>10, <1>11, <1>12, <1>13, <1>14
    DEF Next, InCall, HangUps

\* No connection is in two hands: a call never runs on a connection that is in
\* the pool, in another call, or about to be closed by anybody.
THEOREM OwnersAreExclusive == Spec => []ExclusiveOwner
  <1>1. Spec => []Counts
    BY InitCounts, NextCounts, PTL DEF Spec
  <1>2. Spec => []Ownership
    BY <1>1, InitOwnership, NextOwnership, PTL DEF Spec
  <1>3. Ownership => ExclusiveOwner
    BY DEF Ownership
  <1>4. QED
    BY <1>2, <1>3, PTL

\* No path through a call or through close loses an open connection or closes
\* one twice.
THEOREM NothingIsLeaked == Spec => []NothingLeaks
  <1>1. Spec => []Counts
    BY InitCounts, NextCounts, PTL DEF Spec
  <1>2. Spec => []Ownership
    BY <1>1, InitOwnership, NextOwnership, PTL DEF Spec
  <1>3. Ownership => NothingLeaks
    BY DEF Ownership
  <1>4. QED
    BY <1>2, <1>3, PTL

-----------------------------------------------------------------------------
(* Two promises about steps.                                               *)

\* Who closes a connection has it in hands that are not those of a running call.
LEMMA NotCut ==
    ASSUME TypeOK, Ownership, [Next]_vars,
           NEW t \in Threads, pc[t] = "unary"
    PROVE  status'[held[t]] # "absent"
  <1>1. /\ held[t] \in Conns /\ status[held[t]] # "absent" /\ held[t] \in Mine(t)
        /\ toClose[t] = {}
    <2>1. held[t] \in Conns /\ held[t] # None /\ toClose[t] = {}
      BY DEF TypeOK, Using
    <2>2. held[t] \in Mine(t)
      BY <2>1 DEF Mine
    <2>3. QED
      BY <2>1, <2>2, OwnedIsOpen DEF Open
  <1>2. ASSUME NEW c \in Conns, NEW s \in Status, SetStatus(c, s),
               c # held[t] \/ s # "absent"
        PROVE  status'[held[t]] # "absent"
    BY <1>1, <1>2 DEF SetStatus, TypeOK
  <1>3. ASSUME UNCHANGED status PROVE status'[held[t]] # "absent"
    BY <1>1, <1>3
  <1>4. ASSUME NEW u \in Threads, CloseTaken(u) PROVE status'[held[t]] # "absent"
    <2>1. PICK c \in toClose[u] : SetStatus(c, "absent")
      BY <1>4 DEF CloseTaken
    <2>2. c \in Conns /\ c \in Mine(u) /\ u # t
      BY <1>1, <2>1 DEF TypeOK, Mine
    <2>3. c # held[t]
      BY <1>1, <2>2 DEF Ownership, ExclusiveOwner
    <2>4. QED
      BY <1>2, <2>1, <2>2, <2>3 DEF Status
  <1>5. ASSUME NEW u \in Threads, Discard(u) \/ CloseHeld(u)
        PROVE  status'[held[t]] # "absent"
    <2>1. SetStatus(held[u], "absent") /\ u # t /\ held[u] \in Conns /\ held[u] \in Mine(u)
      BY <1>5, NoneAssumption DEF Discard, CloseHeld, TypeOK, Using, Mine
    <2>2. held[u] # held[t]
      BY <1>1, <2>1 DEF Ownership, ExclusiveOwner
    <2>3. QED
      BY <1>2, <2>1, <2>2 DEF Status
  <1>6. ASSUME NEW u \in Threads, Connect(u) PROVE status'[held[t]] # "absent"
    <2>1. PICK c \in Conns \ Open : SetStatus(c, "healthy")
      BY <1>6 DEF Connect
    <2>2. QED
      BY <1>2, <2>1 DEF Status
  <1>7. ASSUME NEW u \in Threads, Poll(u) PROVE status'[held[t]] # "absent"
    <2>1. held[u] \in Conns
      BY <1>7 DEF Poll, TypeOK
    <2>2. UNCHANGED status \/ SetStatus(held[u], "broken")
      BY <1>7 DEF Poll
    <2>3. QED
      BY <1>2, <1>3, <2>1, <2>2 DEF Status
  <1>8. ASSUME NEW u \in Threads, Unary(u) PROVE status'[held[t]] # "absent"
    <2>1. held[u] \in Conns
      BY <1>8 DEF Unary, TypeOK, Using
    <2>2. UNCHANGED status \/ SetStatus(held[u], "broken")
      BY <1>8 DEF Unary
    <2>3. QED
      BY <1>2, <1>3, <2>1, <2>2 DEF Status
  <1>9. ASSUME NEW c \in Conns, HangUp(c) PROVE status'[held[t]] # "absent"
    BY <1>2, <1>9 DEF HangUp, Status
  <1>10. ASSUME NEW u \in Threads,
                \/ Call(u) \/ Close(u) \/ AcquirePermit(u) \/ GiveUpWaiting(u)
                \/ TakeFromPool(u) \/ TakeFails(u) \/ ConnectFails(u)
                \/ ReleaseToPool(u) \/ ReleaseRefused(u) \/ ReleasePermit(u)
                \/ CloseReturns(u)
         PROVE  status'[held[t]] # "absent"
    BY <1>3, <1>10 DEF Call, Close, AcquirePermit, GiveUpWaiting, TakeFromPool, TakeFails,
         ConnectFails, ReleaseToPool, ReleaseRefused, ReleasePermit, CloseReturns
  <1>11. CASE ClockTick \/ UNCHANGED vars
    BY <1>3, <1>11 DEF ClockTick, vars
  <1>12. QED
    BY <1>4, <1>5, <1>6, <1>7, <1>8, <1>9, <1>10, <1>11 DEF Next, InCall, HangUps

\* Whoever closes, and however old the connections, a call under way keeps its
\* connection.
THEOREM CallsAreNeverCut == Spec => CallsAreNotCut
  <1>1. Spec => []Counts
    BY InitCounts, NextCounts, PTL DEF Spec
  <1>2. Spec => []Ownership
    BY <1>1, InitOwnership, NextOwnership, PTL DEF Spec
  <1>3. Counts /\ Ownership /\ [Next]_vars =>
            [\A t \in Threads : pc[t] = "unary" => status'[held[t]] # "absent"]_vars
    BY NotCut DEF Counts
  <1>4. QED
    BY <1>1, <1>2, <1>3, PTL DEF Spec, CallsAreNotCut

\* Giving up is the only way from waiting to the end of a call, and it happens
\* with no permit free.
LEMMA GaveUp ==
    ASSUME TypeOK, PermitsConserved, [Next]_vars,
           NEW t \in Threads, pc[t] = "permit", pc'[t] = "out"
    PROVE  Cardinality(Busy) = MaxConns
  <1>1. ASSUME NEW u \in Threads, NEW l, Goto(u, l), pc[u] # "permit" \/ l # "out"
        PROVE  FALSE
    BY <1>1 DEF TypeOK, Goto
  <1>2. \A u \in Threads :
           ~ \/ Call(u) \/ Close(u) \/ AcquirePermit(u) \/ TakeFromPool(u)
             \/ TakeFails(u) \/ Connect(u) \/ ConnectFails(u) \/ Poll(u) \/ Discard(u)
             \/ Unary(u) \/ ReleaseToPool(u) \/ ReleaseRefused(u) \/ CloseHeld(u)
             \/ ReleasePermit(u) \/ CloseReturns(u)
    <2> TAKE u \in Threads
    <2>1. ~(Call(u) \/ Close(u) \/ CloseReturns(u) \/ AcquirePermit(u))
      BY <1>1 DEF Call, Close, CloseReturns, AcquirePermit
    <2>2. ~(TakeFromPool(u) \/ TakeFails(u) \/ Discard(u) \/ Unary(u))
      BY <1>1 DEF TakeFromPool, TakeFails, Discard, Unary
    <2>3. ~(Connect(u) \/ ConnectFails(u) \/ Poll(u))
      BY <1>1 DEF Connect, ConnectFails, Poll, ReadyToRun
    <2>4. ~(ReleaseToPool(u) \/ ReleaseRefused(u) \/ CloseHeld(u) \/ ReleasePermit(u))
      BY <1>1 DEF ReleaseToPool, ReleaseRefused, CloseHeld, ReleasePermit
    <2>5. QED
      BY <2>1, <2>2, <2>3, <2>4
  <1>3. pc' # pc
    OBVIOUS
  <1>4. \E u \in Threads : GiveUpWaiting(u)
    BY <1>2, <1>3 DEF Next, InCall, HangUps, HangUp, ClockTick, CloseTaken, vars
  <1>5. permits = 0
    BY <1>4 DEF GiveUpWaiting
  <1>6. Capped
    BY <1>5, NoneAssumption DEF TypeOK
  <1>7. Cardinality(Busy) \in Nat
    BY ThreadsAssumption, FS_Subset, FS_CardinalityType DEF Busy
  <1>8. QED
    BY <1>5, <1>6, <1>7 DEF PermitsConserved

\* A call that reports RESOURCE_EXHAUSTED does so while max_conns others run.
THEOREM ExhaustionIsTrue == Spec => ExhaustedOnlyWhenBusy
  <1>1. Spec => []Counts
    BY InitCounts, NextCounts, PTL DEF Spec
  <1>2. Counts /\ [Next]_vars =>
            [\A t \in Threads : pc[t] = "permit" /\ pc'[t] = "out"
                => Cardinality(Busy) = MaxConns]_vars
    BY GaveUp DEF Counts
  <1>3. QED
    BY <1>1, <1>2, PTL DEF Spec, ExhaustedOnlyWhenBusy

-----------------------------------------------------------------------------
(* The list stays sorted: entries leave at both ends and enter, with age   *)
(* zero, at the young one.                                                 *)

LEMMA OlderFirst ==
    ASSUME PoolTypeOK, PoolTypeOK', IdleSorted,
           \/ UNCHANGED idle
           \/ \E k \in 0..Len(idle) : Take(k)
           \/ \E c \in Conns : GiveBack(c)
           \/ Drain
           \/ Tick
    PROVE  IdleSorted'
  <1>1. Len(idle) \in Nat /\ \A i \in 1..Len(idle) : idle[i].age \in Nat
    BY IdleFacts
  <1>2. CASE UNCHANGED idle
    BY <1>2 DEF IdleSorted
  <1>3. ASSUME NEW k \in 0..Len(idle), Take(k) PROVE IdleSorted'
    <2>1. /\ Len(idle') = IF k < Len(idle) THEN Len(idle) - k - 1 ELSE 0
          /\ \A i \in 1..Len(idle') : idle'[i] = idle[k + i]
      BY <1>3, TakeFacts
    <2>2. \A i \in 1..Len(idle') : k + i \in 1..Len(idle)
      BY <1>1, <2>1
    <2>3. \A i, j \in 1..Len(idle') : i < j => k + i < k + j
      BY <1>1, <2>1
    <2>4. QED
      BY <2>1, <2>2, <2>3 DEF IdleSorted
  <1>4. ASSUME NEW c \in Conns, GiveBack(c) PROVE IdleSorted'
    <2>1. /\ Len(idle') = Len(idle) + 1
          /\ \A i \in 1..Len(idle) : idle'[i] = idle[i]
          /\ idle'[Len(idle) + 1].age = 0
      BY <1>4, AppendProperties, GiveBackFacts DEF GiveBack, PoolTypeOK, Entry
    <2>2. ASSUME NEW i \in 1..Len(idle'), NEW j \in 1..Len(idle'), i < j
          PROVE  idle'[i].age >= idle'[j].age
      <3>1. i \in 1..Len(idle)
        BY <1>1, <2>1, <2>2
      <3>2. CASE j = Len(idle) + 1
        BY <1>1, <2>1, <3>1, <3>2
      <3>3. CASE j # Len(idle) + 1
        <4>1. j \in 1..Len(idle)
          BY <1>1, <2>1, <3>3
        <4>2. QED
          BY <2>1, <2>2, <3>1, <4>1 DEF IdleSorted
      <3>4. QED
        BY <3>2, <3>3
    <2>3. QED
      BY <2>2 DEF IdleSorted
  <1>5. CASE Drain
    <2>1. Len(idle') = 0
      BY <1>5, DrainFacts
    <2>2. QED
      BY <2>1 DEF IdleSorted
  <1>6. CASE Tick
    <2>1. MaxIdleTime \in Nat
      BY <1>6, MaxIdleTimeAssumption DEF Tick
    <2>2. Len(idle') = Len(idle)
      BY <1>6, TickFacts
    <2>3. \A i \in 1..Len(idle) :
             idle'[i].age = IF idle[i].age > MaxIdleTime THEN idle[i].age ELSE idle[i].age + 1
      <3>1. \A i \in 1..Len(idle) : idle[i] \in [conn : Conns, age : Nat]
        BY IdleFacts DEF Entry
      <3>2. QED
        BY <1>6, <3>1 DEF Tick
    <2>4. ASSUME NEW i \in 1..Len(idle), NEW j \in 1..Len(idle), i < j
          PROVE  idle'[i].age >= idle'[j].age
      <3>1. idle[i].age >= idle[j].age /\ idle[i].age \in Nat /\ idle[j].age \in Nat
        BY <1>1, <2>4 DEF IdleSorted
      <3>2. QED
        BY <2>1, <2>3, <3>1
    <2>5. QED
      BY <2>2, <2>4 DEF IdleSorted
  <1>7. QED
    BY <1>2, <1>3, <1>4, <1>5, <1>6

\* The expired connections are always a prefix of the list, which take() needs
\* to drop them all and to hand out the newest.
THEOREM IdleIsSorted == Spec => []IdleSorted
  <1>1. Spec => []Counts
    BY InitCounts, NextCounts, PTL DEF Spec
  <1>2. Init => IdleSorted
    <2>1. Init => Len(idle) = 0
      BY EmptySeq DEF Init, PoolInit
    <2>2. QED
      BY <2>1 DEF IdleSorted
  <1>3. Counts /\ Counts' /\ IdleSorted /\ [Next]_vars => IdleSorted'
    <2> SUFFICES ASSUME Counts, Counts', IdleSorted, [Next]_vars PROVE IdleSorted'
      OBVIOUS
    <2>1. PoolTypeOK /\ PoolTypeOK'
      BY DEF Counts, TypeOK
    <2>2. \A t \in Threads : TakeFromPool(t) => \E k \in 0..Len(idle) : Take(k)
      BY DEF TakeFromPool
    <2>3. \A t \in Threads : ReleaseToPool(t) => \E c \in Conns : GiveBack(c)
      BY DEF ReleaseToPool, Counts, TypeOK, Using
    <2>4. \A t \in Threads : Close(t) => Drain
      BY DEF Close
    <2>5. ClockTick => Tick
      BY DEF ClockTick
    <2>6. \A t \in Threads :
             \/ Call(t) \/ AcquirePermit(t) \/ GiveUpWaiting(t) \/ TakeFails(t)
             \/ CloseTaken(t) \/ Connect(t) \/ ConnectFails(t) \/ Poll(t) \/ Discard(t)
             \/ Unary(t) \/ ReleaseRefused(t) \/ CloseHeld(t) \/ ReleasePermit(t)
             \/ CloseReturns(t)
             => UNCHANGED idle
      BY DEF Call, AcquirePermit, GiveUpWaiting, TakeFails, CloseTaken, Connect,
             ConnectFails, Poll, Discard, Unary, ReleaseRefused, CloseHeld,
             ReleasePermit, CloseReturns
    <2>7. HangUps \/ UNCHANGED vars => UNCHANGED idle
      BY DEF HangUps, HangUp, vars
    <2>8. \/ UNCHANGED idle
          \/ \E k \in 0..Len(idle) : Take(k)
          \/ \E c \in Conns : GiveBack(c)
          \/ Drain
          \/ Tick
      BY <2>2, <2>3, <2>4, <2>5, <2>6, <2>7 DEF Next, InCall
    <2>9. QED
      BY <2>1, <2>8, OlderFirst
  <1>4. QED
    BY <1>1, <1>2, <1>3, PTL DEF Spec

-----------------------------------------------------------------------------
(* The session implements ConnLease.                                       *)

\* The threads that run on a connection, apart from one that has none yet.
LEMMA LeasedSize ==
    ASSUME TypeOK, NEW t \in Leasing, held[t] = None
    PROVE  /\ IsFiniteSet(Lease!Leased) /\ Cardinality(Lease!Leased) \in Nat
           /\ Cardinality(Leasing) \in Nat
           /\ Cardinality(Lease!Leased) <= Cardinality(Leasing) - 1
  <1> DEFINE S == {u \in Threads : held[u] # None}
             f == [u \in S |-> held[u]]
  <1>1. S \in SUBSET (Leasing \ {t})
    BY DEF TypeOK, Leasing
  <1>2. /\ IsFiniteSet(Leasing) /\ Cardinality(Leasing) \in Nat
        /\ IsFiniteSet(Leasing \ {t}) /\ Cardinality(Leasing \ {t}) = Cardinality(Leasing) - 1
    BY ThreadsAssumption, FS_Subset, FS_CardinalityType, FS_RemoveElement DEF Leasing
  <1>3. IsFiniteSet(S) /\ Cardinality(S) <= Cardinality(Leasing) - 1 /\ Cardinality(S) \in Nat
    BY <1>1, <1>2, FS_Subset, FS_CardinalityType
  <1>4. f \in [S -> Lease!Leased] /\ \A c \in Lease!Leased : \E u \in S : f[u] = c
    BY DEF Lease!Leased
  <1> HIDE DEF f, S
  <1>5. /\ IsFiniteSet(Lease!Leased) /\ Cardinality(Lease!Leased) \in Nat
        /\ Cardinality(Lease!Leased) <= Cardinality(S)
    BY <1>3, <1>4, ImageSize
  <1>6. QED
    BY <1>2, <1>3, <1>5

\* There is room for the connection that a thread is about to open.
LEMMA RoomToOpen ==
    ASSUME Counts, Capped, NEW t \in Leasing, held[t] = None
    PROVE  Cardinality(Idle \cup Lease!Leased) < MaxConns
  <1>1. /\ IsFiniteSet(Idle) /\ Cardinality(Idle) \in Nat /\ Len(idle) \in Nat
        /\ Cardinality(Idle) <= Len(idle)
    BY IdleSize, IdleFacts DEF Counts, TypeOK
  <1>2. /\ IsFiniteSet(Lease!Leased) /\ Cardinality(Lease!Leased) \in Nat
        /\ Cardinality(Leasing) \in Nat
        /\ Cardinality(Lease!Leased) <= Cardinality(Leasing) - 1
    BY LeasedSize DEF Counts
  <1>3. /\ Cardinality(Idle \cup Lease!Leased)
              = Cardinality(Idle) + Cardinality(Lease!Leased) - Cardinality(Idle \cap Lease!Leased)
        /\ Cardinality(Idle \cap Lease!Leased) \in Nat
    BY <1>1, <1>2, FS_Union, FS_Subset, FS_CardinalityType
  <1>4. Len(idle) + Cardinality(Leasing) <= MaxConns /\ MaxConns \in Nat
    BY MaxConnsAssumption DEF Counts, LeaseCap, Capped
  <1>5. QED
    BY <1>1, <1>2, <1>3, <1>4

\* The instance counts as this module does.
LEMMA SameCardinality == \A S : Lease!Cardinality(S) = Cardinality(S)
  BY DEF Cardinality, Lease!Cardinality

LEMMA StepIsLeaseStep ==
    Counts /\ Ownership /\ [Next]_vars => [Lease!Next]_(Lease!vars)
  <1> SUFFICES ASSUME Counts, Ownership, [Next]_vars
               PROVE  Lease!Next \/ UNCHANGED <<held, Idle, closed>>
    BY DEF Lease!vars
  <1>0. /\ TypeOK /\ PoolTypeOK /\ Distinct
        /\ Idle \in SUBSET Open /\ None \notin Idle
        /\ Lease!Leased \in SUBSET Open
    <2>1. TypeOK /\ PoolTypeOK /\ Distinct
      BY DEF Counts, TypeOK, Ownership, ExclusiveOwner, Distinct
    <2>2. Lease!Leased \in SUBSET Open
      BY OwnedIsOpen DEF Lease!Leased, Mine
    <2>3. QED
      BY <2>1, <2>2, OwnedIsOpen, IdleFacts
  <1>1. ASSUME UNCHANGED <<idle, closed, held>> PROVE UNCHANGED <<held, Idle, closed>>
    BY <1>1 DEF Idle
  <1>2. ASSUME NEW t \in Threads,
               \/ Call(t) \/ AcquirePermit(t) \/ GiveUpWaiting(t) \/ TakeFails(t)
               \/ CloseTaken(t) \/ ConnectFails(t) \/ Poll(t) \/ Unary(t)
               \/ ReleaseRefused(t) \/ ReleasePermit(t) \/ CloseReturns(t)
        PROVE  UNCHANGED <<held, Idle, closed>>
    BY <1>1, <1>2 DEF Call, AcquirePermit, GiveUpWaiting, TakeFails, CloseTaken,
         ConnectFails, Poll, Unary, ReleaseRefused, ReleasePermit, CloseReturns
  <1>3. ASSUME NEW t \in Threads, TakeFromPool(t) PROVE Lease!Next
    <2>1. PICK k \in 0..Len(idle) : Take(k) /\ Hold(t, Newest(k))
      BY <1>3 DEF TakeFromPool
    <2>2. /\ Idle' \cap (StaleConns(k) \cup {Newest(k)}) = {}
          /\ Idle = Idle' \cup StaleConns(k) \cup ({Newest(k)} \ {None})
      BY <1>0, <2>1, TakeIdle
    <2>3. UNCHANGED closed /\ Newest(k) \in Conns \cup {None} /\ held[t] = None
      BY <1>0, <1>3, <2>1, TakeFacts DEF TakeFromPool, TypeOK, Using
    <2>4. CASE Newest(k) = None
      <3>1. held' = held
        BY <1>0, <2>1, <2>3, <2>4 DEF Hold, TypeOK
      <3>2. Lease!Expire
        BY <2>2, <2>3, <3>1 DEF Lease!Expire
      <3>3. QED
        BY <3>2 DEF Lease!Next
    <2>5. CASE Newest(k) # None
      <3>1. Newest(k) \in Conns /\ Newest(k) \in Idle /\ Idle' \in SUBSET (Idle \ {Newest(k)})
        BY <2>2, <2>3, <2>5
      <3>2. Lease!Reuse(t, Newest(k))
        BY <2>1, <2>3, <3>1 DEF Lease!Reuse, Hold
      <3>3. QED
        BY <3>1, <3>2 DEF Lease!Next
    <2>6. QED
      BY <2>4, <2>5
  <1>4. ASSUME NEW t \in Threads, Connect(t) PROVE Lease!Next
    <2>1. PICK c \in Conns \ Open : Hold(t, c)
      BY <1>4 DEF Connect
    <2>2. held[t] = None /\ t \in Leasing /\ Idle' = Idle /\ UNCHANGED closed
      BY <1>4 DEF Connect, ReadyToRun, Leasing, Idle
    <2>3. MaxConns # None => Cardinality(Idle \cup Lease!Leased) < MaxConns
      BY <2>2, RoomToOpen DEF Capped
    <2>4. c \notin Idle \cup Lease!Leased
      BY <1>0, <2>1
    <2>5. Lease!Open(t, c)
      BY <2>1, <2>2, <2>3, <2>4, SameCardinality DEF Lease!Open, Hold
    <2>6. QED
      BY <2>1, <2>5 DEF Lease!Next
  <1>5. ASSUME NEW t \in Threads, Discard(t) \/ CloseHeld(t) PROVE Lease!Next
    <2>1. held[t] # None /\ Hold(t, None) /\ UNCHANGED closed /\ Idle' = Idle
      BY <1>0, <1>5 DEF Discard, CloseHeld, TypeOK, Using, Idle
    <2>2. Lease!Drop(t)
      BY <2>1 DEF Lease!Drop, Hold
    <2>3. QED
      BY <2>2 DEF Lease!Next
  <1>6. ASSUME NEW t \in Threads, ReleaseToPool(t) PROVE Lease!Next
    <2>1. /\ held[t] # None /\ held[t] \in Conns
          /\ Hold(t, None) /\ GiveBack(held[t])
      BY <1>0, <1>6 DEF ReleaseToPool, TypeOK, Using
    <2>2. held[t] \in Mine(t) /\ held[t] \notin Idle
      BY <2>1 DEF Mine, Ownership, ExclusiveOwner
    <2>3. Idle' = Idle \cup {held[t]} /\ closed = FALSE /\ closed' = FALSE
      BY <1>0, <2>1, <2>2, GiveBackIdle, GiveBackFacts
    <2>4. Cardinality(Idle) < MaxIdle
      <3>1. Len(idle) < MaxIdle /\ Len(idle) \in Nat
        BY <1>0, <2>1, IdleFacts DEF GiveBack, HasRoom
      <3>2. QED
        BY <1>0, <3>1, IdleSize, MaxIdleAssumption
    <2>5. Lease!Park(t)
      BY <2>1, <2>3, <2>4, SameCardinality DEF Lease!Park, Hold
    <2>6. QED
      BY <2>5 DEF Lease!Next
  <1>7. ASSUME NEW t \in Threads, Close(t) PROVE Lease!Next
    <2>1. Len(idle') = 0 /\ closed' = TRUE /\ UNCHANGED held
      BY <1>7, DrainFacts DEF Close, Drain
    <2>2. Idle' = {}
      BY <2>1 DEF Idle
    <2>3. Lease!Shut
      BY <2>1, <2>2 DEF Lease!Shut
    <2>4. QED
      BY <2>3 DEF Lease!Next
  <1>8. CASE HangUps \/ UNCHANGED vars
    BY <1>1, <1>8 DEF HangUps, HangUp, vars
  <1>9. CASE ClockTick
    BY <1>0, <1>9, TickIdle, TickFacts DEF ClockTick
  <1>10. QED
    BY <1>2, <1>3, <1>4, <1>5, <1>6, <1>7, <1>8, <1>9 DEF Next, InCall

\* What the callers of a session see, whatever the interleaving: exclusive
\* leases, no more than max_conns of them with what is parked, and none parked
\* once the session is closed.
THEOREM SessionImplementsLeases == Spec => Leases
  <1>1. Spec => []Counts
    BY InitCounts, NextCounts, PTL DEF Spec
  <1>2. Spec => []Ownership
    BY <1>1, InitOwnership, NextOwnership, PTL DEF Spec
  <1>3. Init => Lease!Init
    <2>1. Init => Len(idle) = 0
      BY EmptySeq DEF Init, PoolInit
    <2>2. QED
      BY <2>1 DEF Init, PoolInit, Idle, Lease!Init
  <1>4. QED
    BY <1>1, <1>2, <1>3, StepIsLeaseStep, PTL DEF Spec, Leases, Lease!Spec

-----------------------------------------------------------------------------
(* The cap on open connections.  It is exceeded only by connections that   *)
(* expired and whose close() is still to come (see the finding in          *)
(* session_open_cap_expiry): without max_idle_time it holds.               *)

\* Connections that no call runs on.
Spare == Idle \cup UNION {toClose[t] : t \in Threads}

\* Without expiry a connection is taken out to be closed only by close(); what
\* close() found in the pool had room under the cap next to the leases, and
\* both only shrink from then on.
Spared ==
    /\ \A t \in Threads : toClose[t] # {} => closed
    /\ closed /\ Capped =>
          IsFiniteSet(Spare) /\ Cardinality(Spare) + Cardinality(Leasing) <= MaxConns

LEMMA LeasingSize ==
    /\ IsFiniteSet(Leasing) /\ Cardinality(Leasing) \in Nat
    /\ \A S \in SUBSET Leasing : IsFiniteSet(S) /\ Cardinality(S) \in Nat /\ Cardinality(S) <= Cardinality(Leasing)
  <1>1. IsFiniteSet(Leasing)
    BY ThreadsAssumption, FS_Subset DEF Leasing
  <1>2. QED
    BY <1>1, FS_Subset, FS_CardinalityType

\* Once the session is closed, neither the spare connections nor the leases
\* become more.
LEMMA ClosedShrinks ==
    ASSUME TypeOK, Ownership, closed, [Next]_vars
    PROVE  Spare' \in SUBSET Spare /\ Leasing' \in SUBSET Leasing /\ closed'
  <1>1. Idle = {}
    BY DEF Ownership
  <1>2. ASSUME NEW t \in Threads, CloseTaken(t)
        PROVE  Idle' = Idle /\ pc' = pc /\ closed' /\ \A u \in Threads : toClose'[u] \in SUBSET toClose[u]
    BY <1>2 DEF CloseTaken, TypeOK, Idle
  <1>3. ASSUME NEW t \in Threads, Close(t)
        PROVE  Spare' \in SUBSET Spare /\ Leasing' \in SUBSET Leasing /\ closed'
    <2>1. Idle' = {} /\ closed'
      <3>1. Len(idle') = 0 /\ closed'
        BY <1>3, DrainFacts DEF Close
      <3>2. QED
        BY <3>1 DEF Idle
    <2>2. \A u \in Threads : toClose'[u] \in SUBSET toClose[u]
      BY <1>1, <1>3 DEF Close, TypeOK
    <2>3. Leasing' \in SUBSET Leasing
      BY <1>3 DEF Close, Goto, TypeOK, Leasing, Using
    <2>4. QED
      BY <2>1, <2>2, <2>3 DEF Spare
  <1>4. ASSUME NEW t \in Threads,
               \/ Call(t) \/ AcquirePermit(t) \/ GiveUpWaiting(t) \/ TakeFails(t) \/ Connect(t)
               \/ ConnectFails(t) \/ Poll(t) \/ Discard(t) \/ Unary(t) \/ ReleaseRefused(t)
               \/ CloseHeld(t) \/ ReleasePermit(t) \/ CloseReturns(t)
        PROVE  idle' = idle /\ toClose' = toClose /\ closed' /\ Leasing' \in SUBSET Leasing
    <2>1. idle' = idle /\ toClose' = toClose /\ closed'
      BY <1>4 DEF Call, AcquirePermit, GiveUpWaiting, TakeFails, Connect, ConnectFails, Poll, Discard,
         Unary, ReleaseRefused, CloseHeld, ReleasePermit, CloseReturns
    <2>2. \A u \in Threads : pc'[u] \in Using \cup {"taken"} => pc[u] \in Using \cup {"taken"}
      BY <1>4 DEF Call, AcquirePermit, GiveUpWaiting, TakeFails, Connect, ConnectFails, Poll, Discard,
         Unary, ReleaseRefused, CloseHeld, ReleasePermit, CloseReturns, ReadyToRun, Goto, TypeOK, Using
    <2>3. QED
      BY <2>1, <2>2 DEF Leasing
  <1>5. ASSUME NEW t \in Threads, TakeFromPool(t) \/ ReleaseToPool(t)
        PROVE  FALSE
    BY <1>5 DEF TakeFromPool, Take, ReleaseToPool, GiveBack, HasRoom
  <1>6. CASE HangUps \/ UNCHANGED vars
    BY <1>6 DEF HangUps, HangUp, vars, Spare, Leasing, Idle
  <1>7. CASE ClockTick
    <2>1. Idle' = Idle
      BY <1>7, TickIdle DEF ClockTick, TypeOK
    <2>2. QED
      BY <1>7, <2>1 DEF ClockTick, Tick, Spare, Leasing
  <1>8. ASSUME NEW t \in Threads, CloseTaken(t)
        PROVE  Spare' \in SUBSET Spare /\ Leasing' \in SUBSET Leasing /\ closed'
    BY <1>2, <1>8 DEF Spare, Leasing
  <1>9. ASSUME NEW t \in Threads, Call(t) \/ Close(t) \/ InCall(t)
        PROVE  Spare' \in SUBSET Spare /\ Leasing' \in SUBSET Leasing /\ closed'
    BY <1>3, <1>4, <1>5, <1>8, <1>9 DEF InCall, Spare, Idle
  <1>10. QED
    BY <1>6, <1>7, <1>9 DEF Next

\* While the session is open, nothing is taken out only to be closed.
LEMMA OpenTakesNothingOut ==
    ASSUME MaxIdleTime = None, TypeOK, ~closed, \A t \in Threads : toClose[t] = {}, [Next]_vars
    PROVE  \/ closed' = closed /\ \A t \in Threads : toClose'[t] = {}
           \/ Spare' = Idle /\ Leasing' = Leasing /\ closed'
  <1>1. ASSUME NEW t \in Threads, TakeFromPool(t)
        PROVE  closed' = closed /\ \A u \in Threads : toClose'[u] = {}
    <2>1. PICK k \in 0..Len(idle) : Take(k) /\ toClose' = [toClose EXCEPT ![t] = StaleConns(k)]
      BY <1>1 DEF TakeFromPool
    <2>2. StaleConns(k) = {}
      <3>1. \A i \in 1..Len(idle) : ~(i <= k)
        BY <2>1 DEF Take, ExpiredPrefix, Expired
      <3>2. Len(idle) \in Nat /\ \A i \in 1..k : i \in 1..Len(idle) /\ i <= k
        BY <2>1, LenProperties DEF TypeOK, PoolTypeOK
      <3>3. QED
        BY <3>1, <3>2 DEF StaleConns
    <2>3. QED
      BY <2>1, <2>2 DEF Take, TypeOK
  <1>2. ASSUME NEW t \in Threads, Close(t)
        PROVE  Spare' = Idle /\ Leasing' = Leasing /\ closed'
    <2>1. Idle' = {} /\ closed'
      <3>1. Len(idle') = 0 /\ closed'
        BY <1>2, DrainFacts DEF Close
      <3>2. QED
        BY <3>1 DEF Idle
    <2>2. toClose'[t] = Idle /\ \A u \in Threads : u # t => toClose'[u] = {}
      BY <1>2 DEF Close, TypeOK
    <2>3. UNION {toClose'[u] : u \in Threads} = Idle
      BY <2>2
    <2>4. Leasing' = Leasing
      BY <1>2 DEF Close, Goto, TypeOK, Leasing, Using
    <2>5. QED
      BY <2>1, <2>3, <2>4 DEF Spare
  <1>3. ASSUME NEW t \in Threads, CloseTaken(t)
        PROVE  FALSE
    BY <1>3 DEF CloseTaken
  <1>4. ASSUME NEW t \in Threads,
               \/ Call(t) \/ AcquirePermit(t) \/ GiveUpWaiting(t) \/ TakeFails(t) \/ Connect(t)
               \/ ConnectFails(t) \/ Poll(t) \/ Discard(t) \/ Unary(t) \/ ReleaseRefused(t)
               \/ ReleaseToPool(t) \/ CloseHeld(t) \/ ReleasePermit(t) \/ CloseReturns(t)
        PROVE  closed' = closed /\ toClose' = toClose
    BY <1>4 DEF Call, AcquirePermit, GiveUpWaiting, TakeFails, Connect, ConnectFails, Poll, Discard,
       Unary, ReleaseRefused, ReleaseToPool, GiveBack, CloseHeld, ReleasePermit, CloseReturns
  <1>5. CASE HangUps \/ ClockTick \/ UNCHANGED vars
    BY <1>5 DEF HangUps, HangUp, ClockTick, Tick, vars
  <1>6. QED
    BY <1>1, <1>2, <1>3, <1>4, <1>5 DEF Next, InCall

LEMMA NextSpared ==
    ASSUME MaxIdleTime = None, Counts, Counts', Ownership, Spared, [Next]_vars
    PROVE  Spared'
  <1>1. TypeOK /\ LeaseCap
    BY DEF Counts
  <1>2. CASE closed
    <2>1. Spare' \in SUBSET Spare /\ Leasing' \in SUBSET Leasing /\ closed'
      BY <1>1, <1>2, ClosedShrinks
    <2>2. ASSUME Capped
          PROVE  IsFiniteSet(Spare') /\ Cardinality(Spare') + Cardinality(Leasing') <= MaxConns
      <3>1. IsFiniteSet(Spare) /\ Cardinality(Spare) + Cardinality(Leasing) <= MaxConns
        BY <1>2, <2>2 DEF Spared
      <3>2. /\ IsFiniteSet(Spare') /\ Cardinality(Spare') <= Cardinality(Spare)
            /\ Cardinality(Spare) \in Nat /\ Cardinality(Spare') \in Nat
        BY <2>1, <3>1, FS_Subset, FS_CardinalityType
      <3>3. /\ Cardinality(Leasing) \in Nat /\ Cardinality(Leasing') \in Nat
            /\ Cardinality(Leasing') <= Cardinality(Leasing)
        BY <2>1, LeasingSize
      <3>4. MaxConns \in Nat
        BY <2>2, MaxConnsAssumption DEF Capped
      <3>5. QED
        BY <3>1, <3>2, <3>3, <3>4
    <2>3. QED
      BY <2>1, <2>2 DEF Spared, Capped
  <1>3. CASE ~closed
    <2>1. \A t \in Threads : toClose[t] = {}
      BY <1>3 DEF Spared
    <2>2. CASE closed' = closed /\ \A t \in Threads : toClose'[t] = {}
      BY <1>3, <2>2 DEF Spared
    <2>3. CASE Spare' = Idle /\ Leasing' = Leasing /\ closed'
      <3>1. IsFiniteSet(Idle) /\ Cardinality(Idle) \in Nat /\ Cardinality(Idle) <= Len(idle) /\ Len(idle) \in Nat
        BY <1>1, IdleSize, IdleFacts DEF TypeOK
      <3>2. Capped => Cardinality(Spare') + Cardinality(Leasing') <= MaxConns
        <4>1. Capped => Len(idle) + Cardinality(Leasing) <= MaxConns /\ MaxConns \in Nat
          BY <1>1, MaxConnsAssumption DEF LeaseCap, Capped
        <4>2. Cardinality(Leasing) \in Nat
          BY LeasingSize
        <4>3. QED
          BY <2>3, <3>1, <4>1, <4>2
      <3>3. QED
        BY <2>3, <3>1, <3>2 DEF Spared, Capped
    <2>4. QED
      BY <1>1, <1>3, <2>1, <2>2, <2>3, OpenTakesNothingOut
  <1>4. QED
    BY <1>2, <1>3

\* max_conns caps the open connections of a session whose idle connections do
\* not expire, close() and its drained connections included.
THEOREM OpenIsCapped == MaxIdleTime = None /\ Spec => []OpenCap
  <1> SUFFICES ASSUME MaxIdleTime = None PROVE Spec => []OpenCap
    OBVIOUS
  <1>1. Init => Spared
    <2>1. Init => (\A t \in Threads : toClose[t] = {}) /\ closed = FALSE
      BY DEF Init, PoolInit
    <2>2. QED
      BY <2>1 DEF Spared
  <1>2. Counts /\ Counts' /\ Ownership /\ Spared /\ [Next]_vars => Spared'
    BY NextSpared
  <1>3. Counts /\ Ownership /\ Spared => OpenCap
    <2> SUFFICES ASSUME Counts, Ownership, Spared, Capped
                 PROVE  Cardinality(Open) <= MaxConns
      BY DEF OpenCap
    <2> DEFINE S == {u \in Threads : held[u] # None}
               f == [u \in S |-> held[u]]
    <2>1. S \in SUBSET Leasing
      BY DEF Counts, TypeOK, Leasing
    <2>2. IsFiniteSet(S) /\ Cardinality(S) <= Cardinality(Leasing) /\ Cardinality(S) \in Nat
      BY <2>1, LeasingSize
    <2>3. f \in [S -> Lease!Leased] /\ \A c \in Lease!Leased : \E u \in S : f[u] = c
      BY DEF Lease!Leased
    <2> HIDE DEF f, S
    <2>4. /\ IsFiniteSet(Lease!Leased) /\ Cardinality(Lease!Leased) \in Nat
          /\ Cardinality(Lease!Leased) <= Cardinality(S)
      BY <2>2, <2>3, ImageSize
    <2>5. Open = Spare \cup Lease!Leased
      BY OwnedIsOpen DEF Spare, Mine, Lease!Leased
    <2>6. /\ IsFiniteSet(Spare) /\ Cardinality(Spare) \in Nat
          /\ Cardinality(Spare) + Cardinality(Leasing) <= MaxConns
      <3>1. CASE closed
        BY <3>1, FS_CardinalityType DEF Spared
      <3>2. CASE ~closed
        <4>1. Spare = Idle
          BY <3>2 DEF Spare, Spared
        <4>2. /\ IsFiniteSet(Idle) /\ Cardinality(Idle) \in Nat
              /\ Cardinality(Idle) <= Len(idle) /\ Len(idle) \in Nat
          BY IdleSize, IdleFacts DEF Counts, TypeOK
        <4>3. Len(idle) + Cardinality(Leasing) <= MaxConns /\ MaxConns \in Nat
          BY MaxConnsAssumption DEF Counts, LeaseCap, Capped
        <4>4. Cardinality(Leasing) \in Nat
          BY LeasingSize
        <4>5. QED
          BY <4>1, <4>2, <4>3, <4>4
      <3>3. QED
        BY <3>1, <3>2
    <2>7. /\ Cardinality(Open) = Cardinality(Spare) + Cardinality(Lease!Leased)
                                   - Cardinality(Spare \cap Lease!Leased)
          /\ Cardinality(Spare \cap Lease!Leased) \in Nat
      BY <2>4, <2>5, <2>6, FS_Union, FS_Subset, FS_CardinalityType
    <2>8. MaxConns \in Nat /\ Cardinality(Leasing) \in Nat
      BY MaxConnsAssumption, LeasingSize DEF Capped
    <2>9. QED
      BY <2>2, <2>4, <2>6, <2>7, <2>8
  <1>4. Spec => []Counts
    BY InitCounts, NextCounts, PTL DEF Spec
  <1>5. Spec => []Ownership
    BY <1>4, InitOwnership, NextOwnership, PTL DEF Spec
  <1>6. QED
    BY <1>1, <1>2, <1>3, <1>4, <1>5, PTL DEF Spec

=============================================================================
