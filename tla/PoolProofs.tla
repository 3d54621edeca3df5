----------------------------- MODULE PoolProofs ------------------------------
(***************************************************************************)
(* What the methods of Pool do to the list of idle connections: lemmas for *)
(* the proofs about both sessions.                                         *)
(***************************************************************************)
EXTENDS Pool, FiniteSets, FiniteSetTheorems, SequenceTheorems, TLAPS

Distinct == \A i, j \in 1..Len(idle) : i # j => idle[i].conn # idle[j].conn

-----------------------------------------------------------------------------
(* What the pool's methods do to the list.                                 *)

LEMMA TakeFacts ==
    ASSUME PoolTypeOK, NEW k \in 0..Len(idle), Take(k)
    PROVE  /\ idle' \in Seq(Entry)
           /\ Len(idle') = IF k < Len(idle) THEN Len(idle) - k - 1 ELSE 0
           /\ \A i \in 1..Len(idle') : idle'[i] = idle[k + i]
           /\ closed = FALSE /\ closed' = FALSE
           /\ Newest(k) \in Conns \cup {None}
           /\ StaleConns(k) \in SUBSET Conns
  <1>1. idle \in Seq(Entry) /\ Len(idle) \in Nat /\ k \in Int
    BY LenProperties DEF PoolTypeOK
  <1>2. \A i \in 1..Len(idle) : idle[i] \in Entry /\ idle[i].conn \in Conns
    <2>1. \A i \in 1..Len(idle) : idle[i] \in Entry
      BY <1>1, ElementOfSeq
    <2>2. QED
      BY <2>1 DEF Entry
  <1>3. idle' = SubSeq(idle, k + 1, Len(idle) - 1) /\ closed = FALSE /\ closed' = FALSE
    BY DEF Take, PoolTypeOK
  <1>4. \A i \in (k + 1)..(Len(idle) - 1) : idle[i] \in Entry
    BY <1>1, <1>2
  <1>5. /\ idle' \in Seq(Entry)
        /\ Len(idle') = IF k + 1 <= Len(idle) - 1 THEN Len(idle) - 1 - (k + 1) + 1 ELSE 0
        /\ \A i \in 1..(Len(idle) - 1 - (k + 1) + 1) : idle'[i] = idle[k + 1 + i - 1]
    BY <1>1, <1>3, <1>4, SubSeqProperties
  <1>6. Newest(k) \in Conns \cup {None}
    BY <1>1, <1>2 DEF Newest
  <1>7. StaleConns(k) \in SUBSET Conns
    BY <1>1, <1>2 DEF StaleConns
  <1>8. QED
    BY <1>1, <1>3, <1>5, <1>6, <1>7

LEMMA GiveBackFacts ==
    ASSUME PoolTypeOK, NEW c \in Conns, GiveBack(c)
    PROVE  /\ idle' \in Seq(Entry)
           /\ Len(idle) \in Nat
           /\ Len(idle') = Len(idle) + 1
           /\ \A i \in 1..Len(idle) : idle'[i] = idle[i]
           /\ idle'[Len(idle) + 1].conn = c
           /\ closed = FALSE /\ closed' = FALSE
  <1>1. [conn |-> c, age |-> 0] \in Entry
    BY DEF Entry
  <1>2. QED
    BY <1>1, AppendProperties, LenProperties
    DEF PoolTypeOK, GiveBack, HasRoom

LEMMA DrainFacts ==
    ASSUME Drain
    PROVE  idle' \in Seq(Entry) /\ idle' = <<>> /\ Len(idle') = 0 /\ closed'
  BY EmptySeq DEF Drain

LEMMA TickFacts ==
    ASSUME PoolTypeOK, Tick
    PROVE  /\ idle' \in Seq(Entry)
           /\ Len(idle') = Len(idle)
           /\ \A i \in 1..Len(idle) : idle'[i].conn = idle[i].conn
           /\ closed' = closed
  <1>1. /\ Len(idle) \in Nat
        /\ \A i \in 1..Len(idle) : idle[i] \in Entry
    BY ElementOfSeq, LenProperties DEF PoolTypeOK
  <1>2. MaxIdleTime \in Nat
    BY MaxIdleTimeAssumption DEF Tick
  <1> DEFINE older(i) ==
        [idle[i] EXCEPT !.age = IF @ > MaxIdleTime THEN @ ELSE @ + 1]
  <1>3. \A i \in 1..Len(idle) : older(i) \in Entry /\ older(i).conn = idle[i].conn
    BY <1>1, <1>2 DEF Entry
  <1>4. idle' = [i \in 1..Len(idle) |-> older(i)]
    BY DEF Tick
  <1> HIDE DEF older
  <1>5. idle' \in [1..Len(idle) -> Entry]
    BY <1>3, <1>4
  <1>6. idle' \in Seq(Entry) /\ Len(idle') = Len(idle)
    BY <1>1, <1>5, SeqDef, LenProperties
  <1>7. QED
    BY <1>3, <1>4, <1>6 DEF Tick

-----------------------------------------------------------------------------
(* What the pool's methods do to the set of idle connections.              *)

LEMMA IdleFacts ==
    ASSUME PoolTypeOK
    PROVE  /\ Len(idle) \in Nat
           /\ \A i \in 1..Len(idle) : idle[i] \in Entry /\ idle[i].conn \in Conns /\ idle[i].age \in Nat
           /\ Idle \in SUBSET Conns /\ None \notin Idle
  <1>1. Len(idle) \in Nat /\ \A i \in 1..Len(idle) : idle[i] \in Entry
    BY ElementOfSeq, LenProperties DEF PoolTypeOK
  <1>2. QED
    BY <1>1, NoneAssumption DEF Idle, Entry

LEMMA TakeIdle ==
    ASSUME PoolTypeOK, Distinct, NEW k \in 0..Len(idle), Take(k)
    PROVE  /\ Distinct'
           /\ Idle' \cap (StaleConns(k) \cup {Newest(k)}) = {}
           /\ Newest(k) \notin StaleConns(k)
           /\ Idle = Idle' \cup StaleConns(k) \cup ({Newest(k)} \ {None})
  <1>1. /\ Len(idle') = IF k < Len(idle) THEN Len(idle) - k - 1 ELSE 0
        /\ \A i \in 1..Len(idle') : idle'[i] = idle[k + i]
    BY TakeFacts
  <1>2. /\ Len(idle) \in Nat /\ k \in Nat /\ k <= Len(idle)
        /\ \A i \in 1..Len(idle) : idle[i].conn \in Conns
    BY IdleFacts
  <1>3. \A i \in 1..Len(idle') : k + i \in 1..Len(idle) /\ k + i > k /\ k + i < Len(idle)
    BY <1>1, <1>2
  <1>4. Distinct'
    BY <1>1, <1>2, <1>3 DEF Distinct
  <1>5. /\ \A c \in Idle' : \E i \in (k + 1)..(Len(idle) - 1) : c = idle[i].conn
        /\ \A i \in (k + 1)..(Len(idle) - 1) : idle[i].conn \in Idle'
    <2>1. ASSUME NEW i \in (k + 1)..(Len(idle) - 1)
          PROVE  idle[i].conn \in Idle'
      <3>1. i - k \in 1..Len(idle') /\ k + (i - k) = i
        BY <1>1, <1>2
      <3>2. idle'[i - k] = idle[i]
        BY <1>1, <3>1
      <3>3. QED
        BY <3>1, <3>2 DEF Idle
    <2>2. ASSUME NEW j \in 1..Len(idle')
          PROVE  \E i \in (k + 1)..(Len(idle) - 1) : idle'[j].conn = idle[i].conn
      <3>1. k + j \in (k + 1)..(Len(idle) - 1)
        BY <1>2, <1>3
      <3>2. QED
        BY <1>1, <3>1
    <2>3. ASSUME NEW c \in Idle'
          PROVE  \E i \in (k + 1)..(Len(idle) - 1) : c = idle[i].conn
      <3>1. PICK j \in 1..Len(idle') : c = idle'[j].conn
        BY DEF Idle
      <3>2. QED
        BY <2>2, <3>1
    <2>4. QED
      BY <2>1, <2>3
  <1>6. CASE k < Len(idle)
    <2>1. Newest(k) = idle[Len(idle)].conn /\ Newest(k) # None
      BY <1>2, <1>6, NoneAssumption DEF Newest
    <2>2. \A i \in 1..Len(idle) : i \in 1..k \/ i \in (k + 1)..(Len(idle) - 1) \/ i = Len(idle)
      BY <1>2
    <2>3. /\ Idle' \cap StaleConns(k) = {}
          /\ Newest(k) \notin Idle' /\ Newest(k) \notin StaleConns(k)
      <3>1. ASSUME NEW i \in (k + 1)..(Len(idle) - 1)
            PROVE  /\ \A j \in 1..k : idle[i].conn # idle[j].conn
                   /\ idle[i].conn # idle[Len(idle)].conn
        BY <1>2 DEF Distinct
      <3>2. \A j \in 1..k : idle[j].conn # idle[Len(idle)].conn
        BY <1>2, <1>6 DEF Distinct
      <3>3. QED
        BY <1>5, <2>1, <3>1, <3>2 DEF StaleConns
    <2>4. Idle = Idle' \cup StaleConns(k) \cup {Newest(k)}
      <3>1. \A i \in (k + 1)..(Len(idle) - 1) : i \in 1..Len(idle)
        BY <1>2
      <3>2. Idle' \in SUBSET Idle
        BY <1>5, <3>1 DEF Idle
      <3>3. StaleConns(k) \in SUBSET Idle /\ Newest(k) \in Idle
        BY <1>2, <1>6, <2>1 DEF Idle, StaleConns
      <3>4. ASSUME NEW i \in 1..Len(idle)
            PROVE  idle[i].conn \in Idle' \cup StaleConns(k) \cup {Newest(k)}
        BY <1>5, <2>1, <2>2 DEF StaleConns
      <3>5. Idle \in SUBSET (Idle' \cup StaleConns(k) \cup {Newest(k)})
        BY <3>4 DEF Idle
      <3>6. QED
        BY <3>2, <3>3, <3>5
    <2>5. QED
      BY <1>4, <2>1, <2>3, <2>4
  <1>7. CASE k = Len(idle)
    <2>1. Newest(k) = None /\ StaleConns(k) = Idle /\ None \notin Idle
      BY <1>2, <1>7, NoneAssumption DEF Newest, StaleConns, Idle
    <2>2. Idle' = {}
      BY <1>2, <1>5, <1>7
    <2>3. QED
      BY <1>4, <2>1, <2>2
  <1>8. QED
    BY <1>2, <1>6, <1>7

LEMMA GiveBackIdle ==
    ASSUME PoolTypeOK, Distinct, NEW c \in Conns, c \notin Idle, GiveBack(c)
    PROVE  Distinct' /\ Idle' = Idle \cup {c}
  <1>1. /\ Len(idle) \in Nat /\ Len(idle') = Len(idle) + 1
        /\ \A i \in 1..Len(idle) : idle'[i] = idle[i]
        /\ idle'[Len(idle) + 1].conn = c
    BY GiveBackFacts
  <1>2. \A i \in 1..Len(idle') : i \in 1..Len(idle) \/ i = Len(idle) + 1
    BY <1>1
  <1>3. \A i \in 1..Len(idle) : i \in 1..Len(idle') /\ idle[i].conn # c
    BY <1>1 DEF Idle
  <1>4. Distinct'
    BY <1>1, <1>2, <1>3 DEF Distinct
  <1>5. Idle' = Idle \cup {c}
    BY <1>1, <1>2, <1>3 DEF Idle
  <1>6. QED
    BY <1>4, <1>5

LEMMA TickIdle ==
    ASSUME PoolTypeOK, Tick
    PROVE  Idle' = Idle /\ (Distinct => Distinct') /\ (idle = <<>> => idle' = <<>>)
  <1>1. /\ Len(idle') = Len(idle)
        /\ \A i \in 1..Len(idle) : idle'[i].conn = idle[i].conn
        /\ idle' \in Seq(Entry)
    BY TickFacts
  <1>2. idle = <<>> => idle' = <<>>
    BY <1>1, EmptySeq
  <1>3. QED
    BY <1>1, <1>2 DEF Idle, Distinct

-----------------------------------------------------------------------------
(* How many connections there are.                                         *)

\* The image of a finite set is no larger.
LEMMA ImageSize ==
    ASSUME NEW S, IsFiniteSet(S), NEW T, NEW f \in [S -> T], \A y \in T : \E x \in S : f[x] = y
    PROVE  /\ IsFiniteSet(T) /\ Cardinality(T) \in Nat
           /\ Cardinality(T) <= Cardinality(S)
  <1>1. f \in Surjection(S, T)
    BY DEF Surjection
  <1>2. QED
    BY <1>1, FS_Surjection, FS_CardinalityType

\* The list has an entry for every idle connection.
LEMMA IdleSize ==
    ASSUME PoolTypeOK
    PROVE  IsFiniteSet(Idle) /\ Cardinality(Idle) \in Nat /\ Cardinality(Idle) <= Len(idle)
  <1> DEFINE f == [i \in 1..Len(idle) |-> idle[i].conn]
  <1>1. Len(idle) \in Nat
    BY IdleFacts
  <1>2. f \in [1..Len(idle) -> Idle] /\ \A c \in Idle : \E i \in 1..Len(idle) : f[i] = c
    BY DEF Idle
  <1> HIDE DEF f
  <1>3. /\ IsFiniteSet(1..Len(idle))
        /\ Cardinality(1..Len(idle)) = IF 1 > Len(idle) THEN 0 ELSE Len(idle) - 1 + 1
    BY <1>1, FS_Interval
  <1>4. Cardinality(1..Len(idle)) = Len(idle)
    BY <1>1, <1>3
  <1>5. QED
    BY <1>2, <1>3, <1>4, ImageSize

=============================================================================
