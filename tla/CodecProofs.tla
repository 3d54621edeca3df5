---------------------------- MODULE CodecProofs -----------------------------
(***************************************************************************)
(* Theorems about the parts of the codecs that compute: the numbers of     *)
(* fields, varints and times, for any classes, widths and values.          *)
(***************************************************************************)
EXTENDS Schema, Times, FiniteSetTheorems, SequenceTheorems, WellFoundedInduction, TLAPS

-----------------------------------------------------------------------------
(* Induction over the naturals, and the definitions by it.                 *)

\* A set of naturals that has 0, and with every number the next, has all:
\* the intervals that end in a number it lacks have a smallest one.
LEMMA SetInduction ==
    ASSUME NEW S \in SUBSET Nat, 0 \in S, \A n \in S : n + 1 \in S
    PROVE  S = Nat
  <1> SUFFICES ASSUME NEW m \in Nat, m \notin S PROVE FALSE
    OBVIOUS
  <1> DEFINE Q == StrictSubsetOrdering(0..m)
             T == {0..n : n \in (0..m) \ S}
  <1>1. IsWellFoundedOn(Q, FiniteSubsetsOf(0..m))
    BY FS_StrictSubsetOrderingWellFounded
  <1>2. IsWellFoundedOn(Q, SUBSET (0..m))
    <2>1. IsFiniteSet(0..m)
      BY FS_Interval
    <2>2. FiniteSubsetsOf(0..m) = SUBSET (0..m)
      BY <2>1, FS_FiniteSubsetsOfFinite
    <2> QED
      BY <1>1, <2>2
  <1>3. T \subseteq SUBSET (0..m) /\ T # {}
    OBVIOUS
  <1> HIDE DEF Q
  <1>4. PICK X \in T : \A Y \in T : ~(<<Y, X>> \in Q)
    <2> HIDE DEF T
    <2> QED BY <1>2, <1>3, WFMin, Zenon
  <1>5. PICK x \in (0..m) \ S : X = 0..x
    OBVIOUS
  <1>6. \A y \in (0..m) \ S : ~(y < x)
    <2> SUFFICES ASSUME NEW y \in (0..m) \ S, y < x PROVE FALSE
      OBVIOUS
    <2>1. 0..y \in T /\ ~(<<0..y, 0..x>> \in Q)
      BY <1>4, <1>5
    <2>2. 0..y \subseteq 0..x /\ x \notin 0..y /\ x \in 0..x /\ 0..y \in SUBSET (0..m) /\ 0..x \in SUBSET (0..m)
      OBVIOUS
    <2> QED
      BY <2>1, <2>2 DEF Q, StrictSubsetOrdering
  <1>7. x # 0 /\ x - 1 \in 0..m
    BY <1>5
  <1>8. x - 1 \in S
    BY <1>6, <1>7
  <1>9. (x - 1) + 1 \in S
    BY <1>8
  <1> QED
    BY <1>5, <1>7, <1>9

\* Every set of naturals that is not empty has a least element.
LEMMA MinOfNats ==
    ASSUME NEW S \in SUBSET Nat, S # {}
    PROVE  /\ Min(S) \in S
           /\ \A n \in S : Min(S) <= n
  <1>1. \E m \in S : \A n \in S : m <= n
    <2> SUFFICES ASSUME \A m \in S : \E n \in S : ~(m <= n) PROVE FALSE
      OBVIOUS
    <2> DEFINE Below == {n \in Nat : \A m \in 0..n : m \notin S}
    <2>1. 0 \in Below
      OBVIOUS
    <2>2. ASSUME NEW n \in Below PROVE n + 1 \in Below
      OBVIOUS
    <2>3. Below = Nat
      <3> HIDE DEF Below
      <3> QED BY <2>1, <2>2, SetInduction DEF Below
    <2>4. \A m \in S : m \in Below /\ m \in 0..m
      BY <2>3
    <2> QED
      BY <2>4
  <1> QED
    BY <1>1 DEF Min
-----------------------------------------------------------------------------
(* The numbers of fields.                                                  *)

\* The check for a free number meets finitely many obstacles.
LEMMA ReservedIsFinite == IsFiniteSet(Reserved) /\ Reserved \subseteq Nat
  <1>1. IsFiniteSet(1..MaxFieldNumber)
    BY NumbersAssumption, FS_Interval
  <1>2. Reserved \in SUBSET (1..MaxFieldNumber)
    BY NumbersAssumption
  <1>3. IsFiniteSet(Reserved)
    BY <1>1, <1>2, FS_Subset
  <1> QED
    BY <1>2, <1>3, NumbersAssumption

\* As many numbers as are taken, and one more, are not all taken: the next
\* number is above the last, free, and the least that is.
LEMMA NextNumberIsFree ==
    ASSUME NEW used \in SUBSET Nat, IsFiniteSet(used), NEW last \in Nat
    PROVE  /\ NextNumber(used, last) \in Nat
           /\ NextNumber(used, last) > last
           /\ NextNumber(used, last) \notin used \cup Reserved
           /\ \A n \in Nat : last < n /\ n < NextNumber(used, last) => n \in used \cup Reserved
  <1> DEFINE taken == used \cup Reserved
             c == Cardinality(taken)
             window == (last + 1)..(last + c + 1)
             free == {n \in window : n \notin taken}
  <1>1. IsFiniteSet(taken) /\ c \in Nat
    BY ReservedIsFinite, FS_Union, FS_CardinalityType
  <1>2. Cardinality(window) = c + 1
    <2> HIDE DEF c
    <2> QED BY <1>1, FS_Interval
  <1>3. free # {}
    <2> SUFFICES ASSUME window \subseteq taken PROVE FALSE
      OBVIOUS
    <2>1. Cardinality(window) <= c
      BY <1>1, FS_Subset
    <2> QED
      BY <1>1, <1>2, <2>1
  <1>4. free \subseteq Nat
    BY <1>1
  <1>5. Min(free) \in free /\ \A n \in free : Min(free) <= n
    <2> HIDE DEF free
    <2> QED BY <1>3, <1>4, MinOfNats
  <1>6. NextNumber(used, last) = Min(free)
    BY DEF NextNumber
  <1> HIDE DEF c
  <1> DEFINE m == Min(free)
  <1> HIDE DEF free
  <1>7. m \in Nat /\ m > last /\ m <= last + c + 1 /\ m \notin taken
    BY <1>1, <1>5 DEF free
  <1>8. ASSUME NEW n \in Nat, last < n, n < m PROVE n \in taken
    <2>1. n \notin free
      BY <1>5, <1>7, <1>8
    <2>2. n \in window
      BY <1>1, <1>7, <1>8
    <2> QED
      BY <2>1, <2>2 DEF free
  <1> QED
    BY <1>6, <1>7, <1>8

\* What build_schema keeps while it has refused nothing.
Keys == {"ok", "used", "last", "numbers", "fields"}
Started(st) ==
    /\ DOMAIN st = Keys
    /\ st.ok \in BOOLEAN
    /\ st.ok => st.used \in SUBSET Ids /\ st.last \in Nat

\* How new goes on from st after n numbers.
Took(st, new, n) ==
    /\ DOMAIN new = Keys
    /\ new.ok \in BOOLEAN
    /\ new.fields = st.fields
    /\ new.ok =>
        /\ st.ok
        /\ new.last \in Nat
        /\ new.numbers \in Seq(Ids) /\ Len(new.numbers) = n
        /\ IsInjective(new.numbers)
        /\ Range(new.numbers) \cap st.used = {}
        /\ new.used = st.used \cup Range(new.numbers)

\* A number that take_number accepts is legal and was free.
LEMMA TakeNumberTakesOne ==
    ASSUME NEW st, Started(st), NEW new, NEW n \in Nat, Took(st, new, n), NEW id \in Ids \cup {None}
    PROVE  Took(st, TakeNumber(new, id), n + 1)
  <1> DEFINE number == IF id = None THEN NextNumber(new.used, new.last) ELSE id
             next == TakeNumber(new, id)
  <1>1. /\ DOMAIN next = Keys
        /\ next.ok = (new.ok /\ number \notin new.used /\ number <= MaxFieldNumber)
        /\ next.used = new.used \cup {number}
        /\ next.last = number
        /\ next.numbers = Append(new.numbers, number)
        /\ next.fields = new.fields
    <2> HIDE DEF number
    <2>1. next = [new EXCEPT !.ok = @ /\ number \notin new.used /\ number <= MaxFieldNumber,
                             !.used = @ \cup {number},
                             !.last = number,
                             !.numbers = Append(@, number)]
      BY DEF TakeNumber, Take, number
    <2> HIDE DEF next
    <2> QED
      BY <2>1 DEF Took, Keys
  <1>2. next.ok \in BOOLEAN /\ next.fields = st.fields
    BY <1>1 DEF Took
  <1>3. ASSUME next.ok
        PROVE  /\ st.ok
               /\ number \in Ids \ new.used
    <2>1. new.ok /\ st.ok /\ new.used \in SUBSET Ids /\ new.last \in Nat
      BY <1>1, <1>3 DEF Took, Started, Range
    <2>2. IsFiniteSet(new.used) /\ new.used \in SUBSET Nat
      <3>1. IsFiniteSet(1..MaxFieldNumber)
        BY NumbersAssumption, FS_Interval
      <3>2. new.used \in SUBSET (1..MaxFieldNumber)
        BY <2>1 DEF Ids
      <3>3. IsFiniteSet(new.used)
        BY <3>1, <3>2, FS_Subset
      <3> QED
        BY <3>2, <3>3, NumbersAssumption
    <2>3. CASE id = None
      <3>1. number \in Nat /\ number > new.last /\ number \notin new.used \cup Reserved
        BY <2>1, <2>2, <2>3, NextNumberIsFree
      <3>2. number <= MaxFieldNumber
        <4> HIDE DEF number, next
        <4> QED BY <1>1, <1>3
      <3> HIDE DEF number, next
      <3> QED
        BY <2>1, <3>1, <3>2, NumbersAssumption DEF Ids
    <2>4. CASE id # None
      BY <1>1, <1>3, <2>1, <2>4
    <2> QED
      BY <2>3, <2>4
  <1>4. ASSUME next.ok
        PROVE  /\ next.last \in Nat
               /\ next.numbers \in Seq(Ids) /\ Len(next.numbers) = n + 1
               /\ IsInjective(next.numbers)
               /\ Range(next.numbers) \cap st.used = {}
               /\ next.used = st.used \cup Range(next.numbers)
    <2> HIDE DEF number, next
    <2> DEFINE s == new.numbers
               t == next.numbers
    <2>1. /\ number \in Ids /\ number \notin new.used /\ number \in Nat
          /\ s \in Seq(Ids) /\ Len(s) = n /\ IsInjective(s)
          /\ Range(s) \cap st.used = {}
          /\ new.used = st.used \cup Range(s)
      BY <1>1, <1>3, <1>4 DEF Took, Ids
    <2>2. /\ t \in Seq(Ids) /\ Len(t) = n + 1
          /\ DOMAIN t = 1..(n + 1) /\ DOMAIN s = 1..n
          /\ \A i \in 1..n : t[i] = s[i]
          /\ t[n + 1] = number
      BY <1>1, <2>1, AppendProperties
    <2> HIDE DEF s, t
    <2>3. Range(t) = Range(s) \cup {number}
      <3>1. 1..(n + 1) = (1..n) \cup {n + 1}
        OBVIOUS
      <3> QED
        BY <2>2, <3>1 DEF Range
    <2>4. \A i \in 1..n : s[i] # number
      BY <2>1, <2>2 DEF Range
    <2>5. IsInjective(t)
      <3> SUFFICES ASSUME NEW a \in 1..(n + 1), NEW b \in 1..(n + 1), t[a] = t[b] PROVE a = b
        BY <2>2 DEF IsInjective
      <3>1. CASE a \in 1..n /\ b \in 1..n
        BY <2>1, <2>2, <3>1 DEF IsInjective
      <3>2. CASE a = n + 1 \/ b = n + 1
        BY <2>2, <2>4, <3>2
      <3> QED
        BY <3>1, <3>2
    <2> QED
      BY <1>1, <2>1, <2>2, <2>3, <2>5 DEF t, s
  <1> QED
    <2> HIDE DEF number, next
    <2>1. Took(st, next, n + 1)
      BY <1>1, <1>2, <1>3, <1>4 DEF Took
    <2> QED BY <2>1 DEF next

\* The numbers that a field or the members of a union take.
LEMMA TakeNumbersTakesThem ==
    ASSUME NEW st, Started(st), st.numbers = <<>>,
           NEW ids \in Seq(Ids \cup {None})
    PROVE  Took(st, TakeNumbers(st, ids), Len(ids))
  <1> DEFINE Unfolds(f, m) == f = [n \in 0..m |-> IF n = 0 THEN st ELSE TakeNumber(f[n - 1], ids[n])]
             S == {m \in Nat : \E f : Unfolds(f, m)}
  <1>1. S = Nat
    <2>1. 0 \in S
      <3>1. Unfolds([n \in 0..0 |-> st], 0)
        OBVIOUS
      <3> QED BY <3>1
    <2>2. ASSUME NEW m \in S PROVE m + 1 \in S
      <3>1. PICK f : Unfolds(f, m)
        OBVIOUS
      <3> DEFINE g == [n \in 0..(m + 1) |-> IF n = m + 1 THEN TakeNumber(f[m], ids[m + 1]) ELSE f[n]]
      <3>2. ASSUME NEW n \in 0..(m + 1)
            PROVE  g[n] = IF n = 0 THEN st ELSE TakeNumber(g[n - 1], ids[n])
        <4>1. CASE n = m + 1
          <5>1. g[n - 1] = f[m] /\ n # 0
            BY <4>1
          <5> QED BY <4>1, <5>1
        <4>2. CASE n = 0
          BY <3>1, <4>2
        <4>3. CASE n \in 1..m
          <5>1. g[n] = f[n] /\ g[n - 1] = f[n - 1]
            BY <4>3
          <5>2. f[n] = TakeNumber(f[n - 1], ids[n])
            BY <3>1, <4>3
          <5> HIDE DEF g
          <5> QED BY <4>3, <5>1, <5>2
        <4> QED BY <4>1, <4>2, <4>3
      <3>3. Unfolds(g, m + 1)
        BY <3>2
      <3> HIDE DEF Unfolds, g
      <3> QED BY <3>3
    <2> HIDE DEF S
    <2> QED BY <2>1, <2>2, SetInduction DEF S
  <1>2. Len(ids) \in Nat
    OBVIOUS
  <1>3. PICK f : Unfolds(f, Len(ids)) /\ TakeNumbers(st, ids) = f[Len(ids)]
    <2> DEFINE taken == CHOOSE f : Unfolds(f, Len(ids))
    <2>1. TakeNumbers(st, ids) = taken[Len(ids)]
      BY DEF TakeNumbers
    <2>2. \E f : Unfolds(f, Len(ids))
      BY <1>1, <1>2
    <2>3. Unfolds(taken, Len(ids))
      <3> HIDE DEF Unfolds
      <3> QED BY <2>2
    <2> HIDE DEF Unfolds, taken
    <2> QED BY <2>1, <2>3
  <1> DEFINE P == {m \in Nat : m <= Len(ids) => Took(st, f[m], m)}
  <1>4. 0 \in P
    <2>1. f[0] = st
      BY <1>2, <1>3
    <2>2. Took(st, st, 0)
      BY DEF Took, Started, IsInjective, Range
    <2> QED BY <2>1, <2>2
  <1>5. ASSUME NEW m \in P PROVE m + 1 \in P
    <2> SUFFICES ASSUME m + 1 <= Len(ids) PROVE Took(st, f[m + 1], m + 1)
      OBVIOUS
    <2>1. f[m + 1] = TakeNumber(f[m], ids[m + 1])
      BY <1>2, <1>3
    <2>2. Took(st, f[m], m) /\ ids[m + 1] \in Ids \cup {None}
      BY <1>2
    <2> QED
      BY <2>1, <2>2, TakeNumberTakesOne
  <1>6. Len(ids) \in P
    <2> HIDE DEF P
    <2>1. P = Nat
      BY <1>4, <1>5, SetInduction DEF P
    <2> QED BY <1>2, <2>1
  <1> QED
    BY <1>2, <1>3, <1>6

\* A schema whose numbers are legal and among those given out.
WellBuilt(st) ==
    /\ Started(st)
    /\ st.ok =>
        /\ \E F : st.fields \in Seq(F)
        /\ LegalNumbers(st.fields)
        /\ Numbers(st.fields) \subseteq st.used

Declared(hint) ==
    /\ hint.ids \in Seq(Ids \cup {None})
    /\ Len(hint.ids) = IF hint.type.kind = "oneof" THEN Len(hint.type.members) ELSE 1

\* A field that is added has numbers that none before it has.
LEMMA AddFieldStaysLegal ==
    ASSUME NEW st, WellBuilt(st), st.ok, NEW hint, Declared(hint)
    PROVE  WellBuilt(AddField(st, hint))
  <1> DEFINE start   == [st EXCEPT !.numbers = <<>>]
             taken   == TakeNumbers(start, hint.ids)
             members == [i \in DOMAIN taken.numbers |->
                            [type |-> hint.type.members[i], number |-> taken.numbers[i]]]
             union   == hint.type.kind = "oneof"
             type    == IF union THEN [kind |-> "oneof", members |-> members] ELSE hint.type
             field   == [name |-> hint.name, number |-> taken.numbers[1], type |-> type,
                         optional |-> union \/ hint.optional]
             next    == AddField(st, hint)
             fields  == st.fields
             longer  == Append(fields, field)
  <1>1. /\ Started(start) /\ start.numbers = <<>> /\ start.ok = st.ok
        /\ start.used = st.used /\ start.fields = st.fields
    BY DEF WellBuilt, Started, Keys
  <1>2. Took(start, taken, Len(hint.ids))
    <2> HIDE DEF start
    <2> QED BY <1>1, TakeNumbersTakesThem DEF Declared
  <1>3. next = [taken EXCEPT !.fields = Append(@, field)]
    BY DEF AddField
  <1> HIDE DEF taken, start
  <1>4. /\ DOMAIN next = Keys /\ next.ok = taken.ok /\ next.used = taken.used
        /\ next.last = taken.last /\ next.fields = longer
    <2> HIDE DEF field, next
    <2> QED BY <1>1, <1>2, <1>3 DEF Took, Keys
  <1>5. ASSUME taken.ok
        PROVE  /\ taken.used \in SUBSET Ids /\ taken.last \in Nat
               /\ \E F : longer \in Seq(F)
               /\ LegalNumbers(longer)
               /\ Numbers(longer) \subseteq taken.used
    <2> DEFINE new == taken.numbers
    <2>1. /\ taken.last \in Nat
          /\ new \in Seq(Ids) /\ Len(new) = Len(hint.ids) /\ DOMAIN new = 1..Len(hint.ids)
          /\ IsInjective(new)
          /\ Range(new) \cap st.used = {}
          /\ taken.used = st.used \cup Range(new)
          /\ Range(new) \subseteq Ids
      <3>1. /\ taken.last \in Nat
            /\ new \in Seq(Ids) /\ Len(new) = Len(hint.ids)
            /\ IsInjective(new)
            /\ Range(new) \cap st.used = {}
            /\ taken.used = st.used \cup Range(new)
        BY <1>1, <1>2, <1>5 DEF Took
      <3> QED
        BY <3>1 DEF Range
    <2>2. /\ st.used \in SUBSET Ids /\ Numbers(fields) \subseteq st.used /\ LegalNumbers(fields)
      BY DEF WellBuilt, Started
    <2>3. NumbersOf(field) \subseteq Range(new)
      <3>1. CASE union
        <4>1. field.type.kind = "oneof" /\ field.type.members = members
          BY <3>1
        <4>2. DOMAIN members = DOMAIN new /\ \A i \in DOMAIN new : members[i].number = new[i]
          OBVIOUS
        <4> HIDE DEF field, members
        <4> QED
          BY <4>1, <4>2 DEF NumbersOf, Range
      <3>2. CASE ~union
        <4>1. field.type.kind # "oneof" /\ field.number = new[1]
          BY <3>2
        <4>2. 1 \in DOMAIN new
          BY <2>1, <3>2 DEF Declared
        <4> HIDE DEF field, members
        <4> QED
          BY <4>1, <4>2 DEF NumbersOf, Range
      <3> QED BY <3>1, <3>2
    <2>4. field.type.kind = "oneof" =>
              IsInjective([m \in DOMAIN field.type.members |-> field.type.members[m].number])
      <3> SUFFICES ASSUME field.type.kind = "oneof"
                   PROVE  IsInjective([m \in DOMAIN field.type.members |-> field.type.members[m].number])
        OBVIOUS
      <3>1. union
        OBVIOUS
      <3>2. field.type.members = members
        BY <3>1
      <3>3. [m \in DOMAIN members |-> members[m].number] = [m \in DOMAIN new |-> new[m]]
        OBVIOUS
      <3> HIDE DEF field, members
      <3> QED
        BY <2>1, <3>2, <3>3 DEF IsInjective
    <2> HIDE DEF field, new
    <2>5. PICK F : fields \in Seq(F)
      BY DEF WellBuilt
    <2> DEFINE G == F \cup {field}
    <2>6. fields \in Seq(G) /\ field \in G
      BY <2>5, SeqMonotonic
    <2>7. /\ longer \in Seq(G)
          /\ DOMAIN longer = 1..(Len(fields) + 1)
          /\ Len(fields) \in Nat /\ DOMAIN fields = 1..Len(fields)
          /\ \A i \in 1..Len(fields) : longer[i] = fields[i]
          /\ longer[Len(fields) + 1] = field
      BY <2>6, AppendProperties
    <2> HIDE DEF longer, fields, G
    <2>8. \A i \in DOMAIN fields : NumbersOf(fields[i]) \subseteq st.used
      BY <2>2 DEF Numbers
    <2>9. DOMAIN longer = DOMAIN fields \cup {Len(fields) + 1}
      BY <2>7
    <2>10. Numbers(longer) \subseteq taken.used
      BY <2>1, <2>3, <2>7, <2>8, <2>9 DEF Numbers
    <2>11. taken.used \in SUBSET Ids
      BY <2>1, <2>2
    <2>12. ASSUME NEW i \in DOMAIN longer, NEW j \in DOMAIN longer, i # j
           PROVE  NumbersOf(longer[i]) \cap NumbersOf(longer[j]) = {}
      <3>1. CASE i \in DOMAIN fields /\ j \in DOMAIN fields
        BY <2>2, <2>7, <2>12, <3>1 DEF LegalNumbers
      <3>2. CASE i = Len(fields) + 1 /\ j \in DOMAIN fields
        BY <2>1, <2>3, <2>7, <2>8, <3>2
      <3>3. CASE j = Len(fields) + 1 /\ i \in DOMAIN fields
        BY <2>1, <2>3, <2>7, <2>8, <3>3
      <3> QED
        BY <2>9, <2>12, <3>1, <3>2, <3>3
    <2>13. ASSUME NEW i \in DOMAIN longer, longer[i].type.kind = "oneof"
           PROVE  IsInjective([m \in DOMAIN longer[i].type.members |-> longer[i].type.members[m].number])
      <3>1. CASE i \in DOMAIN fields
        BY <2>2, <2>7, <2>13, <3>1 DEF LegalNumbers
      <3>2. CASE i = Len(fields) + 1
        BY <2>4, <2>7, <2>13, <3>2
      <3> QED
        BY <2>9, <3>1, <3>2
    <2>14. LegalNumbers(longer)
      BY <2>10, <2>11, <2>12, <2>13 DEF LegalNumbers
    <2> QED
      BY <2>1, <2>7, <2>10, <2>11, <2>14
  <1> QED
    <2> HIDE DEF next, longer
    <2>1. WellBuilt(next)
      BY <1>2, <1>4, <1>5 DEF WellBuilt, Started, Took
    <2> QED BY <2>1 DEF next

\* What build_schema starts from.
Start == [ok |-> TRUE, used |-> {}, last |-> 0, numbers |-> <<>>, fields |-> <<>>]
Builds(f, hints, m) == f = [n \in 0..m |-> IF n = 0 THEN Start ELSE AddNext(f[n - 1], hints[n])]

\* build_schema adds one hint after the other.
LEMMA BuildSchemaUnfolds ==
    ASSUME NEW hints
    PROVE  /\ \A m \in Nat : \E f : Builds(f, hints, m)
           /\ Len(hints) \in Nat => \E f : Builds(f, hints, Len(hints)) /\ BuildSchema(hints) = f[Len(hints)]
  <1> DEFINE S == {m \in Nat : \E f : Builds(f, hints, m)}
  <1>1. 0 \in S
    <2>1. Builds([n \in 0..0 |-> Start], hints, 0)
      BY DEF Builds
    <2> QED BY <2>1
  <1>2. ASSUME NEW m \in S PROVE m + 1 \in S
    <2>1. PICK f : Builds(f, hints, m)
      OBVIOUS
    <2> DEFINE g == [n \in 0..(m + 1) |-> IF n = m + 1 THEN AddNext(f[m], hints[m + 1]) ELSE f[n]]
    <2>2. ASSUME NEW n \in 0..(m + 1)
          PROVE  g[n] = IF n = 0 THEN Start ELSE AddNext(g[n - 1], hints[n])
      <3>1. CASE n = m + 1
        <4>1. g[n - 1] = f[m] /\ n # 0
          BY <3>1
        <4> QED BY <3>1, <4>1
      <3>2. CASE n = 0
        BY <2>1, <3>2 DEF Builds
      <3>3. CASE n \in 1..m
        <4>1. g[n] = f[n] /\ g[n - 1] = f[n - 1]
          BY <3>3
        <4>2. f[n] = AddNext(f[n - 1], hints[n])
          BY <2>1, <3>3 DEF Builds
        <4> HIDE DEF g
        <4> QED BY <3>3, <4>1, <4>2
      <3> QED BY <3>1, <3>2, <3>3
    <2>3. Builds(g, hints, m + 1)
      BY <2>2 DEF Builds
    <2> HIDE DEF g
    <2> QED BY <2>3
  <1>3. S = Nat
    <2> HIDE DEF S
    <2> QED BY <1>1, <1>2, SetInduction DEF S
  <1>4. ASSUME Len(hints) \in Nat
        PROVE  \E f : Builds(f, hints, Len(hints)) /\ BuildSchema(hints) = f[Len(hints)]
    <2> DEFINE built == CHOOSE f : Builds(f, hints, Len(hints))
    <2>1. BuildSchema(hints) = built[Len(hints)]
      BY DEF BuildSchema, Builds, Start
    <2>2. \E f : Builds(f, hints, Len(hints))
      BY <1>3, <1>4
    <2>3. Builds(built, hints, Len(hints))
      BY <2>2
    <2> HIDE DEF built
    <2> QED BY <2>1, <2>3
  <1> QED
    BY <1>3, <1>4

\* So whatever the hints, what it builds is sound.
LEMMA BuiltIsWellBuilt ==
    ASSUME NEW H, NEW hints \in Seq(H), \A hint \in Range(hints) : Declared(hint)
    PROVE  WellBuilt(BuildSchema(hints))
  <1>1. Len(hints) \in Nat /\ \A n \in 1..Len(hints) : Declared(hints[n])
    BY DEF Range
  <1>2. PICK f : Builds(f, hints, Len(hints)) /\ BuildSchema(hints) = f[Len(hints)]
    BY <1>1, BuildSchemaUnfolds
  <1> DEFINE P == {m \in Nat : m <= Len(hints) => WellBuilt(f[m])}
  <1>3. 0 \in P
    <2>1. f[0] = Start
      BY <1>1, <1>2 DEF Builds
    <2>2. Started(Start)
      BY DEF Started, Start, Keys
    <2>3. Start.fields = <<>> /\ Start.used = {}
      BY DEF Start
    <2>4. Numbers(<<>>) = {} /\ LegalNumbers(<<>>)
      BY DEF Numbers, LegalNumbers
    <2>5. \E F : Start.fields \in Seq(F)
      <3>1. <<>> \in Seq({})
        BY EmptySeq
      <3> QED BY <2>3, <3>1
    <2>6. WellBuilt(Start)
      BY <2>2, <2>3, <2>4, <2>5 DEF WellBuilt
    <2> QED BY <2>1, <2>6
  <1>4. ASSUME NEW m \in P PROVE m + 1 \in P
    <2> SUFFICES ASSUME m + 1 <= Len(hints) PROVE WellBuilt(f[m + 1])
      OBVIOUS
    <2>1. f[m + 1] = AddNext(f[m], hints[m + 1])
      BY <1>1, <1>2 DEF Builds
    <2>2. WellBuilt(f[m]) /\ Declared(hints[m + 1])
      BY <1>1
    <2>3. CASE f[m].ok /\ Supported(hints[m + 1])
      BY <2>1, <2>2, <2>3, AddFieldStaysLegal DEF AddNext
    <2>4. CASE ~(f[m].ok /\ Supported(hints[m + 1]))
      <3>1. f[m + 1] = [f[m] EXCEPT !.ok = FALSE]
        BY <2>1, <2>4 DEF AddNext
      <3>2. DOMAIN f[m + 1] = Keys /\ ~f[m + 1].ok /\ f[m + 1].ok \in BOOLEAN
        BY <2>2, <3>1 DEF WellBuilt, Started, Keys
      <3> QED
        BY <3>2 DEF WellBuilt, Started
    <2> QED BY <2>3, <2>4
  <1>5. P = Nat
    <2> HIDE DEF P
    <2> QED BY <1>3, <1>4, SetInduction DEF P
  <1> QED
    BY <1>1, <1>2, <1>5

\* However a class mixes explicit and consecutive numbers, unions and fields:
\* if build_schema accepts it, its numbers are legal and all different.
THEOREM NumbersLegal == NumbersAreLegal
  <1> SUFFICES ASSUME NEW c \in Classes PROVE LegalNumbers(Schemas[c])
    BY DEF NumbersAreLegal, WellNumbered, Range, Schemas
  <1>1. /\ c \in DOMAIN Hints /\ BuildSchema(Hints[c]).ok
        /\ Schemas[c] = BuildSchema(Hints[c]).fields
    BY DEF Classes, Schemas
  <1>2. Hints[c] \in Seq(Range(Hints[c])) /\ \A hint \in Range(Hints[c]) : Declared(hint)
    BY <1>1, HintsAssumption DEF Declared
  <1>3. WellBuilt(BuildSchema(Hints[c]))
    BY <1>2, BuiltIsWellBuilt
  <1> QED
    BY <1>1, <1>3 DEF WellBuilt

\* The last hint of a class is the last one it adds.
LEMMA LastHintIsAddedLast ==
    ASSUME NEW H, NEW hints \in Seq(H), NEW hint \in H
    PROVE  BuildSchema(Append(hints, hint)) = AddNext(BuildSchema(hints), hint)
  <1> DEFINE longer == Append(hints, hint)
             m == Len(hints)
  <1>1. /\ m \in Nat /\ Len(longer) = m + 1 /\ longer[m + 1] = hint
        /\ \A n \in 1..m : longer[n] = hints[n]
    BY AppendProperties
  <1> HIDE DEF longer, m
  <1>2. PICK f : Builds(f, hints, m) /\ BuildSchema(hints) = f[m]
    BY <1>1, BuildSchemaUnfolds DEF m
  <1>3. PICK g : Builds(g, longer, m + 1) /\ BuildSchema(longer) = g[m + 1]
    BY <1>1, BuildSchemaUnfolds
  <1> DEFINE P == {n \in Nat : n <= m => g[n] = f[n]}
  <1>4. 0 \in P
    BY <1>1, <1>2, <1>3 DEF Builds
  <1>5. ASSUME NEW n \in P PROVE n + 1 \in P
    <2> SUFFICES ASSUME n + 1 <= m PROVE g[n + 1] = f[n + 1]
      OBVIOUS
    <2>1. g[n + 1] = AddNext(g[n], longer[n + 1]) /\ f[n + 1] = AddNext(f[n], hints[n + 1])
      BY <1>1, <1>2, <1>3 DEF Builds
    <2> QED
      BY <1>1, <2>1
  <1>6. P = Nat
    <2> HIDE DEF P
    <2> QED BY <1>4, <1>5, SetInduction DEF P
  <1>7. g[m] = f[m]
    BY <1>1, <1>6
  <1>8. g[m + 1] = AddNext(g[m], longer[m + 1])
    BY <1>1, <1>3 DEF Builds
  <1> QED
    BY <1>1, <1>2, <1>3, <1>7, <1>8 DEF longer

\* A field added at the end of a class leaves the numbers of those before it
\* alone, so that old and new programs understand each other.
THEOREM LaterFieldsKeepNumbers ==
    ASSUME NEW H, NEW hints \in Seq(H), NEW hint \in H,
           \A h \in Range(hints) \cup {hint} : Declared(h),
           BuildSchema(Append(hints, hint)).ok
    PROVE  /\ BuildSchema(hints).ok
           /\ \E field : BuildSchema(Append(hints, hint)).fields
                              = Append(BuildSchema(hints).fields, field)
  <1> DEFINE st == BuildSchema(hints)
             next == BuildSchema(Append(hints, hint))
  <1> HIDE DEF st, next
  <1>1. WellBuilt(st)
    BY BuiltIsWellBuilt DEF st
  <1>2. next = AddNext(st, hint) /\ next.ok
    BY LastHintIsAddedLast DEF next, st
  <1>3. st.ok /\ next = AddField(st, hint)
    <2> SUFFICES ASSUME ~(st.ok /\ Supported(hint)) PROVE FALSE
      BY <1>2 DEF AddNext
    <2>1. next = [st EXCEPT !.ok = FALSE]
      BY <1>2 DEF AddNext
    <2>2. "ok" \in DOMAIN st
      BY <1>1 DEF WellBuilt, Started, Keys
    <2> QED
      BY <1>2, <2>1, <2>2
  <1>4. \E field : next.fields = Append(st.fields, field)
    <2> DEFINE start == [st EXCEPT !.numbers = <<>>]
               taken == TakeNumbers(start, hint.ids)
    <2>1. Started(start) /\ start.numbers = <<>> /\ start.fields = st.fields
      BY <1>1 DEF WellBuilt, Started, Keys
    <2>2. Took(start, taken, Len(hint.ids))
      <3> HIDE DEF start
      <3> QED BY <2>1, TakeNumbersTakesThem DEF Declared
    <2>3. \E field : next = [taken EXCEPT !.fields = Append(@, field)]
      BY <1>3 DEF AddField
    <2> HIDE DEF taken, start
    <2> QED
      BY <2>1, <2>2, <2>3 DEF Took, Keys
  <1> QED
    BY <1>3, <1>4 DEF st, next
-----------------------------------------------------------------------------
(* Varints.                                                                *)

\* Division by a positive number, which rounds down as in Python.
LEMMA Division ==
    ASSUME NEW n \in Int, NEW d \in Nat \ {0}
    PROVE  /\ n \div d \in Int /\ n % d \in 0..(d - 1)
           /\ n = d * (n \div d) + (n % d)
  OBVIOUS

\* There is one quotient and one remainder.
LEMMA DivisionIsUnique ==
    ASSUME NEW d \in Nat \ {0}, NEW q \in Int, NEW r \in 0..(d - 1)
    PROVE  (d * q + r) \div d = q /\ (d * q + r) % d = r
  OBVIOUS

\* The same for a number that is given.
LEMMA RemainderIsUnique ==
    ASSUME NEW n \in Int, NEW d \in Nat \ {0}, NEW q \in Int, NEW r \in 0..(d - 1), n = d * q + r
    PROVE  n % d = r
  BY DivisionIsUnique

\* For inequations between products.
LEMMA ProductIsMonotone ==
    ASSUME NEW a \in Nat, NEW b \in Int, NEW c \in Int, b <= c
    PROVE  a * b <= a * c
  OBVIOUS

\* The digits of n to base b, from the place p on.
LEMMA Digits ==
    ASSUME NEW n \in Nat, NEW p \in Nat \ {0}, NEW b \in Nat \ {0}
    PROVE  n % (p * b) = (n % p) + p * ((n \div p) % b)
  <1> DEFINE q == n \div p
             r == n % p
             q2 == q \div b
             r2 == q % b
  <1>1. q \in Int /\ r \in 0..(p - 1) /\ n = p * q + r
    BY Division
  <1>2. q2 \in Int /\ r2 \in 0..(b - 1) /\ q = b * q2 + r2
    <2> HIDE DEF q
    <2> QED BY <1>1, Division
  <1> HIDE DEF q, r, q2, r2
  <1>3. n = (p * b) * q2 + (p * r2 + r)
    <2>1. p * (b * q2 + r2) = (p * b) * q2 + p * r2
      BY <1>2
    <2>2. p * b \in Int /\ p * r2 \in Int /\ (p * b) * q2 \in Int
      BY <1>2
    <2> QED BY <1>1, <1>2, <2>1, <2>2
  <1>4. p * b \in Nat \ {0}
    OBVIOUS
  <1>5. p * r2 + r \in 0..(p * b - 1)
    <2>1. p * r2 <= p * (b - 1)
      BY <1>2, ProductIsMonotone
    <2>2. p * (b - 1) = p * b - p /\ 0 <= p * r2
      BY <1>2
    <2> QED
      BY <1>1, <1>2, <1>4, <2>1, <2>2
  <1> DEFINE d == p * b
             s == p * r2 + r
  <1>6. (d * q2 + s) % d = s
    <2> HIDE DEF d, s
    <2> QED BY <1>2, <1>4, <1>5, DivisionIsUnique DEF d, s
  <1>7. n % (p * b) = p * r2 + r
    BY <1>3, <1>6
  <1> QED
    BY <1>1, <1>2, <1>7 DEF q, r, r2

Exponents == 0..(Group * Bits)

\* The exponents of two that are within the table.
LEMMA Widths ==
    /\ Bits \in Nat \ {0} /\ Group \in Nat \ {0}
    /\ Group * Bits \in Nat /\ Bits <= Group * Bits /\ Group <= Group * Bits
  <1>1. Bits \in Nat \ {0} /\ Group \in Nat \ {0}
    BY WidthAssumption
  <1>2. Bits * 1 <= Bits * Group /\ Group * 1 <= Group * Bits
    BY <1>1, ProductIsMonotone
  <1> QED
    BY <1>1, <1>2

\* Pow2 is what it says.
LEMMA Pow2Doubles ==
    /\ Pow2[0] = 1
    /\ \A n \in Nat : n + 1 \in Exponents => Pow2[n + 1] = 2 * Pow2[n]
  <1> DEFINE Unfolds(f, m) == f = [n \in 0..m |-> IF n = 0 THEN 1 ELSE 2 * f[n - 1]]
             S == {m \in Nat : \E f : Unfolds(f, m)}
  <1>1. 0 \in S
    <2>1. Unfolds([n \in 0..0 |-> 1], 0)
      OBVIOUS
    <2> QED BY <2>1
  <1>2. ASSUME NEW m \in S PROVE m + 1 \in S
    <2>1. PICK f : Unfolds(f, m)
      OBVIOUS
    <2> DEFINE g == [n \in 0..(m + 1) |-> IF n = m + 1 THEN 2 * f[m] ELSE f[n]]
    <2>2. ASSUME NEW n \in 0..(m + 1)
          PROVE  g[n] = IF n = 0 THEN 1 ELSE 2 * g[n - 1]
      <3>1. CASE n = m + 1
        <4>1. g[n - 1] = f[m] /\ n # 0
          BY <3>1
        <4> QED BY <3>1, <4>1
      <3>2. CASE n = 0
        BY <2>1, <3>2
      <3>3. CASE n \in 1..m
        <4>1. g[n] = f[n] /\ g[n - 1] = f[n - 1]
          BY <3>3
        <4>2. f[n] = 2 * f[n - 1]
          BY <2>1, <3>3
        <4> HIDE DEF g
        <4> QED BY <3>3, <4>1, <4>2
      <3> QED BY <3>1, <3>2, <3>3
    <2>3. Unfolds(g, m + 1)
      BY <2>2
    <2> HIDE DEF Unfolds, g
    <2> QED BY <2>3
  <1>3. S = Nat
    <2> HIDE DEF S
    <2> QED BY <1>1, <1>2, SetInduction DEF S
  <1>4. Unfolds(Pow2, Group * Bits)
    <2>1. \E f : Unfolds(f, Group * Bits)
      BY <1>3, Widths
    <2>2. Pow2 = CHOOSE f : Unfolds(f, Group * Bits)
      BY DEF Pow2
    <2> HIDE DEF Unfolds
    <2> QED BY <2>1, <2>2
  <1> QED
    BY <1>4, Widths DEF Exponents

\* Powers of two are positive,
LEMMA Pow2IsPositive ==
    ASSUME NEW n \in Exponents
    PROVE  Pow2[n] \in Nat \ {0}
  <1> DEFINE S == {m \in Nat : m \in Exponents => Pow2[m] \in Nat \ {0}}
  <1>1. 0 \in S
    BY Pow2Doubles
  <1>2. ASSUME NEW m \in S PROVE m + 1 \in S
    BY Pow2Doubles, Widths DEF Exponents
  <1>3. S = Nat
    <2> HIDE DEF S
    <2> QED BY <1>1, <1>2, SetInduction DEF S
  <1> QED
    BY <1>3, Widths DEF Exponents

\* turn sums into products,
LEMMA Pow2OfSum ==
    ASSUME NEW a \in Nat, NEW b \in Nat, a + b \in Exponents
    PROVE  Pow2[a + b] = Pow2[a] * Pow2[b]
  <1> DEFINE S == {m \in Nat : a + m \in Exponents => Pow2[a + m] = Pow2[a] * Pow2[m]}
  <1>1. 0 \in S
    <2> SUFFICES ASSUME a \in Exponents PROVE Pow2[a] = Pow2[a] * 1
      BY Pow2Doubles
    <2> QED
      BY Pow2IsPositive
  <1>2. ASSUME NEW m \in S PROVE m + 1 \in S
    <2> SUFFICES ASSUME a + (m + 1) \in Exponents PROVE Pow2[a + (m + 1)] = Pow2[a] * Pow2[m + 1]
      OBVIOUS
    <2>1. a + m \in Exponents /\ m + 1 \in Exponents /\ a \in Exponents /\ m \in Exponents
      BY Widths DEF Exponents
    <2>2. Pow2[(a + m) + 1] = 2 * Pow2[a + m] /\ Pow2[m + 1] = 2 * Pow2[m]
      BY <2>1, Pow2Doubles
    <2>3. Pow2[a] \in Nat /\ Pow2[m] \in Nat
      BY <2>1, Pow2IsPositive
    <2>4. Pow2[a + m] = Pow2[a] * Pow2[m]
      BY <2>1
    <2>5. a + (m + 1) = (a + m) + 1
      OBVIOUS
    <2>6. 2 * (Pow2[a] * Pow2[m]) = Pow2[a] * (2 * Pow2[m])
      BY <2>3
    <2> QED
      BY <2>2, <2>4, <2>5, <2>6
  <1>3. S = Nat
    <2> HIDE DEF S
    <2> QED BY <1>1, <1>2, SetInduction DEF S
  <1> QED
    BY <1>3

\* and grow.
LEMMA Pow2IsMonotone ==
    ASSUME NEW a \in Exponents, NEW b \in Exponents, a <= b
    PROVE  Pow2[a] <= Pow2[b]
  <1> DEFINE c == b - a
  <1>1. c \in Nat /\ a + c = b /\ a \in Nat /\ c \in Exponents
    BY Widths DEF Exponents
  <1>2. Pow2[b] = Pow2[a] * Pow2[c]
    <2> HIDE DEF c
    <2> QED BY <1>1, Pow2OfSum
  <1>3. Pow2[a] \in Nat /\ Pow2[c] \in Nat \ {0}
    <2> HIDE DEF c
    <2> QED BY <1>1, Pow2IsPositive
  <1>4. Pow2[a] * 1 <= Pow2[a] * Pow2[c]
    <2> HIDE DEF c
    <2> QED BY <1>3, ProductIsMonotone
  <1> QED
    BY <1>2, <1>3, <1>4

\* decode_varint adds one group after the other.
LEMMA JoinedUnfolds ==
    ASSUME NEW body, NEW k \in Nat, Len(body) = k
    PROVE  \E f : /\ Joined(body) = f[k]
                  /\ f[0] = 0
                  /\ \A n \in Nat : n + 1 <= k =>
                         f[n + 1] = f[n] + body[n + 1] * Pow2[Group * n]
  <1> DEFINE Unfolds(f, m) ==
                 f = [n \in 0..m |-> IF n = 0 THEN 0 ELSE f[n - 1] + body[n] * Pow2[Group * (n - 1)]]
             S == {m \in Nat : \E f : Unfolds(f, m)}
  <1>1. 0 \in S
    <2>1. Unfolds([n \in 0..0 |-> 0], 0)
      OBVIOUS
    <2> QED BY <2>1
  <1>2. ASSUME NEW m \in S PROVE m + 1 \in S
    <2>1. PICK f : Unfolds(f, m)
      OBVIOUS
    <2> DEFINE g == [n \in 0..(m + 1) |->
                        IF n = m + 1 THEN f[m] + body[m + 1] * Pow2[Group * m] ELSE f[n]]
    <2>2. ASSUME NEW n \in 0..(m + 1)
          PROVE  g[n] = IF n = 0 THEN 0 ELSE g[n - 1] + body[n] * Pow2[Group * (n - 1)]
      <3>1. CASE n = m + 1
        <4>1. g[n - 1] = f[m] /\ n # 0 /\ n - 1 = m
          BY <3>1
        <4>2. g[n] = f[m] + body[m + 1] * Pow2[Group * m]
          BY <3>1
        <4> HIDE DEF g
        <4> QED BY <3>1, <4>1, <4>2
      <3>2. CASE n = 0
        BY <2>1, <3>2
      <3>3. CASE n \in 1..m
        <4>1. g[n] = f[n] /\ g[n - 1] = f[n - 1]
          BY <3>3
        <4>2. f[n] = f[n - 1] + body[n] * Pow2[Group * (n - 1)]
          BY <2>1, <3>3
        <4> HIDE DEF g
        <4> QED BY <3>3, <4>1, <4>2
      <3> QED BY <3>1, <3>2, <3>3
    <2>3. Unfolds(g, m + 1)
      BY <2>2
    <2> HIDE DEF Unfolds, g
    <2> QED BY <2>3
  <1>3. S = Nat
    <2> HIDE DEF S
    <2> QED BY <1>1, <1>2, SetInduction DEF S
  <1> DEFINE sum == CHOOSE f : Unfolds(f, k)
  <1>4. Joined(body) = sum[k]
    BY DEF Joined
  <1>5. Unfolds(sum, k)
    <2>1. \E f : Unfolds(f, k)
      BY <1>3
    <2> HIDE DEF Unfolds
    <2> QED BY <2>1
  <1> HIDE DEF sum
  <1>6. sum[0] = 0
    BY <1>5
  <1>7. ASSUME NEW n \in Nat, n + 1 <= k
        PROVE  sum[n + 1] = sum[n] + body[n + 1] * Pow2[Group * n]
    <2>1. n + 1 \in 0..k /\ n + 1 # 0 /\ (n + 1) - 1 = n
      BY <1>7
    <2> QED
      BY <1>5, <2>1
  <1> QED
    BY <1>4, <1>6, <1>7

\* The first j groups of a number join to its rest by the place after them.
LEMMA GroupsJoin ==
    ASSUME NEW n \in Nat, NEW k \in 0..Bits,
           NEW body, Len(body) = k,
           \A i \in 1..k : body[i] = (n \div Pow2[Group * (i - 1)]) % Pow2[Group]
    PROVE  Joined(body) = n % Pow2[Group * k]
  <1>1. k \in Nat
    OBVIOUS
  <1>3. PICK f : /\ Joined(body) = f[k]
                 /\ f[0] = 0
                 /\ \A m \in Nat : m + 1 <= k =>
                        f[m + 1] = f[m] + body[m + 1] * Pow2[Group * m]
    BY <1>1, JoinedUnfolds
  <1>4. ASSUME NEW m \in Nat, m <= k PROVE Group * m \in Exponents
    <2>1. Group * m <= Group * Bits
      BY <1>4, Widths, ProductIsMonotone
    <2>2. Group * m \in Nat
      BY Widths
    <2> QED BY <2>1, <2>2, Widths DEF Exponents
  <1> DEFINE S == {m \in Nat : m <= k => f[m] = n % Pow2[Group * m]}
  <1>5. 0 \in S
    <2>1. Group * 0 = 0 /\ Pow2[0] = 1
      BY Widths, Pow2Doubles
    <2>2. n % 1 = 0
      OBVIOUS
    <2> QED BY <1>3, <2>1, <2>2
  <1>6. ASSUME NEW m \in S PROVE m + 1 \in S
    <2> SUFFICES ASSUME m + 1 <= k PROVE f[m + 1] = n % Pow2[Group * (m + 1)]
      OBVIOUS
    <2> DEFINE p == Pow2[Group * m]
               b == Pow2[Group]
    <2>1. m \in Nat /\ m <= k /\ f[m] = n % p
      BY <1>1
    <2>2. Group * (m + 1) = Group * m + Group /\ Group * m \in Nat
      BY <2>1, Widths
    <2>3. Pow2[Group * (m + 1)] = p * b
      <3>1. Group * m + Group \in Exponents
        BY <1>4, <2>2
      <3>2. Pow2[Group * m + Group] = p * b
        BY <2>2, <3>1, Pow2OfSum, Widths
      <3> QED
        BY <2>2, <3>2
    <2>4. p \in Nat \ {0} /\ b \in Nat \ {0}
      BY <1>4, <2>1, Pow2IsPositive, Widths DEF Exponents
    <2>5. body[m + 1] = (n \div p) % b
      <3>1. m + 1 \in 1..k /\ (m + 1) - 1 = m
        BY <2>1
      <3> QED BY <3>1
    <2>6. f[m + 1] = f[m] + body[m + 1] * p
      BY <1>3, <2>1
    <2> HIDE DEF p, b
    <2>7. (n \div p) % b \in Int
      <3>1. n \div p \in Int
        BY <2>4, Division
      <3> QED BY <2>4, <3>1, Division
    <2>8. ((n \div p) % b) * p = p * ((n \div p) % b)
      BY <2>4, <2>7
    <2>9. n % (p * b) = (n % p) + p * ((n \div p) % b)
      BY <2>4, Digits
    <2> QED
      BY <2>1, <2>3, <2>5, <2>6, <2>8, <2>9
  <1>7. S = Nat
    <2> HIDE DEF S
    <2> QED BY <1>5, <1>6, SetInduction DEF S
  <1>8. f[k] = n % Pow2[Group * k]
    BY <1>1, <1>7
  <1> QED
    BY <1>3, <1>8

\* What encode_varint writes is short enough to be read, in groups that fit,
\* and stands for the value modulo 2^64.
LEMMA EncodedVarint ==
    ASSUME NEW v \in Int
    PROVE  /\ EncodeVarint(v) \in Seq(0..(Pow2[Group] - 1))
           /\ Len(EncodeVarint(v)) \in 1..Bits
           /\ Group * (Len(EncodeVarint(v)) - 1) <= Bits - 1
           /\ Joined(EncodeVarint(v)) = v % Modulus
  <1> DEFINE n == v % Modulus
             enough == {k \in 1..Bits : n < Pow2[Group * k]}
             groups == Min(enough)
             digit(i) == (n \div Pow2[Group * (i - 1)]) % Pow2[Group]
             body == [i \in 1..groups |-> digit(i)]
  <1>1. EncodeVarint(v) = body
    BY DEF EncodeVarint
  <1>2. Modulus \in Nat \ {0} /\ Modulus = Pow2[Bits] /\ Bits \in Exponents
    BY Widths, Pow2IsPositive DEF Modulus, Exponents
  <1>3. n \in Nat /\ n < Modulus
    <2>1. v % Modulus \in 0..(Modulus - 1)
      BY <1>2, Division
    <2> QED BY <1>2, <2>1
  <1> HIDE DEF n
  <1>4. \A k \in 0..Bits : Group * k \in Exponents
    <2> SUFFICES ASSUME NEW k \in 0..Bits PROVE Group * k \in Exponents
      OBVIOUS
    <2>1. Group * k <= Group * Bits
      BY Widths, ProductIsMonotone
    <2> QED BY <2>1, Widths DEF Exponents
  <1>5. Bits \in enough
    <2>1. Pow2[Bits] <= Pow2[Group * Bits]
      BY <1>2, <1>4, Pow2IsMonotone, Widths
    <2>2. Pow2[Bits] \in Nat /\ Pow2[Group * Bits] \in Nat
      BY <1>2, <1>4, Pow2IsPositive, Widths
    <2> QED BY <1>2, <1>3, <2>1, <2>2, Widths
  <1>6. groups \in enough /\ \A k \in enough : groups <= k
    <2>1. enough \in SUBSET Nat
      OBVIOUS
    <2> HIDE DEF enough
    <2> QED BY <1>5, <2>1, MinOfNats
  <1> HIDE DEF groups
  <1>7. groups \in 1..Bits /\ groups \in Nat /\ n < Pow2[Group * groups]
    BY <1>6, Widths
  <1>8. Group * (groups - 1) <= Bits - 1
    <2>1. CASE groups = 1
      BY <2>1, Widths
    <2>2. CASE groups # 1
      <3>1. groups - 1 \in 1..Bits /\ groups - 1 \notin enough
        <4>1. groups - 1 \in 1..Bits /\ ~(groups <= groups - 1)
          BY <1>7, <2>2, Widths
        <4> HIDE DEF enough
        <4> QED BY <1>6, <4>1
      <3>2. Group * (groups - 1) \in Exponents
        BY <1>4, <3>1
      <3>3. ~(n < Pow2[Group * (groups - 1)])
        BY <3>1
      <3>4. Pow2[Group * (groups - 1)] \in Nat
        BY <3>2, Pow2IsPositive
      <3>5. ~(Bits <= Group * (groups - 1))
        BY <1>2, <1>3, <3>2, <3>3, <3>4, Pow2IsMonotone
      <3> QED
        BY <3>2, <3>5, Widths DEF Exponents
    <2> QED BY <2>1, <2>2
  <1>9. \A i \in 1..groups : digit(i) \in 0..(Pow2[Group] - 1)
    <2> SUFFICES ASSUME NEW i \in 1..groups PROVE digit(i) \in 0..(Pow2[Group] - 1)
      OBVIOUS
    <2>1. Pow2[Group * (i - 1)] \in Nat \ {0}
      <3>1. i - 1 \in 0..Bits
        BY <1>7, Widths
      <3> QED BY <1>4, <3>1, Pow2IsPositive
    <2> DEFINE p == Pow2[Group * (i - 1)]
               q == n \div p
    <2>2. Pow2[Group] \in Nat \ {0}
      BY Pow2IsPositive, Widths DEF Exponents
    <2>3. q \in Int
      <3>1. p \in Nat \ {0}
        BY <2>1
      <3> HIDE DEF p
      <3> QED BY <1>3, <3>1, Division
    <2>4. q % Pow2[Group] \in 0..(Pow2[Group] - 1)
      <3> HIDE DEF q
      <3> QED BY <2>2, <2>3, Division
    <2> QED
      BY <2>4
  <1>10. body \in Seq(0..(Pow2[Group] - 1)) /\ Len(body) = groups
    <2> DEFINE D == 0..(Pow2[Group] - 1)
    <2>1. body \in [1..groups -> D]
      <3> HIDE DEF digit
      <3> QED BY <1>9
    <2> HIDE DEF body, D
    <2>2. body \in Seq(D) /\ Len(body) = groups
      BY <1>7, <2>1
    <2> QED
      BY <2>2 DEF D
  <1>11. \A i \in 1..groups : body[i] = digit(i)
    <2> HIDE DEF digit
    <2> QED OBVIOUS
  <1> HIDE DEF body, enough
  <1>12. Joined(body) = n % Pow2[Group * groups]
    <2>1. groups \in 0..Bits
      BY <1>7
    <2> QED
      BY <1>3, <1>10, <1>11, <2>1, GroupsJoin
  <1>13. n % Pow2[Group * groups] = n
    <2>1. Pow2[Group * groups] \in Nat \ {0}
      BY <1>4, <1>7, Pow2IsPositive
    <2>2. n = Pow2[Group * groups] * 0 + n /\ n \in 0..(Pow2[Group * groups] - 1)
      BY <1>3, <1>7, <2>1
    <2> QED BY <1>3, <2>1, <2>2, RemainderIsUnique
  <1> QED
    BY <1>1, <1>7, <1>8, <1>10, <1>12, <1>13 DEF n

\* Every integer is read back as it was written, modulo 2^64: no varint that
\* encode_varint writes is too long for decode_varint.
THEOREM VarintsRoundTrip ==
    ASSUME NEW v \in Int
    PROVE  DecodeVarint(EncodeVarint(v)) = Return(v % Modulus)
  <1> DEFINE body == EncodeVarint(v)
  <1>1. /\ body \in Seq(0..(Pow2[Group] - 1)) /\ Len(body) \in 1..Bits
        /\ Group * (Len(body) - 1) <= Bits - 1
        /\ Joined(body) = v % Modulus
    BY EncodedVarint
  <1> HIDE DEF body
  <1>2. body # Cut
    <2>1. body \in Seq(Nat)
      BY <1>1, SeqMonotonic, Pow2IsPositive, Widths DEF Exponents
    <2> QED BY <2>1, CutAssumption
  <1>3. Modulus \in Nat \ {0}
    BY Widths, Pow2IsPositive DEF Modulus, Exponents
  <1>4. (v % Modulus) % Modulus = v % Modulus
    <2>1. v % Modulus \in 0..(Modulus - 1)
      BY <1>3, Division
    <2> DEFINE n == v % Modulus
    <2> HIDE DEF n
    <2>2. n = Modulus * 0 + n
      BY <1>3, <2>1 DEF n
    <2>3. n % Modulus = n
      BY <1>3, <2>1, <2>2, RemainderIsUnique DEF n
    <2> QED BY <2>3 DEF n
  <1>5. ~(Group * (Len(body) - 1) > Bits - 1)
    BY <1>1, Widths
  <1>6. DecodeVarint(body) = Return(Joined(body) % Modulus)
    BY <1>2, <1>5 DEF DecodeVarint
  <1>7. DecodeVarint(body) = Return(v % Modulus)
    BY <1>1, <1>4, <1>6
  <1> QED
    BY <1>7 DEF body

\* And every integer of 64 bits with its sign.
THEOREM SignedVarintsRoundTrip ==
    ASSUME NEW v \in Int, Fits(v, Bits)
    PROVE  Then(DecodeVarint(EncodeVarint(v)), ToSigned) = Return(v)
  <1>1. Modulus \in Nat \ {0} /\ Modulus = Pow2[Bits]
    BY Widths, Pow2IsPositive DEF Modulus, Exponents
  <1>2. -Modulus <= 2 * v /\ 2 * v < Modulus
    BY <1>1 DEF Fits
  <1>3. v % Modulus = IF v >= 0 THEN v ELSE v + Modulus
    <2>1. CASE v >= 0
      <3>1. v \in 0..(Modulus - 1) /\ v = Modulus * 0 + v
        BY <1>1, <1>2, <2>1
      <3>2. v % Modulus = v
        BY <1>1, <3>1, RemainderIsUnique
      <3> QED BY <2>1, <3>2
    <2>2. CASE v < 0
      <3> DEFINE r == v + Modulus
      <3>1. r \in 0..(Modulus - 1) /\ v = Modulus * (-1) + r
        BY <1>1, <1>2, <2>2
      <3>2. v % Modulus = r
        <4> HIDE DEF r
        <4>1. -1 \in Int
          OBVIOUS
        <4> QED BY <1>1, <3>1, <4>1, RemainderIsUnique
      <3> QED BY <2>2, <3>2
    <2> QED BY <2>1, <2>2
  <1>4. ToSigned(v % Modulus) = v
    BY <1>1, <1>2, <1>3 DEF ToSigned
  <1>5. DecodeVarint(EncodeVarint(v)) = Return(v % Modulus)
    BY VarintsRoundTrip
  <1>6. DecodeVarint(EncodeVarint(v)).ok /\ DecodeVarint(EncodeVarint(v)).val = v % Modulus
    BY <1>5 DEF Return
  <1> QED
    BY <1>4, <1>6 DEF Then

\* Groups stand for a natural number.
LEMMA JoinedIsNat ==
    ASSUME NEW body \in Seq(Nat), Group * (Len(body) - 1) <= Bits - 1
    PROVE  Joined(body) \in Nat
  <1> DEFINE k == Len(body)
  <1>1. k \in Nat
    OBVIOUS
  <1>2. PICK f : /\ Joined(body) = f[k]
                 /\ f[0] = 0
                 /\ \A n \in Nat : n + 1 <= k => f[n + 1] = f[n] + body[n + 1] * Pow2[Group * n]
    BY <1>1, JoinedUnfolds
  <1> DEFINE P == {n \in Nat : n <= k => f[n] \in Nat}
  <1>3. 0 \in P
    BY <1>2
  <1>4. ASSUME NEW n \in P PROVE n + 1 \in P
    <2> SUFFICES ASSUME n + 1 <= k PROVE f[n + 1] \in Nat
      OBVIOUS
    <2>1. n \in Nat /\ f[n] \in Nat
      BY <1>1
    <2>2. Group * n <= Group * (k - 1)
      <3>1. n \in Int /\ k - 1 \in Int /\ n <= k - 1
        BY <1>1, <2>1
      <3> HIDE DEF k
      <3> QED BY <3>1, Widths, ProductIsMonotone
    <2>3. Group * n \in Exponents
      <3>1. Group * n \in Nat
        BY <2>1, Widths
      <3>2. Group * (k - 1) <= Bits - 1
        OBVIOUS
      <3>3. Group * (k - 1) \in Int
        BY <1>1, Widths
      <3> HIDE DEF k
      <3> QED BY <2>2, <3>1, <3>2, <3>3, Widths DEF Exponents
    <2>4. Pow2[Group * n] \in Nat
      BY <2>3, Pow2IsPositive
    <2>5. body[n + 1] \in Nat
      BY <2>1
    <2>6. body[n + 1] * Pow2[Group * n] \in Nat
      BY <2>4, <2>5
    <2> QED
      BY <1>2, <2>1, <2>6
  <1>5. P = Nat
    <2> HIDE DEF P
    <2> QED BY <1>3, <1>4, SetInduction DEF P
  <1> QED
    BY <1>1, <1>2, <1>5

\* What decode_varint accepts is an unsigned integer of 64 bits, whatever the
\* groups hold, and to_signed64 makes of it one that encode_varint takes back.
THEOREM DecodedIntegersFit ==
    ASSUME NEW body \in Seq(Nat), DecodeVarint(body).ok
    PROVE  /\ DecodeVarint(body).val \in 0..(Modulus - 1)
           /\ Fits(ToSigned(DecodeVarint(body).val), Bits)
  <1>1. /\ Group * (Len(body) - 1) <= Bits - 1
        /\ DecodeVarint(body).val = Joined(body) % Modulus
    BY Widths DEF DecodeVarint, Raise, Return
  <1>2. Modulus \in Nat \ {0} /\ Modulus = Pow2[Bits]
    BY Widths, Pow2IsPositive DEF Modulus, Exponents
  <1>3. Joined(body) % Modulus \in 0..(Modulus - 1)
    <2>1. Joined(body) \in Nat
      BY <1>1, JoinedIsNat
    <2> DEFINE j == Joined(body)
    <2>2. j \in Int
      BY <2>1
    <2> HIDE DEF j
    <2>3. j % Modulus \in 0..(Modulus - 1)
      BY <1>2, <2>2, Division
    <2> QED BY <2>3 DEF j
  <1> DEFINE val == DecodeVarint(body).val
  <1>4. val \in 0..(Modulus - 1)
    BY <1>1, <1>3
  <1> HIDE DEF val
  <1>5. ToSigned(val) = IF 2 * val >= Modulus THEN val - Modulus ELSE val
    BY DEF ToSigned
  <1>6. 2 * ToSigned(val) \in (-Modulus)..(Modulus - 1)
    BY <1>2, <1>4, <1>5
  <1> QED
    BY <1>2, <1>4, <1>6 DEF Fits, val

\* Another encoder may pad a varint, as long as it is not too long.
THEOREM PaddingIsHarmless ==
    ASSUME NEW body \in Seq(Nat), Group * Len(body) <= Bits - 1
    PROVE  DecodeVarint(Append(body, 0)) = DecodeVarint(body)
  <1> DEFINE k == Len(body)
             padded == Append(body, 0)
  <1>1. /\ k \in Nat /\ padded \in Seq(Nat) /\ Len(padded) = k + 1
        /\ padded[k + 1] = 0 /\ \A n \in 1..k : padded[n] = body[n]
    BY AppendProperties
  <1> HIDE DEF padded
  <1>2. PICK f : /\ Joined(body) = f[k]
                 /\ f[0] = 0
                 /\ \A n \in Nat : n + 1 <= k => f[n + 1] = f[n] + body[n + 1] * Pow2[Group * n]
    BY <1>1, JoinedUnfolds
  <1>3. PICK g : /\ Joined(padded) = g[k + 1]
                 /\ g[0] = 0
                 /\ \A n \in Nat : n + 1 <= k + 1 => g[n + 1] = g[n] + padded[n + 1] * Pow2[Group * n]
    BY <1>1, JoinedUnfolds
  <1> DEFINE P == {n \in Nat : n <= k => g[n] = f[n]}
  <1>4. 0 \in P
    BY <1>2, <1>3
  <1>5. ASSUME NEW n \in P PROVE n + 1 \in P
    <2> SUFFICES ASSUME n + 1 <= k PROVE g[n + 1] = f[n + 1]
      OBVIOUS
    <2>1. n \in Nat /\ g[n] = f[n] /\ padded[n + 1] = body[n + 1]
      BY <1>1
    <2>2. n + 1 <= k + 1
      BY <1>1, <2>1
    <2> QED
      BY <1>2, <1>3, <2>1, <2>2
  <1>6. P = Nat
    <2> HIDE DEF P
    <2> QED BY <1>4, <1>5, SetInduction DEF P
  <1> HIDE DEF k
  <1>7. Group * (k - 1) <= Bits - 1
    <2>1. Group * (k - 1) = Group * k - Group /\ Group * k \in Int
      BY <1>1, Widths
    <2> QED BY <2>1, Widths DEF k
  <1>8. Joined(padded) = Joined(body)
    <2>1. Joined(body) \in Nat /\ Joined(body) = f[k]
      BY <1>2, <1>7, JoinedIsNat DEF k
    <2>2. g[k] = f[k]
      BY <1>1, <1>6
    <2>3. Group * k \in Exponents
      <3>1. Group * k \in Nat
        BY <1>1, Widths
      <3>2. Group * k <= Bits - 1
        BY DEF k
      <3> DEFINE e == Group * k
      <3>3. e \in Nat /\ e <= Bits - 1
        BY <3>1, <3>2
      <3> HIDE DEF e
      <3>4. e \in Exponents
        BY <3>3, Widths DEF Exponents
      <3> QED BY <3>4 DEF e
    <2>4. Pow2[Group * k] \in Nat
      BY <2>3, Pow2IsPositive
    <2>5. g[k + 1] = g[k] + 0 * Pow2[Group * k]
      BY <1>1, <1>3
    <2> QED
      BY <1>3, <2>1, <2>2, <2>4, <2>5
  <1>9. body # Cut /\ padded # Cut
    BY <1>1, CutAssumption
  <1>10. DecodeVarint(body) = Return(Joined(body) % Modulus)
    BY <1>1, <1>7, <1>9, Widths DEF DecodeVarint, k
  <1>11. DecodeVarint(padded) = Return(Joined(padded) % Modulus)
    <2>1. ~(Group * (Len(padded) - 1) > Bits - 1)
      <3>1. Len(padded) - 1 = k /\ Group * k \in Int
        BY <1>1, Widths
      <3> QED BY <3>1, Widths DEF k
    <2> QED BY <1>9, <2>1 DEF DecodeVarint
  <1> QED
    BY <1>8, <1>10, <1>11 DEF padded
-----------------------------------------------------------------------------
(* Timestamps and durations.                                               *)

\* _decode_seconds_nanos reads one token after the other.
LEMMA ReadingUnfolds ==
    ASSUME NEW tokens, NEW k \in Nat, Len(tokens) = k
    PROVE  \E f : /\ DecodeSecondsNanos(tokens) = f[k]
                  /\ f[0] = Return(<<0, 0>>)
                  /\ \A n \in Nat : n + 1 <= k => f[n + 1] = ReadTime(f[n], tokens[n + 1])
  <1> DEFINE Unfolds(f, m) ==
                 f = [n \in 0..m |-> IF n = 0 THEN Return(<<0, 0>>) ELSE ReadTime(f[n - 1], tokens[n])]
             S == {m \in Nat : \E f : Unfolds(f, m)}
  <1>1. 0 \in S
    <2>1. Unfolds([n \in 0..0 |-> Return(<<0, 0>>)], 0)
      OBVIOUS
    <2> QED BY <2>1
  <1>2. ASSUME NEW m \in S PROVE m + 1 \in S
    <2>1. PICK f : Unfolds(f, m)
      OBVIOUS
    <2> DEFINE g == [n \in 0..(m + 1) |-> IF n = m + 1 THEN ReadTime(f[m], tokens[m + 1]) ELSE f[n]]
    <2>2. ASSUME NEW n \in 0..(m + 1)
          PROVE  g[n] = IF n = 0 THEN Return(<<0, 0>>) ELSE ReadTime(g[n - 1], tokens[n])
      <3>1. CASE n = m + 1
        <4>1. g[n - 1] = f[m] /\ n # 0
          BY <3>1
        <4> QED BY <3>1, <4>1
      <3>2. CASE n = 0
        BY <2>1, <3>2
      <3>3. CASE n \in 1..m
        <4>1. g[n] = f[n] /\ g[n - 1] = f[n - 1]
          BY <3>3
        <4>2. f[n] = ReadTime(f[n - 1], tokens[n])
          BY <2>1, <3>3
        <4> HIDE DEF g
        <4> QED BY <3>3, <4>1, <4>2
      <3> QED BY <3>1, <3>2, <3>3
    <2>3. Unfolds(g, m + 1)
      BY <2>2
    <2> HIDE DEF Unfolds, g
    <2> QED BY <2>3
  <1>3. S = Nat
    <2> HIDE DEF S
    <2> QED BY <1>1, <1>2, SetInduction DEF S
  <1> DEFINE read == CHOOSE f : Unfolds(f, k)
  <1>4. DecodeSecondsNanos(tokens) = read[k]
    BY DEF DecodeSecondsNanos
  <1>5. Unfolds(read, k)
    <2>1. \E f : Unfolds(f, k)
      BY <1>3
    <2> HIDE DEF Unfolds
    <2> QED BY <2>1
  <1> HIDE DEF read
  <1>6. read[0] = Return(<<0, 0>>)
    BY <1>5
  <1>7. ASSUME NEW n \in Nat, n + 1 <= k
        PROVE  read[n + 1] = ReadTime(read[n], tokens[n + 1])
    <2>1. n + 1 \in 0..k /\ n + 1 # 0 /\ (n + 1) - 1 = n
      BY <1>7
    <2> QED
      BY <1>5, <2>1
  <1> QED
    BY <1>4, <1>6, <1>7

\* The token of a number puts it in its place.
LEMMA NumberIsRead ==
    ASSUME NEW a \in Int, NEW b \in Int, NEW v \in Int, Fits(v, Bits)
    PROVE  /\ ReadTime(Return(<<a, b>>), Token(1, VARINT, EncodeVarint(v))) = Return(<<v, b>>)
           /\ ReadTime(Return(<<a, b>>), Token(2, VARINT, EncodeVarint(v))) = Return(<<a, v>>)
  <1>1. Then(DecodeVarint(EncodeVarint(v)), ToSigned) = Return(v)
    BY SignedVarintsRoundTrip
  <1>2. /\ DecodeVarint(EncodeVarint(v)).ok
        /\ ToSigned(DecodeVarint(EncodeVarint(v)).val) = v
    BY <1>1 DEF Then, Return, Raise
  <1>3. ASSUME NEW num \in {1, 2}
        PROVE  ReadTime(Return(<<a, b>>), Token(num, VARINT, EncodeVarint(v)))
                   = Return([<<a, b>> EXCEPT ![num] = v])
    <2> DEFINE t == Token(num, VARINT, EncodeVarint(v))
               st == Return(<<a, b>>)
    <2>1. t.num = num /\ t.wt = VARINT /\ t.body = EncodeVarint(v) /\ DecodeTag(t).ok
      BY DEF Token, DecodeTag, Return
    <2>2. st.ok /\ st.val = <<a, b>>
      BY DEF Return
    <2> HIDE DEF t, st
    <2>3. ReadTime(st, t) = Then(DecodeVarint(t.body), LAMBDA raw : [st.val EXCEPT ![t.num] = ToSigned(raw)])
      BY <2>1, <2>2 DEF ReadTime
    <2>4. ReadTime(st, t) = Return([st.val EXCEPT ![t.num] = ToSigned(DecodeVarint(t.body).val)])
      BY <1>2, <2>1, <2>3 DEF Then
    <2> QED
      BY <1>2, <2>1, <2>2, <2>4 DEF t, st
  <1>4. [<<a, b>> EXCEPT ![1] = v] = <<v, b>> /\ [<<a, b>> EXCEPT ![2] = v] = <<a, v>>
    OBVIOUS
  <1> QED
    BY <1>3, <1>4

\* A zero is not written, and reads as zero.
LEMMA SecondsNanosRoundTrip ==
    ASSUME NEW seconds \in Int, NEW nanos \in Int, Fits(seconds, Bits), Fits(nanos, Bits)
    PROVE  DecodeSecondsNanos(EncodeSecondsNanos(seconds, nanos)) = Return(<<seconds, nanos>>)
  <1> DEFINE first  == Token(1, VARINT, EncodeVarint(seconds))
             second == Token(2, VARINT, EncodeVarint(nanos))
             tokens == EncodeSecondsNanos(seconds, nanos)
  <1>1. tokens = (IF seconds = 0 THEN <<>> ELSE <<first>>) \o (IF nanos = 0 THEN <<>> ELSE <<second>>)
    BY DEF EncodeSecondsNanos
  <1>2. /\ \A a, b \in Int : ReadTime(Return(<<a, b>>), first) = Return(<<seconds, b>>)
        /\ \A a, b \in Int : ReadTime(Return(<<a, b>>), second) = Return(<<a, nanos>>)
    BY NumberIsRead
  <1> HIDE DEF first, second, tokens
  <1>3. CASE seconds = 0 /\ nanos = 0
    <2>1. Len(tokens) = 0
      BY <1>1, <1>3
    <2>2. DecodeSecondsNanos(tokens) = Return(<<0, 0>>)
      BY <2>1, ReadingUnfolds
    <2> QED BY <1>3, <2>2 DEF tokens
  <1>4. CASE seconds # 0 /\ nanos = 0
    <2>1. Len(tokens) = 1 /\ tokens[1] = first
      BY <1>1, <1>4
    <2>2. DecodeSecondsNanos(tokens) = ReadTime(Return(<<0, 0>>), first)
      <3>0. 1 \in Nat
        OBVIOUS
      <3>1. PICK f : /\ DecodeSecondsNanos(tokens) = f[1]
                     /\ f[0] = Return(<<0, 0>>)
                     /\ \A n \in Nat : n + 1 <= 1 => f[n + 1] = ReadTime(f[n], tokens[n + 1])
        BY <2>1, <3>0, ReadingUnfolds, Zenon
      <3>2. f[0 + 1] = ReadTime(f[0], tokens[0 + 1])
        BY <3>1
      <3> QED BY <2>1, <3>1, <3>2
    <2> QED BY <1>2, <1>4, <2>2 DEF tokens
  <1>5. CASE seconds = 0 /\ nanos # 0
    <2>1. Len(tokens) = 1 /\ tokens[1] = second
      BY <1>1, <1>5
    <2>2. DecodeSecondsNanos(tokens) = ReadTime(Return(<<0, 0>>), second)
      <3>0. 1 \in Nat
        OBVIOUS
      <3>1. PICK f : /\ DecodeSecondsNanos(tokens) = f[1]
                     /\ f[0] = Return(<<0, 0>>)
                     /\ \A n \in Nat : n + 1 <= 1 => f[n + 1] = ReadTime(f[n], tokens[n + 1])
        BY <2>1, <3>0, ReadingUnfolds, Zenon
      <3>2. f[0 + 1] = ReadTime(f[0], tokens[0 + 1])
        BY <3>1
      <3> QED BY <2>1, <3>1, <3>2
    <2> QED BY <1>2, <1>5, <2>2 DEF tokens
  <1>6. CASE seconds # 0 /\ nanos # 0
    <2>1. Len(tokens) = 2 /\ tokens[1] = first /\ tokens[2] = second
      BY <1>1, <1>6
    <2>2. DecodeSecondsNanos(tokens) = ReadTime(ReadTime(Return(<<0, 0>>), first), second)
      <3>0. 2 \in Nat
        OBVIOUS
      <3>1. PICK f : /\ DecodeSecondsNanos(tokens) = f[2]
                     /\ f[0] = Return(<<0, 0>>)
                     /\ \A n \in Nat : n + 1 <= 2 => f[n + 1] = ReadTime(f[n], tokens[n + 1])
        BY <2>1, <3>0, ReadingUnfolds, Zenon
      <3>2. f[0 + 1] = ReadTime(f[0], tokens[0 + 1]) /\ f[1 + 1] = ReadTime(f[1], tokens[1 + 1])
        BY <3>1
      <3> QED BY <2>1, <3>1, <3>2
    <2>3. ReadTime(Return(<<0, 0>>), first) = Return(<<seconds, 0>>)
      BY <1>2
    <2>4. ReadTime(Return(<<seconds, 0>>), second) = Return(<<seconds, nanos>>)
      BY <1>2
    <2> QED BY <2>2, <2>3, <2>4 DEF tokens
  <1> QED
    BY <1>3, <1>4, <1>5, <1>6

\* Less than a second of nanos, of either sign, fits; whole microseconds come
\* back from them.
LEMMA NanosFit ==
    ASSUME NEW us \in (-(Second - 1))..(Second - 1)
    PROVE  /\ us * Micro \in Int /\ Fits(us * Micro, Bits)
           /\ (us * Micro) \div Micro = us
  <1>1. Second \in Nat \ {0} /\ Micro \in Nat \ {0} /\ us \in Int
    BY TimeAssumption
  <1>2. Modulus \in Nat \ {0} /\ Modulus = Pow2[Bits]
    BY Widths, Pow2IsPositive DEF Modulus, Exponents
  <1> DEFINE p == Micro * us
             q == Micro * Second
  <1>3. Micro * (-Second) <= p /\ p <= Micro * (Second - 1)
    BY <1>1, ProductIsMonotone
  <1>4. Micro * (-Second) = -q /\ Micro * (Second - 1) = q - Micro /\ Second * Micro = q
    BY <1>1
  <1>5. p \in Int /\ q \in Int /\ us * Micro = p
    BY <1>1
  <1>6. 2 * q <= Modulus
    BY <1>4, TimeAssumption
  <1>7. p \div Micro = us
    <2>1. (Micro * us + 0) \div Micro = us
      BY <1>1, DivisionIsUnique
    <2>2. Micro * us + 0 = p
      BY <1>1
    <2> QED BY <2>1, <2>2
  <1> HIDE DEF p, q
  <1>8. 2 * p \in (-Modulus)..(Modulus - 1)
    BY <1>1, <1>2, <1>3, <1>4, <1>5, <1>6
  <1> QED
    BY <1>2, <1>5, <1>7, <1>8 DEF Fits

\* A timestamp whose seconds fit is read back to the microsecond, before 1970
\* too, where the seconds round down and the nanos count up from them.
THEOREM TimestampsRoundTrip ==
    ASSUME NEW us \in Int, NEW kind, Fits(us \div Second, Bits)
    PROVE  DecodeTime(kind, EncodeTimestamp(us)) = Return(<<kind, us>>)
  <1> DEFINE s == us \div Second
             r == us % Second
  <1>1. s \in Int /\ r \in 0..(Second - 1) /\ us = Second * s + r /\ Second \in Nat \ {0}
    BY TimeAssumption, Division
  <1>2. EncodeTimestamp(us) = EncodeSecondsNanos(s, r * Micro)
    BY DEF EncodeTimestamp
  <1>3. Fits(s, Bits)
    OBVIOUS
  <1> HIDE DEF s, r
  <1>4. r * Micro \in Int /\ Fits(r * Micro, Bits) /\ (r * Micro) \div Micro = r
    BY <1>1, NanosFit
  <1>5. DecodeSecondsNanos(EncodeTimestamp(us)) = Return(<<s, r * Micro>>)
    BY <1>1, <1>2, <1>3, <1>4, SecondsNanosRoundTrip
  <1>6. DecodeTime(kind, EncodeTimestamp(us)) = Return(<<kind, s * Second + (r * Micro) \div Micro>>)
    BY <1>5 DEF DecodeTime, Then, Return
  <1>7. s * Second + r = us
    BY <1>1
  <1> QED
    BY <1>4, <1>6, <1>7

\* And a duration, whose seconds and nanos have its own sign.
THEOREM DurationsRoundTrip ==
    ASSUME NEW us \in Int, NEW kind, Fits(us \div Second, Bits)
    PROVE  DecodeTime(kind, EncodeDuration(us)) = Return(<<kind, us>>)
  <1> DEFINE abs  == IF us < 0 THEN -us ELSE us
             sign == IF us < 0 THEN -1 ELSE 1
             q == abs \div Second
             r == abs % Second
             s == us \div Second
             rest == us % Second
  <1>1. abs \in Nat /\ Second \in Nat \ {0} /\ us = sign * abs /\ (sign = -1 \/ sign = 1)
    BY TimeAssumption
  <1>2. EncodeDuration(us) = EncodeSecondsNanos(sign * q, sign * r * Micro)
    BY DEF EncodeDuration
  <1>3. Fits(s, Bits) /\ s \in Int /\ rest \in 0..(Second - 1) /\ us = Second * s + rest
    BY TimeAssumption, Division
  <1>4. sign = (IF us < 0 THEN -1 ELSE 1) /\ abs = (IF us < 0 THEN -us ELSE us)
    OBVIOUS
  <1> HIDE DEF abs, sign, s, rest
  <1>5. q \in Int /\ r \in 0..(Second - 1) /\ abs = Second * q + r
    <2>1. abs \in Int /\ Second \in Nat \ {0}
      BY <1>1
    <2> QED BY <2>1, Division
  <1> HIDE DEF q, r
  <1>6. q >= 0
    <2> SUFFICES ASSUME q <= -1 PROVE FALSE
      BY <1>5
    <2>1. Second * q <= Second * (-1)
      BY <1>1, <1>5, ProductIsMonotone
    <2> QED BY <1>1, <1>5, <2>1
  <1>7. sign * q \in Int /\ Fits(sign * q, Bits)
    <2>1. Modulus \in Nat \ {0} /\ Modulus = Pow2[Bits]
      BY Widths, Pow2IsPositive DEF Modulus, Exponents
    <2>2. CASE us < 0
      <3>1. s <= -q
        <4> SUFFICES ASSUME -q + 1 <= s PROVE FALSE
          BY <1>3, <1>5
        <4>1. Second * (-q + 1) <= Second * s
          BY <1>1, <1>3, <1>5, ProductIsMonotone
        <4>2. Second * (-q + 1) = -(Second * q) + Second /\ Second * q \in Int /\ Second * s \in Int
          BY <1>1, <1>3, <1>5
        <4>3. -us = Second * q + r
          BY <1>4, <1>5, <2>2
        <4> QED BY <1>1, <1>3, <1>5, <4>1, <4>2, <4>3
      <3>2. sign * q = -q
        BY <1>4, <1>5, <2>2
      <3> QED
        BY <1>3, <1>5, <1>6, <2>1, <3>1, <3>2 DEF Fits
    <2>3. CASE ~(us < 0)
      <3>1. s = q
        <4>1. us = Second * q + r
          BY <1>4, <1>5, <2>3
        <4>2. (Second * q + r) \div Second = q
          BY <1>1, <1>5, DivisionIsUnique
        <4> QED BY <4>1, <4>2 DEF s
      <3>2. sign * q = q
        BY <1>4, <1>5, <2>3
      <3> QED
        BY <1>3, <1>5, <3>1, <3>2
    <2> QED BY <2>2, <2>3
  <1> DEFINE rr == sign * r
  <1>8. rr \in (-(Second - 1))..(Second - 1)
    BY <1>1, <1>5
  <1>9. sign * r * Micro = rr * Micro
    OBVIOUS
  <1> DEFINE sq == sign * q
  <1>10. sq * Second + rr = us
    <2>1. CASE sign = 1
      <3>1. sq = q /\ rr = r /\ us = abs
        BY <1>1, <1>5, <2>1
      <3> HIDE DEF sq, rr
      <3> QED BY <1>1, <1>5, <3>1
    <2>2. CASE sign = -1
      <3>1. sq = -q /\ rr = -r /\ us = -abs
        BY <1>1, <1>5, <2>2
      <3>2. (-q) * Second = -(Second * q) /\ Second * q \in Int
        BY <1>1, <1>5
      <3> HIDE DEF sq, rr
      <3> QED BY <1>1, <1>5, <3>1, <3>2
    <2> QED BY <1>1, <2>1, <2>2
  <1>11. sq \in Int /\ Fits(sq, Bits) /\ EncodeDuration(us) = EncodeSecondsNanos(sq, rr * Micro)
    BY <1>2, <1>7, <1>9
  <1> HIDE DEF rr, sq
  <1>12. rr * Micro \in Int /\ Fits(rr * Micro, Bits) /\ (rr * Micro) \div Micro = rr
    BY <1>8, NanosFit
  <1>13. DecodeSecondsNanos(EncodeDuration(us)) = Return(<<sq, rr * Micro>>)
    BY <1>11, <1>12, SecondsNanosRoundTrip
  <1>14. DecodeTime(kind, EncodeDuration(us)) = Return(<<kind, sq * Second + (rr * Micro) \div Micro>>)
    BY <1>13 DEF DecodeTime, Then, Return
  <1> QED
    BY <1>10, <1>12, <1>14
=============================================================================
