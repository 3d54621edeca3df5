------------------------- MODULE SchemaCheckProofs --------------------------
(***************************************************************************)
(* That check_schema refuses a class only for a fault of its own or of a   *)
(* class it mentions, for any classes, recursive or not, and any number of *)
(* threads.  A walk never leaves a set of classes that mentions nothing    *)
(* outside it: if that set has no fault, the walk meets none.              *)
(*                                                                         *)
(* And that a walk which nothing disturbs enters no class twice, and       *)
(* accepts no hierarchical class that has a fault.                         *)
(***************************************************************************)
EXTENDS SchemaCheck, SequenceTheorems, TLAPS

\* A thread has calls of check_schema as long as its use goes on.
Balanced == \A t \in Thread : Busy(t) <=> stack[t] # <<>>

\* The walk is inside every sound set of classes that its root is in.
Inside == \A t \in Thread : \A S \in SUBSET Class :
    Sound(S) /\ use[t].root \in S =>
        /\ use[t].outcome \notin {"raising", "refused"}
        /\ \A i \in DOMAIN stack[t] : stack[t][i].cls \in S

Inv == TypeOK /\ Balanced /\ Inside
-----------------------------------------------------------------------------
\* A thread in the middle of a use has a topmost call.
LEMMA TopIsFrame ==
    ASSUME TypeOK, Balanced, NEW t \in Thread, Busy(t)
    PROVE  /\ Len(stack[t]) \in DOMAIN stack[t]
           /\ Top(t) \in Frame
           /\ Below(t) \in Seq(Frame)
           /\ Len(Below(t)) = Len(stack[t]) - 1
           /\ \A i \in DOMAIN Below(t) : i \in DOMAIN stack[t] /\ Below(t)[i] = stack[t][i]
<1>1. stack[t] \in Seq(Frame) /\ stack[t] # <<>>
    BY DEF TypeOK, Balanced
<1>2. Len(stack[t]) \in DOMAIN stack[t]
    BY <1>1
<1> QED
    BY <1>1, <1>2 DEF Top, Below

\* Going on within a class changes no class of the stack.
LEMMA AdvancedKeepsClasses ==
    ASSUME TypeOK, Balanced, NEW t \in Thread, Busy(t)
    PROVE  /\ Advanced(t) \in Seq(Frame) /\ Advanced(t) # <<>>
           /\ Len(Advanced(t)) = Len(stack[t])
           /\ \A i \in DOMAIN stack[t] : Advanced(t)[i].cls = stack[t][i].cls
<1> DEFINE next == [Top(t) EXCEPT !.at = @ + 1]
<1>1. next \in Frame /\ next.cls = Top(t).cls
    BY TopIsFrame DEF Frame
<1>2. stack[t] \in Seq(Frame)
    BY DEF TypeOK
<1>3. Advanced(t) = Append(Below(t), next)
    BY DEF Advanced
<1> HIDE DEF next
<1>4. Len(Advanced(t)) = Len(stack[t]) /\ Advanced(t) \in Seq(Frame)
    BY <1>1, <1>2, <1>3, TopIsFrame
<1>5. ASSUME NEW i \in DOMAIN stack[t]
      PROVE  Advanced(t)[i].cls = stack[t][i].cls
    <2>1. CASE i = Len(stack[t])
        BY <1>1, <1>2, <1>3, <2>1, TopIsFrame DEF Top
    <2>2. CASE i # Len(stack[t])
        BY <1>1, <1>2, <1>3, <2>2, TopIsFrame
    <2> QED
        BY <2>1, <2>2
<1> QED
    BY <1>4, <1>5, TopIsFrame

\* Dropping the topmost call keeps the others.
LEMMA BelowIsEmpty ==
    ASSUME TypeOK, Balanced, NEW t \in Thread, Busy(t)
    PROVE  Below(t) = <<>> <=> Len(stack[t]) = 1
<1>1. Below(t) \in Seq(Frame) /\ Len(Below(t)) = Len(stack[t]) - 1
    BY TopIsFrame
<1>2. stack[t] \in Seq(Frame) /\ Len(stack[t]) \in Nat
    BY LenProperties DEF TypeOK
<1>3. Below(t) = <<>> <=> Len(Below(t)) = 0
    BY <1>1, EmptySeq
<1> QED
    BY <1>1, <1>2, <1>3

\* What a step does to one thread: its calls and the outcome of its use.
Outcomes == {"idle", "running", "raising", "accepted", "refused", "failed"}
Becomes(t, s, o) ==
    /\ stack' = [stack EXCEPT ![t] = s]
    /\ use' = [use EXCEPT ![t].outcome = o]

LEMMA BecomesKeeps ==
    ASSUME TypeOK, Balanced, NEW t \in Thread, NEW s \in Seq(Frame), NEW o \in Outcomes,
           Becomes(t, s, o), o \in {"running", "raising"} <=> s # <<>>,
           checked' \subseteq Class, tangled' \in BOOLEAN, UNCHANGED <<undefined, uses>>
    PROVE  TypeOK' /\ Balanced'
<1>1. stack' \in [Thread -> Seq(Frame)] /\ stack'[t] = s
    BY DEF TypeOK, Becomes
<1>2. /\ use' \in [Thread -> [root : Class \cup {Plain}, outcome : Outcomes]]
      /\ use'[t].outcome = o
    BY DEF TypeOK, Becomes, Outcomes
<1>3. \A u \in Thread : u # t => use'[u] = use[u] /\ stack'[u] = stack[u]
    BY DEF TypeOK, Becomes
<1>4. Balanced'
    BY <1>1, <1>2, <1>3 DEF Balanced, Busy
<1>5. undefined' \subseteq Late /\ uses' \in 0..MaxUses
    BY DEF TypeOK
<1> QED
    BY <1>1, <1>2, <1>4, <1>5 DEF TypeOK, Outcomes

\* Every step of a walk keeps the types and the balance.
LEMMA TypesAndBalance ==
    ASSUME TypeOK, Balanced, [Next]_vars
    PROVE  TypeOK' /\ Balanced'
<1> USE DEF Busy
<1>1. ASSUME NEW t \in Thread, NEW c \in Class, Use(t, c)
      PROVE  TypeOK' /\ Balanced'
    <2>1. Push(<<>>, c) \in Seq(Frame) /\ Push(<<>>, c) # <<>>
        BY DEF Push, Frame
    <2>2. stack' \in [Thread -> Seq(Frame)] /\ (stack'[t] = <<>> <=> c \in checked)
        BY <1>1, <2>1 DEF Use, TypeOK
    <2>3. /\ use' \in [Thread -> [root : Class \cup {Plain},
                                  outcome : {"idle", "running", "raising", "accepted", "refused", "failed"}]]
          /\ use'[t].outcome = IF c \in checked THEN "accepted" ELSE "running"
        BY <1>1 DEF Use, TypeOK
    <2>4. uses' \in 0..MaxUses /\ tangled' \in BOOLEAN /\ checked' \subseteq Class /\ undefined' \subseteq Late
        BY <1>1, SchemaCheckAssumption DEF Use, TypeOK
    <2>5. \A u \in Thread : u # t => use'[u] = use[u] /\ stack'[u] = stack[u]
        BY <1>1 DEF Use, TypeOK
    <2> QED
        BY <2>2, <2>3, <2>4, <2>5 DEF TypeOK, Balanced
<1>2. ASSUME NEW t \in Thread, Mark(t)
      PROVE  TypeOK' /\ Balanced'
    BY <1>2, TopIsFrame, AdvancedKeepsClasses DEF Mark, TypeOK, Balanced, Frame
<1>3. ASSUME NEW t \in Thread, Pass(t)
      PROVE  TypeOK' /\ Balanced'
    BY <1>3, AdvancedKeepsClasses DEF Pass, AtLeaf, TypeOK, Balanced
<1>4. ASSUME NEW t \in Thread, Enter(t)
      PROVE  TypeOK' /\ Balanced'
    <2>1. Busy(t)
        BY <1>4 DEF Enter, AtLeaf
    <2>2. [cls |-> Leaf(t), at |-> 0] \in Frame
        BY <1>4 DEF Enter, Frame
    <2>3. Push(Advanced(t), Leaf(t)) \in Seq(Frame) /\ Push(Advanced(t), Leaf(t)) # <<>>
        BY <2>1, <2>2, AdvancedKeepsClasses DEF Push
    <2> QED
        BY <1>4, <2>3 DEF Enter, AtLeaf, TypeOK, Balanced
<1>5. ASSUME NEW t \in Thread, EnterUndefined(t)
      PROVE  TypeOK' /\ Balanced'
    <2>1. Becomes(t, <<>>, "failed") /\ <<>> \in Seq(Frame)
        BY <1>5 DEF EnterUndefined, Becomes
    <2>2. checked' \subseteq Class /\ tangled' \in BOOLEAN /\ UNCHANGED <<undefined, uses>>
        BY <1>5 DEF EnterUndefined, TypeOK
    <2> QED
        BY <2>1, <2>2, BecomesKeeps DEF Outcomes
<1>6. ASSUME NEW t \in Thread, Refuse(t)
      PROVE  TypeOK' /\ Balanced'
    BY <1>6 DEF Refuse, AtLeaf, TypeOK, Balanced
<1>7. ASSUME NEW t \in Thread, Unwind(t)
      PROVE  TypeOK' /\ Balanced'
    <2>1. Busy(t) /\ use[t].outcome = "raising"
        BY <1>7 DEF Unwind
    <2> DEFINE o == IF Len(stack[t]) = 1 THEN "refused" ELSE "raising"
    <2>2. Becomes(t, Below(t), o)
        BY <1>7, <2>1 DEF Unwind, Becomes, TypeOK
    <2>3. Below(t) \in Seq(Frame) /\ (o \in {"running", "raising"} <=> Below(t) # <<>>)
        BY <2>1, TopIsFrame, BelowIsEmpty
    <2>4. checked' \subseteq Class /\ tangled' \in BOOLEAN /\ UNCHANGED <<undefined, uses>>
        BY <1>7 DEF Unwind, TypeOK
    <2>5. o \in Outcomes
        BY DEF Outcomes
    <2> HIDE DEF o
    <2> QED
        BY <2>2, <2>3, <2>4, <2>5, BecomesKeeps
<1>8. ASSUME NEW t \in Thread, Return(t)
      PROVE  TypeOK' /\ Balanced'
    <2>1. Busy(t) /\ use[t].outcome = "running"
        BY <1>8 DEF Return
    <2> DEFINE o == IF Len(stack[t]) = 1 THEN "accepted" ELSE "running"
    <2>2. Becomes(t, Below(t), o)
        BY <1>8, <2>1 DEF Return, Becomes, TypeOK
    <2>3. Below(t) \in Seq(Frame) /\ (o \in {"running", "raising"} <=> Below(t) # <<>>)
        BY <2>1, TopIsFrame, BelowIsEmpty
    <2>4. checked' \subseteq Class /\ tangled' \in BOOLEAN /\ UNCHANGED <<undefined, uses>>
        BY <1>8 DEF Return, TypeOK
    <2>5. o \in Outcomes
        BY DEF Outcomes
    <2> HIDE DEF o
    <2> QED
        BY <2>2, <2>3, <2>4, <2>5, BecomesKeeps
<1>9. ASSUME NEW c \in Class, Define(c)
      PROVE  TypeOK' /\ Balanced'
    BY <1>9 DEF Define, TypeOK, Balanced
<1>10. CASE UNCHANGED vars
    BY <1>10 DEF vars, TypeOK, Balanced
<1> QED
    BY <1>1, <1>2, <1>3, <1>4, <1>5, <1>6, <1>7, <1>8, <1>9, <1>10 DEF Next, Walks

\* What a class in a sound set mentions is in the set, and is not bad.
LEMMA LeafOfSound ==
    ASSUME NEW S \in SUBSET Class, Sound(S), TypeOK, Balanced, NEW t \in Thread,
           AtLeaf(t), Top(t).cls \in S
    PROVE  Leaf(t) # Bad /\ (Leaf(t) \in Class => Leaf(t) \in S)
BY SchemaCheckAssumption DEF Sound, AtLeaf, Leaf

\* No step takes a walk out of a sound set.
LEMMA StaysInside ==
    ASSUME TypeOK, Balanced, Inside, [Next]_vars, NEW u \in Thread, NEW S \in SUBSET Class,
           Sound(S), use'[u].root \in S
    PROVE  /\ use'[u].outcome \notin {"raising", "refused"}
           /\ \A i \in DOMAIN stack'[u] : stack'[u][i].cls \in S
<1> DEFINE Kept == /\ use'[u].outcome \notin {"raising", "refused"}
                   /\ \A i \in DOMAIN stack'[u] : stack'[u][i].cls \in S
<1>0. ASSUME use[u].root \in S
      PROVE  /\ use[u].outcome \notin {"raising", "refused"}
             /\ \A i \in DOMAIN stack[u] : stack[u][i].cls \in S
    BY <1>0 DEF Inside
<1>a. CASE use'[u] = use[u] /\ stack'[u] = stack[u]
    BY <1>a, <1>0
<1>1. ASSUME NEW c \in Class, Use(u, c)
      PROVE  Kept
    <2>1. use'[u].root = c /\ use'[u].outcome \in {"accepted", "running"}
        BY <1>1 DEF Use, TypeOK
    <2>2. stack'[u] = <<>> \/ stack'[u] = <<[cls |-> c, at |-> 0]>>
        BY <1>1 DEF Use, TypeOK, Push
    <2> QED
        BY <2>1, <2>2
<1>b. ASSUME Walks(u)
      PROVE  Busy(u) /\ use[u].root \in S /\ Top(u).cls \in S
    <2>1. Busy(u) /\ use'[u].root = use[u].root
        BY <1>b DEF Walks, Mark, Pass, Enter, EnterUndefined, Refuse, Unwind, Return, AtLeaf, Busy, TypeOK
    <2> QED
        BY <1>0, <2>1, TopIsFrame DEF Top
<1>2. CASE Mark(u) \/ Pass(u)
    <2>1. Walks(u) /\ use'[u] = use[u] /\ stack'[u] = Advanced(u)
        BY <1>2 DEF Walks, Mark, Pass, TypeOK
    <2> QED
        BY <1>0, <1>b, <2>1, AdvancedKeepsClasses DEF TypeOK
<1>3. CASE Enter(u)
    <2>1. Walks(u) /\ use'[u] = use[u] /\ stack'[u] = Push(Advanced(u), Leaf(u))
        BY <1>3 DEF Walks, Enter, TypeOK
    <2>2. Leaf(u) \in S
        BY <1>3, <1>b, <2>1, LeafOfSound DEF Enter
    <2>3. \A i \in DOMAIN Advanced(u) : Advanced(u)[i].cls \in S
        BY <1>0, <1>b, <2>1, AdvancedKeepsClasses DEF TypeOK
    <2>4. Advanced(u) \in Seq(Frame)
        BY <1>b, <2>1, AdvancedKeepsClasses
    <2> QED
        BY <1>0, <1>b, <2>1, <2>2, <2>3, <2>4 DEF Push
<1>4. CASE EnterUndefined(u)
    BY <1>4 DEF EnterUndefined, TypeOK
<1>5. CASE Refuse(u)
    BY <1>5, <1>b, LeafOfSound DEF Refuse, Walks
<1>6. CASE Unwind(u)
    BY <1>6, <1>0, <1>b DEF Unwind, Walks
<1>7. CASE Return(u)
    <2>1. Walks(u) /\ use'[u].outcome \notin {"raising", "refused"} /\ stack'[u] = Below(u)
        BY <1>7 DEF Walks, Return, TypeOK
    <2> QED
        BY <1>0, <1>b, <2>1, TopIsFrame
<1>8. ASSUME NEW t \in Thread, t # u, Walks(t) \/ \E c \in Class : Use(t, c)
      PROVE  use'[u] = use[u] /\ stack'[u] = stack[u]
    BY <1>8 DEF Walks, Use, Mark, Pass, Enter, EnterUndefined, Refuse, Unwind, Return, TypeOK
<1>9. CASE UNCHANGED <<use, stack>>
    BY <1>9, <1>a
<1>10. CASE UNCHANGED vars \/ \E c \in Class : Define(c)
    BY <1>9, <1>10 DEF vars, Define
<1> QED
    BY <1>a, <1>1, <1>2, <1>3, <1>4, <1>5, <1>6, <1>7, <1>8, <1>10 DEF Next, Walks

LEMMA InvInit ==
    ASSUME Init
    PROVE  Inv
<1>1. TypeOK
    <2>1. stack \in [Thread -> Seq(Frame)]
        BY EmptySeq DEF Init
    <2>2. use \in [Thread -> [root : Class \cup {Plain}, outcome : Outcomes]]
        BY DEF Init, Outcomes
    <2>3. uses \in 0..MaxUses /\ checked \subseteq Class /\ undefined \subseteq Late
        BY SchemaCheckAssumption DEF Init
    <2>4. tangled \in BOOLEAN
        BY DEF Init
    <2> QED
        BY <2>1, <2>2, <2>3, <2>4 DEF TypeOK, Outcomes
<1>2. \A t \in Thread : stack[t] = <<>> /\ use[t].root = Plain /\ use[t].outcome = "idle"
    BY DEF Init
<1>3. Balanced
    BY <1>2 DEF Balanced, Busy
<1>4. Inside
    BY <1>2, SchemaCheckAssumption DEF Inside
<1> QED
    BY <1>1, <1>3, <1>4 DEF Inv

LEMMA InvNext ==
    ASSUME Inv, [Next]_vars
    PROVE  Inv'
<1>1. TypeOK' /\ Balanced'
    BY TypesAndBalance DEF Inv
<1>2. \A u \in Thread : \A S \in SUBSET Class :
        Sound(S) /\ use'[u].root \in S =>
            /\ use'[u].outcome \notin {"raising", "refused"}
            /\ \A i \in DOMAIN stack'[u] : stack'[u][i].cls \in S
    BY StaysInside DEF Inv
<1>3. Inside'
    BY <1>2 DEF Inside, Sound
<1> QED
    BY <1>1, <1>3 DEF Inv

LEMMA InvHolds == Spec => []Inv
<1>1. Init => Inv
    BY InvInit
<1>2. Inv /\ [Next]_vars => Inv'
    BY InvNext
<1> QED
    BY <1>1, <1>2, PTL DEF Spec

\* The variables keep their types, for any classes and any number of threads.
THEOREM TypeCorrect == Spec => []TypeOK
<1>1. Inv => TypeOK
    BY DEF Inv
<1> QED
    BY <1>1, InvHolds, PTL

\* A class that thrift can express at every depth, recursive or not, is never
\* refused, for any classes and any number of threads using the codec at once.
THEOREM RefusalsAreDue == Spec => []OnlyFaultyRefused
<1>1. Inv => OnlyFaultyRefused
    BY DEF Inv, Inside, OnlyFaultyRefused, Faultless
<1> QED
    BY <1>1, InvHolds, PTL

-----------------------------------------------------------------------------
(***************************************************************************)
(* What an undisturbed walk leaves behind.  With one walk at a time, and   *)
(* none broken off, a hierarchical class that is marked and is not being   *)
(* walked has no fault and mentions only such classes: the set of these is *)
(* sound.  The calls of the walk form a path through the classes; a marked *)
(* class that the walk meets on it again would close a circle.             *)
(***************************************************************************)

Classes(s) == {s[i].cls : i \in DOMAIN s}

\* The hierarchical classes of C that the calls s are done with.
Done(C, s) == {c \in C : Hierarchical(c) /\ c \notin Classes(s)}

\* Each call is for the type that the call below it has reached.
Chained(s) == \A i \in DOMAIN s : i < Len(s) =>
    /\ s[i].at - 1 \in DOMAIN Fields[s[i].cls]
    /\ Fields[s[i].cls][s[i].at - 1] = s[i + 1].cls

Distinct(s) == \A i, j \in DOMAIN s : s[i].cls = s[j].cls => i = j

Marked(s, C) == \A i \in DOMAIN s : s[i].at > 0 => s[i].cls \in C

\* The types a call has passed, but for the one whose call is above it.
PassedBy(s, i, j) == j < s[i].at - 1 \/ (j = s[i].at - 1 /\ i = Len(s))
Passed(s, D) == \A i \in DOMAIN s : Hierarchical(s[i].cls) =>
    \A j \in DOMAIN Fields[s[i].cls] : PassedBy(s, i, j) => Fields[s[i].cls][j] \in D \cup {Plain}

Orderly(s, C, running) ==
    /\ Sound(Done(C, s))
    /\ Chained(s) /\ Distinct(s)
    /\ running => Marked(s, C) /\ Passed(s, Done(C, s))

\* The topmost call goes on to its next field.
Advance(s) == Append(SubSeq(s, 1, Len(s) - 1), [s[Len(s)] EXCEPT !.at = @ + 1])
Drop(s) == SubSeq(s, 1, Len(s) - 1)

Calm ==
    /\ \A t, u \in Thread : Busy(t) /\ Busy(u) => t = u
    /\ (\A t \in Thread : ~Busy(t)) => Orderly(<<>>, checked, FALSE)
    /\ \A t \in Thread : Busy(t) => Orderly(stack[t], checked, use[t].outcome = "running")

Rooted == \A t \in Thread : stack[t] # <<>> => stack[t][1].cls = use[t].root

WalkInv == Inv /\ Rooted /\ (~tangled => Calm) /\ AcceptedIsSound
-----------------------------------------------------------------------------
\* What a hierarchical class mentions is hierarchical.
LEMMA MentionedIsHierarchical ==
    ASSUME NEW c \in Class, Hierarchical(c), NEW d \in Children(c)
    PROVE  Hierarchical(d)
<1>1. PICK S \in SUBSET Class :
        c \in S /\ Closed(S) /\ \A R \in SUBSET S : R # {} => \E e \in R : Children(e) \cap R = {}
    BY DEF Hierarchical
<1>2. d \in S
    BY <1>1 DEF Closed
<1> QED
    BY <1>1, <1>2 DEF Hierarchical

LEMMA FieldIsChild ==
    ASSUME NEW c \in Class, NEW j \in DOMAIN Fields[c], Fields[c][j] \in Class
    PROVE  Fields[c][j] \in Children(c)
BY DEF Children

\* A class in a sound set has no fault.
LEMMA SoundIsFaultless ==
    ASSUME NEW S, Sound(S), NEW c \in S
    PROVE  Faultless(c)
BY DEF Sound, Faultless

LEMMA TopOfStack ==
    ASSUME NEW s \in Seq(Frame), s # <<>>
    PROVE  /\ Len(s) \in Nat \ {0} /\ DOMAIN s = 1..Len(s) /\ Len(s) \in DOMAIN s
           /\ s[Len(s)].cls \in Class /\ s[Len(s)].at \in Nat
           /\ \A i \in DOMAIN s : s[i].cls \in Class /\ s[i].at \in Nat
<1>1. Len(s) \in Nat /\ DOMAIN s = 1..Len(s) /\ Len(s) # 0
    BY LenProperties, EmptySeq
<1>2. \A i \in DOMAIN s : s[i] \in Frame
    BY <1>1, ElementOfSeq
<1> QED
    BY <1>1, <1>2 DEF Frame

LEMMA DropFacts ==
    ASSUME NEW s \in Seq(Frame), s # <<>>
    PROVE  /\ Drop(s) \in Seq(Frame) /\ Len(Drop(s)) = Len(s) - 1 /\ DOMAIN Drop(s) = 1..(Len(s) - 1)
           /\ \A i \in 1..(Len(s) - 1) : Drop(s)[i] = s[i]
<1>1. Len(s) \in Nat \ {0} /\ DOMAIN s = 1..Len(s)
    BY TopOfStack
<1>2. Drop(s) \in Seq(Frame) /\ Len(Drop(s)) = Len(s) - 1 /\ \A i \in 1..(Len(s) - 1) : Drop(s)[i] = s[i]
    BY <1>1, SubSeqProperties DEF Drop
<1> QED
    BY <1>1, <1>2, LenProperties

LEMMA AdvanceFacts ==
    ASSUME NEW s \in Seq(Frame), s # <<>>
    PROVE  /\ Advance(s) \in Seq(Frame) /\ Advance(s) # <<>>
           /\ Len(Advance(s)) = Len(s) /\ DOMAIN Advance(s) = DOMAIN s
           /\ \A i \in 1..(Len(s) - 1) : Advance(s)[i] = s[i]
           /\ Advance(s)[Len(s)].cls = s[Len(s)].cls
           /\ Advance(s)[Len(s)].at = s[Len(s)].at + 1
           /\ \A i \in DOMAIN s : Advance(s)[i].cls = s[i].cls
<1> DEFINE next == [s[Len(s)] EXCEPT !.at = @ + 1]
<1>1. /\ Len(s) \in Nat \ {0} /\ DOMAIN s = 1..Len(s) /\ s[Len(s)] \in Frame
    BY TopOfStack, ElementOfSeq
<1>2. next \in Frame /\ next.cls = s[Len(s)].cls /\ next.at = s[Len(s)].at + 1
    BY <1>1 DEF Frame
<1>3. Advance(s) = Append(Drop(s), next)
    BY DEF Advance, Drop
<1> HIDE DEF next
<1>4. /\ Advance(s) \in Seq(Frame) /\ Len(Advance(s)) = Len(s)
      /\ \A i \in 1..(Len(s) - 1) : Advance(s)[i] = s[i]
      /\ Advance(s)[Len(s)] = next
    <2>1. /\ Drop(s) \in Seq(Frame) /\ Len(Drop(s)) = Len(s) - 1
          /\ \A i \in 1..(Len(s) - 1) : Drop(s)[i] = s[i]
        BY DropFacts
    <2>2. /\ Append(Drop(s), next) \in Seq(Frame) /\ Len(Append(Drop(s), next)) = Len(Drop(s)) + 1
          /\ \A i \in 1..Len(Drop(s)) : Append(Drop(s), next)[i] = Drop(s)[i]
          /\ Append(Drop(s), next)[Len(Drop(s)) + 1] = next
        BY <1>2, <2>1, AppendProperties
    <2> QED
        BY <1>1, <1>3, <2>1, <2>2
<1>5. DOMAIN Advance(s) = DOMAIN s /\ Advance(s) # <<>>
    BY <1>1, <1>4, LenProperties, EmptySeq
<1>6. \A i \in DOMAIN s : i \in 1..(Len(s) - 1) \/ i = Len(s)
    BY <1>1
<1> QED
    BY <1>1, <1>2, <1>4, <1>5, <1>6

\* A marked class that a hierarchical class has come to is not being walked.
LEMMA MetAgainIsDone ==
    ASSUME NEW s \in Seq(Frame), s # <<>>, Chained(s), Hierarchical(s[Len(s)].cls),
           s[Len(s)].at \in DOMAIN Fields[s[Len(s)].cls],
           NEW d \in Class, d = Fields[s[Len(s)].cls][s[Len(s)].at]
    PROVE  d \notin Classes(s) /\ Hierarchical(d)
<1> DEFINE n == Len(s)
           top == s[n].cls
<1>0. n \in Nat \ {0} /\ DOMAIN s = 1..n /\ top \in Class /\ \A i \in DOMAIN s : s[i].cls \in Class
    BY TopOfStack
<1>1. d \in Children(top)
    BY <1>0, FieldIsChild
<1>2. Hierarchical(d)
    BY <1>0, <1>1, MentionedIsHierarchical
<1>3. ASSUME d \in Classes(s)
      PROVE  FALSE
    <2>1. PICK i \in DOMAIN s : s[i].cls = d
        BY <1>3 DEF Classes
    <2>2. PICK S \in SUBSET Class :
            top \in S /\ Closed(S) /\ \A R \in SUBSET S : R # {} => \E e \in R : Children(e) \cap R = {}
        BY DEF Hierarchical
    <2> DEFINE R == {e \in S : \E k \in i..n : s[k].cls = e}
    <2>3. d \in S
        BY <1>1, <2>2 DEF Closed
    <2>4. d \in R
        BY <1>0, <2>1, <2>3
    <2>5. ASSUME NEW e \in R
          PROVE  Children(e) \cap R # {}
        <3>1. PICK k \in i..n : s[k].cls = e
            BY <2>5
        <3>2. CASE k = n
            BY <1>1, <2>4, <3>1, <3>2
        <3>3. CASE k # n
            <4>1. n \in Nat /\ i \in 1..n /\ k \in i..n
                BY <1>0, <2>1, <3>1
            <4>2. k \in 1..n /\ k < n /\ k + 1 \in 1..n /\ k + 1 \in i..n
                BY <4>1, <3>3
            <4>3. k \in DOMAIN s /\ k < n /\ k + 1 \in DOMAIN s /\ k + 1 \in i..n
                BY <1>0, <4>2
            <4>4. s[k + 1].cls \in Children(e)
                BY <1>0, <3>1, <4>3, FieldIsChild DEF Chained
            <4>5. e \in S
                BY <2>5
            <4>6. s[k + 1].cls \in S
                BY <2>2, <4>4, <4>5 DEF Closed
            <4>7. s[k + 1].cls \in R
                BY <4>3, <4>6
            <4> QED
                BY <4>4, <4>7
        <3> QED
            BY <3>2, <3>3
    <2>6. R \in SUBSET S /\ R # {}
        BY <2>4
    <2> HIDE DEF R
    <2> QED
        BY <2>2, <2>5, <2>6
<1> QED
    BY <1>2, <1>3
-----------------------------------------------------------------------------
\* Going on within a class leaves the classes of the walk as they are.
LEMMA SameClasses ==
    ASSUME NEW s \in Seq(Frame), s # <<>>
    PROVE  Classes(Advance(s)) = Classes(s) /\ s[Len(s)].cls \in Classes(s)
<1>1. Len(s) \in DOMAIN s /\ DOMAIN Advance(s) = DOMAIN s
    BY TopOfStack, AdvanceFacts
<1>2. \A i \in DOMAIN s : Advance(s)[i].cls = s[i].cls
    BY AdvanceFacts
<1> QED
    BY <1>1, <1>2 DEF Classes

LEMMA AdvanceKeepsPath ==
    ASSUME NEW s \in Seq(Frame), s # <<>>, Chained(s), Distinct(s)
    PROVE  Chained(Advance(s)) /\ Distinct(Advance(s))
<1> DEFINE a == Advance(s)
           n == Len(s)
<1>1. n \in Nat \ {0} /\ DOMAIN s = 1..n /\ Len(a) = n /\ DOMAIN a = 1..n
    BY TopOfStack, AdvanceFacts
<1>2. (\A i \in 1..(n - 1) : a[i] = s[i]) /\ \A i \in 1..n : a[i].cls = s[i].cls
    BY <1>1, AdvanceFacts
<1> HIDE DEF a, n
<1>3. ASSUME NEW i \in 1..n, i < n
      PROVE  a[i] = s[i] /\ a[i + 1].cls = s[i + 1].cls
    BY <1>1, <1>2, <1>3
<1>4. Chained(a)
    BY <1>1, <1>3 DEF Chained, n
<1>5. Distinct(a)
    BY <1>1, <1>2 DEF Distinct
<1> QED
    BY <1>4, <1>5 DEF a

\* The mark goes to the class the walk has just entered.
LEMMA MarkKeepsOrder ==
    ASSUME NEW s \in Seq(Frame), s # <<>>, NEW C \in SUBSET Class, Orderly(s, C, TRUE),
           s[Len(s)].at = 0
    PROVE  Orderly(Advance(s), C \cup {s[Len(s)].cls}, TRUE)
<1> DEFINE a == Advance(s)
           n == Len(s)
           E == C \cup {s[n].cls}
<1>1. n \in Nat \ {0} /\ DOMAIN s = 1..n /\ Len(a) = n /\ DOMAIN a = 1..n
    BY TopOfStack, AdvanceFacts
<1>2. (\A i \in 1..(n - 1) : a[i] = s[i]) /\ a[n].cls = s[n].cls /\ a[n].at = 1
    BY AdvanceFacts, 0 + 1 = 1
<1>3. Done(E, a) = Done(C, s)
    BY SameClasses DEF Done
<1>4. Chained(a) /\ Distinct(a)
    BY AdvanceKeepsPath DEF Orderly
<1> HIDE DEF a, n
<1>5. \A i \in 1..n : i \in 1..(n - 1) \/ i = n
    BY <1>1
<1>6. Marked(a, E)
    BY <1>1, <1>2, <1>5 DEF Orderly, Marked
<1>7. Passed(a, Done(C, s))
    <2>1. ASSUME NEW i \in 1..(n - 1), NEW j, PassedBy(a, i, j)
          PROVE  PassedBy(s, i, j)
        BY <1>1, <1>2, <2>1 DEF PassedBy, n
    <2>2. ASSUME NEW j \in DOMAIN Fields[a[n].cls], PassedBy(a, n, j)
          PROVE  FALSE
        <3>1. a[n].cls \in Class
            BY <1>1, <1>2, TopOfStack DEF n
        <3>2. j \in Nat \ {0}
            BY <2>2, <3>1, SchemaCheckAssumption
        <3> QED
            BY <1>2, <2>2, <3>2 DEF PassedBy
    <2> QED
        BY <1>1, <1>2, <1>5, <2>1, <2>2 DEF Orderly, Passed
<1> QED
    BY <1>3, <1>4, <1>6, <1>7 DEF Orderly, a, n

\* A type that thrift has, or a class that is marked, is passed.
LEMMA PassKeepsOrder ==
    ASSUME NEW s \in Seq(Frame), s # <<>>, NEW C \in SUBSET Class, Orderly(s, C, TRUE),
           s[Len(s)].at \in DOMAIN Fields[s[Len(s)].cls],
           Fields[s[Len(s)].cls][s[Len(s)].at] \in C \cup {Plain}
    PROVE  Orderly(Advance(s), C, TRUE)
<1> DEFINE a == Advance(s)
           n == Len(s)
           k == s[n].at
           D == Done(C, s)
<1>1. n \in Nat \ {0} /\ DOMAIN s = 1..n /\ Len(a) = n /\ DOMAIN a = 1..n
    BY TopOfStack, AdvanceFacts
<1>2. (\A i \in 1..(n - 1) : a[i] = s[i]) /\ a[n].cls = s[n].cls /\ a[n].at = k + 1
    BY AdvanceFacts
<1>3. Done(C, a) = D
    BY SameClasses DEF Done
<1>4. Chained(a) /\ Distinct(a)
    BY AdvanceKeepsPath DEF Orderly
<1>5. s[n].cls \in Class /\ k \in Nat \ {0}
    BY TopOfStack, SchemaCheckAssumption
<1>6. Hierarchical(s[n].cls) => Fields[s[n].cls][k] \in D \cup {Plain}
    BY MetAgainIsDone DEF Orderly, Done
<1> HIDE DEF a, n, k, D
<1>7. \A i \in 1..n : i \in 1..(n - 1) \/ i = n
    BY <1>1
<1>8. Marked(a, C)
    BY <1>1, <1>2, <1>5, <1>7 DEF Orderly, Marked, k
<1>9. Passed(a, D)
    <2>1. ASSUME NEW i \in 1..(n - 1), NEW j, PassedBy(a, i, j)
          PROVE  PassedBy(s, i, j)
        BY <1>1, <1>2, <2>1 DEF PassedBy, n
    <2>2. ASSUME NEW j \in DOMAIN Fields[s[n].cls], PassedBy(a, n, j)
          PROVE  PassedBy(s, n, j) \/ j = k
        <3>1. j \in Nat \ {0}
            BY <1>5, <2>2, SchemaCheckAssumption
        <3>2. j < k \/ j = k
            BY <1>2, <1>5, <2>2, <3>1 DEF PassedBy
        <3> QED
            BY <1>5, <3>1, <3>2 DEF PassedBy, n, k
    <2> QED
        BY <1>1, <1>2, <1>6, <1>7, <2>1, <2>2 DEF Orderly, Passed, D
<1> QED
    BY <1>3, <1>4, <1>8, <1>9 DEF Orderly, a, D

\* A class that is not marked is entered; it is not on the way already.
LEMMA EnterKeepsOrder ==
    ASSUME NEW s \in Seq(Frame), s # <<>>, NEW C \in SUBSET Class, Orderly(s, C, TRUE),
           s[Len(s)].at \in DOMAIN Fields[s[Len(s)].cls],
           NEW d \in Class \ C, d = Fields[s[Len(s)].cls][s[Len(s)].at]
    PROVE  Orderly(Push(Advance(s), d), C, TRUE)
<1> DEFINE a == Advance(s)
           n == Len(s)
           k == s[n].at
           f == [cls |-> d, at |-> 0]
           p == Push(a, d)
           D == Done(C, s)
<1>1. n \in Nat \ {0} /\ DOMAIN s = 1..n /\ Len(a) = n /\ DOMAIN a = 1..n /\ a \in Seq(Frame)
    BY TopOfStack, AdvanceFacts
<1>2. (\A i \in 1..(n - 1) : a[i] = s[i]) /\ a[n].cls = s[n].cls /\ a[n].at = k + 1
    BY AdvanceFacts
<1>3. \A i \in 1..n : a[i].cls = s[i].cls
    BY <1>1, AdvanceFacts
<1> HIDE DEF a, n, k
<1>4. /\ Len(p) = n + 1 /\ DOMAIN p = 1..(n + 1) /\ p[n + 1].cls = d /\ p[n + 1].at = 0
      /\ \A i \in 1..n : p[i] = a[i]
    <2>1. f \in Frame /\ f.cls = d /\ f.at = 0 /\ p = Append(a, f)
        BY DEF Frame, Push
    <2> HIDE DEF f
    <2>2. Append(a, f) \in Seq(Frame) /\ Len(p) = n + 1 /\ p[n + 1] = f /\ \A i \in 1..n : p[i] = a[i]
        BY <1>1, <2>1, AppendProperties
    <2>3. DOMAIN p = 1..(n + 1)
        BY <2>1, <2>2, LenProperties
    <2> QED
        BY <2>1, <2>2, <2>3
<1> HIDE DEF f, p
<1>5. s[n].cls \in Class /\ k \in Nat \ {0} /\ k \in DOMAIN Fields[s[n].cls]
    BY TopOfStack, SchemaCheckAssumption DEF n, k
<1>6. Chained(a) /\ Distinct(a)
    BY AdvanceKeepsPath DEF Orderly, a
<1>15. p[n].cls = s[n].cls /\ p[n].at - 1 = k
    <2>1. n \in 1..n
        BY <1>1
    <2>2. p[n].at = k + 1
        BY <1>2, <1>4, <2>1
    <2>3. p[n].at - 1 = k
        BY <1>5, <2>2
    <2>4. p[n].cls = s[n].cls
        BY <1>2, <1>4, <2>1
    <2> QED
        BY <2>3, <2>4
<1>7. ASSUME NEW i \in 1..n
      PROVE  s[i].at > 0 /\ s[i].cls \in C
    <2>1. CASE i = n
        BY <1>1, <1>5, <2>1 DEF Orderly, Marked, k
    <2>2. CASE i # n
        <3>1. i \in DOMAIN s /\ i < n
            BY <1>1, <2>2
        <3>2. s[i].cls \in Class /\ s[i].at \in Nat
            BY <3>1, TopOfStack
        <3>3. s[i].at - 1 \in DOMAIN Fields[s[i].cls]
            BY <3>1 DEF Orderly, Chained, n
        <3>4. s[i].at > 0
            BY <3>2, <3>3, SchemaCheckAssumption
        <3> QED
            BY <3>1, <3>4 DEF Orderly, Marked
    <2> QED
        BY <2>1, <2>2
<1>8. Done(C, p) = D
    <2>1. \A c : c \in Classes(p) <=> c \in Classes(s) \/ c = d
        <3>1. \A i \in DOMAIN p : i \in DOMAIN s \/ i = n + 1
            BY <1>1, <1>4
        <3>2. \A i \in DOMAIN s : i \in DOMAIN p /\ p[i].cls = s[i].cls
            BY <1>1, <1>3, <1>4
        <3>3. n + 1 \in DOMAIN p
            BY <1>1, <1>4
        <3>4. ASSUME NEW c \in Classes(p)
              PROVE  c \in Classes(s) \/ c = d
            BY <1>4, <3>1, <3>2, <3>4 DEF Classes
        <3>5. d \in Classes(p) /\ \A c \in Classes(s) : c \in Classes(p)
            BY <1>4, <3>2, <3>3 DEF Classes
        <3> QED
            BY <3>4, <3>5
    <2> QED
        BY <2>1 DEF Done
<1> HIDE DEF D
<1>9. \A i \in 1..(n + 1) : i \in 1..n \/ i = n + 1
    BY <1>1
<1>10. \A i \in 1..n : i \in 1..(n - 1) \/ i = n
    BY <1>1
<1>11. Chained(p)
    <2>1. ASSUME NEW i \in DOMAIN p, i < Len(p)
          PROVE  p[i].at - 1 \in DOMAIN Fields[p[i].cls] /\ Fields[p[i].cls][p[i].at - 1] = p[i + 1].cls
        <3>1. i \in 1..n
            BY <1>1, <1>4, <2>1
        <3>2. CASE i = n
            <4>1. Fields[s[n].cls][k] = d /\ p[i + 1].cls = d
                BY <1>4, <3>2 DEF n, k
            <4> QED
                BY <1>5, <1>15, <3>2, <4>1
        <3>3. CASE i # n
            <4>1. i < Len(a) /\ i \in DOMAIN a /\ i + 1 \in 1..n
                BY <1>1, <3>1, <3>3
            <4> QED
                BY <1>4, <1>6, <3>1, <4>1 DEF Chained
        <3> QED
            BY <3>2, <3>3
    <2> QED
        BY <2>1 DEF Chained
<1>12. Distinct(p)
    <2>1. \A i \in 1..n : p[i].cls = s[i].cls /\ p[i].cls # d
        BY <1>3, <1>4, <1>7
    <2>2. \A i, j \in 1..n : p[i].cls = p[j].cls => i = j
        BY <1>1, <2>1 DEF Orderly, Distinct
    <2> QED
        BY <1>4, <1>9, <2>1, <2>2 DEF Distinct
<1>13. Marked(p, C)
    BY <1>3, <1>4, <1>7, <1>9 DEF Marked
<1>14. Passed(p, D)
    <2>1. ASSUME NEW i \in 1..n, NEW j \in DOMAIN Fields[p[i].cls], PassedBy(p, i, j)
          PROVE  PassedBy(s, i, j)
        <3>1. j < p[i].at - 1
            BY <1>1, <1>4, <2>1 DEF PassedBy
        <3>2. CASE i = n
            <4>1. j \in Nat /\ p[i].at - 1 = k
                BY <1>5, <1>15, <3>2, SchemaCheckAssumption
            <4> QED
                BY <1>5, <3>1, <3>2, <4>1 DEF PassedBy, k, n
        <3>3. CASE i # n
            BY <1>2, <1>4, <1>10, <3>1, <3>3 DEF PassedBy
        <3> QED
            BY <3>2, <3>3
    <2>2. ASSUME NEW j \in DOMAIN Fields[d], PassedBy(p, n + 1, j)
          PROVE  FALSE
        <3>1. j \in Nat \ {0}
            BY <2>2, SchemaCheckAssumption
        <3> QED
            BY <1>4, <2>2, <3>1 DEF PassedBy
    <2>3. \A i \in 1..n : p[i].cls = s[i].cls
        BY <1>3, <1>4
    <2> QED
        BY <1>1, <1>4, <1>9, <2>1, <2>2, <2>3 DEF Orderly, Passed, D
<1> QED
    BY <1>8, <1>11, <1>12, <1>13, <1>14 DEF Orderly, D, p, a

\* A call that ends leaves the path of the others as it is.
LEMMA DropKeepsPath ==
    ASSUME NEW s \in Seq(Frame), s # <<>>, Chained(s), Distinct(s)
    PROVE  /\ Chained(Drop(s)) /\ Distinct(Drop(s))
           /\ \A c : c \in Classes(Drop(s)) <=> c \in Classes(s) /\ c # s[Len(s)].cls
<1> DEFINE b == Drop(s)
           n == Len(s)
<1>1. /\ n \in Nat \ {0} /\ DOMAIN s = 1..n /\ Len(b) = n - 1 /\ DOMAIN b = 1..(n - 1)
      /\ \A i \in 1..(n - 1) : b[i] = s[i]
    BY TopOfStack, DropFacts
<1> HIDE DEF b, n
<1>2. ASSUME NEW i \in 1..(n - 1)
      PROVE  /\ i \in DOMAIN s /\ i < n /\ i # n
             /\ i < n - 1 => (i + 1 \in 1..(n - 1) /\ b[i + 1] = s[i + 1])
    BY <1>1, <1>2
<1>3. Chained(b)
    BY <1>1, <1>2 DEF Chained, n
<1>4. Distinct(b)
    BY <1>1, <1>2 DEF Distinct
<1>5. \A i \in DOMAIN s : i \in 1..(n - 1) \/ i = n
    BY <1>1
<1>6. n \in DOMAIN s
    BY <1>1
<1>7. \A c : c \in Classes(b) <=> c \in Classes(s) /\ c # s[n].cls
    <2>1. ASSUME NEW c \in Classes(b)
          PROVE  c \in Classes(s) /\ c # s[n].cls
        <3>1. PICK i \in 1..(n - 1) : b[i].cls = c
            BY <1>1, <2>1 DEF Classes
        <3>2. i \in DOMAIN s /\ i # n /\ s[i].cls = c
            BY <1>1, <1>2, <3>1
        <3> QED
            BY <1>6, <3>2 DEF Classes, Distinct
    <2>2. ASSUME NEW c \in Classes(s), c # s[n].cls
          PROVE  c \in Classes(b)
        BY <1>1, <1>5, <2>2 DEF Classes
    <2> QED
        BY <2>1, <2>2
<1> QED
    BY <1>3, <1>4, <1>7 DEF b, n

\* A SchemaError takes back the mark of the class it passes.
LEMMA UnwindKeepsOrder ==
    ASSUME NEW s \in Seq(Frame), s # <<>>, NEW C \in SUBSET Class, Orderly(s, C, FALSE)
    PROVE  Orderly(Drop(s), C \ {s[Len(s)].cls}, FALSE)
<1> DEFINE b == Drop(s)
           E == C \ {s[Len(s)].cls}
<1>1. /\ Chained(b) /\ Distinct(b)
      /\ \A c : c \in Classes(b) <=> c \in Classes(s) /\ c # s[Len(s)].cls
    BY DropKeepsPath DEF Orderly
<1>2. s[Len(s)].cls \in Classes(s)
    BY SameClasses
<1> HIDE DEF b
<1>3. Done(E, b) = Done(C, s)
    BY <1>1, <1>2 DEF Done
<1> QED
    BY <1>1, <1>3 DEF Orderly, b

\* A call that has passed all fields of its class is done with it.
LEMMA ReturnKeepsOrder ==
    ASSUME NEW s \in Seq(Frame), s # <<>>, NEW C \in SUBSET Class, Orderly(s, C, TRUE),
           s[Len(s)].at > Len(Fields[s[Len(s)].cls])
    PROVE  /\ Orderly(Drop(s), C, TRUE)
           /\ Hierarchical(s[Len(s)].cls) => s[Len(s)].cls \in Done(C, Drop(s))
<1> DEFINE b == Drop(s)
           n == Len(s)
           top == s[n].cls
           D == Done(C, s)
           E == Done(C, b)
<1>1. /\ n \in Nat \ {0} /\ DOMAIN s = 1..n /\ Len(b) = n - 1 /\ DOMAIN b = 1..(n - 1)
      /\ \A i \in 1..(n - 1) : b[i] = s[i]
    BY TopOfStack, DropFacts
<1>2. /\ Chained(b) /\ Distinct(b)
      /\ \A c : c \in Classes(b) <=> c \in Classes(s) /\ c # top
    BY DropKeepsPath DEF Orderly
<1>3. /\ top \in Class /\ s[n].at \in Nat /\ Len(Fields[top]) \in Nat
      /\ DOMAIN Fields[top] = 1..Len(Fields[top])
    BY TopOfStack, SchemaCheckAssumption
<1>4. \A i \in DOMAIN s : s[i].cls \in Class /\ s[i].at \in Nat
    BY TopOfStack
<1>5. s[n].at > Len(Fields[top])
    OBVIOUS
<1> HIDE DEF b, n
<1>6. n \in DOMAIN s /\ top \in C
    BY <1>1, <1>3, <1>5 DEF Orderly, Marked
<1>7. D \subseteq E /\ (Hierarchical(top) => top \in E)
    BY <1>2, <1>6 DEF Done
<1>8. \A c \in E : c \in D \/ (c = top /\ Hierarchical(top))
    BY <1>2 DEF Done
<1> HIDE DEF top, D, E
<1>9. Hierarchical(top) => \A j \in DOMAIN Fields[top] : Fields[top][j] \in D \cup {Plain}
    <2>1. ASSUME NEW j \in DOMAIN Fields[top]
          PROVE  PassedBy(s, n, j)
        <3>1. j \in Nat /\ j <= Len(Fields[top])
            BY <1>3, <2>1
        <3>2. j < s[n].at - 1 \/ j = s[n].at - 1
            BY <1>3, <1>5, <3>1
        <3> QED
            BY <3>2 DEF PassedBy, n
    <2> QED
        BY <1>6, <2>1 DEF Orderly, Passed, D, top
<1>10. Sound(E)
    <2>1. Sound(D)
        BY DEF Orderly, D
    <2>2. E \subseteq Class
        BY DEF E, Done
    <2> QED
        BY <1>7, <1>8, <1>9, <2>1, <2>2 DEF Sound
<1>11. Marked(b, C)
    BY <1>1 DEF Orderly, Marked
<1>12. Passed(b, E)
    <2>1. ASSUME NEW i \in 1..(n - 1), Hierarchical(s[i].cls), NEW j \in DOMAIN Fields[s[i].cls],
                 PassedBy(b, i, j)
          PROVE  Fields[s[i].cls][j] \in E \cup {Plain}
        <3>1. i \in DOMAIN s /\ i < n /\ i \in Nat
            BY <1>1
        <3>2. b[i] = s[i]
            BY <1>1
        <3>3. CASE j < s[i].at - 1
            BY <1>7, <2>1, <3>1, <3>3 DEF Orderly, Passed, PassedBy, D
        <3>4. CASE j = s[i].at - 1 /\ i = n - 1
            <4>1. i + 1 = n
                BY <1>1, <3>4
            <4>2. Fields[s[i].cls][j] = top
                BY <3>1, <3>4, <4>1 DEF Orderly, Chained, n, top
            <4>3. top \in Children(s[i].cls) /\ s[i].cls \in Class
                BY <1>3, <1>4, <2>1, <3>1, <4>2, FieldIsChild
            <4>4. Hierarchical(top)
                BY <2>1, <4>3, MentionedIsHierarchical
            <4> QED
                BY <1>7, <4>2, <4>4
        <3>5. j < s[i].at - 1 \/ (j = s[i].at - 1 /\ i = n - 1)
            BY <1>1, <2>1, <3>2 DEF PassedBy
        <3> QED
            BY <3>3, <3>4, <3>5
    <2> QED
        BY <1>1, <2>1 DEF Passed
<1> QED
    BY <1>2, <1>7, <1>10, <1>11, <1>12 DEF Orderly, E, b, top, n
-----------------------------------------------------------------------------
\* With no other walk under way, the state of the walk is that of its thread.
LEMMA CalmWalk ==
    ASSUME TypeOK, Balanced, TypeOK', Balanced', Calm, NEW t \in Thread, Busy(t),
           \A u \in Thread : u # t => use'[u] = use[u] /\ stack'[u] = stack[u],
           NEW r \in BOOLEAN, use'[t].outcome = "running" => r,
           Orderly(stack'[t], checked', r)
    PROVE  Calm'
<1>1. \A u \in Thread : Busy(u)' => u = t
    BY DEF Calm, Busy
<1>2. Busy(t)' => Orderly(stack'[t], checked', use'[t].outcome = "running")
    BY DEF Orderly
<1>3. ASSUME ~Busy(t)'
      PROVE  Orderly(<<>>, checked', FALSE)
    <2>1. stack'[t] = <<>>
        BY <1>3 DEF Balanced
    <2> QED
        BY <2>1 DEF Orderly
<1> QED
    BY <1>1, <1>2, <1>3 DEF Calm, Busy

\* A thread that is in the middle of a use when all is calm.
LEMMA CalmThread ==
    ASSUME TypeOK, Balanced, Calm, NEW t \in Thread, Busy(t)
    PROVE  /\ stack[t] \in Seq(Frame) /\ stack[t] # <<>>
           /\ Advanced(t) = Advance(stack[t]) /\ Below(t) = Drop(stack[t])
           /\ Top(t) = stack[t][Len(stack[t])]
           /\ checked \in SUBSET Class
           /\ Orderly(stack[t], checked, FALSE)
           /\ use[t].outcome = "running" => Orderly(stack[t], checked, TRUE)
<1>1. stack[t] \in Seq(Frame) /\ stack[t] # <<>> /\ checked \in SUBSET Class
    BY DEF TypeOK, Balanced
<1>2. Advanced(t) = Advance(stack[t]) /\ Below(t) = Drop(stack[t]) /\ Top(t) = stack[t][Len(stack[t])]
    BY DEF Advanced, Below, Top, Advance, Drop
<1>3. Orderly(stack[t], checked, use[t].outcome = "running")
    BY DEF Calm
<1>4. Orderly(stack[t], checked, FALSE)
    BY <1>3 DEF Orderly
<1>5. use[t].outcome = "running" => Orderly(stack[t], checked, TRUE)
    BY <1>3 DEF Orderly
<1> QED
    BY <1>1, <1>2, <1>4, <1>5

\* A step of a walk that nothing disturbs leaves it in order.
LEMMA WalkStaysCalm ==
    ASSUME TypeOK, Balanced, TypeOK', Balanced', ~tangled => Calm, ~tangled',
           NEW t \in Thread, Walks(t)
    PROVE  ~tangled /\ Calm'
<1> DEFINE s == stack[t]
<1>1. /\ Busy(t) /\ ~tangled
      /\ \A u \in Thread : u # t => use'[u] = use[u] /\ stack'[u] = stack[u]
    BY DEF Walks, Mark, Pass, Enter, EnterUndefined, Refuse, Unwind, Return, AtLeaf, Busy, TypeOK
<1>2. Calm
    BY <1>1
<1>3. /\ s \in Seq(Frame) /\ s # <<>> /\ checked \in SUBSET Class
      /\ Advanced(t) = Advance(s) /\ Below(t) = Drop(s) /\ Top(t) = s[Len(s)]
      /\ Orderly(s, checked, FALSE)
      /\ use[t].outcome = "running" => Orderly(s, checked, TRUE)
    BY <1>1, <1>2, CalmThread
<1>4. CASE Mark(t)
    <2>1. /\ use[t].outcome = "running" /\ s[Len(s)].at = 0
          /\ checked' = checked \cup {s[Len(s)].cls} /\ stack'[t] = Advance(s)
        BY <1>3, <1>4 DEF Mark, TypeOK
    <2>2. Orderly(Advance(s), checked \cup {s[Len(s)].cls}, TRUE)
        BY <1>3, <2>1, MarkKeepsOrder
    <2> QED
        BY <1>1, <1>2, <2>1, <2>2, CalmWalk
<1>5. ASSUME AtLeaf(t)
      PROVE  /\ use[t].outcome = "running" /\ s[Len(s)].at \in DOMAIN Fields[s[Len(s)].cls]
             /\ Leaf(t) = Fields[s[Len(s)].cls][s[Len(s)].at]
    BY <1>3, <1>5 DEF AtLeaf, Leaf
<1>6. CASE Pass(t)
    <2>1. AtLeaf(t) /\ Leaf(t) \in checked \cup {Plain} /\ checked' = checked /\ stack'[t] = Advance(s)
        BY <1>3, <1>6 DEF Pass, TypeOK
    <2>2. Orderly(Advance(s), checked, TRUE)
        BY <1>3, <1>5, <2>1, PassKeepsOrder
    <2> QED
        BY <1>1, <1>2, <2>1, <2>2, CalmWalk
<1>7. CASE Enter(t)
    <2>1. /\ AtLeaf(t) /\ Leaf(t) \in Class \ checked /\ checked' = checked
          /\ stack'[t] = Push(Advance(s), Leaf(t))
        BY <1>3, <1>7 DEF Enter, TypeOK
    <2>2. Orderly(Push(Advance(s), Leaf(t)), checked, TRUE)
        BY <1>3, <1>5, <2>1, EnterKeepsOrder
    <2> QED
        BY <1>1, <1>2, <2>1, <2>2, CalmWalk
<1>8. CASE EnterUndefined(t)
    BY <1>8 DEF EnterUndefined
<1>9. CASE Refuse(t)
    <2>1. checked' = checked /\ stack'[t] = s /\ use'[t].outcome = "raising"
        BY <1>9 DEF Refuse, AtLeaf, TypeOK
    <2> QED
        BY <1>1, <1>2, <1>3, <2>1, CalmWalk
<1>10. CASE Unwind(t)
    <2>1. /\ checked' = checked \ {s[Len(s)].cls} /\ stack'[t] = Drop(s)
          /\ use'[t].outcome # "running"
        BY <1>3, <1>10 DEF Unwind, TypeOK
    <2>2. Orderly(Drop(s), checked \ {s[Len(s)].cls}, FALSE)
        BY <1>3, UnwindKeepsOrder
    <2> QED
        BY <1>1, <1>2, <2>1, <2>2, CalmWalk
<1>11. CASE Return(t)
    <2>1. /\ use[t].outcome = "running" /\ s[Len(s)].at > Len(Fields[s[Len(s)].cls])
          /\ checked' = checked /\ stack'[t] = Drop(s)
        BY <1>3, <1>11 DEF Return, TypeOK
    <2>2. Orderly(Drop(s), checked, TRUE)
        BY <1>3, <2>1, ReturnKeepsOrder
    <2> QED
        BY <1>1, <1>2, <2>1, <2>2, CalmWalk
<1> QED
    BY <1>1, <1>4, <1>6, <1>7, <1>8, <1>9, <1>10, <1>11 DEF Walks

\* A walk that begins when no other is under way begins in order.
LEMMA UseStaysCalm ==
    ASSUME TypeOK, Balanced, ~tangled => Calm, ~tangled',
           NEW t \in Thread, NEW c \in Class, Use(t, c)
    PROVE  ~tangled /\ Calm' /\ Orderly(<<>>, checked, FALSE)
<1>1. /\ ~tangled /\ \A u \in Thread : ~Busy(u)
      /\ checked' = checked
      /\ \A u \in Thread : u # t => use'[u] = use[u]
    BY DEF Use, TypeOK
<1>2. Calm /\ Orderly(<<>>, checked, FALSE)
    BY <1>1 DEF Calm
<1>3. \A u \in Thread : u # t => ~Busy(u)'
    BY <1>1 DEF Busy
<1>4. CASE c \in checked
    <2>1. ~Busy(t)'
        BY <1>4 DEF Use, Busy, TypeOK
    <2> QED
        BY <1>1, <1>2, <1>3, <2>1 DEF Calm
<1>5. CASE c \notin checked
    <2> DEFINE f == [cls |-> c, at |-> 0]
               s == <<f>>
    <2>1. use'[t].outcome = "running" /\ stack'[t] = s
        BY <1>5 DEF Use, TypeOK, Push
    <2>2. Len(s) = 1 /\ DOMAIN s = {1} /\ s[1] = f /\ f.cls = c /\ f.at = 0
        OBVIOUS
    <2> HIDE DEF s, f
    <2>3. Classes(s) = {c}
        BY <2>2 DEF Classes
    <2>4. Done(checked, s) = Done(checked, <<>>)
        BY <1>5, <2>3 DEF Done, Classes
    <2>5. Chained(s) /\ Distinct(s) /\ Marked(s, checked)
        BY <2>2 DEF Chained, Distinct, Marked
    <2>6. Passed(s, Done(checked, s))
        <3>1. \A j \in DOMAIN Fields[c] : j \in Nat \ {0}
            BY SchemaCheckAssumption
        <3>2. \A j \in DOMAIN Fields[c] : ~PassedBy(s, 1, j)
            BY <2>2, <3>1 DEF PassedBy
        <3> QED
            BY <2>2, <3>2 DEF Passed
    <2>7. Orderly(s, checked, TRUE)
        BY <1>2, <2>4, <2>5, <2>6 DEF Orderly
    <2>8. Orderly(stack'[t], checked', use'[t].outcome = "running")
        BY <1>1, <2>1, <2>7 DEF Orderly
    <2>9. Busy(t)'
        BY <2>1 DEF Busy
    <2> QED
        BY <1>1, <1>2, <1>3, <2>8, <2>9 DEF Calm
<1> QED
    BY <1>1, <1>2, <1>4, <1>5
-----------------------------------------------------------------------------
\* The outermost call of a walk is for the class that is used.
LEMMA RootStays ==
    ASSUME TypeOK, Balanced, Rooted, [Next]_vars
    PROVE  Rooted'
<1>1. ASSUME NEW t \in Thread, NEW s, stack'[t] = s, s # <<>>, use'[t].root = use[t].root,
             stack[t] # <<>>, s[1].cls = stack[t][1].cls
      PROVE  stack'[t][1].cls = use'[t].root
    BY <1>1 DEF Rooted
<1>2. ASSUME NEW t \in Thread, Walks(t), stack'[t] # <<>>
      PROVE  stack'[t][1].cls = use'[t].root
    <2> DEFINE s == stack[t]
    <2>1. Busy(t) /\ use'[t].root = use[t].root
        BY <1>2 DEF Walks, Mark, Pass, Enter, EnterUndefined, Refuse, Unwind, Return, AtLeaf, Busy, TypeOK
    <2>2. /\ s \in Seq(Frame) /\ s # <<>> /\ Advanced(t) = Advance(s) /\ Below(t) = Drop(s)
        BY <2>1 DEF TypeOK, Balanced, Advanced, Advance, Below, Drop, Top
    <2>3. Len(s) \in Nat \ {0} /\ 1 \in DOMAIN s /\ Len(Advance(s)) = Len(s) /\ Advance(s) \in Seq(Frame)
        BY <2>2, TopOfStack, AdvanceFacts
    <2>4. Advance(s)[1].cls = s[1].cls
        BY <2>2, <2>3, AdvanceFacts
    <2>5. CASE Mark(t) \/ Pass(t)
        <3>1. stack'[t] = Advance(s)
            BY <2>2, <2>5 DEF Mark, Pass, TypeOK
        <3> QED
            BY <1>1, <1>2, <2>1, <2>2, <2>4, <3>1
    <2>6. CASE Enter(t)
        <3>1. stack'[t] = Append(Advance(s), [cls |-> Leaf(t), at |-> 0]) /\ Leaf(t) \in Class
            BY <2>2, <2>6 DEF Enter, TypeOK, Push
        <3>2. [cls |-> Leaf(t), at |-> 0] \in Frame
            BY <3>1 DEF Frame
        <3>3. stack'[t][1] = Advance(s)[1]
            BY <2>3, <3>1, <3>2, AppendProperties
        <3> QED
            BY <1>1, <1>2, <2>1, <2>2, <2>4, <3>3
    <2>7. CASE Unwind(t) \/ Return(t)
        <3>1. stack'[t] = Drop(s)
            BY <2>2, <2>7 DEF Unwind, Return, TypeOK
        <3>2. Drop(s) \in Seq(Frame) /\ Len(Drop(s)) = Len(s) - 1 /\ \A i \in 1..(Len(s) - 1) : Drop(s)[i] = s[i]
            BY <2>2, DropFacts
        <3>3. Len(Drop(s)) # 0
            BY <1>2, <3>1, <3>2, EmptySeq
        <3>4. 1 \in 1..(Len(s) - 1)
            <4> DEFINE n == Len(s)
            <4>1. n \in Nat \ {0} /\ n - 1 # 0
                BY <2>3, <3>2, <3>3
            <4> HIDE DEF n
            <4>2. 1 \in 1..(n - 1)
                BY <4>1
            <4> QED
                BY <4>2 DEF n
        <3>5. Drop(s)[1] = s[1]
            BY <3>2, <3>4
        <3> QED
            BY <1>1, <1>2, <2>1, <2>2, <3>1, <3>5
    <2>8. CASE EnterUndefined(t)
        BY <1>2, <2>8 DEF EnterUndefined, TypeOK
    <2>9. CASE Refuse(t)
        <3>1. stack'[t] = s
            BY <2>9 DEF Refuse
        <3> QED
            BY <1>1, <2>1, <2>2, <3>1
    <2> QED
        BY <1>2, <2>5, <2>6, <2>7, <2>8, <2>9 DEF Walks
<1>3. ASSUME NEW t \in Thread, NEW c \in Class, Use(t, c), stack'[t] # <<>>
      PROVE  stack'[t][1].cls = use'[t].root
    <2>1. stack'[t] = <<[cls |-> c, at |-> 0]>> /\ use'[t].root = c
        BY <1>3 DEF Use, Push, TypeOK
    <2> QED
        BY <2>1
<1>4. ASSUME NEW t \in Thread, NEW u \in Thread, u # t, Walks(t) \/ \E c \in Class : Use(t, c)
      PROVE  use'[u] = use[u] /\ stack'[u] = stack[u]
    BY <1>4 DEF Walks, Use, Mark, Pass, Enter, EnterUndefined, Refuse, Unwind, Return, TypeOK
<1>5. CASE UNCHANGED <<use, stack>>
    BY <1>5 DEF Rooted
<1>6. ASSUME NEW t \in Thread, Walks(t) \/ \E c \in Class : Use(t, c)
      PROVE  Rooted'
    <2>1. \A u \in Thread : u # t /\ stack'[u] # <<>> => stack'[u][1].cls = use'[u].root
        BY <1>4, <1>6 DEF Rooted
    <2>2. stack'[t] # <<>> => stack'[t][1].cls = use'[t].root
        BY <1>2, <1>3, <1>6
    <2> QED
        BY <2>1, <2>2 DEF Rooted
<1>7. CASE UNCHANGED vars \/ \E c \in Class : Define(c)
    BY <1>5, <1>7 DEF vars, Define
<1> QED
    BY <1>6, <1>7 DEF Next

\* A class is accepted because of its mark, or when its own call ends.
LEMMA AcceptedStaysSound ==
    ASSUME TypeOK, Balanced, Rooted, ~tangled => Calm, AcceptedIsSound, [Next]_vars
    PROVE  AcceptedIsSound'
<1> SUFFICES ASSUME NEW u \in Thread, use'[u].outcome = "accepted", ~tangled',
                    Hierarchical(use'[u].root)
             PROVE  Faultless(use'[u].root)
    BY DEF AcceptedIsSound, Hierarchical, Closed, Children, Faultless, Sound
<1>1. ~tangled
    BY DEF Next, Walks, Use, Mark, Pass, Enter, EnterUndefined, Refuse, Unwind, Return, Define, vars, TypeOK
<1>2. CASE use'[u] = use[u]
    BY <1>1, <1>2 DEF AcceptedIsSound
<1>3. ASSUME NEW c \in Class, Use(u, c)
      PROVE  Faultless(use'[u].root)
    <2>1. \A v \in Thread : ~Busy(v)
        BY <1>3 DEF Use
    <2>2. Sound(Done(checked, <<>>))
        BY <1>1, <2>1 DEF Calm, Orderly
    <2>3. use'[u].root = c /\ c \in checked
        BY <1>3 DEF Use, TypeOK
    <2>4. c \in Done(checked, <<>>)
        BY <2>3 DEF Done, Classes
    <2> QED
        BY <2>2, <2>3, <2>4, SoundIsFaultless
<1>4. CASE Return(u)
    <2> DEFINE s == stack[u]
    <2>1. Busy(u) /\ use[u].outcome = "running" /\ use'[u].root = use[u].root /\ Len(s) = 1
        BY <1>4 DEF Return, Busy, TypeOK
    <2>2. /\ s \in Seq(Frame) /\ s # <<>> /\ checked \in SUBSET Class /\ Orderly(s, checked, TRUE)
          /\ s[Len(s)].at > Len(Fields[s[Len(s)].cls])
        BY <1>1, <1>4, <2>1, CalmThread DEF Return
    <2>3. s[Len(s)].cls = use'[u].root
        BY <2>1, <2>2 DEF Rooted
    <2>4. Sound(Done(checked, Drop(s))) /\ s[Len(s)].cls \in Done(checked, Drop(s))
        BY <2>2, <2>3, ReturnKeepsOrder DEF Orderly
    <2> QED
        BY <2>3, <2>4, SoundIsFaultless
<1>5. ASSUME NEW t \in Thread, t # u, Walks(t) \/ \E c \in Class : Use(t, c)
      PROVE  use'[u] = use[u]
    BY <1>5 DEF Walks, Use, Mark, Pass, Enter, EnterUndefined, Refuse, Unwind, Return, TypeOK
<1>6. CASE Mark(u) \/ Pass(u) \/ Enter(u)
    BY <1>2, <1>6 DEF Mark, Pass, Enter
<1>7. CASE EnterUndefined(u) \/ Refuse(u) \/ Unwind(u)
    BY <1>7 DEF EnterUndefined, Refuse, Unwind, AtLeaf, TypeOK
<1>8. CASE UNCHANGED vars \/ \E c \in Class : Define(c)
    BY <1>2, <1>8 DEF vars, Define
<1> QED
    BY <1>2, <1>3, <1>4, <1>5, <1>6, <1>7, <1>8 DEF Next, Walks

LEMMA WalkInvHolds == Spec => []WalkInv
<1>1. Init => WalkInv
    <2> SUFFICES ASSUME Init
                 PROVE  Rooted /\ Calm /\ AcceptedIsSound
        BY InvInit DEF WalkInv
    <2>1. \A t \in Thread : stack[t] = <<>> /\ use[t].outcome = "idle"
        BY DEF Init
    <2>2. Rooted /\ AcceptedIsSound
        BY <2>1 DEF Rooted, AcceptedIsSound
    <2>3. Done(checked, <<>>) = {}
        BY DEF Init, Done
    <2>4. Orderly(<<>>, checked, FALSE)
        BY <2>3 DEF Orderly, Sound, Chained, Distinct
    <2> QED
        BY <2>1, <2>2, <2>4 DEF Calm, Busy
<1>2. WalkInv /\ [Next]_vars => WalkInv'
    <2> SUFFICES ASSUME WalkInv, [Next]_vars
                 PROVE  WalkInv'
        OBVIOUS
    <2>1. TypeOK /\ Balanced /\ Rooted /\ (~tangled => Calm) /\ AcceptedIsSound
        BY DEF WalkInv, Inv
    <2>2. Inv' /\ TypeOK' /\ Balanced'
        BY InvNext DEF WalkInv, Inv
    <2>3. Rooted' /\ AcceptedIsSound'
        BY <2>1, RootStays, AcceptedStaysSound
    <2>4. ASSUME ~tangled'
          PROVE  Calm'
        <3>1. CASE \E t \in Thread : Walks(t)
            BY <2>1, <2>2, <2>4, <3>1, WalkStaysCalm
        <3>2. CASE \E t \in Thread, c \in Class : Use(t, c)
            BY <2>1, <2>4, <3>2, UseStaysCalm
        <3>3. CASE UNCHANGED vars \/ \E c \in Class : Define(c)
            <4>1. UNCHANGED <<checked, stack, use, tangled>>
                BY <3>3 DEF vars, Define
            <4> QED
                BY <2>1, <2>4, <4>1 DEF Calm, Busy
        <3> QED
            BY <3>1, <3>2, <3>3 DEF Next
    <2> QED
        BY <2>2, <2>3, <2>4 DEF WalkInv
<1> QED
    BY <1>1, <1>2, PTL DEF Spec

\* A class accepted by a walk, or because of a mark an earlier one left, has no
\* fault at any depth, when walks do not overlap and none was broken off and no
\* class it mentions is recursive: a class refused once is refused again.
THEOREM AcceptanceIsSound == Spec => []AcceptedIsSound
<1>1. WalkInv => AcceptedIsSound
    BY DEF WalkInv
<1> QED
    BY <1>1, WalkInvHolds, PTL

\* An undisturbed walk never enters a class that it is in the middle of: it
\* ends for recursive classes too.
THEOREM NoClassTwice == Spec => []EnteredOnce
<1>1. WalkInv => EnteredOnce
    <2> SUFFICES ASSUME TypeOK, Balanced, Calm, NEW t \in Thread
                 PROVE  Distinct(stack[t])
        BY DEF WalkInv, Inv, EnteredOnce, Distinct
    <2>1. CASE Busy(t)
        BY <2>1 DEF Calm, Orderly
    <2>2. CASE ~Busy(t)
        BY <2>2 DEF Balanced, Distinct
    <2> QED
        BY <2>1, <2>2
<1> QED
    BY <1>1, WalkInvHolds, PTL

=============================================================================
