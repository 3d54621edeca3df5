---------------------------- MODULE SchemaCheck -----------------------------
(***************************************************************************)
(* check_schema of the thrift codec: whether a struct class, and every     *)
(* class its fields mention, can be expressed in thrift.  The walk marks a *)
(* class in the global set _checked before it enters it, because classes   *)
(* may be recursive, and takes the mark back when a SchemaError passes.    *)
(* Any thread that encodes, decodes or prepares a method runs it, and      *)
(* nothing locks the set.                                                  *)
(*                                                                         *)
(* Fields gives the types in the fields of a class, those inside lists,    *)
(* dicts and unions included, in the order of the walk: a class, Plain, or *)
(* Bad for what thrift has no counterpart for (a datetime, a number above  *)
(* 2^15 - 1) and for a class whose own schema cannot be built.             *)
(***************************************************************************)
EXTENDS Integers, Sequences

CONSTANTS
    Thread, Class, Fields, Plain, Bad,
    Late,       \* classes with a forward reference that is not defined at first
    MaxUses     \* bound: uses of the codec

ASSUME SchemaCheckAssumption ==
    /\ Plain \notin Class /\ Bad \notin Class /\ Plain # Bad
    /\ Late \subseteq Class
    /\ Fields \in [Class -> Seq(Class \cup {Plain, Bad})]
    /\ MaxUses \in Nat

VARIABLES
    checked,    \* _checked
    stack,      \* thread -> the calls of check_schema, [cls, at], outermost first
    use,        \* thread -> [root, outcome] of its last use of the codec
    undefined,  \* the late classes whose reference is not defined yet
    tangled,    \* history: two walks overlapped, or one was broken off
    uses

vars == <<checked, stack, use, undefined, tangled, uses>>

Frame == [cls : Class, at : Nat]

TypeOK ==
    /\ checked \subseteq Class
    /\ stack \in [Thread -> Seq(Frame)]
    /\ use \in [Thread -> [root : Class \cup {Plain},
                           outcome : {"idle", "running", "raising", "accepted", "refused", "failed"}]]
    /\ undefined \subseteq Late
    /\ tangled \in BOOLEAN
    /\ uses \in 0..MaxUses

Init ==
    /\ checked = {}
    /\ stack = [t \in Thread |-> <<>>]
    /\ use = [t \in Thread |-> [root |-> Plain, outcome |-> "idle"]]
    /\ undefined = Late
    /\ tangled = FALSE
    /\ uses = 0

Busy(t) == use[t].outcome \in {"running", "raising"}
Top(t) == stack[t][Len(stack[t])]
Below(t) == SubSeq(stack[t], 1, Len(stack[t]) - 1)

\* A frame at 0 has made the test and not yet the mark.
Push(s, c) == Append(s, [cls |-> c, at |-> 0])
Advanced(t) == Append(Below(t), [Top(t) EXCEPT !.at = @ + 1])

\* The walk is at its leaf: a type in a field of the class it is in.
AtLeaf(t) ==
    /\ use[t].outcome = "running" /\ Top(t).at \in DOMAIN Fields[Top(t).cls]
Leaf(t) == Fields[Top(t).cls][Top(t).at]
-----------------------------------------------------------------------------
\* encode, decode or method_fields; schema_of of the class has succeeded.
Use(t, c) ==
    /\ ~Busy(t) /\ uses < MaxUses /\ c \notin undefined
    /\ uses' = uses + 1
    /\ use' = [use EXCEPT ![t] = [root |-> c, outcome |-> IF c \in checked THEN "accepted" ELSE "running"]]
    /\ stack' = [stack EXCEPT ![t] = IF c \in checked THEN <<>> ELSE Push(<<>>, c)]
    /\ tangled' = (tangled \/ \E u \in Thread : Busy(u))
    /\ UNCHANGED <<checked, undefined>>

\* Mutant: the mark is set when the walk of the class is over.
MarkNothing(t) ==
    /\ use[t].outcome = "running" /\ Top(t).at = 0
    /\ stack' = [stack EXCEPT ![t] = Advanced(t)]
    /\ UNCHANGED <<checked, use, undefined, tangled, uses>>

\* _checked.add
Mark(t) ==
    /\ use[t].outcome = "running" /\ Top(t).at = 0
    /\ checked' = checked \cup {Top(t).cls}
    /\ stack' = [stack EXCEPT ![t] = Advanced(t)]
    /\ UNCHANGED <<use, undefined, tangled, uses>>

\* Mutant: a class that is marked already is taken for an error.
PassFresh(t) ==
    /\ AtLeaf(t) /\ Leaf(t) \in checked \cup {Plain}
    /\ stack' = [stack EXCEPT ![t] = Advanced(t)]
    /\ use' = [use EXCEPT ![t].outcome = IF Leaf(t) \in checked THEN "raising" ELSE @]
    /\ UNCHANGED <<checked, undefined, tangled, uses>>

\* A type that thrift has, or a class that is marked.
Pass(t) ==
    /\ AtLeaf(t) /\ Leaf(t) \in checked \cup {Plain}
    /\ stack' = [stack EXCEPT ![t] = Advanced(t)]
    /\ UNCHANGED <<checked, use, undefined, tangled, uses>>

Enter(t) ==
    /\ AtLeaf(t) /\ Leaf(t) \in Class \ (checked \cup undefined)
    /\ stack' = [stack EXCEPT ![t] = Push(Advanced(t), Leaf(t))]
    /\ UNCHANGED <<checked, use, undefined, tangled, uses>>

\* schema_of raises NameError, which is no SchemaError: the marks stay.
EnterUndefined(t) ==
    /\ AtLeaf(t) /\ Leaf(t) \in undefined
    /\ stack' = [stack EXCEPT ![t] = <<>>]
    /\ use' = [use EXCEPT ![t].outcome = "failed"]
    /\ tangled' = TRUE
    /\ UNCHANGED <<checked, undefined, uses>>

Refuse(t) ==
    /\ AtLeaf(t) /\ Leaf(t) = Bad
    /\ use' = [use EXCEPT ![t].outcome = "raising"]
    /\ UNCHANGED <<checked, stack, undefined, tangled, uses>>

\* Mutant: the callers of a class that is refused keep their marks.
UnwindOnce(t) ==
    /\ use[t].outcome = "raising"
    /\ checked' = checked \ {Top(t).cls}
    /\ stack' = [stack EXCEPT ![t] = <<>>]
    /\ use' = [use EXCEPT ![t].outcome = "refused"]
    /\ UNCHANGED <<undefined, tangled, uses>>

\* except SchemaError: _checked.discard, in one call after the other.
Unwind(t) ==
    /\ use[t].outcome = "raising"
    /\ checked' = checked \ {Top(t).cls}
    /\ stack' = [stack EXCEPT ![t] = Below(t)]
    /\ use' = [use EXCEPT ![t].outcome = IF Len(stack[t]) = 1 THEN "refused" ELSE @]
    /\ UNCHANGED <<undefined, tangled, uses>>

Return(t) ==
    /\ use[t].outcome = "running" /\ Top(t).at > Len(Fields[Top(t).cls])
    /\ stack' = [stack EXCEPT ![t] = Below(t)]
    /\ use' = [use EXCEPT ![t].outcome = IF Len(stack[t]) = 1 THEN "accepted" ELSE @]
    /\ UNCHANGED <<checked, undefined, tangled, uses>>

\* The program defines what a late class refers to.
Define(c) ==
    /\ c \in undefined
    /\ undefined' = undefined \ {c}
    /\ UNCHANGED <<checked, stack, use, tangled, uses>>

Walks(t) ==
    Mark(t) \/ Pass(t) \/ Enter(t) \/ EnterUndefined(t) \/ Refuse(t) \/ Unwind(t) \/ Return(t)

Next ==
    \/ \E t \in Thread : Walks(t) \/ \E c \in Class : Use(t, c)
    \/ \E c \in Class : Define(c)

Spec == Init /\ [][Next]_vars /\ \A t \in Thread : WF_vars(Walks(t))
-----------------------------------------------------------------------------
Children(c) == {Fields[c][i] : i \in DOMAIN Fields[c]} \cap Class

\* A set of classes that mentions no class outside it, and one without fault.
Closed(S) == \A c \in S : Children(c) \subseteq S
Sound(S) == S \subseteq Class /\ \A c \in S : \A i \in DOMAIN Fields[c] : Fields[c][i] \in S \cup {Plain}

\* Neither the class nor any that it mentions, at any depth, has a bad field.
Faultless(c) == \E S \in SUBSET Class : c \in S /\ Sound(S)

\* None of the classes it mentions, at any depth, mentions itself.
Hierarchical(c) == \E S \in SUBSET Class :
    /\ c \in S /\ Closed(S)
    /\ \A R \in SUBSET S : R # {} => \E d \in R : Children(d) \cap R = {}

\* src/src/grapec/thrift.py:4: what thrift has no counterpart for is "rejected
\* when the struct is first used with this codec".  The error strikes only
\* where it is due: a class that is expressible at every depth, recursive or
\* not, is never refused, whatever other classes were refused before it or
\* are being walked meanwhile.
OnlyFaultyRefused ==
    \A t \in Thread : use[t].outcome = "refused" => ~Faultless(use[t].root)

\* And where it is due it strikes again on every use: a class accepted by a
\* walk, or because of the mark of an earlier one, has no fault at any depth.
\* It is not so when a class is recursive (its parts stay marked when it is
\* refused), when two threads walk at once (one accepts what the other is in
\* the middle of) or when a NameError broke a walk off.
AcceptedIsSound ==
    \A t \in Thread :
        use[t].outcome = "accepted" /\ ~tangled /\ Hierarchical(use[t].root) => Faultless(use[t].root)

\* Recursive classes do not send the walk round in circles: a class is entered
\* once, unless another thread takes its mark back meanwhile.
EnteredOnce ==
    ~tangled => \A t \in Thread : \A i, j \in DOMAIN stack[t] :
        stack[t][i].cls = stack[t][j].cls => i = j

=============================================================================
