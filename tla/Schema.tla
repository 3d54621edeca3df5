------------------------------- MODULE Schema -------------------------------
(***************************************************************************)
(* How a struct class gets its schema (schema.py): its fields in order,    *)
(* each with a number of its own, a union with one for each member.  A     *)
(* number is explicit (Id) or the next that is free.                       *)
(*                                                                         *)
(* Types are records [kind, ...]: bool, float, str, timestamp and duration *)
(* have no more, int has width, enum has known (the values that have a     *)
(* name), struct has cls, list has item, map has key and item, oneof has   *)
(* members.  Hints is what a class declares: a sequence of [name, type,    *)
(* ids, optional], ids the Id annotations of the field, or of the members  *)
(* of its union, first to last.  In a schema each member of a union has    *)
(* its number with it.                                                     *)
(***************************************************************************)
EXTENDS Integers, Sequences, FiniteSets, FiniteSetsExt, SequencesExt

CONSTANTS
    Hints,          \* class -> sequence of declared fields
    SchemaOf,       \* class -> its schema, built once and then kept with the class
    MaxFieldNumber, \* MAX_FIELD_NUMBER
    Reserved,       \* RESERVED_RANGE
    None

ASSUME NumbersAssumption ==
    MaxFieldNumber \in Nat \ {0} /\ Reserved \subseteq 1..MaxFieldNumber

\* What Id accepts.
Ids == (1..MaxFieldNumber) \ Reserved

ASSUME HintsAssumption == \A c \in DOMAIN Hints :
    /\ Hints[c] \in Seq(Range(Hints[c]))
    /\ \A hint \in Range(Hints[c]) :
           /\ hint.ids \in Seq(Ids \cup {None})
           /\ Len(hint.ids) = IF hint.type.kind = "oneof" THEN Len(hint.type.members) ELSE 1

Scalars == {"int", "bool", "float", "str"}

\* Mutant: the reserved range is not stepped over.
NextNumberBlind(used, last) ==
    Min({n \in (last + 1)..(last + Cardinality(used) + 1) : n \notin used})

NextNumber(used, last) ==
    Min({n \in (last + 1)..(last + Cardinality(used \cup Reserved) + 1) :
            n \notin used \cup Reserved})

\* The end of take_number: st is what build_schema has given out so far.
Take(st, number) ==
    [st EXCEPT !.ok = @ /\ number \notin st.used /\ number <= MaxFieldNumber,
               !.used = @ \cup {number},
               !.last = number,
               !.numbers = Append(@, number)]

\* take_number
TakeNumber(st, id) == Take(st, IF id = None THEN NextNumber(st.used, st.last) ELSE id)

\* One number for each id, in turn.
TakeNumbers(st, ids) ==
    LET taken[n \in 0..Len(ids)] == IF n = 0 THEN st ELSE TakeNumber(taken[n - 1], ids[n])
    IN  taken[Len(ids)]

\* resolve_type: what may be in a list, a dict or anywhere but at the top.
Single(T) == T.kind \notin {"list", "map", "oneof"}

\* bool and enums are subclasses of int: a value must tell the member of a
\* union it is of.
ToldApart(T, U) ==
    /\ T.kind = U.kind => T.kind = "struct" /\ T.cls # U.cls
    /\ {T.kind, U.kind} \notin {{"int", "bool"}, {"int", "enum"}}

\* The fields that build_schema accepts, their numbers aside.
Supported(hint) ==
    LET T == hint.type IN
    CASE T.kind = "list"  -> ~hint.optional /\ Single(T.item)
      [] T.kind = "map"   -> ~hint.optional /\ T.key.kind \in {"int", "str", "bool"} /\ Single(T.item)
      [] T.kind = "oneof" -> \A i, j \in DOMAIN T.members :
                                /\ Single(T.members[i])
                                /\ i # j => ToldApart(T.members[i], T.members[j])
      [] OTHER            -> TRUE

\* One field: its FieldSpec goes to the end of the schema.
AddField(st, hint) ==
    LET taken   == TakeNumbers([st EXCEPT !.numbers = <<>>], hint.ids)
        members == [i \in DOMAIN taken.numbers |->
                       [type |-> hint.type.members[i], number |-> taken.numbers[i]]]
        union   == hint.type.kind = "oneof"
        field   == [name     |-> hint.name,
                    number   |-> taken.numbers[1],
                    type     |-> IF union THEN [kind |-> "oneof", members |-> members]
                                 ELSE hint.type,
                    optional |-> union \/ hint.optional]
    IN  [taken EXCEPT !.fields = Append(@, field)]

\* The first that build_schema refuses ends it.
AddNext(st, hint) ==
    IF st.ok /\ Supported(hint) THEN AddField(st, hint) ELSE [st EXCEPT !.ok = FALSE]

BuildSchema(hints) ==
    LET start == [ok |-> TRUE, used |-> {}, last |-> 0, numbers |-> <<>>, fields |-> <<>>]
        built[n \in 0..Len(hints)] == IF n = 0 THEN start ELSE AddNext(built[n - 1], hints[n])
    IN  built[Len(hints)]

\* The classes whose schema is accepted, and what schema_of builds for them.
Classes == {c \in DOMAIN Hints : BuildSchema(Hints[c]).ok}
Schemas == [c \in Classes |-> BuildSchema(Hints[c]).fields]

ASSUME SchemaAssumption == SchemaOf = Schemas

\* The wire numbers of a field, and of a schema.
NumbersOf(field) ==
    IF field.type.kind = "oneof"
    THEN {field.type.members[m].number : m \in DOMAIN field.type.members}
    ELSE {field.number}
Numbers(fields) == UNION {NumbersOf(fields[i]) : i \in DOMAIN fields}

\* by_number: the place in the schema of the field a number belongs to, and
\* the type of what it carries.
ByNumber(schema, number) ==
    LET i == CHOOSE i \in DOMAIN schema : number \in NumbersOf(schema[i])
        T == schema[i].type
    IN  [at   |-> i,
         type |-> IF T.kind # "oneof" THEN T
                  ELSE (CHOOSE m \in Range(T.members) : m.number = number).type]

\* What a codec has read so far, by place in the schema, and one value more.
Put(values, i, v) == [j \in DOMAIN values \cup {i} |-> IF j = i THEN v ELSE values[j]]

LegalNumbers(fields) ==
    /\ Numbers(fields) \subseteq Ids
    /\ \A i, j \in DOMAIN fields : i # j => NumbersOf(fields[i]) \cap NumbersOf(fields[j]) = {}
    /\ \A i \in DOMAIN fields : fields[i].type.kind = "oneof" =>
           IsInjective([m \in DOMAIN fields[i].type.members |-> fields[i].type.members[m].number])
WellNumbered == {fields \in Range(Schemas) : LegalNumbers(fields)}

\* No two fields, or members of unions, of an accepted class share a wire
\* number, and none takes a number protobuf reserves, whatever mixture of
\* explicit and consecutive numbers the class declares.
NumbersAreLegal == \A schema \in Range(Schemas) : schema \in WellNumbered

=============================================================================
