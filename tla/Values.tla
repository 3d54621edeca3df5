------------------------------- MODULE Values -------------------------------
(***************************************************************************)
(* The values of fields (schema.py): what a field holds that was not set,  *)
(* and which member of a union a value belongs to.                         *)
(*                                                                         *)
(* Values are tagged with their Python type: <<"int", 3>>, <<"list", seq>>,*)
(* <<"map", function>>, <<"obj", class, seq>>, <<"enum", 1>> for a value   *)
(* that has a name, which is an int as well.                               *)
(***************************************************************************)
EXTENDS Schema

\* _enum_value: enums are open, a value without a name stays an int.
EnumValue(T, n) == IF n \in T.known THEN <<"enum", n>> ELSE <<"int", n>>

\* The value a field takes when it is absent and not optional.
RECURSIVE ZeroValue(_)
ZeroValue(T) ==
    CASE T.kind = "int"       -> <<"int", 0>>
      [] T.kind = "bool"      -> <<"bool", FALSE>>
      [] T.kind = "enum"      -> EnumValue(T, 0)
      [] T.kind = "float"     -> <<"float", "0.0">>
      [] T.kind = "str"       -> <<"str", <<>>>>
      [] T.kind = "timestamp" -> <<"timestamp", 0>>
      [] T.kind = "duration"  -> <<"duration", 0>>
      [] T.kind = "list"      -> <<"list", <<>>>>
      [] T.kind = "map"       -> <<"map", <<>>>>
      [] T.kind = "oneof"     -> None
      [] T.kind = "struct"    ->
            LET fields == SchemaOf[T.cls]
            IN  <<"obj", T.cls, [i \in DOMAIN fields |->
                    IF fields[i].optional THEN None ELSE ZeroValue(fields[i].type)]>>

\* pick: the member of a union whose Python type the value has.
Accepts(T, v) ==
    CASE T.kind = "struct" -> v[1] = "obj" /\ v[2] = T.cls
      [] T.kind = "int"    -> v[1] \in {"int", "bool", "enum"}
      [] OTHER             -> v[1] = T.kind
Pick(T, v) == SelectInSeq(T.members, LAMBDA m : Accepts(m.type, v))

\* What every codec makes of the values it has read, by place in the schema.
Completed(fields, values) ==
    [i \in DOMAIN fields |->
        IF i \in DOMAIN values THEN values[i]
        ELSE IF fields[i].optional THEN None ELSE ZeroValue(fields[i].type)]

=============================================================================
