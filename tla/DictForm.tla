------------------------------ MODULE DictForm ------------------------------
(***************************************************************************)
(* Dict and JSON views of structs (dict.py): ToDict, as Python values (js  *)
(* is FALSE) or by the proto3 JSON mapping, and FromDict, which takes      *)
(* either.                                                                 *)
(*                                                                         *)
(* Names are sequences of words.  A dict is <<"dict", function>>, its keys *)
(* are Python values as well, those of a struct <<"str", name>>.  What a   *)
(* string spells: <<"#", 3>> the number, <<"name", 1>> an enum value,      *)
(* <<"true?", b>> a bool, <<"time", seconds, fraction, offset>> and        *)
(* <<"span", negative, seconds, fraction>> a timestamp and a duration.     *)
(***************************************************************************)
EXTENDS Times, Values

\* camel: user_id becomes userId.
Camel(name) == IF Len(name) = 1 \/ name[1] = "^" THEN name ELSE <<"^">> \o name

\* json_name: the name of a member on the proto side.
JsonName(name, T) ==
    Append(name, IF T.kind = "struct" THEN T.cls[1] ELSE T.kind)

\* What == compares equal to a zero in Python.
Nothing == {<<"int", 0>>, <<"bool", FALSE>>, <<"float", "0.0">>, <<"float", "-0.0">>, <<"enum", 0>>}

\* _is_json_default: such a field has no key.
IsJsonDefault(field, v) ==
    LET T == field.type IN
    CASE v = None \/ field.optional                     -> v = None
      [] v # None /\ ~field.optional ->
            CASE T.kind \in {"list", "map"}                -> DOMAIN v[2] = {}
              [] T.kind \in {"struct", "timestamp", "duration"} -> FALSE
              [] T.kind = "str"                            -> v = ZeroValue(T)
              [] OTHER                                     -> v \in Nothing
-----------------------------------------------------------------------------
Text(content) == <<"str", content>>

FormatTimestamp(us) == Text(<<"time", us \div Second, us % Second, 0>>)
FormatDuration(us) ==
    LET abs == IF us < 0 THEN -us ELSE us
    IN  Text(<<"span", us < 0, abs \div Second, abs % Second>>)

\* str(k): bool keys in lower case.
KeyText(k) == IF k[1] = "str" THEN k ELSE Text(<<IF k[1] = "bool" THEN "true?" ELSE "#", k[2]>>)

RECURSIVE ToDict(_, _, _), Dump(_, _, _)

\* _dump
Dump(T, v, js) ==
    CASE v = None                           -> Return(None)
      [] v # None /\ T.kind = "oneof"       ->
            IF Pick(T, v) = 0 THEN Raise ELSE Dump(T.members[Pick(T, v)].type, v, js)
      [] v # None /\ T.kind = "struct"      -> ToDict(SchemaOf[v[2]], v[3], js)
      [] v # None /\ T.kind = "list"        ->
            Then(All([i \in DOMAIN v[2] |-> Dump(T.item, v[2][i], js)]), LAMBDA items : <<"list", items>>)
      [] v # None /\ T.kind = "map"         ->
            LET keys == SetToSeq(DOMAIN v[2]) IN
            Then(All([i \in DOMAIN keys |-> Dump(T.item, v[2][keys[i]], js)]),
                 LAMBDA items : <<"dict", FoldLeft(LAMBDA dict, i :
                                      Put(dict, IF js THEN KeyText(keys[i]) ELSE keys[i], items[i]),
                                      <<>>, [i \in DOMAIN keys |-> i])>>)
      [] v # None /\ ~js /\ T.kind \notin {"oneof", "struct", "list", "map"} -> Return(v)
      [] v # None /\ js /\ T.kind \notin {"oneof", "struct", "list", "map"} ->
            Return(CASE T.kind = "int" /\ T.width = Bits    -> Text(<<"#", v[2]>>)
                     [] T.kind = "enum" /\ v[1] = "enum"    -> Text(<<"name", v[2]>>)
                     [] T.kind = "timestamp"                -> FormatTimestamp(v[2])
                     [] T.kind = "duration"                 -> FormatDuration(v[2])
                     [] OTHER                               -> v)

\* The key and the value that to_dict writes for a field.
DumpField(dict, field, v, js) ==
    LET T == field.type IN
    CASE js /\ IsJsonDefault(field, v) -> Return(dict)
      [] js /\ ~IsJsonDefault(field, v) /\ T.kind = "oneof" ->
            IF Pick(T, v) = 0 THEN Raise
            ELSE LET m == T.members[Pick(T, v)]
                 IN  Then(Dump(m.type, v, TRUE),
                          LAMBDA raw : Put(dict, Text(Camel(JsonName(field.name, m.type))), raw))
      [] OTHER ->
            Then(Dump(T, v, js),
                 LAMBDA raw : Put(dict, Text(IF js THEN Camel(field.name) ELSE field.name), raw))

ToDict(fields, vals, js) ==
    Then(FoldLeft(LAMBDA st, i : IF st.ok THEN DumpField(st.val, fields[i], vals[i], js) ELSE st,
                  Return(<<>>), [i \in DOMAIN fields |-> i]),
         LAMBDA dict : <<"dict", dict>>)
-----------------------------------------------------------------------------
\* by_key: the keys that from_dict knows, as [key, at, type]; of two that are
\* the same the last one counts.
KeysOf(fields, i) ==
    LET f == fields[i]
        entry(name, T) == <<[key |-> Text(name), at |-> i, type |-> T],
                            [key |-> Text(Camel(name)), at |-> i, type |-> T]>>
    IN  entry(f.name, f.type) \o
        (IF f.type.kind # "oneof" THEN <<>>
         ELSE FlattenSeq([m \in DOMAIN f.type.members |->
                  entry(JsonName(f.name, f.type.members[m].type), f.type.members[m].type)]))
ByKey(fields) == FlattenSeq([i \in DOMAIN fields |-> KeysOf(fields, i)])
EntryOf(fields, key) == SelectLastInSeq(ByKey(fields), LAMBDA e : e.key = key)

ParseTimestamp(text) == (text[2] - text[4]) * Second + text[3]

ParseDuration(text) == (IF text[2] THEN -1 ELSE 1) * (text[3] * Second + text[4])

\* _load_int
LoadInt(raw) ==
    CASE raw[1] \in {"int", "enum"}               -> Return(raw[2])
      [] raw = <<"float", "0.0">>                 -> Return(0)
      [] raw[1] = "str" /\ raw[2] # <<>> /\ raw[2][1] = "#" -> Return(raw[2][2])
      [] OTHER                                    -> Raise

Spells(raw, what) == raw[1] = "str" /\ raw[2] # <<>> /\ raw[2][1] = what

RECURSIVE FromDict(_, _), Load(_, _)

\* The members of a union are tried in order, unless raw is a Python value of
\* one of them.
LoadOneOf(T, raw) ==
    LET tried == SelectInSeq(T.members, LAMBDA m : Load(m.type, raw).ok)
    IN  CASE Pick(T, raw) # 0                 -> Return(raw)
          [] Pick(T, raw) = 0 /\ tried = 0    -> Raise
          [] Pick(T, raw) = 0 /\ tried # 0    -> Load(T.members[tried].type, raw)

\* _load; of the numbers a float may be written as, only floats.
Load(T, raw) ==
    CASE T.kind = "int"                        -> Then(LoadInt(raw), LAMBDA n : <<"int", n>>)
      [] T.kind = "enum" /\ raw[1] = "str"     ->
            IF Spells(raw, "name") THEN Return(<<"enum", raw[2][2]>>) ELSE Raise
      [] T.kind = "enum" /\ raw[1] # "str"     -> Then(LoadInt(raw), LAMBDA n : EnumValue(T, n))
      [] T.kind = "bool" /\ Spells(raw, "true?") -> Return(<<"bool", raw[2][2]>>)
      [] T.kind = "timestamp" /\ Spells(raw, "time") -> Return(<<"timestamp", ParseTimestamp(raw[2])>>)
      [] T.kind = "duration" /\ Spells(raw, "span") -> Return(<<"duration", ParseDuration(raw[2])>>)
      [] T.kind = "struct" /\ raw[1] = "dict"  ->
            Then(FromDict(SchemaOf[T.cls], raw), LAMBDA vals : <<"obj", T.cls, vals>>)
      [] T.kind = "struct" /\ raw[1] # "dict"  -> IF Accepts(T, raw) THEN Return(raw) ELSE Raise
      [] T.kind = "list"                       ->
            IF raw[1] = "list"
            THEN Then(All([i \in DOMAIN raw[2] |-> Load(T.item, raw[2][i])]), LAMBDA items : <<"list", items>>)
            ELSE Raise
      [] T.kind = "map"                        ->
            IF raw[1] # "dict" THEN Raise
            ELSE LET keys == SetToSeq(DOMAIN raw[2]) IN
                 Then(All([i \in DOMAIN keys |-> All(<<Load(T.key, keys[i]), Load(T.item, raw[2][keys[i]])>>)]),
                      LAMBDA entries : <<"map", FoldLeft(LAMBDA dict, e : Put(dict, e[1], e[2]), <<>>, entries)>>)
      [] T.kind = "oneof"                      -> LoadOneOf(T, raw)
      [] OTHER                                 -> IF raw[1] = T.kind THEN Return(raw) ELSE Raise

\* One key of the data.  Keys that no field has are skipped.
LoadKey(fields, st, key, raw) ==
    IF EntryOf(fields, key) = 0 THEN Return(st)
    ELSE LET e == ByKey(fields)[EntryOf(fields, key)] IN
         IF raw = None
         THEN Return(Put(st, e.at, IF fields[e.at].optional THEN None ELSE ZeroValue(fields[e.at].type)))
         ELSE Then(Load(e.type, raw), LAMBDA v : Put(st, e.at, v))

FromDict(fields, data) ==
    IF data[1] # "dict" THEN Raise
    ELSE Then(FoldLeft(LAMBDA st, key : IF st.ok THEN LoadKey(fields, st.val, key, data[2][key]) ELSE st,
                       Return(<<>>), SetToSeq(DOMAIN data[2])),
              LAMBDA values : Completed(fields, values))

=============================================================================
