---------------------------- MODULE ThriftCodec -----------------------------
(***************************************************************************)
(* The thrift binary protocol (thrift.py) on tokens: what encode_fields    *)
(* writes, and what decode_fields and decode_result make of it.            *)
(*                                                                         *)
(* A struct body is a sequence of tokens [num, wt, body], wt the type in   *)
(* the header, that ends with Stop.  The body of a number, a bool, a       *)
(* double or a string is its value; that of a list is <<type of the items, *)
(* bodies>>, that of a map <<type of the keys, type of the values, pairs   *)
(* of bodies>>, that of a struct is a struct body.  A body that is Cut     *)
(* goes beyond the end of the buffer, one that is Negative has a count     *)
(* below 0.  A struct body without Stop is cut as well.                    *)
(***************************************************************************)
EXTENDS Wire, Values

CONSTANTS
    EnumBits,   \* width of an enum, 32 in the code; I64 has Bits, a byte less than both
    MaxFieldId, \* MAX_FIELD_ID
    Methods,    \* name -> [returns, raises]: a type or None, and a sequence of [cls, id]
    Negative

ASSUME ThriftAssumption == EnumBits \in 1..Bits /\ MaxFieldId \in Nat \ {0}

STOP == 0
BOOL == 2
BYTE == 3
DOUBLE == 4
I32 == 8
I64 == 10
BINARY == 11    \* STRING in the code
STRUCT == 12
MAP == 13
SET == 14
LIST == 15

Stop == Token(0, STOP, <<>>)

\* The bytes of a struct body end with it.
EndsOnce(tokens) == tokens # <<>> /\ SelectInSeq(tokens, LAMBDA t : t = Stop) = Len(tokens)

\* type_of
TypeOf(T) ==
    CASE T.kind = "int"    -> CASE T.width = Bits -> I64
                                [] T.width = EnumBits -> I32
                                [] OTHER -> BYTE
      [] T.kind = "enum"   -> I32
      [] T.kind = "bool"   -> BOOL
      [] T.kind = "float"  -> DOUBLE
      [] T.kind = "str"    -> BINARY
      [] T.kind = "struct" -> STRUCT
      [] T.kind = "list"   -> LIST
      [] T.kind = "map"    -> MAP

\* check_schema, for a class and all that its fields mention; SchemaCheck is
\* about the order in which it looks.
Parts(T) ==
    CASE T.kind = "list"  -> {T.item}
      [] T.kind = "map"   -> {T.key, T.item}
      [] T.kind = "oneof" -> {m.type : m \in Range(T.members)}
      [] OTHER            -> {T}
Mentioned(c) == UNION {Parts(SchemaOf[c][i].type) : i \in DOMAIN SchemaOf[c]}
Expressible(T) == T.kind \notin {"timestamp", "duration"} /\ (T.kind = "struct" => T.cls \in Classes)
CheckSchema(c) == \E S \in SUBSET {T \in UNION {Mentioned(d) : d \in Classes} : T.kind = "struct"} :
    LET walked == {c} \cup {T.cls : T \in S} IN
    \A d \in walked :
        /\ Numbers(SchemaOf[d]) \subseteq 1..MaxFieldId
        /\ \A T \in Mentioned(d) : Expressible(T) /\ (T.kind = "struct" => T.cls \in walked)
-----------------------------------------------------------------------------
RECURSIVE WriteFields(_, _)

WriteNumber(T, v) ==
    IF v[1] \in {"int", "enum"} /\ Fits(v[2], IF T.kind = "enum" THEN EnumBits ELSE T.width)
    THEN Return(v[2])
    ELSE Raise

\* _encode_value of anything but a list or a dict.
WriteSingle(T, v) ==
    CASE v = None                              -> Raise
      [] v # None /\ T.kind \in {"int", "enum"} -> WriteNumber(T, v)
      [] v # None /\ T.kind = "struct"         ->
            IF v[1] = "obj" /\ v[2] = T.cls THEN WriteFields(SchemaOf[T.cls], v[3]) ELSE Raise
      [] v # None /\ T.kind = "bool"           ->
            IF v[1] = "bool" THEN Return(IF v[2] THEN 1 ELSE 0) ELSE Raise
      [] OTHER                                 -> IF v[1] = T.kind THEN Return(v[2]) ELSE Raise

WriteValue(T, v) ==
    CASE T.kind = "list" ->
            Then(All([i \in DOMAIN v[2] |-> WriteSingle(T.item, v[2][i])]),
                 LAMBDA bodies : <<TypeOf(T.item), bodies>>)
      [] T.kind = "map"  ->
            LET keys == SetToSeq(DOMAIN v[2])
            IN  Then(All([i \in DOMAIN keys |->
                             All(<<WriteSingle(T.key, keys[i]), WriteSingle(T.item, v[2][keys[i]])>>)]),
                     LAMBDA pairs : <<TypeOf(T.key), TypeOf(T.item), pairs>>)
      [] OTHER           -> WriteSingle(T, v)

\* _encode_field: only None is left out, zeros are written.
WriteField(field, v) ==
    LET T == field.type IN
    CASE v = None ->
            IF field.optional \/ T.kind \in {"list", "map"} THEN Return(<<>>) ELSE Raise
      [] v # None /\ T.kind = "oneof" ->
            IF Pick(T, v) = 0 THEN Raise
            ELSE LET m == T.members[Pick(T, v)]
                 IN  Then(WriteValue(m.type, v), LAMBDA body : <<Token(m.number, TypeOf(m.type), body)>>)
      [] v # None /\ T.kind # "oneof" ->
            Then(WriteValue(T, v), LAMBDA body : <<Token(field.number, TypeOf(T), body)>>)

\* encode_fields
WriteFields(fields, vals) ==
    Then(All([i \in DOMAIN fields |-> WriteField(fields[i], vals[i])]),
         LAMBDA written : Append(FlattenSeq(written), Stop))
-----------------------------------------------------------------------------
\* skip: a value that no field of this program is for.
RECURSIVE Skip(_, _)
Skip(tt, body) ==
    IF body \in {Cut, Negative} THEN FALSE
    ELSE CASE tt \in {BOOL, BYTE, DOUBLE, I32, I64, BINARY} -> TRUE
           [] tt = STRUCT        -> /\ EndsOnce(body)
                                    /\ \A i \in 1..(Len(body) - 1) : Skip(body[i].wt, body[i].body)
           [] tt \in {LIST, SET} -> \A i \in DOMAIN body[2] : Skip(body[1], body[2][i])
           [] tt = MAP           -> \A i \in DOMAIN body[3] :
                                        Skip(body[1], body[3][i][1]) /\ Skip(body[2], body[3][i][2])
           [] OTHER              -> FALSE

RECURSIVE ReadStruct(_, _), ReadFields(_, _), ReadField(_, _, _), ReadValue(_, _, _), ReadSingle(_, _, _)

\* Mutant: what is read is not compared with what is declared.
MatchesAny(T, tt) == TRUE

\* The type in a header, of a field, of items, keys or values; a set is a list.
Matches(T, tt) == tt = TypeOf(T) \/ (T.kind = "list" /\ tt = SET)

\* _decode_value of anything but a list or a dict.
ReadSingle(T, tt, body) ==
    CASE ~Matches(T, tt) \/ body \in {Cut, Negative} -> Raise
      [] Matches(T, tt) /\ body \notin {Cut, Negative} ->
            CASE T.kind = "enum"   -> Return(EnumValue(T, body))
              [] T.kind = "bool"   -> Return(<<"bool", body # 0>>)
              [] T.kind = "struct" -> Then(ReadStruct(SchemaOf[T.cls], body), LAMBDA vals : <<"obj", T.cls, vals>>)
              [] OTHER             -> Return(<<T.kind, body>>)

\* A key that occurs again replaces the value.
ReadMap(T, entries) == FoldLeft(LAMBDA dict, e : Put(dict, e[1], e[2]), <<>>, entries)

ReadValue(T, tt, body) ==
    CASE T.kind \notin {"list", "map"} -> ReadSingle(T, tt, body)
      [] T.kind \in {"list", "map"} /\ (~Matches(T, tt) \/ body \in {Cut, Negative}) -> Raise
      [] T.kind = "list" /\ Matches(T, tt) /\ body \notin {Cut, Negative} ->
            Then(All([i \in DOMAIN body[2] |-> ReadSingle(T.item, body[1], body[2][i])]),
                 LAMBDA items : <<"list", items>>)
      [] T.kind = "map" /\ Matches(T, tt) /\ body \notin {Cut, Negative} ->
            Then(All([i \in DOMAIN body[3] |->
                         All(<<ReadSingle(T.key, body[1], body[3][i][1]), ReadSingle(T.item, body[2], body[3][i][2])>>)]),
                 LAMBDA entries : <<"map", ReadMap(T, entries)>>)

\* decode_fields: the values up to STOP, by place, and the numbers not known.
\* Bytes after STOP are refused by the callers.
ReadField(fields, st, t) ==
    IF t.num \in Numbers(fields)
    THEN LET entry == ByNumber(fields, t.num)
         IN  Then(ReadValue(entry.type, t.wt, t.body),
                  LAMBDA v : [st EXCEPT !.values = Put(@, entry.at, v)])
    ELSE IF Skip(t.wt, t.body) THEN Return([st EXCEPT !.unknown = Append(@, t.num)]) ELSE Raise

ReadFields(fields, tokens) ==
    IF EndsOnce(tokens)
    THEN FoldLeft(LAMBDA st, t : IF st.ok THEN ReadField(fields, st.val, t) ELSE st,
                  Return([values |-> <<>>, unknown |-> <<>>]), Front(tokens))
    ELSE Raise

\* decode_struct
ReadStruct(fields, tokens) ==
    Then(ReadFields(fields, tokens), LAMBDA read : Completed(fields, read.values))
-----------------------------------------------------------------------------
\* raises: the result fields of the declared exceptions, numbered on from the
\* last; a number that is taken is an error, it is not stepped over.
RaisedFields(raises) ==
    FoldLeft(LAMBDA st, r :
                 LET n == IF r.id = None THEN st.last + 1 ELSE r.id IN
                 [last   |-> n,
                  ok     |-> st.ok /\ n \notin Numbers(st.fields) /\ n <= MaxFieldId /\ CheckSchema(r.cls),
                  fields |-> Append(st.fields, [name |-> <<"exception">>, number |-> n, optional |-> TRUE,
                                                type |-> [kind |-> "struct", cls |-> r.cls]])],
             [last |-> 0, ok |-> TRUE, fields |-> <<>>], raises)

\* method_fields: the fields of the result struct.
ResultFields(method) ==
    (IF method.returns = None THEN <<>>
     ELSE <<[name |-> <<"success">>, number |-> 0, optional |-> TRUE, type |-> method.returns]>>)
    \o RaisedFields(method.raises).fields

\* The methods that pass raises and method_fields.
Callable == {m \in DOMAIN Methods : RaisedFields(Methods[m].raises).ok}

Returns(fields) == fields # <<>> /\ fields[1].number = 0
Raised(fields, values) == {i \in DOMAIN values : fields[i].number # 0}
Returned(fields, values) ==
    CASE ~Returns(fields)                         -> <<"returned", None>>
      [] Returns(fields) /\ 1 \in DOMAIN values    -> <<"returned", values[1]>>
      [] Returns(fields) /\ 1 \notin DOMAIN values -> <<"error", "UNKNOWN">>

\* Mutant: a field this program does not know is skipped, as in a struct.
OutcomeSkipping(fields, read) ==
    LET raised == Raised(fields, read.values) IN
    IF raised # {} THEN <<"raised", read.values[Min(raised)]>> ELSE Returned(fields, read.values)

\* A declared exception comes first, in the order they are declared in, then
\* what is not declared, then the value.
Outcome(fields, read) ==
    LET raised == Raised(fields, read.values) IN
    CASE raised # {}                           -> <<"raised", read.values[Min(raised)]>>
      [] raised = {} /\ read.unknown # <<>>    -> <<"error", "UNKNOWN">>
      [] raised = {} /\ read.unknown = <<>>    -> Returned(fields, read.values)

\* decode_result, of what decode_fields returned.
DecodeResult(fields, read) ==
    IF read.ok THEN Outcome(fields, read.val) ELSE <<"error", "INTERNAL">>

=============================================================================
