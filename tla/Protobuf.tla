------------------------------ MODULE Protobuf ------------------------------
(***************************************************************************)
(* The protobuf codec (protobuf.py): what EncodeStruct writes, and what    *)
(* DecodeStruct makes of it after another implementation has rewritten it  *)
(* in the ways the format leaves open, or has spoilt it.                   *)
(***************************************************************************)
EXTENDS Times, Values, TLC

\* proto3 packs lists of numbers and enums.
Packed(T) == T.kind \in {"int", "enum", "float", "bool"}

WireTypeOf(T) ==
    CASE T.kind = "float"                   -> FIXED64
      [] T.kind \in {"int", "bool", "enum"} -> VARINT
      [] OTHER                              -> LENGTH

\* _check, _check_int: an int fits, anything else has the type declared.  On
\* the wire every int has the same width, whatever the field declares.
HasType(T, v) ==
    /\ v # None
    /\ CASE T.kind = "struct"          -> v[1] = "obj" /\ v[2] = T.cls
         [] T.kind \in {"int", "enum"} -> v[1] \in {"int", "enum"} /\ Fits(v[2], Bits)
         [] OTHER                      -> v[1] = T.kind
-----------------------------------------------------------------------------
RECURSIVE EncodeStruct(_, _)

\* What _encode_single and _encode_packed_item write after the tag.
EncodeBody(T, v) ==
    CASE ~HasType(T, v)           -> Raise
      [] T.kind \in {"int", "enum"} -> Return(EncodeVarint(v[2]))
      [] T.kind = "bool"          -> Return(EncodeVarint(IF v[2] THEN 1 ELSE 0))
      [] T.kind \in {"float", "str"} -> Return(v[2])
      [] T.kind = "timestamp"     -> Return(EncodeTimestamp(v[2]))
      [] T.kind = "duration"      -> Return(EncodeDuration(v[2]))
      [] T.kind = "struct"        -> EncodeStruct(SchemaOf[T.cls], v[3])

EncodeSingle(number, T, v) ==
    Then(EncodeBody(T, v), LAMBDA body : <<Token(number, WireTypeOf(T), body)>>)

EncodeList(number, item, items) ==
    IF Packed(item)
    THEN IF items = <<>> THEN Return(<<>>)
         ELSE Then(All([i \in DOMAIN items |-> EncodeBody(item, items[i])]),
                   LAMBDA bodies : <<Token(number, LENGTH, bodies)>>)
    ELSE Then(All([i \in DOMAIN items |-> EncodeSingle(number, item, items[i])]), FlattenSeq)

\* The order of a dict is any.
EncodeMap(number, T, dict) ==
    LET Entry(key) == Then(All(<<EncodeSingle(1, T.key, key), EncodeSingle(2, T.item, dict[key])>>),
                           LAMBDA ends : <<Token(number, LENGTH, FlattenSeq(ends))>>)
    IN  Then(All([i \in 1..Cardinality(DOMAIN dict) |-> Entry(SetToSeq(DOMAIN dict)[i])]), FlattenSeq)

\* In Python 0, False, 0.0 and -0.0 are equal, and their types not yet checked.
Zeros == {<<"int", 0>>, <<"bool", FALSE>>, <<"float", "0.0">>, <<"float", "-0.0">>}
IsZero(T, v) ==
    CASE T.kind = "str"  -> v = ZeroValue(T)
      [] T.kind = "enum" -> HasType(T, v) /\ v[2] = 0
      [] OTHER           -> v \in Zeros \cup {<<"enum", 0>>}

EncodeField(field, v) ==
    LET T == field.type IN
    CASE T.kind = "list" -> EncodeList(field.number, T.item, IF v = None THEN <<>> ELSE v[2])
      [] T.kind = "map"  -> EncodeMap(field.number, T, IF v = None THEN <<>> ELSE v[2])
      [] T.kind \notin {"list", "map"} /\ v = None ->
            IF field.optional THEN Return(<<>>) ELSE Raise
      [] T.kind = "oneof" /\ v # None ->
            IF Pick(T, v) = 0 THEN Raise
            ELSE EncodeSingle(T.members[Pick(T, v)].number, T.members[Pick(T, v)].type, v)
      [] T.kind \notin {"list", "map", "oneof"} /\ v # None ->
            IF ~field.optional /\ T.kind \in Scalars \cup {"enum"} /\ IsZero(T, v)
            THEN Return(<<>>)
            ELSE EncodeSingle(field.number, T, v)

EncodeStruct(schema, vals) ==
    Then(All([i \in DOMAIN schema |-> EncodeField(schema[i], vals[i])]), FlattenSeq)
-----------------------------------------------------------------------------
RECURSIVE DecodeStruct(_, _)

DecodeSingle(T, t) ==
    CASE t.wt # WireTypeOf(T) -> Raise
      [] t.wt = VARINT        -> Then(DecodeVarint(t.body), LAMBDA raw :
                                     CASE T.kind = "int"  -> <<"int", ToSigned(raw)>>
                                       [] T.kind = "bool" -> <<"bool", raw # 0>>
                                       [] T.kind = "enum" -> EnumValue(T, ToSigned(raw)))
      [] t.wt = FIXED64       -> Then(DecodeDouble(t), LAMBDA raw : <<"float", raw>>)
      [] t.wt = LENGTH        ->
            LET raw == DecodeBytes(t) IN
            CASE ~raw.ok              -> Raise
              [] raw.ok /\ T.kind = "str"    -> Return(<<"str", raw.val>>)
              [] raw.ok /\ T.kind = "struct" ->
                    Then(DecodeStruct(SchemaOf[T.cls], raw.val), LAMBDA vals : <<"obj", T.cls, vals>>)
              [] raw.ok /\ T.kind \in {"timestamp", "duration"} -> DecodeTime(T.kind, raw.val)

\* The items of one occurrence of a list: packed, or a single one.
DecodeItems(item, t) ==
    IF t.wt = LENGTH /\ Packed(item)
    THEN LET chunk == DecodeBytes(t) IN
         IF chunk.ok
         THEN All([k \in DOMAIN chunk.val |->
                      DecodeSingle(item, Token(t.num, WireTypeOf(item), chunk.val[k]))])
         ELSE Raise
    ELSE All(<<DecodeSingle(item, t)>>)

DecodeEntry(T, tokens) ==
    FoldLeft(LAMBDA st, t :
                 CASE ~st.ok \/ ~DecodeTag(t).ok -> Raise
                   [] st.ok /\ t.num = 1 -> Then(DecodeSingle(T.key, t), LAMBDA k : <<k, st.val[2]>>)
                   [] st.ok /\ t.num = 2 -> Then(DecodeSingle(T.item, t), LAMBDA v : <<st.val[1], v>>)
                   [] st.ok /\ t.num > 2 -> Then(SkipField(t), LAMBDA any : st.val),
             Return(<<ZeroValue(T.key), ZeroValue(T.item)>>), tokens)

\* Mutant: an occurrence of a list or a map replaces those before.
DecodeFieldAnew(values, i, T, t) ==
    CASE T.kind = "list" -> Then(DecodeItems(T.item, t), LAMBDA items : Put(values, i, <<"list", items>>))
      [] T.kind = "map"  -> Then(DecodeEntry(T, DecodeBytes(t).val),
                                 LAMBDA e : Put(values, i, <<"map", e[1] :> e[2]>>))
      [] OTHER           -> Then(DecodeSingle(T, t), LAMBDA v : Put(values, i, v))

\* Lists and maps grow with every occurrence, of another field the last counts.
\* A map asks for no wire type.
DecodeField(values, i, T, t) ==
    LET before == IF i \in DOMAIN values THEN values[i][2] ELSE <<>> IN
    CASE T.kind = "list" ->
            Then(DecodeItems(T.item, t), LAMBDA items : Put(values, i, <<"list", before \o items>>))
      [] T.kind = "map" ->
            IF DecodeBytes(t).ok
            THEN Then(DecodeEntry(T, DecodeBytes(t).val),
                      LAMBDA e : Put(values, i, <<"map", Put(before, e[1], e[2])>>))
            ELSE Raise
      [] T.kind \notin {"list", "map"} ->
            Then(DecodeSingle(T, t), LAMBDA v : Put(values, i, v))

DecodeToken(schema, values, t) ==
    CASE ~DecodeTag(t).ok -> Raise
      [] DecodeTag(t).ok /\ t.num \notin Numbers(schema) ->
            Then(SkipField(t), LAMBDA any : values)
      [] DecodeTag(t).ok /\ t.num \in Numbers(schema) ->
            LET entry == ByNumber(schema, t.num)
            IN  DecodeField(values, entry.at, entry.type, t)

DecodeStruct(schema, tokens) ==
    Then(FoldLeft(LAMBDA st, t : IF st.ok THEN DecodeToken(schema, st.val, t) ELSE st,
                  Return(<<>>), tokens),
         LAMBDA values : Completed(schema, values))

=============================================================================
