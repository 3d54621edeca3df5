------------------------------ MODULE Exchange ------------------------------
(***************************************************************************)
(* A message between two implementations of a format: a struct in          *)
(* protobuf, in thrift, in JSON or as a dict, or the reply to a thrift     *)
(* call.  Encoding writes it; the actions rewrite it as another encoder,   *)
(* an older or newer program or a proxy may, without changing what it      *)
(* means, or spoil it, once.  The properties say what decoding must make   *)
(* of the outcome.                                                         *)
(***************************************************************************)
EXTENDS Protobuf, ThriftCodec, DictForm

CONSTANTS
    Objects,    \* class or method -> what is sent, as sequences of values
    Forms,      \* class or method -> the forms it is sent in
    MaxEdits    \* bound: rewritings of one message, the one that spoils it included

VARIABLES
    form,       \* "protobuf", "thrift", "reply", "json" or "dict"
    cls, obj,   \* what is sent: a class and the values of its fields, or a method
    schema,     \* the fields of what is sent
    wire,       \* the result of encoding, then what has become of it
    edits,
    spoilt      \* "no", "bytes", "type" or "map": what was done to the message

vars == <<form, cls, obj, schema, wire, edits, spoilt>>

Encode(how, fields, vals) ==
    CASE how = "protobuf"             -> EncodeStruct(fields, vals)
      [] how \in {"thrift", "reply"}  -> WriteFields(fields, vals)
      [] how \in {"json", "dict"}     -> ToDict(fields, vals, how = "json")

Decode(fields) ==
    CASE form = "protobuf"            -> DecodeStruct(fields, wire.val)
      [] form = "thrift"              -> ReadStruct(fields, wire.val)
      [] form = "reply"               -> ReadFields(fields, wire.val)
      [] form \in {"json", "dict"}    -> FromDict(fields, wire.val)

\* A bound on what is sent, not code: to_dict asks for no types, and its
\* callers here give it none but the declared ones.
WellTyped(field, v) ==
    CASE v = None                                      -> field.optional \/ field.type.kind \in {"list", "map"}
      [] field.type.kind \in {"list", "map", "oneof"} -> TRUE
      [] OTHER                                         -> HasType(field.type, v)

Sendable(how, c) ==
    /\ how \in Forms[c]
    /\ IF how = "reply" THEN c \in Callable ELSE c \in Classes
    /\ how = "thrift" => CheckSchema(c)

Init ==
    /\ cls \in DOMAIN Objects
    /\ form \in {how \in Forms[cls] : Sendable(how, cls)}
    /\ schema = IF form = "reply" THEN ResultFields(Methods[cls]) ELSE SchemaOf[cls]
    /\ obj \in {o \in Objects[cls] : form \in {"json", "dict"} =>
                \A i \in DOMAIN o : WellTyped(schema[i], o[i])}
    /\ wire = Encode(form, schema, obj)
    /\ edits = 0
    /\ spoilt = "no"

OfTokens == form \in {"protobuf", "thrift", "reply"}
OfKeys == form \in {"json", "dict"}
Editable == wire.ok /\ spoilt = "no" /\ edits < MaxEdits

\* The tokens of the fields, and the message that consists of them.
tokens == IF form = "protobuf" THEN wire.val ELSE Front(wire.val)
Message(new) == IF form = "protobuf" THEN new ELSE Append(new, Stop)

Becomes(new) ==
    /\ wire' = Return(new)
    /\ edits' = edits + 1
    /\ UNCHANGED <<form, cls, obj, schema, spoilt>>
Rewritten(new) == Becomes(Message(new))

Broken(how, new) ==
    /\ wire' = Return(new)
    /\ edits' = edits + 1
    /\ spoilt' = how
    /\ UNCHANGED <<form, cls, obj, schema>>
Spoilt(how, new) == Broken(how, Message(new))

Known(t) == t.num \in Numbers(schema)
FieldOf(t) == schema[ByNumber(schema, t.num).at]
DeclaredType(t) == ByNumber(schema, t.num).type

\* Replaces token i by the sequence new.
Replaced(i, new) == SubSeq(tokens, 1, i - 1) \o new \o SubSeq(tokens, i + 1, Len(tokens))

\* A number the class does not use, as after a field was removed or added.
Unused == CHOOSE n \in 1..(MaxFieldNumber + 1) : n \notin Numbers(schema)

\* The types that tokens have, and something of each type.
WireTypes == IF form = "protobuf" THEN {VARINT, FIXED64, LENGTH, FIXED32}
             ELSE {BOOL, I64, BINARY, STRUCT, LIST, SET, MAP}
SomeBody(wt) ==
    IF form = "protobuf"
    THEN CASE wt = VARINT -> <<0>> [] wt = LENGTH -> <<>> [] OTHER -> "0.0"
    ELSE CASE wt \in {BOOL, I64} -> 0
           [] wt = BINARY        -> <<>>
           [] wt = STRUCT        -> <<Token(1, LIST, <<STRUCT, <<<<Stop>>>>>>), Stop>>
           [] wt \in {LIST, SET} -> <<I64, <<0>>>>
           [] wt = MAP           -> <<BINARY, I64, <<<<<<>>, 0>>>>>>

\* A field of type T that is zero, a struct with nothing in it.
ZeroToken(n, T) ==
    IF form = "protobuf" THEN Token(n, WireTypeOf(T), SomeBody(WireTypeOf(T)))
    ELSE Token(n, TypeOf(T), CASE T.kind = "bool"   -> 0
                               [] T.kind = "struct" -> <<Stop>>
                               [] T.kind = "list"   -> <<TypeOf(T.item), <<>>>>
                               [] T.kind = "map"    -> <<TypeOf(T.key), TypeOf(T.item), <<>>>>
                               [] OTHER             -> ZeroValue(T)[2])
-----------------------------------------------------------------------------
(* Rewritings that keep the meaning, of protobuf and thrift.               *)

\* Fields may come in any order.
Reorder == OfTokens /\ Editable /\ \E i \in 1..(Len(tokens) - 1) :
    LET place(t) == IF Known(t) THEN ByNumber(schema, t.num).at ELSE 0 IN
    /\ place(tokens[i]) # place(tokens[i + 1])
    /\ Rewritten([tokens EXCEPT ![i] = tokens[i + 1], ![i + 1] = tokens[i]])

\* In a reply: an exception that this program does not declare.
AddUnknown == OfTokens /\ Editable /\ \E i \in {1, Len(tokens) + 1}, wt \in WireTypes :
    Rewritten(InsertAt(tokens, i, Token(Unused, wt, SomeBody(wt))))

\* A field that occurs again: the earlier occurrence, of any member of a
\* union, does not count.
Shadow == OfTokens /\ Editable /\ \E i \in DOMAIN tokens : \E n \in 0..MaxFieldNumber :
    /\ Known(tokens[i])
    /\ form = "protobuf" => DeclaredType(tokens[i]).kind \notin {"list", "map"}
    /\ n \in NumbersOf(FieldOf(tokens[i]))
    /\ Rewritten(Replaced(i, <<ZeroToken(n, ByNumber(schema, n).type), tokens[i]>>))

(* Of protobuf.                                                            *)

\* A list of numbers, one by one or in two chunks.
Unpack == form = "protobuf" /\ Editable /\ \E i \in DOMAIN tokens :
    LET t == tokens[i] IN
    /\ Known(t) /\ DeclaredType(t).kind = "list" /\ Packed(DeclaredType(t).item) /\ t.wt = LENGTH
    /\ \/ Rewritten(Replaced(i, [k \in DOMAIN t.body |->
                                    Token(t.num, WireTypeOf(DeclaredType(t).item), t.body[k])]))
       \/ \E k \in 0..Len(t.body) :
              Rewritten(Replaced(i, <<Token(t.num, LENGTH, SubSeq(t.body, 1, k)),
                                      Token(t.num, LENGTH, SubSeq(t.body, k + 1, Len(t.body)))>>))

\* A default value that is written all the same.
WriteZero == form = "protobuf" /\ Editable /\ \E f \in DOMAIN schema :
    LET T == schema[f].type IN
    /\ T.kind \in Scalars /\ ~schema[f].optional
    /\ \A i \in DOMAIN tokens : tokens[i].num # schema[f].number
    /\ Rewritten(tokens \o <<ZeroToken(schema[f].number, T)>>)

\* A varint longer than it needs to be, as long as it is not too long.
Pad == form = "protobuf" /\ Editable /\ \E i \in DOMAIN tokens :
    /\ tokens[i].wt = VARINT
    /\ Group * Len(tokens[i].body) <= Bits - 1
    /\ Rewritten([tokens EXCEPT ![i].body = Append(@, 0)])

\* The entry of a dict with its value first, or without what is zero, or
\* with a field that this program does not know.
RewriteEntry == form = "protobuf" /\ Editable /\ \E i \in DOMAIN tokens :
    /\ Known(tokens[i]) /\ DeclaredType(tokens[i]).kind = "map"
    /\ LET entry == tokens[i].body
           T == DeclaredType(tokens[i])
           zero(t) == t = ZeroToken(t.num, IF t.num = 1 THEN T.key ELSE T.item)
       IN  \/ Rewritten([tokens EXCEPT ![i].body = Reverse(entry)])
           \/ Rewritten([tokens EXCEPT ![i].body = SelectSeq(entry, LAMBDA t : ~zero(t))])
           \/ Rewritten([tokens EXCEPT ![i].body = Append(entry, Token(3, VARINT, <<0>>))])

(* Of thrift.                                                              *)

\* A list that the peer declares as a set, or an empty one of other items.
RetypeList == form \in {"thrift", "reply"} /\ Editable /\ \E i \in DOMAIN tokens :
    /\ Known(tokens[i]) /\ tokens[i].wt \in {LIST, SET}
    /\ \/ Rewritten([tokens EXCEPT ![i].wt = SET])
       \/ tokens[i].body[2] = <<>> /\ Rewritten([tokens EXCEPT ![i].body = <<STOP, <<>>>>])

\* A zero that the peer leaves out.
OmitZero == form = "thrift" /\ Editable /\ \E i \in DOMAIN tokens :
    /\ Known(tokens[i]) /\ ~FieldOf(tokens[i]).optional
    /\ tokens[i] = ZeroToken(tokens[i].num, DeclaredType(tokens[i]))
    /\ \A k \in DOMAIN tokens : k # i => tokens[k].num # tokens[i].num
    /\ Rewritten(RemoveAt(tokens, i))

\* Any byte but 0 is true.
OtherTrue == form = "thrift" /\ Editable /\ \E i \in DOMAIN tokens :
    /\ Known(tokens[i]) /\ tokens[i].wt = BOOL /\ tokens[i].body = 1
    /\ Rewritten([tokens EXCEPT ![i].body = 2])

(* Of JSON and dicts.                                                      *)

keys == DOMAIN wire.val[2]
With(key, raw) == <<"dict", Put(wire.val[2], key, raw)>>
EntryFor(key) == ByKey(schema)[EntryOf(schema, key)]

AddKey == OfKeys /\ Editable /\ Becomes(With(Text(<<"?">>), <<"bool", TRUE>>))

\* The name of a field as in Python or as in JSON.
Rekey == OfKeys /\ Editable /\ \E key \in keys, e \in Range(ByKey(schema)) :
    /\ EntryOf(schema, key) # 0
    /\ e.at = EntryFor(key).at /\ e.type = EntryFor(key).type /\ e.key \notin keys
    /\ Becomes(<<"dict", [k \in (keys \ {key}) \cup {e.key} |-> wire.val[2][IF k = e.key THEN key ELSE k]]>>)

\* A key for what is not set: null, or the zero.
FillIn == OfKeys /\ Editable /\ \E f \in DOMAIN schema :
    /\ \A key \in keys : EntryOf(schema, key) # 0 => EntryFor(key).at # f
    /\ \/ Becomes(With(Text(schema[f].name), None))
       \/ /\ ~schema[f].optional
          /\ Becomes(With(Text(schema[f].name), Dump(schema[f].type, ZeroValue(schema[f].type), form = "json").val))

\* Numbers as strings or not, enums by name or number, times of another zone.
Respell == form = "json" /\ Editable /\ \E key \in keys :
    LET raw == wire.val[2][key]
        T == EntryFor(key).type
    IN  /\ EntryOf(schema, key) # 0 /\ raw # None
        /\ \/ T.kind = "int" /\ Spells(raw, "#") /\ Becomes(With(key, <<"int", raw[2][2]>>))
           \/ T.kind = "int" /\ raw[1] = "int" /\ Becomes(With(key, Text(<<"#", raw[2]>>)))
           \/ T.kind = "enum" /\ Spells(raw, "name") /\ Becomes(With(key, <<"int", raw[2][2]>>))
           \/ /\ T.kind = "timestamp" /\ Spells(raw, "time")
              /\ Becomes(With(key, Text(<<"time", raw[2][2] + 1, raw[2][3], raw[2][4] + 1>>)))
-----------------------------------------------------------------------------
(* Messages that are not well formed.                                      *)

\* The buffer ends within the last field, or in one nested in it, or, in
\* thrift, before the end of the struct.
Truncate == OfTokens /\ Editable
    /\ \/ tokens # <<>> /\ Spoilt("bytes", [tokens EXCEPT ![Len(tokens)].body = Cut])
       \/ /\ tokens # <<>> /\ Known(Last(tokens))
          /\ DeclaredType(Last(tokens)).kind \in {"struct", "timestamp", "duration"}
          /\ Last(tokens).body # <<>>
          /\ Spoilt("bytes", [tokens EXCEPT ![Len(tokens)].body = IF form = "protobuf"
                                 THEN [@ EXCEPT ![Len(@)].body = Cut]
                                 ELSE Front(@)])
       \/ form # "protobuf" /\ Broken("bytes", tokens)

\* More bytes after the end of the struct.
Trailing == form \in {"thrift", "reply"} /\ Editable
    /\ Broken("bytes", Append(wire.val, Stop))

\* A varint with one byte more than fit.
Overlong == form = "protobuf" /\ Editable /\ \E i \in DOMAIN tokens :
    /\ tokens[i].wt = VARINT
    /\ Spoilt("bytes", [tokens EXCEPT ![i].body =
                           [k \in 1..((Bits - 1) \div Group + 2) |-> IF k \in DOMAIN @ THEN @[k] ELSE 0]])

\* The size of a string, a list or a map is below 0.
NegativeSize == form \in {"thrift", "reply"} /\ Editable /\ \E i \in DOMAIN tokens :
    /\ tokens[i].wt \in {BINARY, LIST, SET, MAP}
    /\ Spoilt("bytes", [tokens EXCEPT ![i].body = Negative])

\* Field number 0, or a type that nobody writes.
BadTag == OfTokens /\ Editable /\ \E i \in 1..(Len(tokens) + 1) :
    \/ form = "protobuf" /\ Spoilt("bytes", InsertAt(tokens, i, Token(0, VARINT, <<0>>)))
    \/ form = "protobuf" /\ Spoilt("bytes", InsertAt(tokens, i, Token(Unused, 3, "0.0")))
    \/ form # "protobuf" /\ Spoilt("bytes", InsertAt(tokens, i, Token(Unused, 7, <<>>)))

\* The sender has another type under this number.
Mistype == OfTokens /\ Editable /\ \E i \in DOMAIN tokens : \E wt \in WireTypes :
    LET T == DeclaredType(tokens[i])
        legal == IF form = "protobuf"
                 THEN IF T.kind = "list" THEN {WireTypeOf(T.item), LENGTH} ELSE {WireTypeOf(T)}
                 ELSE {wt2 \in WireTypes : Matches(T, wt2)}
    IN  /\ Known(tokens[i]) /\ (form = "protobuf" => T.kind # "map") /\ wt \notin legal
        /\ Spoilt("type", [tokens EXCEPT ![i] = Token(@.num, wt, SomeBody(wt))])

MistypeMap == form = "protobuf" /\ Editable /\ \E i \in DOMAIN tokens :
    /\ Known(tokens[i]) /\ DeclaredType(tokens[i]).kind = "map"
    /\ Spoilt("map", [tokens EXCEPT ![i] = Token(@.num, VARINT, <<0>>)])

\* Items, keys or values of another type.
Another(tt) == IF tt = DOUBLE THEN BOOL ELSE DOUBLE
MistypeItems == form \in {"thrift", "reply"} /\ Editable /\ \E i \in DOMAIN tokens :
    /\ Known(tokens[i])
    /\ \/ /\ tokens[i].wt \in {LIST, SET} /\ tokens[i].body[2] # <<>>
          /\ Spoilt("type", [tokens EXCEPT ![i].body = <<Another(@[1]), @[2]>>])
       \/ /\ tokens[i].wt = MAP /\ tokens[i].body[3] # <<>>
          /\ Spoilt("type", [tokens EXCEPT ![i].body = <<@[1], Another(@[2]), @[3]>>])

\* A JSON value of another type, or a string that spells something else.
MistypeKey == OfKeys /\ Editable /\ \E key \in keys :
    LET T == EntryFor(key).type IN
    /\ EntryOf(schema, key) # 0
    /\ \/ Broken("type", With(key, IF T.kind \in {"bool", "oneof"} THEN <<"list", <<>>>> ELSE <<"bool", TRUE>>))
       \/ T.kind \notin {"str", "oneof"} /\ Broken("type", With(key, Text(<<"?">>)))
-----------------------------------------------------------------------------
Next ==
    \/ Reorder \/ AddUnknown \/ Shadow
    \/ Unpack \/ WriteZero \/ Pad \/ RewriteEntry
    \/ RetypeList \/ OmitZero \/ OtherTrue
    \/ AddKey \/ Rekey \/ FillIn \/ Respell
    \/ Truncate \/ Trailing \/ Overlong \/ NegativeSize \/ BadTag
    \/ Mistype \/ MistypeMap \/ MistypeItems \/ MistypeKey

Spec == Init /\ [][Next]_vars
-----------------------------------------------------------------------------
\* What a value comes back as: None in a list or dict field as an empty one;
\* where zeros are not written, whatever equals a zero as the zero; an enum
\* by its name if it has one.
Canonical(field, v) ==
    LET T == field.type IN
    CASE T.kind \in {"list", "map"} /\ v = None -> ZeroValue(T)
      [] T.kind = "enum" /\ v # None            -> EnumValue(T, v[2])
      [] form \notin {"thrift", "dict"} /\ ~field.optional /\ T.kind \in {"int", "bool", "float"} /\ v \in Zeros
                                                -> ZeroValue(T)
      [] OTHER                                  -> v
Sent == [i \in DOMAIN schema |-> Canonical(schema[i], obj[i])]

\* No key stands for two fields, and a dict tells the members of a union apart.
KeysApart ==
    /\ \A e, f \in Range(ByKey(schema)) : e.key = f.key => e.at = f.at
    /\ form = "dict" => \A i \in DOMAIN schema : schema[i].type.kind = "oneof" =>
           Cardinality({m \in Range(schema[i].type.members) : m.type.kind = "struct"}) <= 1

Meant == wire.ok /\ spoilt = "no" /\ form # "reply" /\ (OfKeys => KeysApart)

\* However a conforming peer writes a message, decoding it gives what was
\* sent: with the fields in any order, repeated or unknown; in protobuf with
\* lists packed or not or in chunks, defaults written or not, padded varints;
\* in thrift with sets for lists, zeros left out; in JSON with keys in either
\* case, nulls, numbers for strings, another time zone.  In JSON and dicts it
\* is so for classes whose keys do not coincide (dict.py:153-157).
DecodesToValue == Meant => Decode(schema) = Return(Sent)

\* A program whose class lacks one of the fields, the others keeping their
\* numbers and names, reads the others unharmed: what it does not know is
\* skipped, in protobuf and thrift by its type on the wire alone.
OldReaderReads == Meant =>
    \A i \in DOMAIN schema : Decode(RemoveAt(schema, i)) = Return(RemoveAt(Sent, i))

\* A message that is cut short, has bytes too many, a varint too long for 64
\* bits, a size below 0, a tag that is none, or a field, an item or a JSON value
\* of another type than declared is refused as a whole, also when only a
\* nested message is cut.  Not so a protobuf dict field that is a VARINT 0: no
\* wire type is asked for, and it is read as an entry (protobuf.py:242).
SpoiltIsAnError == spoilt \in {"bytes", "type"} => ~Decode(schema).ok

\* A thrift reply has one outcome, for a caller that declares all the
\* exceptions and for one that lacks any of them: the exception that was
\* raised, or an error if it is one the caller does not declare, never the
\* value and never another exception; the value if nothing was raised; and an
\* error if there is neither (thrift.py:493-517).
ReplyIsOne == (form = "reply" /\ wire.ok /\ spoilt = "no") =>
    LET foreign(fields) == \E i \in DOMAIN tokens : tokens[i].num \notin Numbers(fields)
        set == {i \in DOMAIN schema : obj[i] # None}
        expected(fields) ==
            CASE \E i \in set : schema[i].number \in Numbers(fields) \ {0} ->
                    <<"raised", obj[CHOOSE i \in set : schema[i].number # 0]>>
              [] foreign(fields)                        -> <<"error", "UNKNOWN">>
              [] ~foreign(fields) /\ set # {}           -> <<"returned", obj[CHOOSE i \in set : TRUE]>>
              [] ~foreign(fields) /\ set = {}           ->
                    IF Methods[cls].returns = None THEN <<"returned", None>> ELSE <<"error", "UNKNOWN">>
        lacking == {RemoveAt(schema, i) : i \in {k \in DOMAIN schema : schema[k].number # 0}}
    IN  \A fields \in {schema} \cup lacking : \A read \in {ReadFields(fields, wire.val)} :
            DecodeResult(fields, read) = expected(fields)

=============================================================================
