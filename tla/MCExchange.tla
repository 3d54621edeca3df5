----------------------------- MODULE MCExchange -----------------------------
(* Classes for Exchange, one of every shape and one with every numbering,   *)
(* and thrift methods.                                                      *)
EXTENDS Exchange

Of(kind) == [kind |-> kind]
Long == [kind |-> "int", width |-> Bits]
Byte == [kind |-> "int", width |-> 2]
Color == [kind |-> "enum", known |-> {0, 1}]
ListOf(item) == [kind |-> "list", item |-> item]
DictOf(key, item) == [kind |-> "map", key |-> key, item |-> item]
Struct(c) == [kind |-> "struct", cls |-> <<c>>]
Field(T) == [name |-> <<"f">>, type |-> T, ids |-> <<None>>, optional |-> FALSE]
Optional(T) == [Field(T) EXCEPT !.optional = TRUE]
Union(T, U, ids) == [name |-> <<"f">>, type |-> [kind |-> "oneof", members |-> <<T, U>>], ids |-> ids, optional |-> TRUE]
Pinned(T, id) == [Field(T) EXCEPT !.ids = <<id>>]
Named(name, f) == [f EXCEPT !.name = name]
Plain(fields) == [i \in DOMAIN fields |-> Named(<<"f", ToString(i)>>, fields[i])]

MixedClasses == {"Mixed"} \X (Ids \cup {None}) \X (Ids \cup {None}) \X (Ids \cup {None})

MCHints ==
    (<<"Tree">>     :> Plain(<<Field(Long), Optional(Struct("Tree"))>>)) @@
    (<<"Lists">>    :> Plain(<<Field(ListOf(Long)), Field(ListOf(Of("str"))), Field(ListOf(Of("float")))>>)) @@
    (<<"Dict">>     :> Plain(<<Field(DictOf(Long, Long)), Field(Of("bool"))>>)) @@
    (<<"Structs">>  :> Plain(<<Field(Struct("Tree")), Field(ListOf(Struct("Tree"))), Field(DictOf(Of("bool"), Struct("Tree")))>>)) @@
    (<<"Times">>    :> Plain(<<Field(Of("timestamp")), Optional(Of("duration"))>>)) @@
    (<<"Floats">>   :> Plain(<<Field(Of("float")), Optional(Of("float"))>>)) @@
    (<<"Small">>    :> Plain(<<Field(Byte), Field(Color), Optional(Color), Field(ListOf(Color))>>)) @@
    (<<"Choice">>   :> <<Named(<<"a", "b">>, Union(Of("str"), Struct("Tree"), <<None, None>>)),
                         Named(<<"a", "c">>, Union(Long, Of("float"), <<None, None>>)),
                         Named(<<"a">>, Field(Of("bool")))>>) @@
    (<<"Clash">>    :> <<Named(<<"a", "b">>, Field(Long)), Named(<<"^", "a", "b">>, Field(Of("str")))>>) @@
    (<<"Twins">>    :> Plain(<<Union(Struct("Gone"), Struct("Tree"), <<None, None>>)>>)) @@
    (<<"Gone">>     :> Plain(<<Field(Long)>>)) @@
    (<<"Busy">>     :> Plain(<<Field(Of("str"))>>)) @@
    (<<"Nested">>   :> Plain(<<Field(ListOf(ListOf(Long)))>>)) @@    \* rejected, as is the next
    (<<"Vague">>    :> Plain(<<Union(Long, Of("bool"), <<None, None>>)>>)) @@
    [c \in MixedClasses |-> Plain(<<Pinned(Long, c[2]), Union(Of("str"), Of("bool"), <<c[3], None>>), Pinned(Of("str"), c[4])>>)]

Raises(c, id) == [cls |-> <<c>>, id |-> id]
MCMethods ==
    (<<"get">>      :> [returns |-> Long, raises |-> <<Raises("Gone", None), Raises("Busy", None)>>]) @@
    (<<"list">>     :> [returns |-> ListOf(Struct("Tree")), raises |-> <<>>]) @@
    (<<"put">>      :> [returns |-> None, raises |-> <<Raises("Gone", 2), Raises("Busy", None)>>]) @@
    (<<"none">>     :> [returns |-> None, raises |-> <<>>]) @@
    (<<"twice">>    :> [returns |-> None, raises |-> <<Raises("Gone", 2), Raises("Tree", 1), Raises("Busy", None)>>]) @@  \* rejected, as is the next
    (<<"late">>     :> [returns |-> None, raises |-> <<Raises("Times", None)>>])

I(n) == <<"int", n>>
S(s) == <<"str", s>>
F(x) == <<"float", x>>
B(b) == <<"bool", b>>
E(n) == <<"enum", n>>
T(n, t) == <<"obj", <<"Tree">>, <<I(n), t>>>>
L(s) == <<"list", s>>
Gone == <<"obj", <<"Gone">>, <<I(2)>>>>
Busy == <<"obj", <<"Busy">>, <<S(<<>>)>>>>

MCObjects ==
    (<<"Tree">>     :> {<<I(n), t>> : n \in {-9, -8, 0, 4}, t \in {None, T(0, None), T(-1, T(5, None))}}) @@
    (<<"Lists">>    :> {<<a, b, c>> : a \in {None, L(<<>>), L(<<I(5), I(-8)>>)},
                                      b \in {L(<<>>), L(<<S(<<>>), S(<<"a">>)>>)},
                                      c \in {L(<<>>), L(<<F("0.0")>>)}}) @@
    (<<"Dict">>     :> {<<d, b>> : d \in {None, <<"map", <<>>>>, <<"map", I(0) :> I(3)>>,
                                          <<"map", (I(2) :> I(0)) @@ (I(-1) :> I(1))>>},
                                   b \in {B(TRUE), B(FALSE), I(0), I(1), None}}) @@
    (<<"Structs">>  :> {<<t, L(s), <<"map", m>>>> : t \in {None, T(0, None), T(1, T(0, None))},
                                                   s \in {<<>>, <<T(0, None), T(3, None)>>},
                                                   m \in {<<>>, B(FALSE) :> T(0, None)}}) @@
    (<<"Times">>    :> {<<<<"timestamp", u>>, d>> : u \in {-9, -4, 0, 5}, d \in {None} \cup {<<"duration", v>> : v \in {-7, -1, 0, 8}}}) @@
    (<<"Floats">>   :> {<<F(x), y>> : x \in {"0.0", "-0.0", "1.5"}, y \in {None, F("0.0"), F("-0.0")}}) @@
    (<<"Small">>    :> {<<b, c, o, L(s)>> : b \in {I(0), I(-2), I(2)}, c \in {E(0), E(1), I(-3)}, o \in {None, E(0), I(2)},
                                            s \in {<<>>, <<E(0), I(5)>>, <<I(3), E(1)>>}}) @@
    (<<"Choice">>   :> {<<u, w, B(b)>> : u \in {None, S(<<>>), T(0, None)}, w \in {None, I(3), F("0.0")}, b \in BOOLEAN}) @@
    (<<"Clash">>    :> {<<I(n), S(<<"a">>)>> : n \in {0, 3}}) @@
    (<<"Twins">>    :> {<<Gone>>, <<T(0, None)>>}) @@
    (<<"Nested">>   :> {<<L(<<L(<<I(1)>>)>>)>>}) @@
    (<<"Vague">>    :> {<<B(TRUE)>>}) @@
    [c \in MixedClasses |-> {<<I(1), u, S(<<"a">>)>> : u \in {None, S(<<>>), B(FALSE)}}] @@
    (<<"get">>      :> {<<I(0), None, None>>, <<I(-8), None, None>>, <<None, Gone, None>>, <<None, None, Busy>>, <<None, None, None>>}) @@
    (<<"list">>     :> {<<L(<<>>)>>, <<L(<<T(0, None), T(1, T(0, None))>>)>>, <<None>>}) @@
    (<<"put">>      :> {<<None, None>>, <<Gone, None>>, <<None, Busy>>}) @@
    (<<"none">>     :> {<<>>}) @@
    (<<"twice">>    :> {<<None, None, None>>}) @@
    (<<"late">>     :> {<<None>>})

MCForms == [c \in DOMAIN MCObjects |->
    IF c \in DOMAIN MCMethods THEN {"reply"}
    ELSE IF c \in MixedClasses THEN {"protobuf", "thrift"}
    ELSE {"protobuf", "thrift", "json", "dict"}]

=============================================================================
