--------------------------- MODULE GrpcConnProofs ---------------------------
(***************************************************************************)
(* Theorems about GrpcConn, for any number of calls, any request length    *)
(* and any limits of the server.                                           *)
(***************************************************************************)
EXTENDS GrpcConn, SequenceTheorems, TLAPS

-----------------------------------------------------------------------------
(* The inductive invariant.                                                *)

OutTypes == {"ack", "headers", "data", "last", "rst", "part"}
OutFrame == [type : OutTypes, stream : Calls \cup {0}]

InFrame ==
    [type : {"rst", "wnd"}, stream : Calls]
        \cup [type : {"ping", "goaway"}, stream : {0}]
        \cup [type : {"end"}, stream : Calls, status : Statuses]

Outcomes == {"none", "deadline", "lost", "interrupted"} \cup Answers

TypeOK ==
    /\ blocking \in BOOLEAN
    /\ pc \in {"pooled", "poll", "ready", "send", "recv", "feed", "done", "gone"}
    /\ dead \in BOOLEAN
    /\ call \in CallRecord \cup {None}
    /\ out \in Seq(OutFrame)
    /\ window \in [Calls -> 1..Body]
    /\ openStreams \in SUBSET Calls /\ endSent \in SUBSET Calls
    /\ outcome \in [Calls -> Outcomes]
    /\ heard \in [Calls -> {"nothing", "open", "complete", "reset"}]
    /\ torn \in BOOLEAN /\ confused \in BOOLEAN
    /\ toClient \in Seq(InFrame)
    /\ sent \in [Calls -> SUBSET (Statuses \cup {"rst"})]
    /\ pings \in Nat
    /\ srvClosed \in BOOLEAN

\* A call is under way while unary runs.  A connection that is dead has left
\* the pool, but for a poll that has just found out and for a call whose answer
\* is complete.
PhaseInv ==
    /\ call # None <=> pc \in {"send", "recv", "feed", "done"}
    /\ pc \in {"pooled", "ready"} => ~dead
    /\ call # None /\ dead => call.ended
    /\ pc = "recv" => ~call.ended
    /\ pc = "done" => call.ended
    /\ call # None => outcome[call.stream] = "none"

\* Only control frames wait for the next write, and before a call's first
\* write its HEADERS.
OutInv ==
    /\ pc # "gone" => \A i \in 1..Len(out) :
        \/ out[i] = Control("ack")
        \/ pc = "send" /\ out[i] = Frame("headers", call.stream)
    /\ pc \in {"recv", "done"} => out = <<>>

\* The server hears of started streams only.  Nothing incomplete is written
\* through a stream writer, nor is a stream's reset before its HEADERS.
HeardInv ==
    /\ \A c \in Calls : heard[c] # "nothing" => c \in Started
    /\ ~blocking =>
        /\ ~torn /\ ~confused
        /\ call # None /\ heard[call.stream] = "nothing" =>
            Contains(out, Frame("headers", call.stream))

\* A stream is granted what its request has, one chunk at a time.
GrantInv ==
    /\ \A i \in 1..Len(toClient) :
        toClient[i].type = "wnd" => window[toClient[i].stream] < Body
    /\ \A i, j \in 1..Len(toClient) :
        toClient[i].type = "wnd" /\ toClient[i] = toClient[j] => i = j

\* An answer on its way is one the server gave on that stream, its only one.
EndInv ==
    /\ \A i \in 1..Len(toClient) : toClient[i].type = "end" =>
        toClient[i].status \in sent[toClient[i].stream]
    /\ \A i, j \in 1..Len(toClient) :
        /\ toClient[i].type = "end" /\ toClient[j].type = "end"
        /\ toClient[i].stream = toClient[j].stream
        => i = j

\* A call sends no more than it is granted, and when it has ended its answer
\* was the server's and no other is on its way.
CallInv ==
    /\ call # None => Body - call.pending <= window[call.stream]
    /\ call # None /\ call.ended =>
        /\ call.status \in Statuses /\ call.status \in sent[call.stream]
        /\ \A i \in 1..Len(toClient) :
            toClient[i].type = "end" => toClient[i].stream # call.stream

\* An open stream is the one of the call under way, or one whose answer came
\* before its request was complete.
StreamInv ==
    /\ pc # "gone" => \A c \in openStreams :
        \/ call # None /\ call.stream = c /\ ~call.ended
        \/ c \notin endSent /\ sent[c] # {}

Inv ==
    /\ TypeOK /\ PhaseInv /\ OutInv /\ HeardInv
    /\ GrantInv /\ EndInv /\ CallInv /\ StreamInv
    /\ OwnReply

-----------------------------------------------------------------------------
(* Sequences of frames.                                                    *)

\* Reading the first frame leaves the others, in order.
LEMMA HeadTail ==
    ASSUME TypeOK, toClient # <<>>
    PROVE  /\ Head(toClient) \in InFrame /\ Tail(toClient) \in Seq(InFrame)
           /\ 1 \in 1..Len(toClient) /\ Head(toClient) = toClient[1]
           /\ \A i \in 1..Len(Tail(toClient)) :
                /\ i + 1 \in 1..Len(toClient) /\ i + 1 # 1
                /\ Tail(toClient)[i] = toClient[i + 1]
                /\ Tail(toClient)[i] \in InFrame
  <1>1. toClient \in Seq(InFrame) /\ Len(toClient) \in Nat
    BY LenProperties DEF TypeOK
  <1>2. Len(toClient) \in Nat \ {0}
    BY <1>1, EmptySeq
  <1>3. /\ Head(toClient) \in InFrame /\ Tail(toClient) \in Seq(InFrame)
        /\ Len(Tail(toClient)) = Len(toClient) - 1
        /\ \A i \in 1..Len(Tail(toClient)) : Tail(toClient)[i] = toClient[i + 1]
    BY <1>1, HeadTailProperties
  <1>4. \A i \in 1..Len(Tail(toClient)) : Tail(toClient)[i] \in InFrame
    BY <1>3, ElementOfSeq
  <1>5. Head(toClient) = toClient[1]
    BY <1>1
  <1>6. \A i \in 1..(Len(toClient) - 1) : i + 1 \in 1..Len(toClient) /\ i + 1 # 1
    BY <1>2
  <1>7. 1 \in 1..Len(toClient)
    BY <1>2
  <1>8. QED
    BY <1>3, <1>4, <1>5, <1>6, <1>7

LEMMA OutElement ==
    ASSUME NEW s \in Seq(OutFrame), NEW i \in 1..Len(s)
    PROVE  s[i] \in OutFrame
  BY ElementOfSeq

LEMMA AppendOut ==
    ASSUME NEW s \in Seq(OutFrame), NEW f \in OutFrame
    PROVE  /\ Append(s, f) \in Seq(OutFrame)
           /\ \A i \in 1..Len(Append(s, f)) :
                Append(s, f)[i] = f \/ (i \in 1..Len(s) /\ Append(s, f)[i] = s[i])
           /\ \A x : Contains(s, x) => Contains(Append(s, f), x)
           /\ Contains(Append(s, f), f)
  <1>1. Len(s) \in Nat
    BY LenProperties
  <1>2. /\ Append(s, f) \in Seq(OutFrame)
        /\ Len(Append(s, f)) = Len(s) + 1
        /\ \A i \in 1..Len(s) : Append(s, f)[i] = s[i]
        /\ Append(s, f)[Len(s) + 1] = f
    BY AppendProperties
  <1>3. /\ \A i \in 1..(Len(s) + 1) : i \in 1..Len(s) \/ i = Len(s) + 1
        /\ \A i \in 1..Len(s) : i \in 1..(Len(s) + 1)
        /\ Len(s) + 1 \in 1..(Len(s) + 1)
    BY <1>1
  <1>4. QED
    BY <1>2, <1>3 DEF Contains

LEMMA ConcatOut ==
    ASSUME NEW s \in Seq(OutFrame), NEW t \in Seq(OutFrame)
    PROVE  /\ s \o t \in Seq(OutFrame)
           /\ \A x : Contains(s \o t, x) <=> Contains(s, x) \/ Contains(t, x)
  <1>1. Len(s) \in Nat /\ Len(t) \in Nat
    BY LenProperties
  <1>2. /\ s \o t \in Seq(OutFrame)
        /\ Len(s \o t) = Len(s) + Len(t)
        /\ \A i \in 1..(Len(s) + Len(t)) :
              (s \o t)[i] = IF i <= Len(s) THEN s[i] ELSE t[i - Len(s)]
    BY ConcatProperties
  <1>3. /\ \A i \in 1..Len(s) : i \in 1..(Len(s) + Len(t)) /\ i <= Len(s)
        /\ \A i \in 1..Len(t) : /\ i + Len(s) \in 1..(Len(s) + Len(t))
                                /\ ~(i + Len(s) <= Len(s)) /\ (i + Len(s)) - Len(s) = i
        /\ \A i \in 1..(Len(s) + Len(t)) :
              i \in 1..Len(s) \/ (~(i <= Len(s)) /\ i - Len(s) \in 1..Len(t))
    BY <1>1
  <1>4. ASSUME NEW x, Contains(s, x) \/ Contains(t, x)
        PROVE  Contains(s \o t, x)
    BY <1>2, <1>3, <1>4 DEF Contains
  <1>5. ASSUME NEW x, Contains(s \o t, x)
        PROVE  Contains(s, x) \/ Contains(t, x)
    BY <1>2, <1>3, <1>5 DEF Contains
  <1>6. QED
    BY <1>2, <1>4, <1>5

\* A prefix holds nothing that the whole does not.
LEMMA PrefixOut ==
    ASSUME NEW s \in Seq(OutFrame), NEW n \in 0..Len(s)
    PROVE  /\ SubSeq(s, 1, n) \in Seq(OutFrame)
           /\ \A x : Contains(SubSeq(s, 1, n), x) => Contains(s, x)
           /\ n = Len(s) => SubSeq(s, 1, n) = s
  <1>1. Len(s) \in Nat /\ n \in Nat /\ n <= Len(s)
    BY LenProperties
  <1>2. \A i \in 1..n : i \in 1..Len(s)
    BY <1>1
  <1>3. \A i \in 1..n : s[i] \in OutFrame
    BY <1>2, ElementOfSeq
  <1>4. /\ SubSeq(s, 1, n) \in Seq(OutFrame)
        /\ Len(SubSeq(s, 1, n)) = IF 1 <= n THEN n - 1 + 1 ELSE 0
        /\ \A i \in 1..(n - 1 + 1) : SubSeq(s, 1, n)[i] = s[1 + i - 1]
    BY <1>1, <1>3, SubSeqProperties
  <1>5. Len(SubSeq(s, 1, n)) = n /\ \A i \in 1..n : SubSeq(s, 1, n)[i] = s[i]
    BY <1>1, <1>4
  <1>6. \A x : Contains(SubSeq(s, 1, n), x) => Contains(s, x)
    BY <1>2, <1>5 DEF Contains
  <1>7. n = Len(s) => SubSeq(s, 1, n) = s
    BY SubSeqFull
  <1>8. QED
    BY <1>4, <1>6, <1>7

-----------------------------------------------------------------------------
(* What a write does.                                                      *)

\* The server hears of the streams of the frames it is sent.
LEMMA WriteFacts ==
    ASSUME TypeOK, NEW s \in Seq(OutFrame), Write(s)
    PROVE  /\ heard' \in [Calls -> {"nothing", "open", "complete", "reset"}]
           /\ torn' \in BOOLEAN /\ confused' \in BOOLEAN
           /\ \A c \in Calls : heard'[c] # heard[c] =>
                \E t \in OutTypes : Contains(s, Frame(t, c))
           /\ \A c \in Calls : heard[c] # "nothing" => heard'[c] # "nothing"
  <1> DEFINE n == IF Contains(s, Part) THEN CHOOSE i \in 1..Len(s) : s[i] = Part ELSE Len(s)
  <1>1. n \in 0..Len(s)
    <2>1. Len(s) \in Nat
      BY LenProperties
    <2>2. CASE Contains(s, Part)
      <3>1. n \in 1..Len(s)
        BY <2>2 DEF Contains
      <3>2. \A i \in 1..Len(s) : i \in 0..Len(s)
        BY <2>1
      <3>3. QED
        BY <3>1, <3>2
    <2>3. CASE ~Contains(s, Part)
      <3>1. n = Len(s)
        BY <2>3
      <3>2. \A m \in Nat : m \in 0..m
        OBVIOUS
      <3>3. QED
        BY <2>1, <3>1, <3>2
    <2>4. QED
      BY <2>2, <2>3
  <1>2. Whole(s) = SubSeq(s, 1, n)
    BY DEF Whole
  <1> HIDE DEF n
  <1>3. \A x : Contains(Whole(s), x) => Contains(s, x)
    BY <1>1, <1>2, PrefixOut
  <1>4. \A c \in Calls : /\ HeardAfter(Whole(s), c) \in {"nothing", "open", "complete", "reset"}
                         /\ HeardAfter(Whole(s), c) # heard[c] =>
                                \E t \in OutTypes : Contains(s, Frame(t, c))
                         /\ heard[c] # "nothing" => HeardAfter(Whole(s), c) # "nothing"
    BY <1>3 DEF HeardAfter, TypeOK, OutTypes
  <1>5. torn' \in BOOLEAN /\ confused' \in BOOLEAN
    BY DEF Write
  <1>6. CASE torn \/ confused
    BY <1>5, <1>6 DEF Write, TypeOK
  <1>7. CASE ~(torn \/ confused)
    <2>1. heard' = [c \in Calls |-> HeardAfter(Whole(s), c)]
      BY <1>7 DEF Write
    <2>2. QED
      BY <1>4, <1>5, <2>1
  <1>8. QED
    BY <1>6, <1>7

\* Whole frames, with no reset of a stream that is not announced, leave the
\* server's reader in step.
LEMMA WholeWrite ==
    ASSUME TypeOK, NEW s \in Seq(OutFrame), Write(s), ~torn, ~confused,
           ~Contains(s, Part),
           \A c \in Calls : Contains(s, Frame("rst", c)) =>
                Contains(s, Frame("headers", c)) \/ heard[c] # "nothing"
    PROVE  /\ ~torn' /\ ~confused'
           /\ \A c \in Calls : Contains(s, Frame("headers", c)) => heard'[c] # "nothing"
  <1>1. Whole(s) = s
    <2>1. Whole(s) = SubSeq(s, 1, Len(s))
      BY DEF Whole
    <2>2. QED
      BY <2>1, SubSeqFull
  <1>2. ~ResetsUnseen(s)
    BY DEF ResetsUnseen
  <1>3. heard' = [c \in Calls |-> HeardAfter(s, c)]
    BY <1>1 DEF Write
  <1>4. QED
    BY <1>1, <1>2, <1>3 DEF Write, HeardAfter

-----------------------------------------------------------------------------
(* What a frame from the server does.                                      *)

LEMMA SameGrant ==
    \A f, g \in InFrame :
        f.type = "wnd" /\ g.type = "wnd" /\ f.stream = g.stream => f = g /\ f.stream \in Calls
  BY DEF InFrame

LEMMA EffectFacts ==
    ASSUME Inv, toClient # <<>>, Effect(Head(toClient)), sent' = sent
    PROVE  /\ toClient' \in Seq(InFrame) /\ window' \in [Calls -> 1..Body]
           /\ out' \in Seq(OutFrame) /\ dead' \in BOOLEAN
           /\ openStreams' \subseteq openStreams
           /\ \A c \in Calls : window[c] <= window'[c]
           /\ \A i \in 1..Len(out') :
                out'[i] = Control("ack") \/ (i \in 1..Len(out) /\ out'[i] = out[i])
           /\ \A x : Contains(out, x) => Contains(out', x)
           /\ GrantInv' /\ EndInv'
  <1> DEFINE f == Head(toClient)
             t == Tail(toClient)
  <1>0. TypeOK /\ GrantInv /\ EndInv
    BY DEF Inv
  <1>1. /\ f \in InFrame /\ t \in Seq(InFrame) /\ f = toClient[1] /\ 1 \in 1..Len(toClient)
        /\ \A i \in 1..Len(t) : /\ i + 1 \in 1..Len(toClient) /\ i + 1 # 1
                                /\ t[i] = toClient[i + 1] /\ t[i] \in InFrame
    BY <1>0, HeadTail
  <1>2. /\ dead' = (dead \/ Kills(f))
        /\ openStreams' = openStreams \ Frees(f)
        /\ window' = IF f.type = "wnd" THEN [window EXCEPT ![f.stream] = @ + 1] ELSE window
        /\ out' = IF f.type = "ping" THEN Append(out, Control("ack")) ELSE out
        /\ toClient' = t
    BY DEF Effect
  <1> HIDE DEF f, t
  <1>3. window \in [Calls -> 1..Body] /\ out \in Seq(OutFrame) /\ Body \in Nat \ {0}
    BY <1>0, BoundsAssumption DEF TypeOK
  <1>4. f.type = "wnd" => f.stream \in Calls /\ window[f.stream] < Body
    BY <1>0, <1>1, SameGrant DEF GrantInv
  <1>5. /\ \A c \in Calls : window'[c] =
              IF f.type = "wnd" /\ c = f.stream THEN window[c] + 1 ELSE window[c]
        /\ window' \in [Calls -> 1..Body]
    <2>1. CASE f.type = "wnd"
      <3>1. window' = [window EXCEPT ![f.stream] = @ + 1]
        BY <1>2, <2>1
      <3>2. window[f.stream] + 1 \in 1..Body
        BY <1>3, <1>4, <2>1
      <3>3. QED
        BY <1>3, <1>4, <2>1, <3>1, <3>2
    <2>2. CASE f.type # "wnd"
      BY <1>2, <1>3, <2>2
    <2>3. QED
      BY <2>1, <2>2
  <1>6. \A c \in Calls : window[c] <= window'[c]
    <2>1. \A c \in Calls : window[c] \in Int
      BY <1>3
    <2>2. QED
      BY <1>5, <2>1
  <1>7. /\ out' \in Seq(OutFrame)
        /\ \A i \in 1..Len(out') :
                out'[i] = Control("ack") \/ (i \in 1..Len(out) /\ out'[i] = out[i])
        /\ \A x : Contains(out, x) => Contains(out', x)
    <2>1. Control("ack") \in OutFrame
      BY DEF Control, Frame, OutFrame, OutTypes
    <2>2. CASE f.type = "ping"
      BY <1>2, <1>3, <2>1, <2>2, AppendOut
    <2>3. CASE f.type # "ping"
      BY <1>2, <1>3, <2>3
    <2>4. QED
      BY <2>2, <2>3
  <1>8. GrantInv'
    <2>1. ASSUME NEW i \in 1..Len(t), t[i].type = "wnd"
          PROVE  window'[t[i].stream] < Body
      <3>1. /\ t[i] = toClient[i + 1] /\ i + 1 \in 1..Len(toClient) /\ i + 1 # 1
            /\ t[i] \in InFrame
        BY <1>1
      <3>2. window[t[i].stream] < Body /\ t[i].stream \in Calls
        BY <1>0, <2>1, <3>1, SameGrant DEF GrantInv
      <3>3. f.type = "wnd" => t[i].stream # f.stream
        BY <1>0, <1>1, <2>1, <3>1, SameGrant DEF GrantInv
      <3>4. QED
        BY <1>5, <3>2, <3>3
    <2>2. ASSUME NEW i \in 1..Len(t), NEW j \in 1..Len(t), t[i].type = "wnd", t[i] = t[j]
          PROVE  i = j
      <3>1. i + 1 = j + 1
        BY <1>0, <1>1, <2>2 DEF GrantInv
      <3>2. QED
        BY <3>1
    <2>3. QED
      BY <1>2, <2>1, <2>2 DEF GrantInv
  <1>9. EndInv'
    <2>1. \A i \in 1..Len(t) : t[i].type = "end" => t[i].status \in sent[t[i].stream]
      BY <1>0, <1>1 DEF EndInv
    <2>2. ASSUME NEW i \in 1..Len(t), NEW j \in 1..Len(t),
                 t[i].type = "end", t[j].type = "end", t[i].stream = t[j].stream
          PROVE  i = j
      <3>1. i + 1 = j + 1
        BY <1>0, <1>1, <2>2 DEF EndInv
      <3>2. QED
        BY <3>1
    <2>3. QED
      BY <1>2, <2>1, <2>2 DEF EndInv
  <1>10. dead' \in BOOLEAN
    BY <1>2, <1>0 DEF TypeOK
  <1>11. QED
    BY <1>1, <1>2, <1>5, <1>6, <1>7, <1>8, <1>9, <1>10

-----------------------------------------------------------------------------
(* What a call sends.                                                      *)

LEMMA ChunksFacts ==
    ASSUME Inv, call # None
    PROVE  /\ call \in CallRecord
           /\ Chunks \in 0..call.pending
           /\ call.ended => Chunks = 0
           /\ Body - (call.pending - Chunks) <= window[call.stream]
           /\ call.pending - Chunks \in 0..Body
  <1>1. /\ call \in CallRecord /\ call.stream \in Calls /\ call.pending \in 0..Body
        /\ window[call.stream] \in 1..Body /\ Body \in Nat
        /\ Body - call.pending <= window[call.stream]
    BY BoundsAssumption DEF Inv, TypeOK, CallRecord, CallInv
  <1>2. CASE call.ended \/ dead
    <2>1. Chunks = 0 /\ call.pending - 0 = call.pending
      BY <1>1, <1>2 DEF Chunks
    <2>2. QED
      BY <1>1, <2>1
  <1>3. CASE ~(call.ended \/ dead)
    <2>1. Chunks = window[call.stream] - (Body - call.pending)
      BY <1>3 DEF Chunks
    <2>2. QED
      BY <1>1, <1>3, <2>1
  <1>4. QED
    BY <1>2, <1>3

LEMMA DataFacts ==
    ASSUME call \in CallRecord, NEW n \in Nat
    PROVE  /\ Data(n) \in Seq(OutFrame)
           /\ \A x : Contains(Data(n), x) =>
                x = Frame("last", call.stream) \/ x = Frame("data", call.stream)
  <1>1. Frame("last", call.stream) \in OutFrame /\ Frame("data", call.stream) \in OutFrame
    BY DEF Frame, OutFrame, OutTypes, CallRecord
  <1>2. \A i \in 1..n :
            Frame(IF i = call.pending THEN "last" ELSE "data", call.stream) \in
                {Frame("last", call.stream), Frame("data", call.stream)}
    OBVIOUS
  <1>3. Data(n) \in Seq(OutFrame) /\ Len(Data(n)) = n
    BY <1>1, <1>2 DEF Data
  <1>4. \A i \in 1..n : Data(n)[i] \in {Frame("last", call.stream), Frame("data", call.stream)}
    BY <1>2 DEF Data
  <1>5. QED
    BY <1>3, <1>4 DEF Contains

\* Of the call's own stream, or a control frame; and all that was queued.
LEMMA ToSendFacts ==
    ASSUME Inv, pc = "send"
    PROVE  /\ call # None /\ ToSend \in Seq(OutFrame)
           /\ \A x : Contains(ToSend, x) =>
                \/ x = Control("ack")
                \/ \E t \in {"headers", "data", "last"} : x = Frame(t, call.stream)
           /\ \A x : Contains(out, x) => Contains(ToSend, x)
  <1>1. call # None /\ call \in CallRecord /\ out \in Seq(OutFrame)
    BY DEF Inv, PhaseInv, TypeOK
  <1>2. Chunks \in Nat
    BY <1>1, ChunksFacts DEF CallRecord
  <1>3. \A x : Contains(out, x) => x = Control("ack") \/ x = Frame("headers", call.stream)
    BY DEF Inv, OutInv, Contains
  <1>4. QED
    BY <1>1, <1>2, <1>3, DataFacts, ConcatOut DEF ToSend

-----------------------------------------------------------------------------
(* The steps of the connection.                                            *)

\* A call ends, and its connection goes back to the pool or is closed.
LEMMA EndedKeeps ==
    ASSUME Inv, call # None, NEW o \in Outcomes \ {"none"},
           o \in Answers => o \in sent[call.stream],
           call' = None, outcome' = [outcome EXCEPT ![call.stream] = o],
           UNCHANGED <<blocking, sent, pings, srvClosed>>,
           dead' \in BOOLEAN, pc' = IF dead' THEN "gone" ELSE "pooled",
           ~dead' => /\ out' = <<>>
                     /\ \A c \in openStreams' : c \notin endSent' /\ sent[c] # {},
           out' \in Seq(OutFrame), window' \in [Calls -> 1..Body],
           openStreams' \in SUBSET Calls, endSent' \in SUBSET Calls,
           toClient' \in Seq(InFrame),
           heard' \in [Calls -> {"nothing", "open", "complete", "reset"}],
           \A c \in Calls : heard'[c] # "nothing" => c \in Started,
           torn' \in BOOLEAN, confused' \in BOOLEAN,
           ~blocking => ~torn' /\ ~confused',
           GrantInv', EndInv'
    PROVE  Inv'
  <1>1. /\ call.stream \in Calls /\ outcome \in [Calls -> Outcomes]
        /\ \A c \in Calls : outcome'[c] = IF c = call.stream THEN o ELSE outcome[c]
    BY DEF Inv, TypeOK, CallRecord
  <1>2. TypeOK'
    BY <1>1 DEF Inv, TypeOK
  <1>3. PhaseInv'
    BY DEF PhaseInv
  <1>4. OutInv'
    <2>1. Len(<<>>) = 0 /\ 1..0 = {}
      BY EmptySeq
    <2>2. QED
      BY <2>1 DEF OutInv
  <1>5. HeardInv'
    <2>1. \A c \in Calls : c \in Started => c \in Started'
      BY <1>1 DEF Started
    <2>2. QED
      BY <2>1 DEF HeardInv
  <1>6. CallInv' /\ StreamInv'
    BY DEF CallInv, StreamInv
  <1>7. OwnReply'
    BY <1>1 DEF Inv, OwnReply
  <1>8. QED
    BY <1>2, <1>3, <1>4, <1>5, <1>6, <1>7 DEF Inv

\* When a call ends with nothing written or read, and the connection with it.
LEMMA BrokenKeeps ==
    ASSUME Inv, call # None, NEW o \in {"lost", "interrupted"}, EndCall(o, TRUE),
           out' \in Seq(OutFrame), endSent' \in SUBSET Calls,
           UNCHANGED <<window, openStreams, wire, toClient, server>>
    PROVE  Inv'
  <1>1. /\ call' = None /\ outcome' = [outcome EXCEPT ![call.stream] = o]
        /\ dead' = TRUE /\ pc' = "gone" /\ blocking' = blocking
    BY DEF EndCall
  <1>2. o \in Outcomes \ {"none"} /\ o \notin Answers
    BY DEF Outcomes, Answers
  <1>3. GrantInv' /\ EndInv'
    BY DEF Inv, GrantInv, EndInv, server
  <1>4. /\ UNCHANGED <<sent, pings, srvClosed, heard, torn, confused>>
        /\ window \in [Calls -> 1..Body] /\ openStreams \in SUBSET Calls
        /\ toClient \in Seq(InFrame)
        /\ heard \in [Calls -> {"nothing", "open", "complete", "reset"}]
        /\ torn \in BOOLEAN /\ confused \in BOOLEAN
        /\ ~blocking => ~torn /\ ~confused
        /\ \A c \in Calls : heard[c] # "nothing" => c \in Started
    BY DEF server, wire, Inv, TypeOK, HeardInv
  <1>5. QED
    BY <1>1, <1>2, <1>3, <1>4, EndedKeeps

LEMMA PollKeeps == Inv /\ (Poll \/ CloseIdle) => Inv'
  <1> SUFFICES ASSUME Inv, Poll \/ CloseIdle
               PROVE  Inv'
    OBVIOUS
  <1>1. /\ UNCHANGED <<blocking, call, out, window, openStreams, endSent, outcome, heard,
                       torn, confused, toClient, sent, pings, srvClosed>>
        /\ pc = "pooled"
        /\ (pc' = "poll" /\ dead' = dead) \/ (pc' = "gone" /\ dead')
        /\ dead' \in BOOLEAN
    BY DEF Poll, CloseIdle, wire, server, Inv, TypeOK
  <1>2. TypeOK' /\ PhaseInv'
    BY <1>1 DEF Inv, TypeOK, PhaseInv
  <1>3. OutInv' /\ HeardInv'
    BY <1>1 DEF Inv, OutInv, HeardInv, Started
  <1>4. GrantInv' /\ EndInv' /\ CallInv' /\ StreamInv' /\ OwnReply'
    BY <1>1 DEF Inv, GrantInv, EndInv, CallInv, StreamInv, OwnReply
  <1>5. QED
    BY <1>2, <1>3, <1>4 DEF Inv

LEMMA PollFrameKeeps == Inv /\ PollFrame => Inv'
  <1> SUFFICES ASSUME Inv, PollFrame
               PROVE  Inv'
    OBVIOUS
  <1>1. /\ UNCHANGED <<blocking, pc, call, endSent, outcome, heard, torn, confused, sent,
                       pings, srvClosed>>
        /\ pc = "poll" /\ toClient # <<>> /\ Effect(Head(toClient))
    BY DEF PollFrame, wire, server
  <1>2. /\ toClient' \in Seq(InFrame) /\ window' \in [Calls -> 1..Body]
        /\ out' \in Seq(OutFrame) /\ dead' \in BOOLEAN
        /\ openStreams' \subseteq openStreams
        /\ \A i \in 1..Len(out') :
                out'[i] = Control("ack") \/ (i \in 1..Len(out) /\ out'[i] = out[i])
        /\ GrantInv' /\ EndInv'
    BY <1>1, EffectFacts
  <1>3. TypeOK'
    BY <1>1, <1>2 DEF Inv, TypeOK
  <1>4. PhaseInv' /\ call = None
    BY <1>1 DEF Inv, PhaseInv
  <1>5. OutInv'
    BY <1>1, <1>2 DEF Inv, OutInv
  <1>6. HeardInv' /\ CallInv' /\ StreamInv' /\ OwnReply'
    BY <1>1, <1>2, <1>4 DEF Inv, HeardInv, Started, CallInv, StreamInv, OwnReply
  <1>7. QED
    BY <1>2, <1>3, <1>4, <1>5, <1>6 DEF Inv

LEMMA PollEofKeeps == Inv /\ PollEof => Inv'
  <1> SUFFICES ASSUME Inv, PollEof
               PROVE  Inv'
    OBVIOUS
  <1>1. /\ UNCHANGED <<blocking, pc, call, out, window, openStreams, endSent, outcome, heard,
                       torn, confused, toClient, sent, pings, srvClosed>>
        /\ pc = "poll" /\ dead'
        /\ dead' \in BOOLEAN
    BY DEF PollEof, wire, server
  <1>2. TypeOK' /\ PhaseInv'
    BY <1>1 DEF Inv, TypeOK, PhaseInv
  <1>3. OutInv' /\ HeardInv'
    BY <1>1 DEF Inv, OutInv, HeardInv, Started
  <1>4. GrantInv' /\ EndInv' /\ CallInv' /\ StreamInv' /\ OwnReply'
    BY <1>1 DEF Inv, GrantInv, EndInv, CallInv, StreamInv, OwnReply
  <1>5. QED
    BY <1>2, <1>3, <1>4 DEF Inv

LEMMA PollDoneKeeps == Inv /\ PollDone => Inv'
  <1> SUFFICES ASSUME Inv, PollDone
               PROVE  Inv'
    OBVIOUS
  <1>1. /\ UNCHANGED <<blocking, call, window, openStreams, endSent, outcome, toClient, sent,
                       pings, srvClosed>>
        /\ pc = "poll" /\ pc' = IF dead' THEN "gone" ELSE "ready"
        /\ \/ UNCHANGED <<dead, out, heard, torn, confused>> /\ dead
           \/ out' = <<>> /\ Write(out) /\ UNCHANGED dead
           \/ out' = <<>> /\ dead' = TRUE /\ UNCHANGED <<heard, torn, confused>>
    BY DEF PollDone, wire, server
  <1>2. /\ TypeOK /\ call = None /\ out \in Seq(OutFrame)
        /\ \A x : Contains(out, x) => x = Control("ack")
    BY <1>1 DEF Inv, PhaseInv, TypeOK, OutInv, Contains
  <1>3. /\ heard' \in [Calls -> {"nothing", "open", "complete", "reset"}]
        /\ torn' \in BOOLEAN /\ confused' \in BOOLEAN
        /\ heard' = heard
        /\ ~blocking => ~torn' /\ ~confused'
    <2>1. CASE UNCHANGED <<heard, torn, confused>>
      BY <2>1 DEF Inv, TypeOK, HeardInv
    <2>2. CASE Write(out)
      <3>1. \A c \in Calls, t \in OutTypes : ~Contains(out, Frame(t, c))
        BY <1>2 DEF Control, Frame, Calls
      <3>2. /\ heard' \in [Calls -> {"nothing", "open", "complete", "reset"}]
            /\ torn' \in BOOLEAN /\ confused' \in BOOLEAN
            /\ \A c \in Calls : heard'[c] = heard[c]
        BY <1>2, <2>2, <3>1, WriteFacts
      <3>3. heard' = heard
        BY <1>2, <3>2 DEF TypeOK
      <3>4. ~Contains(out, Part)
        BY <1>2 DEF Part, Control, Frame
      <3>5. ~blocking => ~torn /\ ~confused
        BY DEF Inv, HeardInv
      <3>6. ~blocking => ~torn' /\ ~confused'
        BY <1>2, <2>2, <3>1, <3>4, <3>5, WholeWrite DEF OutTypes
      <3>7. QED
        BY <3>2, <3>3, <3>6
    <2>3. QED
      BY <1>1, <2>1, <2>2
  <1>4. out' \in Seq(OutFrame) /\ (pc' # "gone" => out' = <<>>) /\ dead' \in BOOLEAN
    BY <1>1, <1>2, EmptySeq DEF TypeOK
  <1>5. TypeOK'
    BY <1>1, <1>2, <1>3, <1>4 DEF TypeOK
  <1>6. PhaseInv' /\ CallInv' /\ StreamInv'
    BY <1>1, <1>2 DEF PhaseInv, CallInv, Inv, StreamInv
  <1>7. OutInv'
    <2>1. Len(<<>>) = 0 /\ 1..0 = {}
      BY EmptySeq
    <2>2. QED
      BY <1>1, <1>4, <2>1 DEF OutInv
  <1>8. HeardInv' /\ GrantInv' /\ EndInv' /\ OwnReply'
    BY <1>1, <1>2, <1>3 DEF Inv, HeardInv, Started, GrantInv, EndInv, OwnReply
  <1>9. QED
    BY <1>5, <1>6, <1>7, <1>8 DEF Inv

LEMMA StartKeeps == ASSUME Inv, NEW c \in Calls, Start(c) PROVE Inv'
  <1>1. /\ UNCHANGED <<blocking, dead, window, endSent, outcome, heard, torn, confused,
                       toClient, sent, pings, srvClosed>>
        /\ pc = "ready" /\ pc' = "send" /\ call = None
        /\ call' = NewCall(c) /\ openStreams' = openStreams \cup {c}
        /\ out' = Append(out, Frame("headers", c))
    BY DEF Start, wire, server
  <1>2. outcome[c] = "none" /\ ~dead
    BY <1>1 DEF Start, Unused, Started, Inv, PhaseInv
  <1>3. /\ call' \in CallRecord /\ call'.stream = c /\ ~call'.ended /\ call'.pending = Body
        /\ call' # None
    <2>1. NewCall(c) \in CallRecord
      BY BoundsAssumption DEF NewCall, CallRecord
    <2>2. QED
      BY <1>1, <2>1, NoneAssumption DEF NewCall
  <1>4. /\ out' \in Seq(OutFrame)
        /\ \A i \in 1..Len(out') :
              out'[i] = Frame("headers", c) \/ (i \in 1..Len(out) /\ out'[i] = out[i])
        /\ Contains(out', Frame("headers", c))
    <2>1. Frame("headers", c) \in OutFrame /\ out \in Seq(OutFrame)
      BY DEF Frame, OutFrame, OutTypes, Inv, TypeOK
    <2>2. QED
      BY <1>1, <2>1, AppendOut
  <1>5. TypeOK'
    BY <1>1, <1>3, <1>4 DEF Inv, TypeOK
  <1>6. PhaseInv'
    BY <1>1, <1>2, <1>3 DEF PhaseInv
  <1>7. OutInv'
    BY <1>1, <1>3, <1>4 DEF Inv, OutInv
  <1>8. HeardInv'
    BY <1>1, <1>3, <1>4 DEF Inv, HeardInv, Started
  <1>9. CallInv'
    <2>1. window[c] \in 1..Body /\ Body \in Nat
      BY BoundsAssumption DEF Inv, TypeOK
    <2>2. Body - Body <= window[c]
      BY <2>1
    <2>3. QED
      BY <1>1, <1>3, <2>2 DEF CallInv
  <1>10. StreamInv' /\ GrantInv' /\ EndInv' /\ OwnReply'
    BY <1>1, <1>3 DEF Inv, StreamInv, GrantInv, EndInv, OwnReply
  <1>11. QED
    BY <1>5, <1>6, <1>7, <1>8, <1>9, <1>10 DEF Inv

LEMMA StartRefusedKeeps == ASSUME Inv, NEW c \in Calls, StartRefused(c) PROVE Inv'
  <1>1. /\ UNCHANGED <<blocking, call, out, window, openStreams, endSent, heard, torn,
                       confused, toClient, sent, pings, srvClosed>>
        /\ pc = "ready" /\ pc' = "gone" /\ call = None /\ dead' = TRUE
        /\ outcome' = [outcome EXCEPT ![c] = "lost"]
    BY DEF StartRefused, wire, server
  <1>2. \A d \in Calls : outcome'[d] = IF d = c THEN "lost" ELSE outcome[d]
    BY <1>1 DEF Inv, TypeOK
  <1>3. TypeOK'
    BY <1>1 DEF Inv, TypeOK, Outcomes
  <1>4. PhaseInv' /\ OutInv' /\ GrantInv' /\ EndInv' /\ CallInv' /\ StreamInv'
    BY <1>1 DEF Inv, PhaseInv, OutInv, GrantInv, EndInv, CallInv, StreamInv
  <1>5. HeardInv' /\ OwnReply'
    BY <1>1, <1>2 DEF Inv, HeardInv, Started, OwnReply, Answers
  <1>6. QED
    BY <1>3, <1>4, <1>5 DEF Inv

\* Frames of the call's own stream make nothing known to the server but that
\* stream.
LEMMA OwnFramesHeard ==
    ASSUME Inv, call # None, NEW s \in Seq(OutFrame), Write(s),
           \A x : Contains(s, x) => x.stream \in {0, call.stream}
    PROVE  \A c \in Calls : heard'[c] # "nothing" => c \in Started
  <1> SUFFICES ASSUME NEW c \in Calls, heard'[c] # "nothing", heard'[c] # heard[c]
               PROVE  c \in Started
    BY DEF Inv, HeardInv
  <1>1. PICK t \in OutTypes : Contains(s, Frame(t, c))
    BY WriteFacts DEF Inv
  <1>2. c \in {0, call.stream}
    BY <1>1 DEF Frame
  <1>3. QED
    BY <1>2 DEF Started, Calls

LEMMA SendingFacts ==
    ASSUME Inv, Sending
    PROVE  /\ pc = "send" /\ call # None /\ call \in CallRecord
           /\ out' = <<>> /\ out' \in Seq(OutFrame)
           /\ endSent' \in SUBSET Calls
           /\ endSent' \subseteq endSent \cup {call.stream}
           /\ call.ended => endSent' = endSent
  <1>1. pc = "send" /\ out' = <<>>
    BY DEF Sending
  <1>2. call # None /\ call \in CallRecord /\ call.stream \in Calls /\ endSent \in SUBSET Calls
    BY <1>1 DEF Inv, PhaseInv, TypeOK, CallRecord
  <1>3. call.ended => Chunks = 0
    BY <1>2, ChunksFacts
  <1>4. call.pending > 0 => call.pending # 0
    BY <1>2 DEF CallRecord
  <1>5. QED
    BY <1>1, <1>2, <1>3, <1>4, EmptySeq DEF Sending

LEMMA SendKeeps == Inv /\ Send => Inv'
  <1> SUFFICES ASSUME Inv, Send
               PROVE  Inv'
    OBVIOUS
  <1>1. /\ pc = "send" /\ call # None /\ call \in CallRecord
        /\ out' = <<>> /\ out' \in Seq(OutFrame)
        /\ endSent' \in SUBSET Calls /\ endSent' \subseteq endSent \cup {call.stream}
        /\ call.ended => endSent' = endSent
    BY SendingFacts DEF Send
  <1>2. /\ UNCHANGED <<blocking, dead, window, openStreams, outcome, toClient, sent, pings,
                       srvClosed>>
        /\ call' = [call EXCEPT !.pending = @ - Chunks]
        /\ Write(ToSend)
        /\ pc' = IF call.ended THEN "done" ELSE "recv"
    BY DEF Send, server
  <1>3. /\ ToSend \in Seq(OutFrame)
        /\ \A x : Contains(ToSend, x) =>
                \/ x = Control("ack")
                \/ \E t \in {"headers", "data", "last"} : x = Frame(t, call.stream)
        /\ \A x : Contains(out, x) => Contains(ToSend, x)
    BY <1>1, ToSendFacts
  <1>4. /\ call' \in CallRecord /\ call' # None
        /\ call'.stream = call.stream /\ call'.ended = call.ended
        /\ call'.status = call.status /\ call'.pending = call.pending - Chunks
        /\ Body - call'.pending <= window[call.stream]
    <2>1. /\ Body - (call.pending - Chunks) <= window[call.stream]
          /\ call.pending - Chunks \in 0..Body
      BY <1>1, ChunksFacts
    <2>2. call' \in CallRecord
      BY <1>1, <1>2, <2>1 DEF CallRecord
    <2>3. QED
      BY <1>1, <1>2, <2>1, <2>2, NoneAssumption DEF CallRecord
  <1>5. /\ heard' \in [Calls -> {"nothing", "open", "complete", "reset"}]
        /\ torn' \in BOOLEAN /\ confused' \in BOOLEAN
        /\ \A c \in Calls : heard[c] # "nothing" => heard'[c] # "nothing"
    BY <1>2, <1>3, WriteFacts DEF Inv
  <1>6. \A c \in Calls : heard'[c] # "nothing" => c \in Started
    <2>1. \A x : Contains(ToSend, x) => x.stream \in {0, call.stream}
      BY <1>3 DEF Control, Frame
    <2>2. QED
      BY <1>1, <1>2, <1>3, <2>1, OwnFramesHeard
  <1>7. ASSUME ~blocking
        PROVE  ~torn' /\ ~confused' /\ heard'[call.stream] # "nothing"
    <2>1. ~torn /\ ~confused
      BY <1>7 DEF Inv, HeardInv
    <2>2. ~Contains(ToSend, Part) /\ \A c \in Calls : ~Contains(ToSend, Frame("rst", c))
      BY <1>3 DEF Part, Control, Frame
    <2>3. heard[call.stream] # "nothing" \/ Contains(ToSend, Frame("headers", call.stream))
      BY <1>1, <1>3, <1>7 DEF Inv, HeardInv
    <2>4. QED
      BY <1>1, <1>2, <1>3, <1>5, <2>1, <2>2, <2>3, WholeWrite DEF Inv, CallRecord
  <1>8. TypeOK'
    BY <1>1, <1>2, <1>4, <1>5 DEF Inv, TypeOK
  <1>9. PhaseInv'
    BY <1>1, <1>2, <1>4 DEF Inv, PhaseInv
  <1>10. OutInv'
    <2>1. Len(<<>>) = 0 /\ 1..0 = {}
      BY EmptySeq
    <2>2. QED
      BY <1>1, <2>1 DEF OutInv
  <1>11. HeardInv'
    <2>1. Started' = Started
      BY <1>1, <1>2, <1>4 DEF Started
    <2>2. QED
      BY <1>2, <1>4, <1>6, <1>7, <2>1 DEF HeardInv
  <1>12. GrantInv' /\ EndInv' /\ OwnReply'
    BY <1>2 DEF Inv, GrantInv, EndInv, OwnReply
  <1>13. CallInv'
    BY <1>1, <1>2, <1>4 DEF Inv, CallInv
  <1>14. StreamInv'
    BY <1>1, <1>2, <1>4 DEF Inv, StreamInv
  <1>15. QED
    BY <1>8, <1>9, <1>10, <1>11, <1>12, <1>13, <1>14 DEF Inv

\* An expired deadline frees the stream, unless its answer is complete.
LEMMA CancelKeeps ==
    ASSUME Inv, pc \in {"send", "recv"}, NEW s \in Seq(OutFrame), Cancel(s),
           out' = <<>>, endSent' \in SUBSET Calls,
           endSent' \subseteq endSent \cup {call.stream},
           call.ended => endSent' = endSent,
           \A x : Contains(s, x) =>
                \/ x = Control("ack")
                \/ x = Part /\ blocking
                \/ \E t \in {"headers", "data", "last"} : x = Frame(t, call.stream),
           ~blocking => \/ heard[call.stream] # "nothing"
                        \/ Contains(s, Frame("headers", call.stream)),
           UNCHANGED <<window, toClient, server>>
    PROVE  Inv'
  <1> DEFINE r == IF call.ended THEN <<>> ELSE <<Frame("rst", call.stream)>>
  <1>1. call # None /\ call \in CallRecord /\ call.stream \in Calls
    BY DEF Inv, PhaseInv, TypeOK, CallRecord
  <1>2. /\ openStreams' = IF call.ended THEN openStreams ELSE openStreams \ {call.stream}
        /\ call' = None /\ blocking' = blocking
        /\ outcome' = [outcome EXCEPT ![call.stream] = "deadline"]
        /\ dead' \in BOOLEAN /\ pc' = IF dead' THEN "gone" ELSE "pooled"
        /\ Write(s \o r) \/ (blocking /\ Write(s))
    BY DEF Cancel, EndCall, Inv, TypeOK
  <1>3. r \in Seq(OutFrame) /\ \A x : Contains(r, x) => x = Frame("rst", call.stream)
    <2>1. Frame("rst", call.stream) \in OutFrame
      BY <1>1 DEF Frame, OutFrame, OutTypes
    <2>2. CASE call.ended
      <3>1. r = <<>> /\ Len(<<>>) = 0 /\ 1..0 = {}
        BY <2>2, EmptySeq
      <3>2. QED
        BY <3>1, EmptySeq DEF Contains
    <2>3. CASE ~call.ended
      <3> DEFINE f == Frame("rst", call.stream)
      <3>1. r = <<f>>
        BY <2>3
      <3> HIDE DEF f
      <3>2. <<f>> \in Seq(OutFrame) /\ Len(<<f>>) = 1 /\ <<f>>[1] = f
        BY <2>1 DEF f
      <3>3. \A i \in 1..1 : i = 1
        OBVIOUS
      <3>4. QED
        BY <3>1, <3>2, <3>3 DEF Contains, f
    <2>4. QED
      BY <2>2, <2>3
  <1> HIDE DEF r
  <1>4. /\ s \o r \in Seq(OutFrame)
        /\ \A x : Contains(s \o r, x) <=> Contains(s, x) \/ Contains(r, x)
    BY <1>3, ConcatOut
  <1>5. /\ heard' \in [Calls -> {"nothing", "open", "complete", "reset"}]
        /\ torn' \in BOOLEAN /\ confused' \in BOOLEAN
        /\ \A c \in Calls : heard'[c] # "nothing" => c \in Started
    <2>1. \A x : Contains(s, x) \/ Contains(r, x) => x.stream \in {0, call.stream}
      BY <1>3 DEF Control, Frame, Part
    <2>2. CASE Write(s \o r)
      BY <1>1, <1>4, <2>1, <2>2, WriteFacts, OwnFramesHeard DEF Inv
    <2>3. CASE Write(s)
      BY <1>1, <2>1, <2>3, WriteFacts, OwnFramesHeard DEF Inv
    <2>4. QED
      BY <1>2, <2>2, <2>3
  <1>6. ASSUME ~blocking
        PROVE  ~torn' /\ ~confused'
    <2>1. Write(s \o r)
      BY <1>2, <1>6
    <2>2. ~torn /\ ~confused
      BY <1>6 DEF Inv, HeardInv
    <2>3. ~Contains(s \o r, Part)
      BY <1>3, <1>4, <1>6 DEF Part, Control, Frame
    <2>4. \A c \in Calls : Contains(s \o r, Frame("rst", c)) => c = call.stream
      BY <1>3, <1>4 DEF Part, Control, Frame
    <2>5. \/ heard[call.stream] # "nothing"
          \/ Contains(s \o r, Frame("headers", call.stream))
      BY <1>4, <1>6
    <2>6. QED
      BY <1>4, <2>1, <2>2, <2>3, <2>4, <2>5, WholeWrite DEF Inv
  <1>7. openStreams' \in SUBSET Calls /\ openStreams' \subseteq openStreams
    BY <1>2 DEF Inv, TypeOK
  <1>8. \A c \in openStreams' : c \notin endSent' /\ sent[c] # {}
    <2>1. \A c \in openStreams' : c \notin endSent /\ sent[c] # {}
      BY <1>2 DEF Inv, StreamInv
    <2>2. CASE call.ended
      BY <2>1, <2>2
    <2>3. CASE ~call.ended
      BY <1>2, <2>1, <2>3
    <2>4. QED
      BY <2>2, <2>3
  <1>9. GrantInv' /\ EndInv'
    BY DEF Inv, GrantInv, EndInv, server
  <1>10. /\ UNCHANGED <<sent, pings, srvClosed>>
         /\ window' \in [Calls -> 1..Body] /\ toClient' \in Seq(InFrame)
         /\ out' \in Seq(OutFrame)
    BY EmptySeq DEF server, Inv, TypeOK
  <1>11. "deadline" \in Outcomes \ {"none"} /\ "deadline" \notin Answers
    BY DEF Outcomes, Answers
  <1>12. QED
    BY <1>1, <1>2, <1>5, <1>6, <1>7, <1>8, <1>9, <1>10, <1>11, EndedKeeps

LEMMA SendTimesOutKeeps == Inv /\ SendTimesOut => Inv'
  <1> SUFFICES ASSUME Inv, SendTimesOut
               PROVE  Inv'
    OBVIOUS
  <1>1. PICK s \in Taken : Cancel(s)
    BY DEF SendTimesOut
  <1>2. /\ pc = "send" /\ call # None /\ out' = <<>>
        /\ endSent' \in SUBSET Calls /\ endSent' \subseteq endSent \cup {call.stream}
        /\ call.ended => endSent' = endSent
        /\ UNCHANGED <<window, toClient, server>>
    BY SendingFacts DEF SendTimesOut
  <1>3. /\ ToSend \in Seq(OutFrame)
        /\ \A x : Contains(ToSend, x) =>
                \/ x = Control("ack")
                \/ \E t \in {"headers", "data", "last"} : x = Frame(t, call.stream)
        /\ \A x : Contains(out, x) => Contains(ToSend, x)
    BY <1>2, ToSendFacts
  <1>4. /\ s \in Seq(OutFrame)
        /\ \A x : Contains(s, x) => Contains(ToSend, x) \/ (x = Part /\ blocking)
        /\ ~blocking => s = ToSend
    <2>1. CASE ~blocking
      BY <1>1, <1>3, <2>1 DEF Taken
    <2>2. CASE blocking
      <3>1. PICK k \in 0..(Len(ToSend) - 1) :
                s = SubSeq(ToSend, 1, k) \/ s = Append(SubSeq(ToSend, 1, k), Part)
        BY <1>1, <2>2 DEF Taken
      <3>2. k \in 0..Len(ToSend)
        BY <1>3, LenProperties
      <3> DEFINE p == SubSeq(ToSend, 1, k)
      <3>3. p \in Seq(OutFrame) /\ \A x : Contains(p, x) => Contains(ToSend, x)
        BY <1>3, <3>2, PrefixOut
      <3>4. Part \in OutFrame
        BY DEF Part, Control, Frame, OutFrame, OutTypes
      <3> HIDE DEF p
      <3>5. /\ Append(p, Part) \in Seq(OutFrame)
            /\ \A i \in 1..Len(Append(p, Part)) :
                Append(p, Part)[i] = Part \/ (i \in 1..Len(p) /\ Append(p, Part)[i] = p[i])
        BY <3>3, <3>4, AppendOut
      <3>6. \A x : Contains(Append(p, Part), x) => x = Part \/ Contains(p, x)
        BY <3>5 DEF Contains
      <3>7. s = p \/ s = Append(p, Part)
        BY <3>1 DEF p
      <3>8. QED
        BY <2>2, <3>3, <3>5, <3>6, <3>7
    <2>3. QED
      BY <2>1, <2>2
  <1>5. ~blocking => \/ heard[call.stream] # "nothing"
                     \/ Contains(s, Frame("headers", call.stream))
    BY <1>2, <1>3, <1>4 DEF Inv, HeardInv
  <1>6. \A x : Contains(s, x) =>
            \/ x = Control("ack")
            \/ x = Part /\ blocking
            \/ \E t \in {"headers", "data", "last"} : x = Frame(t, call.stream)
    BY <1>3, <1>4
  <1>7. s \in Seq(OutFrame) /\ pc \in {"send", "recv"}
    BY <1>2, <1>4
  <1>8. QED
    BY <1>1, <1>2, <1>5, <1>6, <1>7, CancelKeeps

LEMMA RecvTimesOutKeeps == Inv /\ RecvTimesOut => Inv'
  <1> SUFFICES ASSUME Inv, RecvTimesOut
               PROVE  Inv'
    OBVIOUS
  <1>1. /\ pc = "recv" /\ Cancel(<<>>)
        /\ UNCHANGED <<out, endSent, window, toClient, server>>
    BY DEF RecvTimesOut
  <1>2. out = <<>> /\ call # None /\ endSent \in SUBSET Calls
    BY <1>1 DEF Inv, OutInv, PhaseInv, TypeOK
  <1>3. /\ <<>> \in Seq(OutFrame)
        /\ \A x : ~Contains(<<>>, x)
    <2>1. Len(<<>>) = 0 /\ 1..0 = {} /\ <<>> \in Seq(OutFrame)
      BY EmptySeq
    <2>2. QED
      BY <2>1 DEF Contains
  <1>4. ~blocking => heard[call.stream] # "nothing"
    BY <1>2, <1>3 DEF Inv, HeardInv
  <1>5. QED
    BY <1>1, <1>2, <1>3, <1>4, CancelKeeps

LEMMA FeedKeeps == Inv /\ Feed => Inv'
  <1> SUFFICES ASSUME Inv, Feed
               PROVE  Inv'
    OBVIOUS
  <1> DEFINE f == Head(toClient)
  <1>1. /\ UNCHANGED <<blocking, endSent, heard, torn, confused, sent, pings, srvClosed>>
        /\ pc \in {"recv", "feed"} /\ toClient # <<>> /\ Effect(f)
    BY DEF Feed, wire, server
  <1>2. /\ toClient' \in Seq(InFrame) /\ window' \in [Calls -> 1..Body]
        /\ out' \in Seq(OutFrame) /\ dead' \in BOOLEAN
        /\ openStreams' \subseteq openStreams
        /\ \A c \in Calls : window[c] <= window'[c]
        /\ \A i \in 1..Len(out') :
                out'[i] = Control("ack") \/ (i \in 1..Len(out) /\ out'[i] = out[i])
        /\ \A x : Contains(out, x) => Contains(out', x)
        /\ GrantInv' /\ EndInv'
    BY <1>1, EffectFacts
  <1>3. /\ call # None /\ call \in CallRecord /\ call.stream \in Calls
        /\ openStreams' \in SUBSET Calls /\ endSent \in SUBSET Calls
    BY <1>1, <1>2 DEF Inv, PhaseInv, TypeOK, CallRecord
  <1>4. /\ f \in InFrame /\ f = toClient[1] /\ 1 \in 1..Len(toClient)
        /\ toClient' = Tail(toClient)
        /\ \A i \in 1..Len(toClient') : /\ i + 1 \in 1..Len(toClient) /\ i + 1 # 1
                                        /\ toClient'[i] = toClient[i + 1]
    <2>1. toClient' = Tail(toClient)
      BY <1>1 DEF Effect
    <2>2. QED
      BY <1>1, <2>1, HeadTail DEF Inv
  <1>5. /\ dead' = (dead \/ Kills(f))
        /\ openStreams' = openStreams \ Frees(f)
    BY <1>1 DEF Effect
  <1>6. \/ /\ Raises(f) /\ call' = None /\ pc' = "gone"
           /\ outcome' = [outcome EXCEPT ![call.stream] = "lost"]
        \/ /\ ~Raises(f) /\ call' = Fed(f) /\ outcome' = outcome
           /\ pc' \in {"send", "feed"}
    BY DEF Feed
  <1> HIDE DEF f
  <1>7. CASE Raises(f)
    <2>1. dead' = TRUE /\ call' = None /\ pc' = "gone"
          /\ outcome' = [outcome EXCEPT ![call.stream] = "lost"]
      BY <1>5, <1>6, <1>7 DEF Raises
    <2>2. "lost" \in Outcomes \ {"none"} /\ "lost" \notin Answers
      BY DEF Outcomes, Answers
    <2>3. /\ heard' \in [Calls -> {"nothing", "open", "complete", "reset"}]
          /\ torn' \in BOOLEAN /\ confused' \in BOOLEAN
          /\ \A c \in Calls : heard'[c] # "nothing" => c \in Started
          /\ ~blocking => ~torn' /\ ~confused'
      BY <1>1 DEF Inv, TypeOK, HeardInv
    <2>4. QED
      BY <1>1, <1>2, <1>3, <2>1, <2>2, <2>3, EndedKeeps
  <1>8. CASE ~Raises(f)
    <2>1. call' = Fed(f) /\ outcome' = outcome /\ pc' \in {"send", "feed"}
      BY <1>6, <1>8
    <2>2. f.type = "end" => f.status \in Statuses /\ f.status \in sent[f.stream]
      BY <1>4 DEF Inv, EndInv, InFrame
    <2>3. /\ call' \in CallRecord /\ call' # None
          /\ call'.stream = call.stream /\ call'.pending = call.pending
          /\ IF f.stream = call.stream /\ f.type = "end"
             THEN call'.ended /\ call'.status = f.status
             ELSE call' = call
      <3>1. CASE f.stream = call.stream /\ f.type = "end"
        <4>1. call' = [call EXCEPT !.ended = TRUE, !.status = f.status]
          BY <1>3, <2>1, <3>1 DEF Fed, Own
        <4>2. QED
          BY <1>3, <2>2, <3>1, <4>1, NoneAssumption DEF CallRecord
      <3>2. CASE ~(f.stream = call.stream /\ f.type = "end")
        BY <1>3, <2>1, <3>2 DEF Fed, Own
      <3>3. QED
        BY <3>1, <3>2
    <2>4. TypeOK'
      BY <1>1, <1>2, <1>3, <2>1, <2>3 DEF Inv, TypeOK
    <2>5. PhaseInv'
      <3>1. dead' => call'.ended
        BY <1>3, <1>5, <1>8, <2>3 DEF Raises, Inv, PhaseInv
      <3>2. QED
        BY <1>3, <2>1, <2>3, <3>1 DEF Inv, PhaseInv
    <2>6. OutInv'
      <3>1. \A i \in 1..Len(out) : out[i] = Control("ack")
        BY <1>1 DEF Inv, OutInv
      <3>2. QED
        BY <1>2, <2>1, <3>1 DEF OutInv
    <2>7. HeardInv'
      <3>1. Started' = Started
        BY <1>3, <2>1, <2>3 DEF Started
      <3>2. QED
        BY <1>1, <1>2, <1>3, <2>3, <3>1 DEF Inv, HeardInv
    <2>8. CallInv'
      <3>1. Body - call'.pending <= window'[call'.stream]
        <4>1. /\ Body - call.pending <= window[call.stream]
              /\ window[call.stream] <= window'[call.stream]
              /\ window[call.stream] \in Int /\ window'[call.stream] \in Int
              /\ call.pending \in Int /\ Body \in Int
          BY <1>2, <1>3, BoundsAssumption DEF Inv, CallInv, TypeOK, CallRecord
        <4>2. QED
          BY <2>3, <4>1
      <3>2. ASSUME call'.ended
            PROVE  /\ call'.status \in Statuses /\ call'.status \in sent[call.stream]
                   /\ \A i \in 1..Len(toClient') :
                        toClient'[i].type = "end" => toClient'[i].stream # call.stream
        <4>1. CASE f.stream = call.stream /\ f.type = "end"
          BY <1>4, <2>2, <2>3, <4>1 DEF Inv, EndInv
        <4>2. CASE ~(f.stream = call.stream /\ f.type = "end")
          BY <1>3, <1>4, <2>3, <3>2, <4>2 DEF Inv, CallInv
        <4>3. QED
          BY <4>1, <4>2
      <3>3. QED
        BY <1>1, <2>3, <3>1, <3>2 DEF CallInv
    <2>9. StreamInv'
      <3>1. ASSUME NEW c \in openStreams',
                   ~(call' # None /\ call'.stream = c /\ ~call'.ended)
            PROVE  c \notin endSent /\ sent[c] # {}
        <4>1. c \in openStreams /\ c \notin Frees(f)
          BY <1>5
        <4>2. CASE f.stream = call.stream /\ f.type = "end" /\ c = call.stream
          BY <2>2, <4>1, <4>2 DEF Frees
        <4>3. CASE ~(f.stream = call.stream /\ f.type = "end" /\ c = call.stream)
          BY <1>1, <2>3, <3>1, <4>1, <4>3 DEF Inv, StreamInv
        <4>4. QED
          BY <4>2, <4>3
      <3>2. QED
        BY <1>1, <3>1 DEF StreamInv
    <2>10. OwnReply'
      BY <1>1, <2>1 DEF Inv, OwnReply
    <2>11. QED
      BY <1>2, <2>4, <2>5, <2>6, <2>7, <2>8, <2>9, <2>10 DEF Inv
  <1>9. QED
    BY <1>7, <1>8

LEMMA FinishKeeps == Inv /\ Finish => Inv'
  <1> SUFFICES ASSUME Inv, Finish
               PROVE  Inv'
    OBVIOUS
  <1>1. /\ pc = "done" /\ UNCHANGED <<out, endSent, window, openStreams, wire, toClient, server>>
        /\ call # None /\ call.ended /\ call.status \in Statuses
        /\ call.status \in sent[call.stream]
    BY DEF Finish, Inv, PhaseInv, CallInv
  <1>2. out \in Seq(OutFrame) /\ endSent \in SUBSET Calls /\ out = <<>>
    BY <1>1 DEF Inv, TypeOK, OutInv
  <1>3. CASE call.status = "bad"
    <2>1. EndCall("lost", TRUE)
      BY <1>3 DEF Finish
    <2>2. QED
      BY <1>1, <1>2, <2>1, BrokenKeeps
  <1>4. CASE call.status # "bad"
    <2> DEFINE o == call.status
    <2>1. EndCall(o, FALSE)
      BY <1>4 DEF Finish
    <2>2. o \in Outcomes \ {"none"}
      BY <1>1, <1>4 DEF Statuses, Outcomes, Answers
    <2> HIDE DEF o
    <2>3. /\ call' = None /\ outcome' = [outcome EXCEPT ![call.stream] = o]
          /\ dead' \in BOOLEAN /\ pc' = IF dead' THEN "gone" ELSE "pooled"
          /\ blocking' = blocking
      BY <2>1 DEF EndCall
    <2>4. /\ UNCHANGED <<sent, pings, srvClosed, heard, torn, confused>>
          /\ window' \in [Calls -> 1..Body] /\ openStreams' \in SUBSET Calls
          /\ toClient' \in Seq(InFrame)
          /\ heard' \in [Calls -> {"nothing", "open", "complete", "reset"}]
          /\ torn' \in BOOLEAN /\ confused' \in BOOLEAN
          /\ ~blocking => ~torn' /\ ~confused'
          /\ \A c \in Calls : heard'[c] # "nothing" => c \in Started
      BY <1>1 DEF server, wire, Inv, TypeOK, HeardInv
    <2>5. \A c \in openStreams' : c \notin endSent' /\ sent[c] # {}
      BY <1>1 DEF Inv, StreamInv
    <2>6. GrantInv' /\ EndInv'
      BY <1>1 DEF Inv, GrantInv, EndInv, server
    <2>7. o \in sent[call.stream]
      BY <1>1 DEF o
    <2>8. out' = <<>> /\ out' \in Seq(OutFrame) /\ endSent' \in SUBSET Calls
      BY <1>1, <1>2
    <2>9. QED
      BY <1>1, <2>2, <2>3, <2>4, <2>5, <2>6, <2>7, <2>8, EndedKeeps
  <1>5. QED
    BY <1>3, <1>4

\* A write or a read fails, the peer closes, or the caller is interrupted.
LEMMA AbortKeeps == Inv /\ (SendFails \/ RecvEof \/ Interrupt) => Inv'
  <1> SUFFICES ASSUME Inv, SendFails \/ RecvEof \/ Interrupt
               PROVE  Inv'
    OBVIOUS
  <1>1. CASE SendFails
    <2>1. /\ call # None /\ out' \in Seq(OutFrame) /\ endSent' \in SUBSET Calls
          /\ EndCall("lost", TRUE)
          /\ UNCHANGED <<window, openStreams, wire, toClient, server>>
      BY <1>1, SendingFacts DEF SendFails
    <2>2. QED
      BY <2>1, BrokenKeeps
  <1>2. CASE RecvEof \/ Interrupt
    <2>1. /\ call # None
          /\ EndCall("lost", TRUE) \/ EndCall("interrupted", TRUE)
          /\ UNCHANGED <<out, endSent, window, openStreams, wire, toClient, server>>
          /\ out \in Seq(OutFrame) /\ endSent \in SUBSET Calls
      BY <1>2 DEF RecvEof, Interrupt, Inv, PhaseInv, TypeOK
    <2>2. QED
      BY <2>1, BrokenKeeps
  <1>3. QED
    BY <1>1, <1>2

-----------------------------------------------------------------------------
(* The steps of the server.                                                *)

LEMMA AppendIn ==
    ASSUME TypeOK, NEW f \in InFrame, toClient' = Append(toClient, f)
    PROVE  /\ toClient' \in Seq(InFrame)
           /\ \A i \in 1..Len(toClient') :
                \/ i = Len(toClient) + 1 /\ toClient'[i] = f
                \/ i \in 1..Len(toClient) /\ toClient'[i] = toClient[i]
  <1>1. toClient \in Seq(InFrame) /\ Len(toClient) \in Nat
    BY LenProperties DEF TypeOK
  <1>2. /\ Append(toClient, f) \in Seq(InFrame)
        /\ Len(Append(toClient, f)) = Len(toClient) + 1
        /\ \A i \in 1..Len(toClient) : Append(toClient, f)[i] = toClient[i]
        /\ Append(toClient, f)[Len(toClient) + 1] = f
    BY <1>1, AppendProperties
  <1>3. \A i \in 1..(Len(toClient) + 1) : i \in 1..Len(toClient) \/ i = Len(toClient) + 1
    BY <1>1
  <1>4. QED
    BY <1>2, <1>3

\* What a server sends leaves the client's side alone.
LEMMA ServerKeeps ==
    ASSUME Inv, UNCHANGED <<client, wire>>, toClient' \in Seq(InFrame),
           sent' \in [Calls -> SUBSET (Statuses \cup {"rst"})],
           pings' \in Nat, srvClosed' \in BOOLEAN,
           \A c \in Calls : sent[c] \subseteq sent'[c],
           GrantInv', EndInv',
           call # None /\ call.ended => \A i \in 1..Len(toClient') :
                toClient'[i].type = "end" => toClient'[i].stream # call.stream
    PROVE  Inv'
  <1>1. UNCHANGED <<blocking, pc, dead, call, out, window, openStreams, endSent, outcome,
                    heard, torn, confused>>
    BY DEF client, wire
  <1>2. call # None => call.stream \in Calls
    BY DEF Inv, TypeOK, CallRecord
  <1>3. TypeOK'
    BY <1>1 DEF Inv, TypeOK
  <1>4. PhaseInv' /\ OutInv' /\ HeardInv'
    BY <1>1 DEF Inv, PhaseInv, OutInv, HeardInv, Started
  <1>5. CallInv'
    BY <1>1, <1>2 DEF Inv, CallInv
  <1>6. StreamInv'
    <2>1. openStreams \subseteq Calls
      BY DEF Inv, TypeOK
    <2>2. QED
      BY <1>1, <2>1 DEF Inv, StreamInv
  <1>7. OwnReply'
    BY <1>1 DEF Inv, OwnReply
  <1>8. QED
    BY <1>3, <1>4, <1>5, <1>6, <1>7 DEF Inv

LEMMA ServerAnswersKeeps ==
    ASSUME Inv, NEW c \in Calls, NEW status \in Statuses, ServerAnswers(c, status)
    PROVE  Inv'
  <1> DEFINE f == [type |-> "end", stream |-> c, status |-> status]
  <1>1. /\ UNCHANGED <<client, wire, pings, srvClosed>> /\ sent[c] = {}
        /\ toClient' = Append(toClient, f) /\ sent' = [sent EXCEPT ![c] = {status}]
    BY DEF ServerAnswers, ServerSends
  <1>2. f \in InFrame /\ f.type = "end" /\ f.stream = c /\ f.status = status
    BY DEF InFrame
  <1> HIDE DEF f
  <1>3. /\ toClient' \in Seq(InFrame)
        /\ \A i \in 1..Len(toClient') :
             \/ i = Len(toClient) + 1 /\ toClient'[i] = f
             \/ i \in 1..Len(toClient) /\ toClient'[i] = toClient[i]
    BY <1>1, <1>2, AppendIn DEF Inv
  <1>4. /\ sent' \in [Calls -> SUBSET (Statuses \cup {"rst"})]
        /\ \A d \in Calls : sent'[d] = IF d = c THEN {status} ELSE sent[d]
        /\ \A d \in Calls : sent[d] \subseteq sent'[d]
    BY <1>1 DEF Inv, TypeOK
  <1>5. \A i \in 1..Len(toClient) :
            toClient[i].type = "end" => toClient[i].stream \in Calls /\ toClient[i].stream # c
    <2>1. \A i \in 1..Len(toClient) : toClient[i] \in InFrame
      BY ElementOfSeq DEF Inv, TypeOK
    <2>2. QED
      BY <1>1, <2>1 DEF Inv, EndInv, InFrame
  <1>6. GrantInv'
    <2>1. window' = window
      BY <1>1 DEF client
    <2>2. QED
      BY <1>2, <1>3, <2>1 DEF Inv, GrantInv
  <1>7. EndInv'
    BY <1>2, <1>3, <1>4, <1>5 DEF Inv, EndInv
  <1>8. call # None /\ call.ended => \A i \in 1..Len(toClient') :
                toClient'[i].type = "end" => toClient'[i].stream # call.stream
    BY <1>1, <1>2, <1>3 DEF Inv, CallInv
  <1>9. pings' \in Nat /\ srvClosed' \in BOOLEAN
    BY <1>1 DEF Inv, TypeOK
  <1>10. QED
    BY <1>1, <1>3, <1>4, <1>6, <1>7, <1>8, <1>9, ServerKeeps

\* A frame that is neither an answer nor a grant.
LEMMA OtherFrameKeeps ==
    ASSUME Inv, NEW f \in InFrame, f.type \in {"rst", "ping", "goaway"},
           toClient' = Append(toClient, f), UNCHANGED <<client, wire>>,
           sent' \in [Calls -> SUBSET (Statuses \cup {"rst"})],
           pings' \in Nat, srvClosed' \in BOOLEAN,
           \A c \in Calls : sent[c] \subseteq sent'[c]
    PROVE  Inv'
  <1>1. /\ toClient' \in Seq(InFrame)
        /\ \A i \in 1..Len(toClient') :
             \/ i = Len(toClient) + 1 /\ toClient'[i] = f
             \/ i \in 1..Len(toClient) /\ toClient'[i] = toClient[i]
    BY AppendIn DEF Inv
  <1>2. \A i \in 1..Len(toClient) : toClient[i].type = "end" => toClient[i].stream \in Calls
    <2>1. \A i \in 1..Len(toClient) : toClient[i] \in InFrame
      BY ElementOfSeq DEF Inv, TypeOK
    <2>2. QED
      BY <2>1 DEF InFrame
  <1>3. GrantInv'
    <2>1. window' = window
      BY DEF client
    <2>2. QED
      BY <1>1, <2>1 DEF Inv, GrantInv
  <1>4. EndInv'
    BY <1>1, <1>2 DEF Inv, EndInv
  <1>5. call # None /\ call.ended => \A i \in 1..Len(toClient') :
                toClient'[i].type = "end" => toClient'[i].stream # call.stream
    BY <1>1 DEF Inv, CallInv
  <1>6. QED
    BY <1>1, <1>3, <1>4, <1>5, ServerKeeps

LEMMA ServerResetsKeeps == ASSUME Inv, NEW c \in Calls, ServerResets(c) PROVE Inv'
  <1>1. /\ UNCHANGED <<client, wire, pings, srvClosed>>
        /\ toClient' = Append(toClient, Frame("rst", c))
        /\ sent' = [sent EXCEPT ![c] = @ \cup {"rst"}]
    BY DEF ServerResets, ServerSends
  <1>2. Frame("rst", c) \in InFrame /\ Frame("rst", c).type = "rst"
    BY DEF Frame, InFrame
  <1>3. /\ sent' \in [Calls -> SUBSET (Statuses \cup {"rst"})]
        /\ \A d \in Calls : sent[d] \subseteq sent'[d]
        /\ pings' \in Nat /\ srvClosed' \in BOOLEAN
    BY <1>1 DEF Inv, TypeOK
  <1>4. QED
    BY <1>1, <1>2, <1>3, OtherFrameKeeps

LEMMA ServerGrantsKeeps == ASSUME Inv, NEW c \in Calls, ServerGrants(c) PROVE Inv'
  <1> DEFINE f == Frame("wnd", c)
  <1>1. /\ UNCHANGED <<client, wire, server>> /\ toClient' = Append(toClient, f)
        /\ window[c] < Body
        /\ \A i \in 1..Len(toClient) : toClient[i] # f
    BY DEF ServerGrants, ServerSends, Contains
  <1>2. f \in InFrame /\ f.type = "wnd" /\ f.stream = c
    BY DEF Frame, InFrame
  <1> HIDE DEF f
  <1>3. /\ toClient' \in Seq(InFrame)
        /\ \A i \in 1..Len(toClient') :
             \/ i = Len(toClient) + 1 /\ toClient'[i] = f
             \/ i \in 1..Len(toClient) /\ toClient'[i] = toClient[i]
    BY <1>1, <1>2, AppendIn DEF Inv
  <1>4. UNCHANGED <<sent, pings, srvClosed, window>>
    BY <1>1 DEF server, client
  <1>5. GrantInv'
    BY <1>1, <1>2, <1>3, <1>4 DEF Inv, GrantInv
  <1>6. EndInv'
    BY <1>2, <1>3, <1>4 DEF Inv, EndInv
  <1>7. call # None /\ call.ended => \A i \in 1..Len(toClient') :
                toClient'[i].type = "end" => toClient'[i].stream # call.stream
    BY <1>2, <1>3 DEF Inv, CallInv
  <1>8. /\ sent' \in [Calls -> SUBSET (Statuses \cup {"rst"})]
        /\ \A d \in Calls : sent[d] \subseteq sent'[d]
        /\ pings' \in Nat /\ srvClosed' \in BOOLEAN
    BY <1>4 DEF Inv, TypeOK
  <1>9. QED
    BY <1>1, <1>3, <1>5, <1>6, <1>7, <1>8, ServerKeeps

LEMMA ServerPingsKeeps == Inv /\ ServerPings => Inv'
  <1> SUFFICES ASSUME Inv, ServerPings
               PROVE  Inv'
    OBVIOUS
  <1>1. /\ UNCHANGED <<client, wire, sent, srvClosed>>
        /\ toClient' = Append(toClient, Control("ping")) /\ pings' = pings + 1
    BY DEF ServerPings, ServerSends
  <1>2. Control("ping") \in InFrame /\ Control("ping").type = "ping"
    BY DEF Control, Frame, InFrame
  <1>3. /\ sent' \in [Calls -> SUBSET (Statuses \cup {"rst"})]
        /\ \A d \in Calls : sent[d] \subseteq sent'[d]
        /\ pings' \in Nat /\ srvClosed' \in BOOLEAN
    BY <1>1 DEF Inv, TypeOK
  <1>4. QED
    BY <1>1, <1>2, <1>3, OtherFrameKeeps

LEMMA ServerLeavesKeeps == Inv /\ ServerLeaves => Inv'
  <1> SUFFICES ASSUME Inv, ServerLeaves
               PROVE  Inv'
    OBVIOUS
  <1>1. /\ UNCHANGED <<client, wire, sent, pings>> /\ srvClosed' = TRUE
        /\ toClient' = Append(toClient, Control("goaway")) \/ UNCHANGED toClient
    BY DEF ServerLeaves, ServerSends
  <1>2. Control("goaway") \in InFrame /\ Control("goaway").type = "goaway"
    BY DEF Control, Frame, InFrame
  <1>3. /\ sent' \in [Calls -> SUBSET (Statuses \cup {"rst"})]
        /\ \A d \in Calls : sent[d] \subseteq sent'[d]
        /\ pings' \in Nat /\ srvClosed' \in BOOLEAN
    BY <1>1 DEF Inv, TypeOK
  <1>4. CASE toClient' = Append(toClient, Control("goaway"))
    BY <1>1, <1>2, <1>3, <1>4, OtherFrameKeeps
  <1>5. CASE UNCHANGED toClient
    <2>1. GrantInv' /\ EndInv' /\ toClient' \in Seq(InFrame)
      BY <1>1, <1>5 DEF Inv, GrantInv, EndInv, TypeOK, client
    <2>2. call # None /\ call.ended => \A i \in 1..Len(toClient') :
                toClient'[i].type = "end" => toClient'[i].stream # call.stream
      BY <1>5 DEF Inv, CallInv
    <2>3. QED
      BY <1>1, <1>3, <2>1, <2>2, ServerKeeps
  <1>6. QED
    BY <1>1, <1>4, <1>5

-----------------------------------------------------------------------------
(* The invariant is inductive, and what follows.                           *)

LEMMA InitInv == Init => Inv
  <1> SUFFICES ASSUME Init
               PROVE  Inv
    OBVIOUS
  <1>1. Len(<<>>) = 0 /\ 1..0 = {}
    BY EmptySeq
  <1>2. TypeOK
    <2>1. 1 \in 1..Body
      BY BoundsAssumption
    <2>2. <<>> \in Seq(OutFrame) /\ <<>> \in Seq(InFrame)
      BY EmptySeq
    <2>3. QED
      BY <2>1, <2>2 DEF Init, TypeOK, Outcomes
  <1>3. PhaseInv /\ OutInv /\ HeardInv /\ CallInv
    BY <1>1 DEF Init, PhaseInv, OutInv, HeardInv, CallInv
  <1>4. GrantInv /\ EndInv /\ StreamInv /\ OwnReply
    BY <1>1 DEF Init, GrantInv, EndInv, StreamInv, OwnReply, Answers
  <1>5. QED
    BY <1>2, <1>3, <1>4 DEF Inv

LEMMA NextInv == Inv /\ [Next]_vars => Inv'
  <1> SUFFICES ASSUME Inv, [Next]_vars
               PROVE  Inv'
    OBVIOUS
  <1>1. CASE UNCHANGED vars
    BY <1>1 DEF vars, client, wire, server, Inv, TypeOK, PhaseInv, OutInv, HeardInv,
                Started, GrantInv, EndInv, CallInv, StreamInv, OwnReply
  <1>2. CASE Client
    BY <1>2, PollKeeps, PollFrameKeeps, PollEofKeeps, PollDoneKeeps, StartKeeps,
       StartRefusedKeeps, SendKeeps, SendTimesOutKeeps, RecvTimesOutKeeps, FeedKeeps,
       FinishKeeps, AbortKeeps
    DEF Client
  <1>3. CASE Server
    BY <1>3, ServerAnswersKeeps, ServerResetsKeeps, ServerGrantsKeeps, ServerPingsKeeps,
       ServerLeavesKeeps
    DEF Server
  <1>4. QED
    BY <1>1, <1>2, <1>3 DEF Next

\* Every variable of the connection, of the wire and of the server keeps its
\* type; a call never has more pending than its request nor less than nothing.
THEOREM TypeCorrect == Spec => []TypeOK
  <1>1. Inv => TypeOK
    BY DEF Inv
  <1>2. QED
    BY <1>1, InitInv, NextInv, PTL DEF Spec

\* A call that unary answers gets an answer the server gave on its own stream,
\* whatever frames of earlier streams are still arriving.
THEOREM RepliesAreOwn == Spec => []OwnReply
  <1>1. Inv => OwnReply
    BY DEF Inv
  <1>2. QED
    BY <1>1, InitInv, NextInv, PTL DEF Spec

\* Between two calls a connection is healthy, and h2 holds nothing back for it
\* but acknowledgements.
THEOREM PoolHoldsCleanConnections == Spec => []PooledIsClean
  <1>1. Inv => PooledIsClean
    <2>1. ASSUME Inv, pc \in {"pooled", "ready"}
          PROVE  call = None /\ ~dead /\ \A i \in 1..Len(out) : out[i].type = "ack"
      BY <2>1 DEF Inv, PhaseInv, OutInv, Control, Frame
    <2>2. QED
      BY <2>1 DEF PooledIsClean
  <1>2. QED
    BY <1>1, InitInv, NextInv, PTL DEF Spec

\* The only streams that an idle connection still counts as open are those
\* the server answered before it had the whole request: cancel frees the rest.
THEOREM DeadlinesFreeStreams == Spec => []OnlyAnsweredStreamsStayOpen
  <1>1. Inv => OnlyAnsweredStreamsStayOpen
    BY DEF Inv, StreamInv, OnlyAnsweredStreamsStayOpen
  <1>2. QED
    BY <1>1, InitInv, NextInv, PTL DEF Spec

\* aio.py never puts a server's frame reader out of step, however its calls end.
THEOREM StreamWritersStayInStep == Spec => []WholeFrames
  <1>1. Inv => WholeFrames
    BY DEF Inv, HeardInv, WholeFrames
  <1>2. QED
    BY <1>1, InitInv, NextInv, PTL DEF Spec

\* No frame that follows a complete answer in the same read takes it back:
\* neither a reset or a GOAWAY, nor a second end of the stream.
THEOREM AnswersSurvive == Spec => FinishedSurvives
  <1>1. Inv => (pc = "feed" /\ Ended /\ Feed => Ended' /\ call' = call)
    <2> SUFFICES ASSUME Inv, pc = "feed", Ended, Feed
                 PROVE  Ended' /\ call' = call
      OBVIOUS
    <2> DEFINE f == Head(toClient)
    <2>1. call # None /\ call.ended /\ toClient # <<>>
      BY DEF Ended, Feed
    <2>2. ~Raises(f) /\ call' = Fed(f)
      BY <2>1 DEF Feed, Raises
    <2>3. f = toClient[1] /\ 1 \in 1..Len(toClient)
      BY <2>1, HeadTail DEF Inv
    <2> HIDE DEF f
    <2>4. f.type = "end" => f.stream # call.stream
      BY <2>1, <2>3 DEF Inv, CallInv
    <2>5. call' = call
      BY <2>2, <2>4 DEF Fed, Own
    <2>6. QED
      BY <2>1, <2>5 DEF Ended
  <1>2. QED
    BY <1>1, InitInv, NextInv, PTL DEF Spec, FinishedSurvives

-----------------------------------------------------------------------------
(* The connection keeps its contract with the session.                     *)

\* The contract's variables.
Current == IF call = None THEN None ELSE call.stream
Ending == [c \in Calls |-> IF outcome[c] = "interrupted" THEN "lost" ELSE outcome[c]]
Answered == [c \in Calls |-> sent[c] \cap Answers]

LEMMA ContractVars ==
    UNCHANGED <<Current, Ending, Answered, Healthy>> => UNCHANGED Contract!vars
  BY DEF Contract!vars, Current, Ending, Answered

\* A call that ends with o ends so for the contract, too.
LEMMA EndIsEnd ==
    ASSUME Inv, call # None, NEW c \in Calls, c = call.stream,
           NEW o \in Outcomes \ {"none"}, call' = None, sent' = sent,
           outcome' = [outcome EXCEPT ![c] = o],
           NEW e \in Outcomes, o = "interrupted" => e = "lost", o # "interrupted" => e = o
    PROVE  Contract!End(c, e)
  <1>1. outcome \in [Calls -> Outcomes]
    BY DEF Inv, TypeOK
  <1>2. Current = c /\ Current' = None
    BY DEF Current
  <1>3. Ending' = [Ending EXCEPT ![c] = e]
    BY <1>1 DEF Ending
  <1>4. Answered' = Answered
    BY DEF Answered
  <1>5. QED
    BY <1>2, <1>3, <1>4 DEF Contract!End, Current, Ending, Answered

\* Only the health of the connection changes, if anything does.
LEMMA BreakOrStutter ==
    ASSUME Inv, UNCHANGED <<outcome, sent>>, Current' = Current, dead => dead',
           dead' \in BOOLEAN
    PROVE  [Contract!Next]_(Contract!vars)
  <1>1. Ending' = Ending /\ Answered' = Answered
    BY DEF Ending, Answered
  <1>2. CASE dead'
    <2>1. Contract!Break
      BY <1>1, <1>2 DEF Contract!Break, Healthy, Current, Ending, Answered
    <2>2. QED
      BY <2>1 DEF Contract!Next
  <1>3. CASE ~dead'
    <2>1. Healthy' = Healthy
      BY <1>3 DEF Healthy, Inv, TypeOK
    <2>2. QED
      BY <1>1, <2>1, ContractVars
  <1>4. QED
    BY <1>2, <1>3

LEMMA StepKeepsContract == Inv /\ [Next]_vars => [Contract!Next]_(Contract!vars)
  <1> SUFFICES ASSUME Inv, [Next]_vars
               PROVE  [Contract!Next]_(Contract!vars)
    OBVIOUS
  <1>0. /\ dead \in BOOLEAN
        /\ call # None => call.stream \in Calls
        /\ "lost" \in Outcomes \ {"none"} /\ "deadline" \in Outcomes \ {"none"}
        /\ "interrupted" \in Outcomes \ {"none"}
    BY DEF Inv, TypeOK, CallRecord, Outcomes
  <1>1. ASSUME call # None, NEW o \in {"lost", "interrupted"}, call' = None, sent' = sent,
               outcome' = [outcome EXCEPT ![call.stream] = o], dead'
        PROVE  [Contract!Next]_(Contract!vars)
    <2>1. PICK c \in Calls : c = call.stream
      BY <1>0, <1>1
    <2>2. Contract!End(c, "lost")
      BY <1>0, <1>1, <2>1, EndIsEnd
    <2>3. Contract!Lose(c)
      BY <1>1, <2>2 DEF Contract!Lose, Healthy
    <2>4. QED
      BY <2>3 DEF Contract!Next
  <1>2. CASE Poll \/ CloseIdle \/ PollEof \/ PollDone \/ PollFrame
    <2>1. UNCHANGED <<call, outcome, sent>> /\ dead' \in BOOLEAN /\ (dead => dead')
      BY <1>0, <1>2 DEF Poll, CloseIdle, PollEof, PollDone, PollFrame, Effect, server
    <2>2. QED
      BY <2>1, BreakOrStutter DEF Current
  <1>3. ASSUME NEW c \in Calls, Start(c)
        PROVE  [Contract!Next]_(Contract!vars)
    <2>1. /\ UNCHANGED <<dead, outcome, sent>> /\ call = None
          /\ call' = NewCall(c) /\ outcome[c] = "none" /\ ~dead
      BY <1>3 DEF Start, server, Unused, Started, Inv, PhaseInv
    <2>2. NewCall(c) \in CallRecord /\ NewCall(c).stream = c
      BY BoundsAssumption DEF NewCall, CallRecord
    <2>3. Current = None /\ Current' = c
      BY <2>1, <2>2, NoneAssumption DEF Current
    <2>4. Ending' = Ending /\ Answered' = Answered /\ Ending[c] = "none"
      BY <2>1 DEF Ending, Answered
    <2>5. Contract!Begin(c)
      BY <2>1, <2>3, <2>4 DEF Contract!Begin, Healthy, Current, Ending, Answered
    <2>6. QED
      BY <2>5 DEF Contract!Next
  <1>4. ASSUME NEW c \in Calls, StartRefused(c)
        PROVE  [Contract!Next]_(Contract!vars)
    <2>1. /\ UNCHANGED <<call, sent>> /\ call = None /\ ~dead /\ dead'
          /\ outcome' = [outcome EXCEPT ![c] = "lost"] /\ outcome[c] = "none"
      BY <1>4 DEF StartRefused, server, Unused, Started, Inv, PhaseInv
    <2>2. /\ Current = None /\ Current' = None /\ Answered' = Answered
          /\ Ending[c] = "none" /\ Ending' = [Ending EXCEPT ![c] = "lost"]
      BY <2>1 DEF Current, Ending, Answered, Inv, TypeOK
    <2>3. Contract!Refuse(c)
      BY <2>1, <2>2 DEF Contract!Refuse, Healthy, Current, Ending, Answered
    <2>4. QED
      BY <2>3 DEF Contract!Next
  <1>5. CASE Send
    <2>1. UNCHANGED <<dead, outcome, sent>> /\ call # None /\ call \in CallRecord
          /\ call' = [call EXCEPT !.pending = @ - Chunks]
      BY <1>5, SendingFacts DEF Send, server
    <2>2. call.pending - Chunks \in 0..Body
      BY <2>1, ChunksFacts
    <2>3. call' \in CallRecord /\ call'.stream = call.stream
      BY <2>1, <2>2 DEF CallRecord
    <2>4. Current' = Current
      BY <2>1, <2>3, NoneAssumption DEF Current
    <2>5. QED
      BY <1>0, <2>1, <2>4, BreakOrStutter
  <1>6. CASE SendFails \/ RecvEof \/ Interrupt
    <2>1. call # None /\ sent' = sent
      BY <1>6, SendingFacts DEF SendFails, RecvEof, Interrupt, server, Inv, PhaseInv
    <2>2. EndCall("lost", TRUE) \/ EndCall("interrupted", TRUE)
      BY <1>6 DEF SendFails, RecvEof, Interrupt
    <2>3. QED
      BY <1>1, <2>1, <2>2 DEF EndCall
  <1>7. CASE SendTimesOut \/ RecvTimesOut
    <2>1. call # None /\ sent' = sent
      BY <1>7, SendingFacts DEF SendTimesOut, RecvTimesOut, server, Inv, PhaseInv
    <2>2. EndCall("deadline", FALSE) \/ EndCall("deadline", TRUE)
      BY <1>7 DEF SendTimesOut, RecvTimesOut, Cancel
    <2>3. PICK c \in Calls : c = call.stream
      BY <1>0, <2>1
    <2>4. Contract!End(c, "deadline")
      BY <1>0, <2>1, <2>2, <2>3, EndIsEnd DEF EndCall
    <2>5. Healthy' \in {Healthy, FALSE}
      BY <1>0, <2>2 DEF EndCall, Healthy
    <2>6. QED
      BY <2>4, <2>5 DEF Contract!Expire, Contract!Next
  <1>8. CASE Feed
    <2> DEFINE f == Head(toClient)
    <2>1. /\ sent' = sent /\ call # None /\ dead' = (dead \/ Kills(f))
          /\ \/ /\ Raises(f) /\ call' = None
                /\ outcome' = [outcome EXCEPT ![call.stream] = "lost"]
             \/ call' = Fed(f) /\ outcome' = outcome
          /\ toClient # <<>> /\ pc \in {"recv", "feed"}
      BY <1>8 DEF Feed, Effect, server, Inv, PhaseInv
    <2>2. CASE Raises(f) /\ call' = None
                    /\ outcome' = [outcome EXCEPT ![call.stream] = "lost"]
      BY <1>1, <2>1, <2>2 DEF Raises
    <2>3. CASE call' = Fed(f) /\ outcome' = outcome
      <3>1. f \in InFrame
        BY <2>1, HeadTail DEF Inv
      <3>2. f.type = "end" => f.status \in Statuses
        BY <3>1 DEF InFrame
      <3>3. call' \in CallRecord /\ call'.stream = call.stream
        BY <2>1, <2>3, <3>2 DEF Fed, Own, Inv, TypeOK, CallRecord
      <3>4. Current' = Current
        BY <2>1, <3>3, NoneAssumption DEF Current
      <3>5. QED
        BY <1>0, <2>1, <2>3, <3>4, BreakOrStutter
    <2>4. QED
      BY <2>1, <2>2, <2>3
  <1>9. CASE Finish
    <2>1. /\ call # None /\ sent' = sent
          /\ call.status \in Statuses /\ call.status \in sent[call.stream]
      BY <1>9 DEF Finish, server, Inv, PhaseInv, CallInv
    <2>2. CASE call.status = "bad"
      BY <1>1, <1>9, <2>1, <2>2 DEF Finish, EndCall
    <2>3. CASE call.status # "bad"
      <3>1. PICK c \in Calls, o \in Answers : c = call.stream /\ o = call.status
        BY <1>0, <2>1, <2>3 DEF Statuses, Answers
      <3>2. EndCall(o, FALSE)
        BY <1>9, <2>3, <3>1 DEF Finish
      <3>3. o \in Outcomes \ {"none"} /\ o # "interrupted" /\ o \in sent[c]
        BY <2>1, <3>1 DEF Outcomes, Answers
      <3>4. Contract!End(c, o)
        BY <2>1, <3>1, <3>2, <3>3, EndIsEnd DEF EndCall
      <3>5. Healthy' \in {Healthy, FALSE}
        BY <1>0, <3>2 DEF EndCall, Healthy
      <3>6. Contract!Return(c, o)
        BY <3>3, <3>4, <3>5 DEF Contract!Return
      <3>7. QED
        BY <3>6 DEF Contract!Next
    <2>4. QED
      BY <2>2, <2>3
  <1>10. ASSUME NEW c \in Calls, NEW status \in Statuses, ServerAnswers(c, status)
         PROVE  [Contract!Next]_(Contract!vars)
    <2>1. /\ UNCHANGED <<call, outcome, dead>> /\ c \in Started
          /\ sent[c] = {} /\ sent' = [sent EXCEPT ![c] = {status}]
      BY <1>10 DEF ServerAnswers, client, Inv, HeardInv
    <2>2. Current' = Current /\ Ending' = Ending /\ Healthy' = Healthy
      BY <2>1 DEF Current, Ending, Healthy
    <2>3. Current = c \/ Ending[c] # "none"
      BY <2>1 DEF Started, Current, Ending
    <2>4. \A d \in Calls : sent'[d] = IF d = c THEN {status} ELSE sent[d]
      BY <2>1 DEF Inv, TypeOK
    <2>5. CASE status \in Answers
      <3>1. Answered' = [Answered EXCEPT ![c] = @ \cup {status}]
        BY <2>1, <2>4, <2>5 DEF Answered
      <3>2. Contract!Answer(c, status)
        BY <2>2, <2>3, <3>1 DEF Contract!Answer, Current, Ending, Answered
      <3>3. QED
        BY <2>5, <3>2 DEF Contract!Next
    <2>6. CASE status \notin Answers
      <3>1. \A d \in Calls : sent'[d] \cap Answers = sent[d] \cap Answers
        BY <2>1, <2>4, <2>6
      <3>2. Answered' = Answered
        BY <3>1 DEF Answered
      <3>3. QED
        BY <2>2, <3>2, ContractVars
    <2>7. QED
      BY <2>5, <2>6
  <1>11. ASSUME NEW c \in Calls, ServerResets(c)
         PROVE  [Contract!Next]_(Contract!vars)
    <2>1. /\ UNCHANGED <<call, outcome, dead>>
          /\ sent' = [sent EXCEPT ![c] = @ \cup {"rst"}]
      BY <1>11 DEF ServerResets, client
    <2>2. \A d \in Calls : sent'[d] \cap Answers = sent[d] \cap Answers
      BY <2>1 DEF Inv, TypeOK, Answers
    <2>3. Answered' = Answered
      BY <2>2 DEF Answered
    <2>4. Current' = Current /\ Ending' = Ending /\ Healthy' = Healthy
      BY <2>1 DEF Current, Ending, Healthy
    <2>5. QED
      BY <2>3, <2>4, ContractVars
  <1>12. CASE ServerPings \/ ServerLeaves \/ \E c \in Calls : ServerGrants(c)
    <2>1. UNCHANGED <<call, outcome, dead, sent>>
      BY <1>12 DEF ServerPings, ServerLeaves, ServerGrants, client, server
    <2>2. QED
      BY <1>0, <2>1, BreakOrStutter DEF Current
  <1>13. CASE UNCHANGED vars
    <2>1. UNCHANGED <<call, outcome, dead, sent>>
      BY <1>13 DEF vars, client, server
    <2>2. QED
      BY <1>0, <2>1, BreakOrStutter DEF Current
  <1>14. QED
    BY <1>2, <1>3, <1>4, <1>5, <1>6, <1>7, <1>8, <1>9, <1>10, <1>11, <1>12, <1>13
    DEF Next, Client, Server

LEMMA InitKeepsContract == Init => Contract!Init
  <1> SUFFICES ASSUME Init
               PROVE  Contract!Init
    OBVIOUS
  <1>1. Ending = [c \in Calls |-> "none"] /\ Answered = [c \in Calls |-> {}]
    BY DEF Init, Ending, Answered
  <1>2. Current = None /\ Healthy = TRUE
    BY DEF Init, Current, Healthy
  <1>3. QED
    BY <1>1, <1>2 DEF Contract!Init, Ending, Answered, Current

\* The connection is a Connection as session.py understands it: one call at a
\* time, answers only from the peer, never used again once it is broken.
THEOREM GrpcKeepsContract == Spec => KeepsContract
  BY InitInv, NextInv, InitKeepsContract, StepKeepsContract, PTL
  DEF Spec, KeepsContract, Contract!Spec

=============================================================================
