-------------------------- MODULE ThriftConnProofs --------------------------
(***************************************************************************)
(* Theorems about ThriftConn, for any number of calls and of replies, and  *)
(* any modulus of the sequence numbers that the calls do not exhaust.      *)
(***************************************************************************)
EXTENDS ThriftConn, SequenceTheorems, TLAPS

-----------------------------------------------------------------------------
(* The inductive invariant.                                                *)

\* What the server sent and feed() has not used up.
Sent == inbuf \o toClient

Outcomes == {"none", "deadline", "lost"} \cup Answers

TypeOK ==
    /\ pc \in {"pooled", "polled", "send", "recv", "gone"}
    /\ dead \in BOOLEAN
    /\ call \in Calls \cup {None}
    /\ seqid \in Nat
    /\ inbuf \in Seq(Piece)
    /\ outcome \in [Calls -> Outcomes]
    /\ toClient \in Seq(Piece)
    /\ received \in SUBSET Calls
    /\ replies \in [Calls -> Seq(Kinds)]
    /\ srvClosed \in BOOLEAN

\* A call is under way while unary sends or receives, the connection is dead
\* once it left the pool for good, and feed() keeps less than one reply.
PhaseInv ==
    /\ call # None <=> pc \in {"send", "recv"}
    /\ dead <=> pc = "gone"
    /\ inbuf # <<>> => pc = "recv" /\ Len(inbuf) = 1

\* The calls up to the n-th have started, and _seqid counts them.
Numbered(n) ==
    /\ seqid = SeqOf(n)
    /\ \A c \in Calls : c <= n <=> call = c \/ outcome[c] # "none"
    /\ call # None => call = n /\ outcome[n] = "none"

\* The server replies to what it read, and reads what was started.
ReplyInv ==
    /\ received \subseteq Started
    /\ \A c \in Calls : replies[c] # <<>> => c \in received

\* What waits on a polled connection answers an earlier call; half a reply is
\* the last thing a server sends; while a call is under way, nothing was sent
\* before its first reply unless it belongs to another call.
StreamInv ==
    /\ pc = "polled" /\ toClient # <<>> =>
        \E d \in received : toClient[1].seq = SeqOf(d)
    /\ pc \in {"polled", "send", "recv"} /\ Len(Sent) = 1 => srvClosed
    /\ call # None /\ Sent = <<>> => replies[call] = <<>>
    /\ call # None /\ Len(Sent) >= 2 /\ Sent[1].seq = SeqOf(call) =>
        replies[call] # <<>> /\ Sent[1].kind = replies[call][1]

Inv ==
    /\ TypeOK
    /\ PhaseInv
    /\ \E n \in 0..MaxCalls : Numbered(n)
    /\ ReplyInv
    /\ StreamInv
    /\ OwnReply

-----------------------------------------------------------------------------
(* Sequence numbers and sequences.                                         *)

LEMMA SeqOfFacts ==
    /\ \A n \in Nat : SeqOf(n) \in 0..(SeqMod - 1)
    /\ \A n \in Nat : n < SeqMod => SeqOf(n) = n
    /\ SeqOf(SeqMod) = 0
  BY BoundsAssumption DEF SeqOf

\* Two calls of one connection never share a sequence number.
LEMMA SeqOfInjective ==
    \A c, d \in Calls : SeqOf(c) = SeqOf(d) => c = d
  <1> SUFFICES ASSUME NEW c \in Calls, NEW d \in Calls, SeqOf(c) = SeqOf(d)
               PROVE  c = d
    OBVIOUS
  <1>1. c \in Nat \ {0} /\ d \in Nat \ {0} /\ c <= SeqMod /\ d <= SeqMod
    BY BoundsAssumption DEF Calls
  <1>2. /\ c < SeqMod => SeqOf(c) = c
        /\ d < SeqMod => SeqOf(d) = d
        /\ SeqOf(SeqMod) = 0 /\ SeqMod \in Nat
    BY <1>1, SeqOfFacts, BoundsAssumption
  <1>3. QED
    BY <1>1, <1>2

LEMMA NextSeq == \A n \in Nat : n < SeqMod => (SeqOf(n) + 1) % SeqMod = SeqOf(n + 1)
  BY SeqOfFacts DEF SeqOf

LEMMA PiecesFacts ==
    ASSUME NEW c \in Calls, NEW kind \in Kinds
    PROVE  /\ Pieces(c, kind) \in Seq(Piece)
           /\ Len(Pieces(c, kind)) = 2
           /\ Pieces(c, kind)[1] \in Piece
           /\ Pieces(c, kind)[1].seq = SeqOf(c)
           /\ Pieces(c, kind)[1].kind = kind
  <1>1. SeqOf(c) \in 0..(SeqMod - 1)
    BY SeqOfFacts DEF Calls
  <1>2. \A p \in {1, 2} : [seq |-> SeqOf(c), kind |-> kind, part |-> p] \in Piece
    BY <1>1 DEF Piece
  <1>3. Pieces(c, kind) \in [1..2 -> Piece]
    BY <1>2 DEF Pieces
  <1>4. Pieces(c, kind) = <<Pieces(c, kind)[1], Pieces(c, kind)[2]>>
    BY <1>3
  <1>4a. Pieces(c, kind) \in Seq(Piece) /\ Len(Pieces(c, kind)) = 2
    <2>1. Pieces(c, kind)[1] \in Piece /\ Pieces(c, kind)[2] \in Piece
      BY <1>3
    <2>2. \A a, b \in Piece : <<a, b>> \in Seq(Piece) /\ Len(<<a, b>>) = 2
      OBVIOUS
    <2>3. QED
      BY <2>1, <2>2, <1>4
  <1>5. Pieces(c, kind)[1] = [seq |-> SeqOf(c), kind |-> kind, part |-> 1]
    BY DEF Pieces
  <1>6. QED
    BY <1>2, <1>4a, <1>5

LEMMA AtLeastTwo == \A n \in Nat : n # 0 /\ n # 1 => n >= 2
  OBVIOUS

LEMMA ConcatFacts ==
    \A a, b \in Seq(Piece) :
        /\ a \o b \in Seq(Piece)
        /\ Len(a \o b) = Len(a) + Len(b)
        /\ Len(a) \in Nat /\ Len(b) \in Nat
        /\ a = <<>> <=> Len(a) = 0
        /\ Len(a) + Len(b) >= 1 =>
            (a \o b)[1] = IF a = <<>> THEN b[1] ELSE a[1]
  <1> SUFFICES ASSUME NEW a \in Seq(Piece), NEW b \in Seq(Piece)
               PROVE  /\ a \o b \in Seq(Piece)
                      /\ Len(a \o b) = Len(a) + Len(b)
                      /\ Len(a) \in Nat /\ Len(b) \in Nat
                      /\ a = <<>> <=> Len(a) = 0
                      /\ Len(a) + Len(b) >= 1 =>
                            (a \o b)[1] = IF a = <<>> THEN b[1] ELSE a[1]
    OBVIOUS
  <1>1. /\ a \o b \in Seq(Piece)
        /\ Len(a \o b) = Len(a) + Len(b)
        /\ \A i \in 1..(Len(a) + Len(b)) :
              (a \o b)[i] = IF i <= Len(a) THEN a[i] ELSE b[i - Len(a)]
    BY ConcatProperties
  <1>2. Len(a) \in Nat /\ Len(b) \in Nat
    BY LenProperties
  <1>3. a = <<>> <=> Len(a) = 0
    BY <1>2, EmptySeq
  <1>4. QED
    BY <1>1, <1>2, <1>3

LEMMA ConcatAssoc ==
    \A a, b, c \in Seq(Piece) : (a \o b) \o c = a \o (b \o c)
  BY ConcatAssociative

\* A read moves pieces from the network to the buffer and loses none.
LEMMA ReadFacts ==
    ASSUME TypeOK, NEW k \in 1..Len(toClient)
    PROVE  LET rest == SubSeq(toClient, k + 1, Len(toClient))
           IN  /\ Read(k) \in Seq(Piece) /\ rest \in Seq(Piece)
               /\ Len(Read(k)) = Len(inbuf) + k
               /\ Read(k)[1] = Sent[1]
               /\ Len(Sent) >= Len(Read(k))
               /\ Read(k) \o rest = Sent
  <1> DEFINE head == SubSeq(toClient, 1, k)
             rest == SubSeq(toClient, k + 1, Len(toClient))
  <1>1. inbuf \in Seq(Piece) /\ toClient \in Seq(Piece)
        /\ Len(inbuf) \in Nat /\ Len(toClient) \in Nat /\ k \in Nat \ {0} /\ k <= Len(toClient)
    BY LenProperties DEF TypeOK
  <1>2. \A i \in 1..Len(toClient) : toClient[i] \in Piece
    BY <1>1, ElementOfSeq
  <1>3. /\ head \in Seq(Piece) /\ Len(head) = k
        /\ \A i \in 1..k : head[i] = toClient[i]
    BY <1>1, <1>2, SubSeqProperties
  <1>4. rest \in Seq(Piece)
    BY <1>1, <1>2, SubSeqProperties
  <1>5. head \o rest = toClient
    BY <1>1, ConcatAdjacentSubSeq, SubSeqFull
  <1> HIDE DEF head, rest
  <1>6. (inbuf \o head) \o rest = inbuf \o toClient
    BY <1>1, <1>3, <1>4, <1>5, ConcatAssoc
  <1>7. /\ inbuf \o head \in Seq(Piece)
        /\ Len(inbuf \o head) = Len(inbuf) + k
        /\ Len(inbuf \o toClient) = Len(inbuf) + Len(toClient)
        /\ (inbuf \o head)[1] = (inbuf \o toClient)[1]
    <2>1. /\ inbuf \o head \in Seq(Piece)
          /\ Len(inbuf \o head) = Len(inbuf) + k
          /\ (inbuf \o head)[1] = IF inbuf = <<>> THEN head[1] ELSE inbuf[1]
      BY <1>1, <1>3, ConcatFacts
    <2>2. /\ Len(inbuf \o toClient) = Len(inbuf) + Len(toClient)
          /\ (inbuf \o toClient)[1] = IF inbuf = <<>> THEN toClient[1] ELSE inbuf[1]
      BY <1>1, ConcatFacts
    <2>3. QED
      BY <1>1, <1>3, <2>1, <2>2
  <1>8. Read(k) = inbuf \o head
    BY DEF Read, head
  <1>9. /\ inbuf \o head \in Seq(Piece) /\ rest \in Seq(Piece)
        /\ Len(inbuf \o head) = Len(inbuf) + k
        /\ (inbuf \o head)[1] = Sent[1]
        /\ Len(Sent) >= Len(inbuf \o head)
        /\ (inbuf \o head) \o rest = Sent
    BY <1>1, <1>4, <1>6, <1>7 DEF Sent
  <1>10. QED
    BY <1>8, <1>9 DEF rest

\* What the server appends leaves the first piece in place.
LEMMA AppendedFacts ==
    ASSUME TypeOK, NEW s \in Seq(Piece), s # <<>>
    PROVE  /\ toClient \o s \in Seq(Piece) /\ toClient \o s # <<>>
           /\ (toClient \o s)[1] = IF toClient = <<>> THEN s[1] ELSE toClient[1]
           /\ Len(inbuf \o (toClient \o s)) = Len(Sent) + Len(s)
           /\ (inbuf \o (toClient \o s))[1] = IF Sent = <<>> THEN s[1] ELSE Sent[1]
           /\ Sent \in Seq(Piece) /\ Len(Sent) \in Nat
           /\ Sent = <<>> <=> Len(Sent) = 0
           /\ Len(s) \in Nat \ {0}
  <1>1. inbuf \in Seq(Piece) /\ toClient \in Seq(Piece)
    BY DEF TypeOK
  <1>2. Len(s) \in Nat \ {0}
    BY ConcatFacts
  <1>3. /\ toClient \o s \in Seq(Piece)
        /\ Len(toClient \o s) = Len(toClient) + Len(s)
        /\ Len(toClient) \in Nat
        /\ (toClient \o s)[1] = IF toClient = <<>> THEN s[1] ELSE toClient[1]
    BY <1>1, <1>2, ConcatFacts
  <1>4. toClient \o s # <<>>
    BY <1>2, <1>3, ConcatFacts
  <1>5. Sent \in Seq(Piece)
    BY <1>1, ConcatFacts DEF Sent
  <1>6. /\ Len(Sent) \in Nat
        /\ Sent = <<>> <=> Len(Sent) = 0
        /\ Len(Sent \o s) = Len(Sent) + Len(s)
        /\ (Sent \o s)[1] = IF Sent = <<>> THEN s[1] ELSE Sent[1]
    BY <1>2, <1>5, ConcatFacts
  <1>7. inbuf \o (toClient \o s) = Sent \o s
    BY <1>1, ConcatAssoc DEF Sent
  <1>8. QED
    BY <1>2, <1>3, <1>4, <1>5, <1>6, <1>7

-----------------------------------------------------------------------------
(* The steps.                                                              *)

\* A call ends without an answer, and the connection with it.
LEMMA GivenUp ==
    ASSUME Inv, call # None, NEW o \in {"deadline", "lost"},
           outcome' = [outcome EXCEPT ![call] = o],
           call' = None, dead' = TRUE, pc' = "gone", inbuf' = <<>>,
           toClient' \in Seq(Piece),
           UNCHANGED <<seqid, received, replies, srvClosed>>
    PROVE  Inv'
  <1>1. TypeOK'
    BY EmptySeq DEF Inv, TypeOK, Outcomes
  <1>2. PhaseInv'
    BY DEF PhaseInv
  <1>3. PICK n \in 0..MaxCalls : Numbered(n)
    BY DEF Inv
  <1>4. call = n /\ call \in Calls
    BY <1>3 DEF Inv, TypeOK, Numbered
  <1>5. Numbered(n)'
    <2>1. /\ \A c \in Calls : c # None
          /\ \A c \in Calls : outcome'[c] = IF c = call THEN o ELSE outcome[c]
      BY NoneAssumption DEF Calls, Inv, TypeOK
    <2>2. QED
      BY <1>3, <1>4, <2>1 DEF Numbered
  <1>6. ReplyInv'
    BY <1>4 DEF ReplyInv, Started, Inv, TypeOK
  <1>7. StreamInv'
    BY DEF StreamInv
  <1>8. OwnReply'
    BY DEF OwnReply, Inv, TypeOK, Answers
  <1>9. QED
    BY <1>1, <1>2, <1>5, <1>6, <1>7, <1>8 DEF Inv

LEMMA PollKeeps == Inv /\ Poll => Inv'
  <1> SUFFICES ASSUME Inv, Poll
               PROVE  Inv'
    OBVIOUS
  <1>1. UNCHANGED <<call, seqid, inbuf, outcome, toClient, received, replies, srvClosed>>
    BY DEF Poll, server
  <1>2. pc = "pooled" /\ pc' \in {"gone", "polled"} /\ (dead' <=> pc' = "gone")
    BY DEF Poll
  <1>3. pc' = "polled" => toClient = <<>>
    BY DEF Poll
  <1>4. TypeOK'
    BY <1>1, <1>2 DEF Inv, TypeOK, Poll
  <1>5. PhaseInv' /\ call = None /\ inbuf = <<>>
    BY <1>1, <1>2 DEF Inv, PhaseInv
  <1>6. (\E n \in 0..MaxCalls : Numbered(n))'
    BY <1>1 DEF Inv, Numbered
  <1>7. ReplyInv' /\ OwnReply'
    BY <1>1 DEF Inv, ReplyInv, OwnReply, Started
  <1>8. pc' = "polled" => Sent' = <<>>
    <2>1. <<>> \o <<>> = <<>>
      BY EmptySeq, ConcatEmptySeq
    <2>2. QED
      BY <1>1, <1>3, <1>5, <2>1 DEF Sent
  <1>9. StreamInv'
    BY <1>1, <1>2, <1>3, <1>5, <1>8, EmptySeq DEF StreamInv
  <1>10. QED
    BY <1>4, <1>5, <1>6, <1>7, <1>9 DEF Inv

LEMMA StartKeeps == ASSUME Inv, NEW c \in Calls, Start(c) PROVE Inv'
  <1>1. UNCHANGED <<dead, inbuf, outcome, toClient, received, replies, srvClosed>>
    BY DEF Start, server
  <1>2. /\ pc = "polled" /\ pc' = "send" /\ call = None /\ call' = c
        /\ ~dead /\ outcome[c] = "none" /\ c \notin Started
        /\ \A d \in Calls : d < c => outcome[d] # "none"
    <2>1. \A d \in Calls : call # d
      BY NoneAssumption DEF Start, Calls
    <2>2. QED
      BY NoneAssumption DEF Start, Healthy, Started, Calls
  <1>3. PICK n \in 0..MaxCalls : Numbered(n)
    BY DEF Inv
  <1>4. c = n + 1
    <2>1. \A d \in Calls : d <= n <=> outcome[d] # "none"
      BY <1>2, <1>3, NoneAssumption DEF Numbered, Calls
    <2>2. ~(c <= n)
      BY <1>2, <2>1
    <2>3. c > n + 1 => n + 1 \in Calls /\ outcome[n + 1] # "none"
      BY <1>2, BoundsAssumption DEF Calls
    <2>4. QED
      BY <2>1, <2>2, <2>3, BoundsAssumption DEF Calls
  <1>5. Numbered(c)'
    <2>1. n < SeqMod /\ n \in Nat
      BY <1>4, BoundsAssumption DEF Calls
    <2>2. seqid' = SeqOf(c)
      BY <1>3, <1>4, <2>1, NextSeq DEF Start, Numbered
    <2>3. \A d \in Calls : d <= c <=> call' = d \/ outcome[d] # "none"
      BY <1>2, <1>3, <1>4, NoneAssumption DEF Numbered, Calls
    <2>4. QED
      BY <1>1, <1>2, <2>2, <2>3 DEF Numbered
  <1>6. TypeOK'
    <2>1. seqid' \in Nat
      BY BoundsAssumption DEF Start, Inv, TypeOK
    <2>2. QED
      BY <1>1, <1>2, <2>1 DEF Inv, TypeOK
  <1>7. PhaseInv'
    BY <1>1, <1>2, NoneAssumption DEF Inv, PhaseInv, Calls
  <1>8. ReplyInv' /\ c \notin received
    BY <1>1, <1>2, NoneAssumption DEF Inv, ReplyInv, Started, Calls
  <1>9. replies[c] = <<>>
    BY <1>8 DEF Inv, ReplyInv
  <1>10. Sent' = Sent /\ Sent = toClient
    <2>1. inbuf = <<>> /\ toClient \in Seq(Piece)
      BY <1>2 DEF Inv, PhaseInv, TypeOK
    <2>2. <<>> \o toClient = toClient
      BY <2>1, ConcatEmptySeq
    <2>3. QED
      BY <1>1, <2>1, <2>2 DEF Sent
  <1>11. toClient # <<>> => toClient[1].seq # SeqOf(c)
    BY <1>2, <1>8, SeqOfInjective DEF Inv, StreamInv, TypeOK
  <1>12. StreamInv'
    <2>1. Len(toClient) >= 2 => toClient # <<>>
      BY EmptySeq
    <2>2. QED
      BY <1>1, <1>2, <1>9, <1>10, <1>11, <2>1 DEF Inv, StreamInv
  <1>13. OwnReply'
    BY <1>1 DEF Inv, OwnReply
  <1>14. QED
    BY <1>4, <1>5, <1>6, <1>7, <1>8, <1>12, <1>13 DEF Inv, Calls

LEMMA SendKeeps == Inv /\ Send => Inv'
  <1> SUFFICES ASSUME Inv, Send
               PROVE  Inv'
    OBVIOUS
  <1>1. /\ UNCHANGED <<dead, call, seqid, inbuf, outcome, toClient, replies, srvClosed>>
        /\ pc = "send" /\ pc' = "recv" /\ received' = received \cup {call}
    BY DEF Send
  <1>2. call # None /\ call \in Calls
    BY <1>1 DEF Inv, PhaseInv, TypeOK
  <1>3. TypeOK'
    BY <1>1, <1>2 DEF Inv, TypeOK
  <1>4. PhaseInv' /\ OwnReply' /\ (\E n \in 0..MaxCalls : Numbered(n))'
    BY <1>1 DEF Inv, PhaseInv, OwnReply, Numbered
  <1>5. ReplyInv'
    BY <1>1, <1>2 DEF Inv, ReplyInv, Started
  <1>6. StreamInv'
    BY <1>1 DEF Inv, StreamInv, Sent
  <1>7. QED
    BY <1>3, <1>4, <1>5, <1>6 DEF Inv

LEMMA RecvPartKeeps ==
    ASSUME Inv, NEW k \in 1..Len(toClient), RecvPart(k) PROVE Inv'
  <1>1. /\ UNCHANGED <<pc, dead, call, seqid, outcome, received, replies, srvClosed>>
        /\ pc = "recv" /\ inbuf' = Read(k) /\ Len(Read(k)) < 2
        /\ toClient' = SubSeq(toClient, k + 1, Len(toClient))
    BY DEF RecvPart
  <1>2. /\ inbuf' \in Seq(Piece) /\ toClient' \in Seq(Piece)
        /\ Len(inbuf') = Len(inbuf) + k /\ Sent' = Sent
    BY <1>1, ReadFacts DEF Inv, Sent
  <1>3. Len(inbuf') = 1
    BY <1>1, <1>2, ConcatFacts DEF Inv, TypeOK
  <1>4. TypeOK'
    BY <1>1, <1>2 DEF Inv, TypeOK
  <1>5. PhaseInv' /\ OwnReply' /\ ReplyInv' /\ (\E n \in 0..MaxCalls : Numbered(n))'
    BY <1>1, <1>3 DEF Inv, PhaseInv, OwnReply, ReplyInv, Started, Numbered
  <1>6. StreamInv'
    BY <1>1, <1>2 DEF Inv, StreamInv
  <1>7. QED
    BY <1>4, <1>5, <1>6 DEF Inv

\* The reply that feed() accepts is the first one to the call under way.
LEMMA Accepted ==
    ASSUME Inv, NEW k \in 1..Len(toClient), RecvReply(k)
    PROVE  /\ call \in Calls /\ call # None
           /\ replies[call] # <<>> /\ Read(k)[1].kind = replies[call][1]
           /\ Read(k)[1].kind \in Answers
           /\ inbuf' = <<>>
  <1>1. call \in Calls /\ call # None
    BY DEF Inv, PhaseInv, TypeOK, RecvReply
  <1>2. /\ Len(Read(k)) >= 2 /\ Len(Read(k)) \in Nat /\ Read(k) \in Seq(Piece)
        /\ Read(k)[1] = Sent[1] /\ Len(Sent) >= Len(Read(k)) /\ Len(Sent) \in Nat
    BY ReadFacts, ConcatFacts DEF RecvReply, Inv, TypeOK, Sent
  <1>3. Len(Read(k)) = 2 /\ Read(k)[1].seq = seqid /\ Read(k)[1].kind # "bad"
    <2>1. ~Foreign(Read(k))
      BY DEF RecvReply
    <2>2. /\ ~(Len(Read(k)) > 2)
          /\ Read(k)[1].seq = seqid /\ Read(k)[1].kind # "bad"
      BY <2>1, Zenon DEF Foreign, TooMuch, Mismatch
    <2>3. Len(Read(k)) \in Nat /\ Len(Read(k)) >= 2
      BY <1>2
    <2>4. \A n \in Nat : ~(n > 2) /\ n >= 2 => n = 2
      OBVIOUS
    <2>5. QED
      BY <2>2, <2>3, <2>4
  <1>4. seqid = SeqOf(call)
    BY <1>1 DEF Inv, Numbered
  <1>5. replies[call] # <<>> /\ Sent[1].kind = replies[call][1]
    BY <1>1, <1>2, <1>3, <1>4 DEF Inv, StreamInv
  <1>6. Read(k)[1] \in Piece
    BY <1>2, ElementOfSeq
  <1>7. Read(k)[1].kind \in Answers
    BY <1>3, <1>6 DEF Piece, Kinds, Answers
  <1>8. inbuf' = <<>>
    BY <1>3, SubSeqEmpty DEF RecvReply
  <1>9. QED
    BY <1>1, <1>2, <1>5, <1>7, <1>8

LEMMA RecvReplyKeeps ==
    ASSUME Inv, NEW k \in 1..Len(toClient), RecvReply(k) PROVE Inv'
  <1> DEFINE o == Read(k)[1].kind
  <1>1. /\ UNCHANGED <<dead, seqid, received, replies, srvClosed>>
        /\ pc = "recv" /\ pc' = "pooled" /\ call' = None
        /\ outcome' = [outcome EXCEPT ![call] = o]
        /\ toClient' = SubSeq(toClient, k + 1, Len(toClient))
    BY DEF RecvReply
  <1>2. /\ call \in Calls /\ call # None /\ o \in Answers
        /\ replies[call] # <<>> /\ o = replies[call][1] /\ inbuf' = <<>>
    BY Accepted
  <1> HIDE DEF o
  <1>3. toClient' \in Seq(Piece)
    BY <1>1, ReadFacts DEF Inv
  <1>4. TypeOK'
    BY <1>1, <1>2, <1>3, EmptySeq DEF Inv, TypeOK, Outcomes
  <1>5. PhaseInv'
    BY <1>1, <1>2 DEF Inv, PhaseInv
  <1>6. PICK n \in 0..MaxCalls : Numbered(n)
    BY DEF Inv
  <1>7. o # "none"
    BY <1>2 DEF Answers
  <1>8. Numbered(n)'
    <2>1. /\ \A c \in Calls : c # None
          /\ \A c \in Calls : outcome'[c] = IF c = call THEN o ELSE outcome[c]
      BY <1>1, NoneAssumption DEF Calls, Inv, TypeOK
    <2>2. call = n
      BY <1>2, <1>6 DEF Numbered
    <2>3. QED
      BY <1>1, <1>2, <1>6, <1>7, <2>1, <2>2 DEF Numbered
  <1>9. ReplyInv'
    BY <1>1, <1>2, <1>7 DEF Inv, ReplyInv, Started, TypeOK
  <1>10. StreamInv'
    BY <1>1 DEF StreamInv
  <1>11. OwnReply'
    BY <1>1, <1>2 DEF Inv, TypeOK, OwnReply
  <1>12. QED
    BY <1>4, <1>5, <1>8, <1>9, <1>10, <1>11 DEF Inv

LEMMA CloseIdleKeeps == Inv /\ CloseIdle => Inv'
  BY DEF CloseIdle, server, Inv, TypeOK, PhaseInv, Numbered, ReplyInv, Started,
         StreamInv, OwnReply

LEMMA ServerClosesKeeps == Inv /\ ServerCloses => Inv'
  BY DEF ServerCloses, Inv, TypeOK, PhaseInv, Numbered, ReplyInv, Started,
         StreamInv, Sent, OwnReply

LEMMA ServerRepliesKeeps ==
    ASSUME Inv, NEW c \in Calls, NEW kind \in Kinds, ServerReplies(c, kind) PROVE Inv'
  <1> DEFINE s == Pieces(c, kind)
  <1>1. /\ UNCHANGED <<pc, dead, call, seqid, inbuf, outcome, received, srvClosed>>
        /\ c \in received /\ ~srvClosed
        /\ replies' = [replies EXCEPT ![c] = Append(@, kind)]
        /\ toClient' = toClient \o s
    BY DEF ServerReplies
  <1>2. s \in Seq(Piece) /\ Len(s) = 2 /\ s[1].seq = SeqOf(c) /\ s[1].kind = kind /\ s # <<>>
    BY PiecesFacts, EmptySeq
  <1> HIDE DEF s
  <1>3. /\ toClient' \in Seq(Piece) /\ toClient' # <<>>
        /\ toClient'[1] = IF toClient = <<>> THEN s[1] ELSE toClient[1]
        /\ Sent' = inbuf \o (toClient \o s)
        /\ Len(Sent') = Len(Sent) + 2 /\ Len(Sent) \in Nat
        /\ Sent'[1] = IF Sent = <<>> THEN s[1] ELSE Sent[1]
        /\ Sent = <<>> <=> Len(Sent) = 0
    BY <1>1, <1>2, AppendedFacts DEF Inv, Sent
  <1>4. /\ replies' \in [Calls -> Seq(Kinds)]
        /\ \A d \in Calls : replies[d] # <<>> => replies'[d] # <<>> /\ replies'[d][1] = replies[d][1]
        /\ replies[c] = <<>> => replies'[c][1] = kind
        /\ replies'[c] # <<>>
        /\ \A d \in Calls : d # c => replies'[d] = replies[d]
    <2>1. replies[c] \in Seq(Kinds) /\ Len(replies[c]) \in Nat
      BY LenProperties DEF Inv, TypeOK
    <2>2. /\ Append(replies[c], kind) \in Seq(Kinds)
          /\ Append(replies[c], kind) # <<>>
          /\ \A i \in 1..Len(replies[c]) : Append(replies[c], kind)[i] = replies[c][i]
          /\ Append(replies[c], kind)[Len(replies[c]) + 1] = kind
      BY <2>1, AppendProperties
    <2>3. /\ replies[c] = <<>> => Len(replies[c]) = 0
          /\ replies[c] # <<>> => Len(replies[c]) >= 1
      BY <2>1, EmptySeq
    <2>4. /\ replies[c] = <<>> => Append(replies[c], kind)[1] = kind
          /\ replies[c] # <<>> => Append(replies[c], kind)[1] = replies[c][1]
      BY <2>1, <2>2, <2>3
    <2>5. \A d \in Calls :
              replies'[d] = IF d = c THEN Append(replies[c], kind) ELSE replies[d]
      BY <1>1 DEF Inv, TypeOK
    <2>6. replies' \in [Calls -> Seq(Kinds)]
      BY <1>1, <2>2 DEF Inv, TypeOK
    <2>7. QED
      BY <2>2, <2>4, <2>5, <2>6
  <1>5. TypeOK'
    BY <1>1, <1>3, <1>4 DEF Inv, TypeOK
  <1>6. PhaseInv' /\ (\E n \in 0..MaxCalls : Numbered(n))'
    BY <1>1 DEF Inv, PhaseInv, Numbered
  <1>7. ReplyInv'
    BY <1>1, <1>4 DEF Inv, ReplyInv, Started
  <1>8. OwnReply'
    BY <1>1, <1>4 DEF Inv, OwnReply
  <1>9. call # None => call \in Calls
    BY DEF Inv, TypeOK
  <1>10. (pc = "polled" => \E d \in received : toClient[1].seq = SeqOf(d))'
    BY <1>1, <1>2, <1>3 DEF Inv, StreamInv
  <1>11. pc \in {"polled", "send", "recv"} => Len(Sent) # 1
    BY <1>1 DEF Inv, StreamInv
  <1>12. ASSUME call # None, Sent'[1].seq = SeqOf(call)
         PROVE  replies'[call] # <<>> /\ Sent'[1].kind = replies'[call][1]
    <2>1. call \in Calls /\ pc \in {"send", "recv"}
      BY <1>9, <1>12 DEF Inv, PhaseInv
    <2>2. CASE Sent = <<>>
      <3>1. replies[call] = <<>>
        BY <1>12, <2>2 DEF Inv, StreamInv
      <3>2. call = c
        BY <1>2, <1>3, <1>12, <2>1, <2>2, SeqOfInjective
      <3>3. QED
        BY <1>2, <1>3, <1>4, <2>2, <3>1, <3>2
    <2>3. CASE Sent # <<>>
      <3>1. Len(Sent) >= 2
        <4>1. Len(Sent) \in Nat /\ Len(Sent) # 0
          BY <1>3, <2>3
        <4>2. Len(Sent) # 1
          BY <1>11, <2>1
        <4>3. QED
          BY <4>1, <4>2, AtLeastTwo
      <3>2. replies[call] # <<>> /\ Sent[1].kind = replies[call][1]
        BY <1>3, <1>12, <2>3, <3>1 DEF Inv, StreamInv
      <3>3. QED
        BY <1>3, <1>4, <2>1, <2>3, <3>2
    <2>4. QED
      BY <2>2, <2>3
  <1>13. StreamInv'
    <2>1. Len(Sent') # 1 /\ Sent' # <<>>
      BY <1>3, EmptySeq
    <2>2. QED
      BY <1>1, <1>10, <1>12, <2>1 DEF StreamInv
  <1>14. QED
    BY <1>5, <1>6, <1>7, <1>8, <1>13 DEF Inv

LEMMA ServerDiesKeeps ==
    ASSUME Inv, NEW c \in Calls, NEW kind \in Kinds, ServerDies(c, kind) PROVE Inv'
  <1> DEFINE s == <<Pieces(c, kind)[1]>>
  <1>1. /\ UNCHANGED <<pc, dead, call, seqid, inbuf, outcome, received, replies>>
        /\ c \in received /\ ~srvClosed /\ srvClosed'
        /\ srvClosed' \in BOOLEAN
        /\ toClient' = Append(toClient, Pieces(c, kind)[1])
    BY DEF ServerDies
  <1>2. s \in Seq(Piece) /\ Len(s) = 1 /\ s[1].seq = SeqOf(c) /\ s # <<>>
    BY PiecesFacts, EmptySeq
  <1>3. toClient' = toClient \o s
    BY <1>1, PiecesFacts, AppendIsConcat DEF Inv, TypeOK
  <1> HIDE DEF s
  <1>4. /\ toClient' \in Seq(Piece) /\ toClient' # <<>>
        /\ toClient'[1] = IF toClient = <<>> THEN s[1] ELSE toClient[1]
        /\ Sent' = inbuf \o (toClient \o s)
        /\ Len(Sent') = Len(Sent) + 1 /\ Len(Sent) \in Nat
        /\ Sent'[1] = IF Sent = <<>> THEN s[1] ELSE Sent[1]
        /\ Sent = <<>> <=> Len(Sent) = 0
    <2>1. /\ toClient \o s \in Seq(Piece) /\ toClient \o s # <<>>
          /\ (toClient \o s)[1] = IF toClient = <<>> THEN s[1] ELSE toClient[1]
          /\ Len(inbuf \o (toClient \o s)) = Len(Sent) + Len(s)
          /\ (inbuf \o (toClient \o s))[1] = IF Sent = <<>> THEN s[1] ELSE Sent[1]
          /\ Len(Sent) \in Nat /\ (Sent = <<>> <=> Len(Sent) = 0)
      BY <1>2, AppendedFacts DEF Inv
    <2>2. Sent' = inbuf \o (toClient \o s)
      BY <1>1, <1>3 DEF Sent
    <2>3. QED
      BY <1>2, <1>3, <2>1, <2>2
  <1>5. TypeOK'
    BY <1>1, <1>4 DEF Inv, TypeOK
  <1>6. /\ PhaseInv' /\ (\E n \in 0..MaxCalls : Numbered(n))'
        /\ ReplyInv' /\ OwnReply'
    BY <1>1 DEF Inv, PhaseInv, Numbered, ReplyInv, Started, OwnReply
  <1>7. (pc = "polled" => \E d \in received : toClient[1].seq = SeqOf(d))'
    BY <1>1, <1>2, <1>4 DEF Inv, StreamInv
  <1>8. pc \in {"polled", "send", "recv"} => Len(Sent) # 1
    BY <1>1 DEF Inv, StreamInv
  <1>9. ASSUME call # None, Len(Sent') >= 2, Sent'[1].seq = SeqOf(call)
        PROVE  replies[call] # <<>> /\ Sent'[1].kind = replies[call][1]
    <2>1. pc \in {"send", "recv"}
      BY <1>9 DEF Inv, PhaseInv
    <2>2. Len(Sent) \in Nat /\ Len(Sent') = Len(Sent) + 1 /\ Len(Sent) # 1
      BY <1>4, <1>8, <2>1
    <2>3. Len(Sent) >= 2
      <3> DEFINE n == Len(Sent)
      <3>1. n \in Nat /\ n # 1 /\ n + 1 >= 2
        BY <1>9, <2>2
      <3> HIDE DEF n
      <3>2. n >= 2
        BY <3>1
      <3>3. QED
        BY <3>2 DEF n
    <2>4. Sent'[1] = Sent[1]
      BY <1>4, <2>3
    <2>5. QED
      BY <1>9, <2>3, <2>4 DEF Inv, StreamInv
  <1>10. StreamInv'
    <2>1. Sent' # <<>>
      BY <1>4, EmptySeq
    <2>2. QED
      BY <1>1, <1>7, <1>9, <2>1 DEF StreamInv
  <1>11. QED
    BY <1>5, <1>6, <1>10 DEF Inv

-----------------------------------------------------------------------------
(* The invariant is inductive, and what follows.                           *)

LEMMA InitInv == Init => Inv
  <1> SUFFICES ASSUME Init
               PROVE  Inv
    OBVIOUS
  <1>1. TypeOK
    BY EmptySeq DEF Init, TypeOK, Outcomes
  <1>2. PhaseInv /\ ReplyInv /\ OwnReply
    BY NoneAssumption DEF Init, PhaseInv, ReplyInv, OwnReply, Answers
  <1>3. Numbered(0)
    <2>1. SeqOf(0) = 0
      BY BoundsAssumption, SeqOfFacts
    <2>2. \A c \in Calls : c # None /\ ~(c <= 0)
      BY NoneAssumption, BoundsAssumption DEF Calls
    <2>3. QED
      BY <2>1, <2>2 DEF Init, Numbered
  <1>4. StreamInv
    BY DEF Init, StreamInv
  <1>5. QED
    BY <1>1, <1>2, <1>3, <1>4, BoundsAssumption DEF Inv

LEMMA NextInv == Inv /\ [Next]_vars => Inv'
  <1> SUFFICES ASSUME Inv, [Next]_vars
               PROVE  Inv'
    OBVIOUS
  <1>1. CASE Deadline
    <2>1. pc \in {"send", "recv"} /\ call # None
      BY <1>1 DEF Deadline, Inv, PhaseInv
    <2>2. QED
      BY <1>1, <2>1, GivenUp DEF Deadline, Abort, EndCall, server, Inv, TypeOK
  <1>2. CASE Interrupt \/ RecvEof
    <2>1. pc \in {"send", "recv"} /\ call # None
      BY <1>2 DEF Interrupt, RecvEof, Inv, PhaseInv
    <2>2. Abort("lost")
      BY <1>2 DEF Interrupt, RecvEof
    <2>3. QED
      BY <2>1, <2>2, GivenUp DEF Abort, EndCall, server, Inv, TypeOK
  <1>3. ASSUME NEW k \in 1..Len(toClient), RecvForeign(k)
        PROVE  Inv'
    <2>1. call # None
      BY <1>3 DEF RecvForeign, Inv, PhaseInv
    <2>2. toClient' \in Seq(Piece)
      BY <1>3, ReadFacts DEF RecvForeign, Inv
    <2>3. QED
      BY <1>3, <2>1, <2>2, GivenUp DEF RecvForeign
  <1>4. CASE UNCHANGED vars
    BY <1>4 DEF vars, Inv, TypeOK, PhaseInv, Numbered, ReplyInv, Started, StreamInv,
                Sent, OwnReply
  <1>5. QED
    BY <1>1, <1>2, <1>3, <1>4, PollKeeps, StartKeeps, SendKeeps, RecvPartKeeps,
       RecvReplyKeeps, CloseIdleKeeps, ServerRepliesKeeps, ServerDiesKeeps,
       ServerClosesKeeps
    DEF Next, Client, Server

\* Every variable of the connection and of its server keeps its type.
THEOREM TypeCorrect == Spec => []TypeOK
  <1>1. Inv => TypeOK
    BY DEF Inv
  <1>2. QED
    BY <1>1, InitInv, NextInv, PTL DEF Spec

\* However late, often or torn the replies come, a call that unary answers
\* gets the first reply the server gave to that very call.
THEOREM RepliesAreOwn == Spec => []OwnReply
  <1>1. Inv => OwnReply
    BY DEF Inv
  <1>2. QED
    BY <1>1, InitInv, NextInv, PTL DEF Spec

\* A connection that _release puts back, and one that poll lets through, is
\* healthy and holds neither a call nor bytes of a reply.
THEOREM PoolHoldsCleanConnections == Spec => []PooledIsClean
  <1>1. Inv => PooledIsClean
    BY DEF Inv, PhaseInv, PooledIsClean
  <1>2. QED
    BY <1>1, InitInv, NextInv, PTL DEF Spec

-----------------------------------------------------------------------------
(* The connection keeps its contract with the session.                     *)

\* What the server answered to a call: the substitution for answered.
AnswersTo(c) == {replies[c][i] : i \in 1..Len(replies[c])} \cap Answers

LEMMA AnsweredIs == Contract!vars =
    <<call, outcome, [c \in Calls |-> AnswersTo(c)], Healthy>>
  BY DEF Contract!vars, AnswersTo

\* A reply adds itself to the answers, if it is one.
LEMMA OneMoreAnswer ==
    ASSUME Inv, NEW c \in Calls, NEW kind \in Kinds, ServerReplies(c, kind)
    PROVE  \A d \in Calls : AnswersTo(d)' =
                IF d = c THEN AnswersTo(d) \cup ({kind} \cap Answers) ELSE AnswersTo(d)
  <1>1. replies[c] \in Seq(Kinds) /\ Len(replies[c]) \in Nat
    BY LenProperties DEF Inv, TypeOK
  <1> DEFINE r == Append(replies[c], kind)
  <1>2. /\ Len(r) = Len(replies[c]) + 1
        /\ \A i \in 1..Len(replies[c]) : r[i] = replies[c][i]
        /\ r[Len(replies[c]) + 1] = kind
    BY <1>1, AppendProperties
  <1>3. \A d \in Calls : replies'[d] = IF d = c THEN r ELSE replies[d]
    BY DEF ServerReplies, Inv, TypeOK
  <1> HIDE DEF r
  <1>4. {r[i] : i \in 1..Len(r)} = {replies[c][i] : i \in 1..Len(replies[c])} \cup {kind}
    <2>1. 1..Len(r) = 1..Len(replies[c]) \cup {Len(replies[c]) + 1}
      BY <1>1, <1>2
    <2>2. QED
      BY <1>2, <2>1
  <1>5. ASSUME NEW d \in Calls, d # c
        PROVE  AnswersTo(d)' = AnswersTo(d)
    BY <1>3, <1>5 DEF AnswersTo
  <1>6. AnswersTo(c)' = {r[i] : i \in 1..Len(r)} \cap Answers
    BY <1>3 DEF AnswersTo
  <1>7. AnswersTo(c)' = AnswersTo(c) \cup ({kind} \cap Answers)
    BY <1>4, <1>6 DEF AnswersTo
  <1>8. QED
    BY <1>5, <1>7

LEMMA StepKeepsContract == Inv /\ [Next]_vars => [Contract!Next]_(Contract!vars)
  <1> SUFFICES ASSUME Inv, [Next]_vars
               PROVE  [Contract!Next]_(Contract!vars)
    OBVIOUS
  <1>0. UNCHANGED replies => [c \in Calls |-> AnswersTo(c)]' = [c \in Calls |-> AnswersTo(c)]
    BY DEF AnswersTo
  <1>1. call # None => call \in Calls
    BY DEF Inv, TypeOK
  <1>2. ASSUME UNCHANGED <<call, outcome, replies>>, dead' \in {dead, TRUE}
        PROVE  [Contract!Next]_(Contract!vars)
    <2>1. Healthy' \in {Healthy, FALSE}
      BY <1>2 DEF Healthy, Inv, TypeOK
    <2>2. CASE Healthy' = FALSE
      BY <1>0, <1>2, <2>2 DEF Contract!Next, Contract!Break, AnswersTo
    <2>3. CASE Healthy' = Healthy
      BY <1>0, <1>2, <2>3, AnsweredIs DEF Contract!vars, AnswersTo
    <2>4. QED
      BY <2>1, <2>2, <2>3
  <1>3. ASSUME call # None, dead' = TRUE, NEW o \in {"deadline", "lost"},
               outcome' = [outcome EXCEPT ![call] = o], call' = None, UNCHANGED replies
        PROVE  [Contract!Next]_(Contract!vars)
    <2>1. Healthy' = FALSE
      BY <1>3 DEF Healthy
    <2>2. Contract!Lose(call) \/ Contract!Expire(call)
      BY <1>0, <1>3, <2>1
      DEF Contract!Lose, Contract!Expire, Contract!End, AnswersTo
    <2>3. QED
      BY <1>1, <1>3, <2>2 DEF Contract!Next
  <1>4. CASE Poll \/ CloseIdle
    BY <1>2, <1>4 DEF Poll, CloseIdle, server, Inv, TypeOK, PhaseInv
  <1>5. ASSUME NEW c \in Calls, Start(c)
        PROVE  [Contract!Next]_(Contract!vars)
    <2>1. outcome[c] = "none" /\ Healthy /\ call = None /\ call' = c
          /\ UNCHANGED <<outcome, dead, replies>>
      BY <1>5 DEF Start, Started, server
    <2>2. Contract!Begin(c)
      BY <1>0, <2>1 DEF Contract!Begin, Healthy, AnswersTo
    <2>3. QED
      BY <2>2 DEF Contract!Next
  <1>6. CASE Send \/ ServerCloses
    BY <1>2, <1>6 DEF Send, ServerCloses, Inv, TypeOK
  <1>7. CASE Deadline \/ Interrupt \/ RecvEof
    <2>1. call # None
      BY <1>7 DEF Deadline, Interrupt, RecvEof, Inv, PhaseInv
    <2>2. QED
      BY <1>3, <1>7, <2>1 DEF Deadline, Interrupt, RecvEof, Abort, EndCall, server
  <1>8. ASSUME NEW k \in 1..Len(toClient), RecvPart(k)
        PROVE  [Contract!Next]_(Contract!vars)
    BY <1>2, <1>8 DEF RecvPart
  <1>9. ASSUME NEW k \in 1..Len(toClient), RecvForeign(k)
        PROVE  [Contract!Next]_(Contract!vars)
    <2>1. call # None
      BY <1>9 DEF RecvForeign, Inv, PhaseInv
    <2>2. QED
      BY <1>3, <1>9, <2>1 DEF RecvForeign
  <1>10. ASSUME NEW k \in 1..Len(toClient), RecvReply(k)
         PROVE  [Contract!Next]_(Contract!vars)
    <2> DEFINE a == Read(k)[1].kind
    <2>1. /\ outcome' = [outcome EXCEPT ![call] = a] /\ call' = None
          /\ UNCHANGED <<dead, replies>>
      BY <1>10 DEF RecvReply
    <2>2. /\ call \in Calls /\ a \in Answers
          /\ replies[call] # <<>> /\ a = replies[call][1]
      BY <1>10, Accepted
    <2> HIDE DEF a
    <2>3. 1 \in 1..Len(replies[call])
      BY <2>2, EmptySeq, LenProperties DEF Inv, TypeOK
    <2>4. a \in AnswersTo(call)
      BY <2>2, <2>3 DEF AnswersTo
    <2>5. Contract!Return(call, a)
      BY <1>0, <2>1, <2>2, <2>4
      DEF Contract!Return, Contract!End, Healthy, AnswersTo
    <2>6. QED
      BY <2>2, <2>5 DEF Contract!Next
  <1>11. ASSUME NEW c \in Calls, NEW kind \in Kinds, ServerReplies(c, kind)
         PROVE  [Contract!Next]_(Contract!vars)
    <2> DEFINE answered == [d \in Calls |-> AnswersTo(d)]
    <2>1. UNCHANGED <<call, outcome, dead>> /\ c \in received
      BY <1>11 DEF ServerReplies
    <2>2. call = c \/ outcome[c] # "none"
      BY <2>1 DEF Inv, ReplyInv, Started
    <2>3. answered' = [d \in Calls |->
              IF d = c THEN AnswersTo(d) \cup ({kind} \cap Answers) ELSE AnswersTo(d)]
      BY <1>11, OneMoreAnswer
    <2>4. CASE kind \in Answers
      <3>1. answered' = [answered EXCEPT ![c] = @ \cup {kind}]
        BY <2>3, <2>4
      <3>2. Contract!Answer(c, kind)
        BY <2>1, <2>2, <3>1 DEF Contract!Answer, Healthy, AnswersTo
      <3>3. QED
        BY <2>4, <3>2 DEF Contract!Next
    <2>5. CASE kind \notin Answers
      <3>1. answered' = answered
        BY <2>3, <2>5
      <3>2. QED
        BY <2>1, <3>1, AnsweredIs DEF Contract!vars, Healthy, AnswersTo
    <2>6. QED
      BY <2>4, <2>5
  <1>12. ASSUME NEW c \in Calls, NEW kind \in Kinds, ServerDies(c, kind)
         PROVE  [Contract!Next]_(Contract!vars)
    BY <1>2, <1>12 DEF ServerDies
  <1>13. CASE UNCHANGED vars
    BY <1>2, <1>13 DEF vars
  <1>14. QED
    BY <1>4, <1>5, <1>6, <1>7, <1>8, <1>9, <1>10, <1>11, <1>12, <1>13
    DEF Next, Client, Server

LEMMA InitKeepsContract == Init => Contract!Init
  <1> SUFFICES ASSUME Init
               PROVE  Contract!Init
    OBVIOUS
  <1>1. \A c \in Calls : AnswersTo(c) = {}
    BY EmptySeq DEF Init, AnswersTo
  <1>2. [c \in Calls |-> AnswersTo(c)] = [c \in Calls |-> {}]
    BY <1>1
  <1>3. QED
    BY <1>2 DEF Init, Contract!Init, Healthy, AnswersTo

\* The connection is a Connection as session.py understands it: one call at a
\* time, answers only from the peer, never used again once it is broken.
THEOREM ThriftKeepsContract == Spec => KeepsContract
  BY InitInv, NextInv, InitKeepsContract, StepKeepsContract, PTL
  DEF Spec, KeepsContract, Contract!Spec

=============================================================================
