----------------------------- MODULE ThriftConn -----------------------------
(***************************************************************************)
(* One framed thrift connection (thrift.py ThriftProtocol under the        *)
(* transports of sync.py and aio.py) and its server, over the connection's *)
(* life in the pool: it is polled, runs a call, goes back, is polled again.*)
(*                                                                         *)
(* Thrift cannot cancel, so the replies of a call that was given up, and   *)
(* the second replies of a server that sends them, meet a later call if    *)
(* the connection is used again.  A reply is two pieces of a byte stream,  *)
(* which reads cut anywhere.  Sequence numbers are reduced modulo SeqMod.  *)
(***************************************************************************)
EXTENDS Integers, Sequences

CONSTANTS
    MaxCalls,   \* bound: calls on the connection
    MaxReplies, \* bound: replies the server sends to one request
    SeqMod,     \* sequence numbers are below it (2^31 in the code)
    None

ASSUME BoundsAssumption ==
    /\ MaxCalls \in Nat /\ MaxReplies \in Nat
    /\ SeqMod \in Nat \ {0} /\ MaxCalls <= SeqMod
ASSUME NoneAssumption == None \notin Int

Calls == 1..MaxCalls

VARIABLES
    pc,        \* where the connection is: pooled, polled, send, recv or gone
    dead,      \* ThriftProtocol.dead
    call,      \* the call under way (its _call), or None
    seqid,     \* _seqid
    inbuf,     \* _inbuf, in pieces
    outcome,   \* how each call ended
    toClient,  \* pieces on their way from the server
    received,  \* requests the server has read
    replies,   \* what the server replied to each request, in order
    srvClosed  \* the server closed its side

vars == <<pc, dead, call, seqid, inbuf, outcome, toClient, received, replies, srvClosed>>
server == <<toClient, received, replies, srvClosed>>

\* A reply carries the request's sequence number.  "bad" stands for a reply
\* with another method name, another message type or another version.
Kinds == {"reply", "exception", "bad"}
Answers == {"reply", "exception"}
Piece == [seq : 0..(SeqMod - 1), kind : Kinds, part : {1, 2}]

Healthy == ~dead
Started == {c \in Calls : call = c \/ outcome[c] # "none"}

SeqOf(c) == c % SeqMod

Init ==
    /\ pc = "pooled"
    /\ dead = FALSE
    /\ call = None
    /\ seqid = 0
    /\ inbuf = <<>>
    /\ outcome = [c \in Calls |-> "none"]
    /\ toClient = <<>>
    /\ received = {}
    /\ replies = [c \in Calls |-> <<>>]
    /\ srvClosed = FALSE

-----------------------------------------------------------------------------
(* The session's side.                                                     *)

\* poll: anything readable on an idle connection, EOF included, kills it.  The
\* session then closes it (_acquire).
Poll ==
    /\ pc = "pooled"
    /\ LET readable == toClient # <<>> \/ srvClosed
       IN  /\ dead' = readable
           /\ pc' = IF readable THEN "gone" ELSE "polled"
    /\ UNCHANGED <<call, seqid, inbuf, outcome, server>>

Start(c) ==
    /\ pc = "polled"
    /\ Healthy /\ call = None
    /\ c \notin Started /\ \A d \in Calls : d < c => d \in Started
    /\ seqid' = (seqid + 1) % SeqMod
    /\ call' = c
    /\ pc' = "send"
    /\ UNCHANGED <<dead, inbuf, outcome, server>>

Send ==
    /\ pc = "send"
    /\ received' = received \cup {call}
    /\ pc' = "recv"
    /\ UNCHANGED <<dead, call, seqid, inbuf, outcome, toClient, replies, srvClosed>>

\* unary returns or raises, then _release: back to the pool or closed.
EndCall(o, broken) ==
    /\ outcome' = [outcome EXCEPT ![call] = o]
    /\ call' = None
    /\ dead' = (dead \/ broken)
    /\ pc' = IF dead' THEN "gone" ELSE "pooled"
    /\ UNCHANGED <<seqid, server>>

\* abort(): timeout, an IO error (also EOF), or any other way out of unary.
Abort(o) == EndCall(o, TRUE) /\ inbuf' = <<>>

\* Mutant: the timeout is not set before the request is written.
DeadlineReadingOnly == pc = "recv" /\ Abort("deadline")

Deadline == pc \in {"send", "recv"} /\ Abort("deadline")

\* A write or read fails, or the caller is interrupted (KeyboardInterrupt,
\* task cancellation): the finally clause of unary.
Interrupt == pc \in {"send", "recv"} /\ Abort("lost")

\* Mutant: EOF ends the call but does not kill the connection.
RecvEofKeeps ==
    /\ pc = "recv"
    /\ toClient = <<>> /\ srvClosed
    /\ EndCall("lost", FALSE) /\ inbuf' = <<>>

\* feed(b"").
RecvEof ==
    /\ pc = "recv"
    /\ toClient = <<>> /\ srvClosed
    /\ Abort("lost")

\* Mutants: feed() without one of its checks.
NothingIsTooMuch(buf) == FALSE
AnySeq(buf) == FALSE

\* Why feed() refuses the frame at the head of buf.
TooMuch(buf) == Len(buf) > 2
Mismatch(buf) == buf[1].seq # seqid
Foreign(buf) == TooMuch(buf) \/ Mismatch(buf) \/ buf[1].kind = "bad"

Read(k) == inbuf \o SubSeq(toClient, 1, k)

\* Fewer bytes than a frame: wait for more.
RecvPart(k) ==
    /\ pc = "recv"
    /\ k \in 1..Len(toClient) /\ Len(Read(k)) < 2
    /\ inbuf' = Read(k)
    /\ toClient' = SubSeq(toClient, k + 1, Len(toClient))
    /\ UNCHANGED <<pc, dead, call, seqid, outcome, received, replies, srvClosed>>

\* feed() raises TransportError, unary aborts.
RecvForeign(k) ==
    /\ pc = "recv"
    /\ k \in 1..Len(toClient) /\ Len(Read(k)) >= 2
    /\ Foreign(Read(k))
    /\ outcome' = [outcome EXCEPT ![call] = "lost"]
    /\ call' = None
    /\ dead' = TRUE
    /\ pc' = "gone"
    /\ inbuf' = <<>>
    /\ toClient' = SubSeq(toClient, k + 1, Len(toClient))
    /\ UNCHANGED <<seqid, received, replies, srvClosed>>

\* The reply: result() returns it or raises it, and ends the call.
RecvReply(k) ==
    /\ pc = "recv"
    /\ k \in 1..Len(toClient) /\ Len(Read(k)) >= 2
    /\ ~Foreign(Read(k))
    /\ outcome' = [outcome EXCEPT ![call] = Read(k)[1].kind]
    /\ call' = None
    /\ inbuf' = SubSeq(Read(k), 3, Len(Read(k)))
    /\ toClient' = SubSeq(toClient, k + 1, Len(toClient))
    /\ pc' = "pooled"
    /\ UNCHANGED <<dead, seqid, received, replies, srvClosed>>

\* The pool expires the connection, is full, or is drained.
CloseIdle ==
    /\ pc = "pooled"
    /\ dead' = TRUE
    /\ pc' = "gone"
    /\ UNCHANGED <<call, seqid, inbuf, outcome, server>>

Client ==
    \/ Poll
    \/ \E c \in Calls : Start(c)
    \/ Send \/ Deadline \/ Interrupt \/ RecvEof
    \/ \E k \in 1..Len(toClient) : RecvPart(k) \/ RecvForeign(k) \/ RecvReply(k)
    \/ CloseIdle

-----------------------------------------------------------------------------
(* The server and the network.                                             *)

Pieces(c, kind) ==
    [p \in {1, 2} |-> [seq |-> SeqOf(c), kind |-> kind, part |-> p]]

\* It may reply late, out of order, and up to MaxReplies times.
ServerReplies(c, kind) ==
    /\ c \in received /\ ~srvClosed
    /\ Len(replies[c]) < MaxReplies
    /\ replies' = [replies EXCEPT ![c] = Append(@, kind)]
    /\ toClient' = toClient \o Pieces(c, kind)
    /\ UNCHANGED <<pc, dead, call, seqid, inbuf, outcome, received, srvClosed>>

ServerCloses ==
    /\ ~srvClosed
    /\ srvClosed' = TRUE
    /\ UNCHANGED <<pc, dead, call, seqid, inbuf, outcome, toClient, received, replies>>

\* It dies in the middle of a reply.
ServerDies(c, kind) ==
    /\ c \in received /\ ~srvClosed
    /\ Len(replies[c]) < MaxReplies
    /\ toClient' = Append(toClient, Pieces(c, kind)[1])
    /\ srvClosed' = TRUE
    /\ UNCHANGED <<pc, dead, call, seqid, inbuf, outcome, received, replies>>

Server ==
    \/ \E c \in Calls, kind \in Kinds : ServerReplies(c, kind) \/ ServerDies(c, kind)
    \/ ServerCloses

Next == Client \/ Server

\* With a timeout the transport gives up in the end, whatever the server does.
\* Nothing else is fair: writes may block and servers may be silent.
Spec == Init /\ [][Next]_vars /\ WF_vars(Deadline)

-----------------------------------------------------------------------------
(* Correctness.                                                            *)

\* A call that returns brings the first reply the server gave to that call:
\* never the late reply of a call given up, never somebody's second reply.
OwnReply ==
    \A c \in Calls : outcome[c] \in Answers =>
        replies[c] # <<>> /\ outcome[c] = replies[c][1]

\* What goes back to the pool holds no part of a call: not a call under way,
\* not bytes of a reply.
PooledIsClean ==
    pc \in {"pooled", "polled"} => call = None /\ inbuf = <<>> /\ ~dead

\* A call that was started ends.
CallsEnd == \A c \in Calls : call = c ~> outcome[c] # "none"

\* The connection keeps the promise the session relies on.
Contract == INSTANCE UnaryConn WITH
    current <- call, usable <- Healthy,
    answered <- [c \in Calls |->
                    {replies[c][i] : i \in 1..Len(replies[c])} \cap Answers]

KeepsContract == Contract!Spec

=============================================================================
