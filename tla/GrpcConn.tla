------------------------------ MODULE GrpcConn ------------------------------
(***************************************************************************)
(* One gRPC connection (grpc.py GrpcProtocol under the transports of       *)
(* sync.py and aio.py), the HTTP/2 library below it (external, as the code *)
(* uses it) and the server, over the connection's life in the pool.        *)
(*                                                                         *)
(* Each call is a stream of its own on the connection; call number c is    *)
(* stream c.  A request is its HEADERS and Body chunks of DATA, as many at *)
(* a time as the stream's flow-control window admits.  A call that runs    *)
(* out of time resets its stream and keeps the connection, so frames of a  *)
(* stream given up meet later calls.  The server may answer at any time    *)
(* after the HEADERS, also before the request is complete.  Of an answer   *)
(* only the frame with END_STREAM is kept: feed() stores the others.       *)
(***************************************************************************)
EXTENDS Integers, Sequences, FiniteSets, SequencesExt

CONSTANTS
    MaxCalls,    \* bound: calls on the connection
    MaxPings,    \* bound: PING and SETTINGS frames of the server
    MaxInFlight, \* bound: frames on their way from the server
    Body,        \* chunks of a request
    MaxStreams,  \* the server's SETTINGS_MAX_CONCURRENT_STREAMS
    None

ASSUME BoundsAssumption ==
    /\ MaxCalls \in Nat /\ MaxPings \in Nat /\ MaxInFlight \in Nat
    /\ Body \in Nat \ {0} /\ MaxStreams \in Nat

Calls == 1..MaxCalls
Statuses == {"ok", "error", "bad"}  \* "bad": no grpc-status, or no whole message
Answers == {"ok", "error"}

\* A _Call: its stream, what of its body is pending, whether and how it ended.
CallRecord ==
    [stream : Calls, pending : 0..Body, ended : BOOLEAN, status : Statuses \cup {"none"}]

ASSUME NoneAssumption == None \notin Int /\ None \notin CallRecord

VARIABLES
    blocking,    \* sync.py's socket (TRUE) or aio.py's buffered writer
    pc,          \* pooled, poll, ready, send, recv, feed, done or gone
    dead,        \* GrpcProtocol.dead
    call,        \* _call, or None
    out,         \* frames h2 has queued and data_to_send has not yet taken
    window,      \* chunks each stream may send in all
    openStreams, \* streams h2 counts as open
    endSent,     \* streams whose END_STREAM was queued
    outcome,     \* how each call ended
    heard,       \* what the server has read of each stream
    torn,        \* the last bytes written are an incomplete frame
    confused,    \* the server read something that is no HTTP/2
    toClient,    \* frames on their way from the server
    sent,        \* what the server sent on each stream
    pings,       \* PING and SETTINGS frames it sent
    srvClosed    \* the server closed its side

client == <<blocking, pc, dead, call, out, window, openStreams, endSent, outcome>>
wire == <<heard, torn, confused>>
server == <<sent, pings, srvClosed>>
vars == <<client, wire, toClient, server>>

NewCall(c) == [stream |-> c, pending |-> Body, ended |-> FALSE, status |-> "none"]

Healthy == ~dead
Ended == call # None /\ call.ended
Started == {c \in Calls : outcome[c] # "none" \/ (call # None /\ call.stream = c)}

Init ==
    /\ blocking \in BOOLEAN
    /\ pc = "pooled"
    /\ dead = FALSE
    /\ call = None
    /\ out = <<>>
    /\ window = [c \in Calls |-> 1]
    /\ openStreams = {} /\ endSent = {}
    /\ outcome = [c \in Calls |-> "none"]
    /\ heard = [c \in Calls |-> "nothing"]
    /\ torn = FALSE /\ confused = FALSE
    /\ toClient = <<>>
    /\ sent = [c \in Calls |-> {}]
    /\ pings = 0
    /\ srvClosed = FALSE

-----------------------------------------------------------------------------
(* Bytes to the server.                                                    *)

Frame(type, c) == [type |-> type, stream |-> c]
Control(type) == Frame(type, 0)

\* An incomplete frame.  What follows it is taken for the rest of that frame.
Part == Control("part")
Whole(s) == SubSeq(s, 1, IF Contains(s, Part)
                          THEN CHOOSE i \in 1..Len(s) : s[i] = Part ELSE Len(s))

\* What the server knows of stream c once it has read the frames of s.
HeardAfter(s, c) ==
    IF Contains(s, Frame("rst", c)) THEN "reset"
    ELSE IF Contains(s, Frame("last", c)) THEN "complete"
    ELSE IF Contains(s, Frame("headers", c)) THEN "open"
    ELSE heard[c]

\* To reset a stream the server has not seen is a connection error.
ResetsUnseen(s) ==
    \E c \in Calls : /\ Contains(s, Frame("rst", c))
                     /\ ~Contains(s, Frame("headers", c))
                     /\ heard[c] = "nothing"

Write(s) ==
    /\ heard' = IF torn \/ confused THEN heard
                ELSE [c \in Calls |-> HeardAfter(Whole(s), c)]
    /\ torn' = (torn \/ Contains(s, Part))
    /\ confused' = (\/ confused
                    \/ torn /\ s # <<>>
                    \/ Contains(s, Part) /\ Last(s) # Part
                    \/ ResetsUnseen(Whole(s)))

-----------------------------------------------------------------------------
(* Frames from the server.  Effect(f) is feed of one frame, call the call  *)
(* under way, which an idle connection does not have.                      *)

\* Mutant: frames are not matched with the call's stream.
AnyStream(f) == call # None

Own(f) == call # None /\ f.stream = call.stream

\* GOAWAY terminates the connection, and so does a frame h2 rejects, for which
\* GOAWAY stands.  During a call, a reset of its stream fails it.
\* A finished call outlives both.
Kills(f) == f.type = "goaway" \/ (Own(f) /\ f.type = "rst" /\ ~call.ended)

\* Mutant: what terminates the connection fails a finished call too.
RaisesAlways(f) == Kills(f) /\ call # None

Raises(f) == Kills(f) /\ call # None /\ ~call.ended

Frees(f) == IF f.type = "rst" \/ (f.type = "end" /\ f.stream \in endSent)
            THEN {f.stream} ELSE {}

Fed(f) ==
    IF Own(f) /\ f.type = "end"
    THEN [call EXCEPT !.ended = TRUE, !.status = f.status] ELSE call

\* What a frame does to the connection, apart from the call.
Effect(f) ==
    /\ dead' = (dead \/ Kills(f))
    /\ openStreams' = openStreams \ Frees(f)
    /\ window' = IF f.type = "wnd" THEN [window EXCEPT ![f.stream] = @ + 1] ELSE window
    /\ out' = IF f.type = "ping" THEN Append(out, Control("ack")) ELSE out
    /\ toClient' = Tail(toClient)

-----------------------------------------------------------------------------
(* The pool.                                                               *)

Poll ==
    /\ pc = "pooled"
    /\ pc' = "poll"
    /\ UNCHANGED <<blocking, dead, call, out, window, openStreams, endSent, outcome>>
    /\ UNCHANGED <<wire, toClient, server>>

\* feed_idle.
PollFrame ==
    /\ pc = "poll" /\ Healthy /\ toClient # <<>>
    /\ Effect(Head(toClient))
    /\ UNCHANGED <<blocking, pc, call, endSent, outcome, wire, server>>

\* feed_idle of b"", or a read that fails.
PollEof ==
    /\ pc = "poll" /\ Healthy /\ toClient = <<>> /\ srvClosed
    /\ dead' = TRUE
    /\ UNCHANGED <<blocking, pc, call, out, window, openStreams, endSent, outcome>>
    /\ UNCHANGED <<wire, toClient, server>>

\* A socket is read until it would block, a stream reader until a read finds
\* nothing, and bytes it has not yet been given may be left.  Then what h2 has
\* queued is written without waiting.
PollDone ==
    /\ pc = "poll"
    /\ (Healthy /\ blocking) => toClient = <<>> /\ ~srvClosed
    /\ IF dead THEN UNCHANGED <<dead, out, wire>>
       ELSE /\ out' = <<>>
            /\ \/ Write(out) /\ UNCHANGED dead
               \/ out # <<>> /\ blocking /\ dead' = TRUE /\ UNCHANGED wire
    /\ pc' = IF dead' THEN "gone" ELSE "ready"
    /\ UNCHANGED <<blocking, call, window, openStreams, endSent, outcome, toClient, server>>

\* The pool expires the connection, is full, or is drained.
CloseIdle ==
    /\ pc = "pooled"
    /\ dead' = TRUE
    /\ pc' = "gone"
    /\ UNCHANGED <<blocking, call, out, window, openStreams, endSent, outcome>>
    /\ UNCHANGED <<wire, toClient, server>>
-----------------------------------------------------------------------------
(* A call.                                                                 *)

Unused(c) == c \notin Started /\ \A d \in 1..(c - 1) : d \in Started

Start(c) ==
    /\ pc = "ready" /\ call = None /\ Unused(c)
    /\ Cardinality(openStreams) < MaxStreams
    /\ call' = NewCall(c)
    /\ openStreams' = openStreams \cup {c}
    /\ out' = Append(out, Frame("headers", c))
    /\ pc' = "send"
    /\ UNCHANGED <<blocking, dead, window, endSent, outcome, wire, toClient, server>>

\* h2 raises TooManyStreamsError, unary aborts.
StartRefused(c) ==
    /\ pc = "ready" /\ call = None /\ Unused(c)
    /\ Cardinality(openStreams) >= MaxStreams
    /\ outcome' = [outcome EXCEPT ![c] = "lost"]
    /\ dead' = TRUE
    /\ pc' = "gone"
    /\ UNCHANGED <<blocking, call, out, window, openStreams, endSent, wire, toClient, server>>

\* data_to_send: how many chunks the window admits (the server grants no more
\* than the request has), and the frames to write.
Chunks ==
    IF call.ended \/ dead THEN 0 ELSE window[call.stream] - (Body - call.pending)

Data(n) ==
    [i \in 1..n |-> Frame(IF i = call.pending THEN "last" ELSE "data", call.stream)]

ToSend == out \o Data(Chunks)

\* Mutant: the pool takes a connection without asking for its health.
EndCallAlwaysPools(o, broken) ==
    /\ outcome' = [outcome EXCEPT ![call.stream] = o]
    /\ call' = None
    /\ dead' = (dead \/ broken)
    /\ pc' = "pooled"
    /\ UNCHANGED blocking

\* unary returns or raises, then _release: back to the pool or closed.
EndCall(o, broken) ==
    /\ outcome' = [outcome EXCEPT ![call.stream] = o]
    /\ call' = None
    /\ dead' = (dead \/ broken)
    /\ pc' = IF dead' THEN "gone" ELSE "pooled"
    /\ UNCHANGED blocking

\* data_to_send has been called, whether the write then succeeds or not.
Sending ==
    /\ pc = "send"
    /\ out' = <<>>
    /\ endSent' = IF Chunks = call.pending /\ call.pending > 0
                  THEN endSent \cup {call.stream} ELSE endSent

Send ==
    /\ Sending
    /\ call' = [call EXCEPT !.pending = @ - Chunks]
    /\ Write(ToSend)
    /\ pc' = IF call.ended THEN "done" ELSE "recv"
    /\ UNCHANGED <<blocking, dead, window, openStreams, outcome, toClient, server>>

\* The write fails: unary aborts.
SendFails ==
    /\ Sending
    /\ ToSend # <<>>
    /\ EndCall("lost", TRUE)
    /\ UNCHANGED <<window, openStreams, wire, toClient, server>>

\* Mutant: cancel() resets no stream.
CancelLeavesStream(s) ==
    /\ UNCHANGED openStreams
    /\ EndCall("deadline", FALSE) /\ Write(s)

\* cancel(), and its frame is written without waiting after s, which may fail
\* on a socket.  The stream of an answer that is complete is not reset.
Cancel(s) ==
    LET rst == IF call.ended THEN <<>> ELSE <<Frame("rst", call.stream)>>
    IN  /\ openStreams' = IF call.ended THEN openStreams ELSE openStreams \ {call.stream}
        /\ \/ EndCall("deadline", FALSE) /\ Write(s \o rst)
           \/ rst # <<>> /\ blocking /\ EndCall("deadline", TRUE) /\ Write(s)

\* A stream writer has taken all of the frames when waiting for it times out.
\* A socket has taken a part of them, down to nothing.
Taken ==
    IF blocking
    THEN LET cuts == {SubSeq(ToSend, 1, k) : k \in 0..(Len(ToSend) - 1)}
         IN  cuts \cup {Append(s, Part) : s \in cuts}
    ELSE {ToSend}

\* Mutant: the deadline is looked at between data_to_send and the write.
SendTimesOutUnwritten ==
    /\ Sending
    /\ ToSend # <<>>
    /\ Cancel(<<>>)
    /\ UNCHANGED <<window, toClient, server>>

SendTimesOut ==
    /\ Sending
    /\ ToSend # <<>>
    /\ \E s \in Taken : Cancel(s)
    /\ UNCHANGED <<window, toClient, server>>

\* Mutant: the deadline runs from the end of the request.
RecvTimesOutOnceSent ==
    /\ pc = "recv" /\ call.pending = 0
    /\ Cancel(<<>>)
    /\ UNCHANGED <<out, endSent, window, toClient, server>>

RecvTimesOut ==
    /\ pc = "recv"
    /\ Cancel(<<>>)
    /\ UNCHANGED <<out, endSent, window, toClient, server>>

\* feed of one of the frames just read.  A read may bring more, and feed goes
\* on unless the connection is dead.
Feed ==
    /\ pc \in {"recv", "feed"} /\ toClient # <<>>
    /\ LET f == Head(toClient)
       IN  /\ Effect(f)
           /\ IF Raises(f)
              THEN /\ outcome' = [outcome EXCEPT ![call.stream] = "lost"]
                   /\ call' = None
                   /\ pc' = "gone"
              ELSE /\ call' = Fed(f)
                   /\ pc' \in {"send"} \cup IF dead' \/ Len(toClient) = 1 THEN {} ELSE {"feed"}
                   /\ UNCHANGED outcome
    /\ UNCHANGED <<blocking, endSent, wire, server>>

\* Mutant: EOF fails the call but does not kill the connection.
RecvEofKeeps ==
    /\ pc = "recv" /\ toClient = <<>> /\ srvClosed
    /\ EndCall("lost", FALSE)
    /\ UNCHANGED <<out, endSent, window, openStreams, wire, toClient, server>>

\* feed(b"").
RecvEof ==
    /\ pc = "recv" /\ toClient = <<>> /\ srvClosed
    /\ EndCall("lost", TRUE)
    /\ UNCHANGED <<out, endSent, window, openStreams, wire, toClient, server>>

\* result().  A bad answer is a TransportError, and unary aborts.
Finish ==
    /\ pc = "done"
    /\ IF call.status = "bad" THEN EndCall("lost", TRUE) ELSE EndCall(call.status, FALSE)
    /\ UNCHANGED <<out, endSent, window, openStreams, wire, toClient, server>>

\* The caller is interrupted (KeyboardInterrupt, task cancellation): the
\* finally clause of unary.
Interrupt ==
    /\ call # None
    /\ EndCall("interrupted", TRUE)
    /\ UNCHANGED <<out, endSent, window, openStreams, wire, toClient, server>>

Client ==
    \/ Poll \/ PollFrame \/ PollEof \/ PollDone \/ CloseIdle
    \/ \E c \in Calls : Start(c) \/ StartRefused(c)
    \/ Send \/ SendFails \/ SendTimesOut
    \/ RecvTimesOut \/ Feed \/ RecvEof \/ Finish \/ Interrupt

-----------------------------------------------------------------------------
(* The server and the network.                                             *)

\* Nobody reads what arrives on a connection the client has closed.
ServerSends(f) ==
    /\ ~srvClosed /\ pc # "gone"
    /\ Len(toClient) < MaxInFlight
    /\ toClient' = Append(toClient, f)

\* It answers a stream it knows of, in time or not, and before it has read the
\* request or after.
ServerAnswers(c, status) ==
    /\ heard[c] # "nothing" /\ sent[c] = {}
    /\ ServerSends([type |-> "end", stream |-> c, status |-> status])
    /\ sent' = [sent EXCEPT ![c] = {status}]
    /\ UNCHANGED <<client, wire, pings, srvClosed>>

\* It refuses the stream, or wants no more of a request it has answered.
ServerResets(c) ==
    /\ heard[c] # "nothing" /\ "rst" \notin sent[c]
    /\ ServerSends(Frame("rst", c))
    /\ sent' = [sent EXCEPT ![c] = @ \cup {"rst"}]
    /\ UNCHANGED <<client, wire, pings, srvClosed>>

ServerGrants(c) ==
    /\ heard[c] = "open" /\ "rst" \notin sent[c]
    /\ window[c] < Body /\ ~Contains(toClient, Frame("wnd", c))
    /\ ServerSends(Frame("wnd", c))
    /\ UNCHANGED <<client, wire, server>>

\* A PING, or new SETTINGS: h2 acknowledges both.
ServerPings ==
    /\ pings < MaxPings
    /\ ServerSends(Control("ping"))
    /\ pings' = pings + 1
    /\ UNCHANGED <<client, wire, sent, srvClosed>>

\* It leaves, with a GOAWAY or without.
ServerLeaves ==
    /\ \/ ServerSends(Control("goaway"))
       \/ ~srvClosed /\ pc # "gone" /\ UNCHANGED toClient
    /\ srvClosed' = TRUE
    /\ UNCHANGED <<client, wire, sent, pings>>

Server ==
    \/ \E c \in Calls, status \in Statuses : ServerAnswers(c, status)
    \/ \E c \in Calls : ServerResets(c) \/ ServerGrants(c)
    \/ ServerPings \/ ServerLeaves

Next == Client \/ Server

\* What a call does without waiting for the peer.
Runs == (pc = "send" /\ ToSend = <<>> /\ Send) \/ (pc = "feed" /\ Feed) \/ Finish

\* With a timeout the transport gives up in the end, whatever the server does.
\* Nothing else is fair: writes may block and servers may be silent.
Spec == Init /\ [][Next]_vars /\ WF_vars(Runs) /\ WF_vars(SendTimesOut \/ RecvTimesOut)

-----------------------------------------------------------------------------
(* Correctness.                                                            *)

\* A call that returns brings the answer the server gave on that call's stream,
\* whatever frames of streams given up arrive in between.
OwnReply == \A c \in Calls : outcome[c] \in Answers => outcome[c] \in sent[c]

\* A connection between two calls is healthy and holds no part of a call: none
\* under way, and no request frame that is still to be written.
PooledIsClean ==
    pc \in {"pooled", "ready"} =>
        /\ call = None /\ ~dead
        /\ \A i \in 1..Len(out) : out[i].type = "ack"

\* Between two calls no stream is open but those the server answered before it
\* had the whole request: a deadline frees the stream at once.
OnlyAnsweredStreamsStayOpen ==
    call = None /\ pc # "gone" =>
        \A c \in openStreams : c \notin endSent /\ sent[c] # {}

\* Through a stream writer the server is sent whole frames only, and never a
\* reset of a stream it does not know, whenever a call is given up.
WholeFrames == ~blocking => ~torn /\ ~confused

\* An answer that is complete survives whatever follows it in the same read.
FinishedSurvives ==
    [][pc = "feed" /\ Ended /\ Feed => Ended' /\ call' = call]_vars

\* A call that was started ends.
CallsEnd == \A c \in Calls : (call # None /\ call.stream = c) ~> outcome[c] # "none"

\* The connection keeps the promise the session relies on.
Contract == INSTANCE UnaryConn WITH
    current <- IF call = None THEN None ELSE call.stream,
    outcome <- [c \in Calls |-> IF outcome[c] = "interrupted" THEN "lost" ELSE outcome[c]],
    answered <- [c \in Calls |-> sent[c] \cap Answers],
    usable <- Healthy

KeepsContract == Contract!Spec

\* What the documentation says, and the code does not do.

\* "An expired deadline cancels the stream with RST_STREAM and keeps the
\* connection": what was written before, and the reset, are HTTP/2.
ExpiredKeepsHttp2 == pc \in {"pooled", "ready"} => ~confused

\* "An error from the server (non OK status) does not count as a failure and
\* keeps the connection": the next call on it has a stream to run on.
ErrorsKeepTheConnection == pc = "ready" => Cardinality(openStreams) < MaxStreams

=============================================================================
