----------------------------- MODULE UnaryConn -----------------------------
(***************************************************************************)
(* What a pooled connection promises a session, whatever its protocol: the *)
(* Connection of session.py.  It carries one call at a time.  A call that  *)
(* returns brings an answer the peer gave to that very call.  A call that  *)
(* is lost leaves the connection unusable; one that ran out of time leaves *)
(* it unusable too, or in a state the next call can build on.  An unusable *)
(* connection never carries a call again.                                  *)
(***************************************************************************)
CONSTANTS
    Calls,    \* the calls that may run on the connection
    Answers,  \* what a peer may answer
    None

VARIABLES
    current,   \* the call under way, or None
    outcome,   \* how each call ended, "none" before that
    answered,  \* the answers the peer gave to each call
    usable     \* healthy()

vars == <<current, outcome, answered, usable>>

Init ==
    /\ current = None
    /\ outcome = [c \in Calls |-> "none"]
    /\ answered = [c \in Calls |-> {}]
    /\ usable = TRUE

Begin(c) ==
    /\ usable /\ current = None /\ outcome[c] = "none"
    /\ current' = c
    /\ UNCHANGED <<outcome, answered, usable>>

\* The peer may answer the call under way, and also one that was given up.
Answer(c, a) ==
    /\ current = c \/ outcome[c] # "none"
    /\ answered' = [answered EXCEPT ![c] = @ \cup {a}]
    /\ UNCHANGED <<current, outcome, usable>>

End(c, o) ==
    /\ current = c
    /\ current' = None
    /\ outcome' = [outcome EXCEPT ![c] = o]
    /\ UNCHANGED answered

Return(c, a) == a \in answered[c] /\ End(c, a) /\ usable' \in {usable, FALSE}

Expire(c) == End(c, "deadline") /\ usable' \in {usable, FALSE}

Lose(c) == End(c, "lost") /\ usable' = FALSE

\* A call the connection cannot take costs the connection.
Refuse(c) ==
    /\ usable /\ current = None /\ outcome[c] = "none"
    /\ outcome' = [outcome EXCEPT ![c] = "lost"]
    /\ usable' = FALSE
    /\ UNCHANGED <<current, answered>>

Break ==
    /\ usable' = FALSE
    /\ UNCHANGED <<current, outcome, answered>>

Next ==
    \/ \E c \in Calls : Begin(c) \/ Refuse(c) \/ Expire(c) \/ Lose(c)
    \/ \E c \in Calls, a \in Answers : Answer(c, a) \/ Return(c, a)
    \/ Break

Spec == Init /\ [][Next]_vars

=============================================================================
