--------------------------- MODULE CommandChannel ---------------------------
(***************************************************************************)
(* What a driver without flow control of its own promises the clients of   *)
(* one security key: commands are numbered in the order they are accepted, *)
(* go to the key in that order, each once, and a command is sent only when *)
(* the one before it has been answered.  The channel may close at any time.*)
(***************************************************************************)
EXTENDS Naturals

CONSTANT MaxCommands    \* bound on the number of commands in a run

VARIABLES
    accepted,   \* the last command accepted from a client
    sent,       \* the last command sent to the key
    answered,   \* the last command whose reply was passed on
    open

vars == <<accepted, sent, answered, open>>

Init == accepted = 0 /\ sent = 0 /\ answered = 0 /\ open = TRUE

Accept ==
    /\ open
    /\ accepted < MaxCommands
    /\ accepted' = accepted + 1
    /\ UNCHANGED <<sent, answered, open>>

Send ==
    /\ open
    /\ sent = answered
    /\ sent < accepted
    /\ sent' = sent + 1
    /\ UNCHANGED <<accepted, answered, open>>

(***************************************************************************)
(* A command accepted while nothing is outstanding may be sent at once.    *)
(***************************************************************************)
AcceptAndSend ==
    /\ open
    /\ accepted < MaxCommands
    /\ sent = answered /\ sent = accepted
    /\ accepted' = accepted + 1
    /\ sent' = sent + 1
    /\ UNCHANGED <<answered, open>>

Answer ==
    /\ open
    /\ answered < sent
    /\ answered' = answered + 1
    /\ UNCHANGED <<accepted, sent, open>>

Close ==
    /\ open
    /\ open' = FALSE
    /\ UNCHANGED <<accepted, sent, answered>>

Next == Accept \/ Send \/ AcceptAndSend \/ Answer \/ Close

(***************************************************************************)
(* A command that may be sent is, and the key answers - unless the channel *)
(* closes.                                                                 *)
(***************************************************************************)
Fairness == WF_vars(Send) /\ WF_vars(Answer)

Spec == Init /\ [][Next]_vars
FairSpec == Spec /\ Fairness
=============================================================================
