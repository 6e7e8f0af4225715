------------------------- MODULE SubscriptionService -------------------------
(***************************************************************************)
(* What the pub/sub part of a client promises, without nodes, commands,    *)
(* confirmations or a reconciliation task.                                 *)
(*                                                                         *)
(* The application changes what it wants (desired); the client holds       *)
(* subscriptions (actual), which it may lose at any moment but gains only   *)
(* for channels somebody asked for; a blocking call returns success only   *)
(* at a moment when its channels are in step; and in the end the two sets  *)
(* agree and nobody is left waiting.                                       *)
(*                                                                         *)
(* PubSubSynchronizer implements this specification: see Service there.    *)
(***************************************************************************)
CONSTANTS Channels, Callers

VARIABLES
    desired,    \* what the application wants
    asked,      \* every channel that was ever desired
    actual,     \* what GET_SUBSCRIPTIONS reports as actual
    calls,      \* per caller: the blocking call it is in, and its outcome
    alive       \* the client exists

vars == <<desired, asked, actual, calls, alive>>

Waiting(u) == calls[u].state = "waiting"
Ended(state) == [state |-> state, about |-> {}, all |-> {}]

\* The channels a call names have the same standing in both sets; one that ends
\* all subscriptions of a kind waits until there are none.
InStep(u) ==
    /\ \A c \in calls[u].about : c \in desired <=> c \in actual
    /\ calls[u].all \cap (desired \cup actual) = {}

\* ... and until then the application may want channels of the kind again.
Overruled(u) == calls[u].all \cap desired # {}

Init ==
    /\ desired \in SUBSET Channels
    /\ asked = desired
    /\ actual = {}
    /\ calls = [u \in Callers |-> Ended("idle")]
    /\ alive = TRUE

\* The application asks for other subscriptions, in a call that waits for
\* them or in one that does not.
Change ==
    /\ alive
    /\ desired' \in SUBSET Channels
    /\ asked' = asked \cup desired'
    /\ \/ UNCHANGED calls
       \/ \E u \in Callers, S, K \in SUBSET Channels :
            /\ ~Waiting(u)
            /\ calls' = [calls EXCEPT ![u] = [state |-> "waiting", about |-> S, all |-> K]]
    /\ UNCHANGED <<actual, alive>>

\* One more subscription is in place: never one that nobody asked for.
Gain ==
    /\ \E c \in asked : actual' = actual \cup {c}
    /\ UNCHANGED <<desired, asked, calls, alive>>

\* Subscriptions are given up or lost.
Lose ==
    /\ actual' \in SUBSET actual
    /\ UNCHANGED <<desired, asked, calls, alive>>

ReturnOk(u) ==
    /\ Waiting(u)
    /\ InStep(u)
    /\ calls' = [calls EXCEPT ![u] = Ended("idle")]
    /\ UNCHANGED <<desired, asked, actual, alive>>

TimeOut(u) ==
    /\ Waiting(u)
    /\ calls' = [calls EXCEPT ![u] = Ended("failed")]
    /\ UNCHANGED <<desired, asked, actual, alive>>

Close ==
    /\ alive
    /\ \A u \in Callers : ~Waiting(u)
    /\ alive' = FALSE
    /\ UNCHANGED <<desired, asked, actual, calls>>

Next ==
    \/ Change \/ Gain \/ Lose \/ Close
    \/ \E u \in Callers : ReturnOk(u) \/ TimeOut(u)

\* A client that lives on ends up with what was asked of it, and no call waits
\* for ever that was not overruled.
Agreement ==
    <>[](alive => actual = desired /\ \A u \in Callers : Waiting(u) => Overruled(u))

\* What may never happen, and with it what must.
Safety == Init /\ [][Next]_vars

Spec == Safety /\ Agreement
==============================================================================
