---------------------------- MODULE CommandPath -----------------------------
(***************************************************************************)
(* The way of a request through glide-core: the breaker's admission check, *)
(* the inflight limit, execution, the caller's timeout and the report to   *)
(* the breaker (Client::send_command_ungated, send_scope_command and the   *)
(* non-single requests of the socket listener).                            *)
(*                                                                         *)
(* One step per stretch of code between two points where another task or   *)
(* thread can be seen: the lock-free load of `healthy`, the lock of the    *)
(* breaker, the atomics of the inflight counter and the awaits.  The       *)
(* connection below and the routing are external: they answer, fail, never *)
(* answer, and keep clones of the command as long as they please.          *)
(***************************************************************************)
EXTENDS CircuitBreaker

CONSTANTS
    Commands,       \* concurrent requests
    Kinds,          \* the kinds of request sent, among AllKinds
    Limit,          \* inflight_requests_limit
    MaxClones,      \* clones of one command in the cluster pipeline (bound)
    CountTimeouts   \* count_timeouts

\* "pubsub" is a single command that the synchronizer answers itself.
AllKinds == {"single", "pubsub", "scope", "batch"}

ASSUME PathConfig ==
    /\ IsFiniteSet(Commands) /\ Kinds \subseteq AllKinds
    /\ Limit \in Nat /\ MaxClones \in Nat /\ CountTimeouts \in BOOLEAN

VARIABLES
    inflight_allowed,  \* free inflight slots
    cmd,               \* what each request is doing
    healed             \* from now on the servers answer (for liveness)

pathVars == <<inflight_allowed, cmd, healed>>
vars == <<breakerVars, pathVars>>

Outcomes == {"none", "ok", "server_error", "transport", "timeout"}

Free == [kind |-> "none", step |-> "idle", caller |-> FALSE, clones |-> 0,
         outcome |-> "none", seen |-> 0]

Init ==
    /\ BreakerInit
    /\ inflight_allowed = Limit
    /\ cmd = [c \in Commands |-> Free]
    /\ healed = FALSE

-----------------------------------------------------------------------------
(* InflightRequestTracker: shared by the caller's Cmd and the pipeline's clones *)

HoldsSlot(c) == cmd[c].caller \/ cmd[c].clones > 0

Live == {c \in Commands : HoldsSlot(c)}

\* Mutant of SlotFreed: the slot is given back when the caller is done, and again
\* by the last clone.
SlotFreedEarly(caller, clones) == ~caller

\* The last handle on the tracker is gone.
SlotFreed(caller, clones) == ~caller /\ clones = 0

\* Drop handles of c: it becomes free, or lives on in the pipeline.
Drop(c, caller, clones, step) ==
    /\ inflight_allowed' = inflight_allowed + (IF SlotFreed(caller, clones) THEN 1 ELSE 0)
    /\ cmd' = [cmd EXCEPT ![c] = IF ~caller /\ clones = 0 THEN Free
                                 ELSE [@ EXCEPT !.caller = caller, !.clones = clones,
                                                !.step = step]]

-----------------------------------------------------------------------------
(* Admission *)

\* The fast path of is_healthy reads the flag without the lock.
Start(c, kind) ==
    /\ cmd[c].step = "idle"
    /\ cmd' = [cmd EXCEPT ![c].kind = kind,
                          ![c].step = IF kind = "batch" \/ healthy THEN "admitted"
                                      ELSE "probing"]
    /\ UNCHANGED <<breakerVars, inflight_allowed, healed>>

Rejected(c) ==
    /\ cmd' = [cmd EXCEPT ![c] = Free]
    /\ UNCHANGED <<breakerVars, inflight_allowed, healed>>

\* try_allow_probe moves the breaker to HalfOpen.
ProbeAllowed(c) ==
    /\ cmd[c].step = "probing"
    /\ AllowProbe
    /\ cmd' = [cmd EXCEPT ![c].step = "admitted"]
    /\ UNCHANGED <<inflight_allowed, healed>>

\* Another thread has settled it between the load and the lock.
ProbeLate(c) ==
    /\ cmd[c].step = "probing" /\ ProbeSettled
    /\ cmd' = [cmd EXCEPT ![c] = IF healthy THEN [@ EXCEPT !.step = "admitted"] ELSE Free]
    /\ UNCHANGED <<breakerVars, inflight_allowed, healed>>

\* Still open, or try_write finds the lock taken: CircuitBreakerOpen.
ProbeRejected(c) ==
    /\ cmd[c].step = "probing"
    /\ \/ ProbeDenied
       \/ \E d \in Commands \ {c} : cmd[d].step \in {"probing", "reporting"}
    /\ Rejected(c)

\* intercept_pubsub_command: an admitted command, possibly the probe, that takes no
\* slot and reports nothing.
Intercepted(c) ==
    /\ cmd[c].step = "admitted" /\ cmd[c].kind = "pubsub"
    /\ Rejected(c)

\* InflightRequestTracker::try_new; the pipeline will hold some clones of the Cmd
\* (none with a standalone client or a scoped connection).
Reserve(c) ==
    /\ cmd[c].step = "admitted" /\ cmd[c].kind # "pubsub" /\ inflight_allowed > 0
    /\ inflight_allowed' = inflight_allowed - 1
    /\ \E n \in 0..(IF cmd[c].kind = "single" THEN MaxClones ELSE 0) :
           cmd' = [cmd EXCEPT ![c].step = "executing", ![c].caller = TRUE,
                              ![c].clones = n]
    /\ UNCHANGED <<breakerVars, healed>>

LimitReached(c) ==
    /\ cmd[c].step = "admitted" /\ cmd[c].kind # "pubsub" /\ inflight_allowed <= 0
    /\ Rejected(c)

-----------------------------------------------------------------------------
(* Execution *)

\* The pipeline is done with one clone, before or after the caller is.
CloneDropped(c) ==
    /\ cmd[c].clones > 0
    /\ Drop(c, cmd[c].caller, cmd[c].clones - 1, cmd[c].step)
    /\ UNCHANGED <<breakerVars, healed>>

\* The select! of send_command_ungated: the result arrives, or the watchdog (or the
\* connection's own response timeout) fires and the clones stay in the pipeline.
Complete(c, outcome) ==
    /\ cmd[c].step = "executing"
    /\ healed => outcome \in {"ok", "server_error"}
    /\ cmd' = [cmd EXCEPT ![c].outcome = outcome,
                          ![c].step = IF cmd[c].kind = "single" THEN "finishing"
                                      ELSE "returning"]
    /\ UNCHANGED <<breakerVars, inflight_allowed, healed>>

\* The task that awaits the result is dropped: nothing is reported.
Cancel(c) ==
    /\ cmd[c].step = "executing"
    /\ Drop(c, FALSE, cmd[c].clones, "draining")
    /\ UNCHANGED <<breakerVars, healed>>

-----------------------------------------------------------------------------
(* Report *)

CurrentInflight == Limit - inflight_allowed

\* The counter is read before the breaker is locked.
LoadInflight(c) ==
    /\ cmd[c].step = "finishing"
    /\ cmd' = [cmd EXCEPT ![c].step = "reporting", ![c].seen = CurrentInflight]
    /\ UNCHANGED <<breakerVars, inflight_allowed, healed>>

IsError(outcome) == outcome = "transport" \/ (outcome = "timeout" /\ CountTimeouts)

Report(c) ==
    /\ cmd[c].step = "reporting"
    /\ OnResult(IsError(cmd[c].outcome), cmd[c].seen)
    /\ cmd' = [cmd EXCEPT ![c].step = "returning", ![c].outcome = "none", ![c].seen = 0]
    /\ UNCHANGED <<inflight_allowed, healed>>

\* The caller drops its Cmd (or its tracker).
Return(c) ==
    /\ cmd[c].step = "returning"
    /\ Drop(c, FALSE, cmd[c].clones, "draining")
    /\ UNCHANGED <<breakerVars, healed>>

Tick == BreakerTick /\ UNCHANGED pathVars

Heal ==
    /\ ~healed /\ healed' = TRUE
    /\ UNCHANGED <<breakerVars, inflight_allowed, cmd>>

Next ==
    \/ \E c \in Commands :
        \/ \E kind \in Kinds : Start(c, kind)
        \/ ProbeAllowed(c) \/ ProbeLate(c) \/ ProbeRejected(c)
        \/ Intercepted(c) \/ Reserve(c) \/ LimitReached(c)
        \/ CloneDropped(c) \/ Cancel(c)
        \/ \E outcome \in Outcomes \ {"none"} : Complete(c, outcome)
        \/ LoadInflight(c) \/ Report(c) \/ Return(c)
    \/ Tick
    \/ Heal

Spec == Init /\ [][Next]_vars

\* The application keeps sending single commands, whatever else it sends, and does
\* not cancel all of them; a request is answered or times out; the runtime runs every
\* task; the lock is not always taken when a single command wants to probe.
Single(c) == cmd'[c].kind = "single"

Fairness ==
    /\ WF_vars(Tick)
    /\ SF_vars(\E c \in Commands : Start(c, "single"))
    /\ SF_vars(\E c \in Commands : ProbeAllowed(c) /\ Single(c))
    /\ SF_vars(\E c \in Commands : Complete(c, "ok") /\ Single(c))
    /\ WF_vars(\E c \in Commands :
                \/ ProbeAllowed(c) \/ ProbeLate(c) \/ ProbeRejected(c)
                \/ Intercepted(c) \/ Reserve(c) \/ LimitReached(c)
                \/ (\E outcome \in Outcomes \ {"none"} : Complete(c, outcome))
                \/ LoadInflight(c) \/ Report(c) \/ Return(c) \/ CloneDropped(c))

FairSpec == Spec /\ Fairness

-----------------------------------------------------------------------------
(* Properties *)

CmdSteps == {"idle", "probing", "admitted", "executing", "finishing", "reporting",
             "returning", "draining"}

Request == [kind : AllKinds \cup {"none"}, step : CmdSteps, caller : BOOLEAN,
            clones : 0..MaxClones, outcome : Outcomes, seen : Int]

\* Every variable of the breaker and of the path has the type of the field it models;
\* at most two stragglers are forgiven per half-open phase (on_result) and
\* error_count, a u32, never goes below 0.
TypeOK ==
    /\ BreakerTypeOK
    /\ inflight_allowed \in Int
    /\ cmd \in [Commands -> Request]
    /\ healed \in BOOLEAN

\* The inflight counter is exact whatever times out, is cancelled or lingers in the
\* pipeline: the free slots and the requests with a live handle add up to the limit,
\* so the limit really bounds them.
InflightAccounted ==
    /\ inflight_allowed + Cardinality(Live) = Limit
    /\ inflight_allowed >= 0

\* The count given to on_result includes the reporting request itself and never
\* exceeds the limit, so its cast to u32 is exact.
InflightCastSafe == \A c \in Commands : cmd[c].step = "reporting" => cmd[c].seen \in 1..Limit

\* The limit and what on_result is told of it are exact.
InflightExact == InflightAccounted /\ InflightCastSafe

\* Once the servers answer again the breaker closes and stays closed: neither
\* stragglers, rejections, lost lock races nor cancelled probes keep it open.
Recovers == <>[](healed => phase = "Closed")
=============================================================================
