--------------------------- MODULE CircuitBreaker ---------------------------
(***************************************************************************)
(* ClientCircuitBreaker (glide-core/src/client/circuit_breaker.rs).        *)
(*                                                                         *)
(* Every operation runs under the `state` write lock and is one action;    *)
(* `healthy` is the atomic that callers read without the lock.  Instants   *)
(* are kept as ages, which Tick increases and caps just above the bound    *)
(* they are compared with.  trip_count, rejection_count and error_counts   *)
(* only feed log lines and are left out.                                   *)
(***************************************************************************)
EXTENDS Integers, Sequences, FiniteSets

CONSTANTS
    Window,                \* window_size
    MinErrors,             \* min_errors
    RateNum, RateDen,      \* failure_rate_threshold, as a fraction
    OpenTimeout,           \* open_timeout
    ConsecutiveSuccesses,  \* consecutive_successes
    MaxWindowRecords       \* MAX_WINDOW_RECORDS (10_000 in the code)

\* The assertions of ClientCircuitBreaker::new.
ASSUME BreakerConfig ==
    /\ Window \in Nat /\ OpenTimeout \in Nat
    /\ MinErrors \in Nat \ {0} /\ ConsecutiveSuccesses \in Nat \ {0}
    /\ RateDen \in Nat \ {0} /\ RateNum \in 1..RateDen
    /\ MaxWindowRecords \in Nat \ {0}

VARIABLES
    phase,                      \* "Closed", "Open" or "HalfOpen"
    records,                    \* sliding window of outcomes, oldest first
    error_count,                \* errors in the window
    opened_at,                  \* age of the opening, or Never
    consecutive_success_count,  \* since the half-open phase began
    stragglers_forgiven,        \* in this half-open phase
    inflight_at_trip,
    healthy                     \* the lock-free flag

breakerVars == <<phase, records, error_count, opened_at, consecutive_success_count,
                 stragglers_forgiven, inflight_at_trip, healthy>>

Never == -1

Record == [age : 0..(Window + 1), is_error : BOOLEAN]

BreakerInit ==
    /\ phase = "Closed" /\ records = <<>> /\ error_count = 0 /\ opened_at = Never
    /\ consecutive_success_count = 0 /\ stragglers_forgiven = 0 /\ inflight_at_trip = 0
    /\ healthy = TRUE

-----------------------------------------------------------------------------
(* Sliding window *)

ErrorsIn(recs) == {i \in DOMAIN recs : recs[i].is_error}

Errors(recs) == Cardinality(ErrorsIn(recs))

\* How many records the eviction loop pops from the front.
ExpiredPrefix(recs) == {i \in DOMAIN recs : \A j \in 1..i : recs[j].age > Window}

Expired(recs) == Cardinality(ExpiredPrefix(recs))

\* What the cap pops after that.
Evicted(recs) ==
    LET excess == Len(recs) - MaxWindowRecords
    IN  IF Expired(recs) >= excess THEN Expired(recs) ELSE excess

DropFirst(recs, n) == SubSeq(recs, n + 1, Len(recs))

\* Mutant of ErrorsAfter: records evicted from the window keep being counted.
ErrorsAfterKept(recs, n, is_error) == error_count + (IF is_error THEN 1 ELSE 0)

\* error_count after the push of a result and the eviction of n records.
ErrorsAfter(recs, n, is_error) ==
    error_count + (IF is_error THEN 1 ELSE 0) - Errors(SubSeq(recs, 1, n))

\* errors as f32 / total as f32 >= failure_rate_threshold, once there are enough.
ShouldTrip(errors, total) == errors >= MinErrors /\ errors * RateDen >= RateNum * total

-----------------------------------------------------------------------------
(* on_result *)

Trip(inflight) ==
    /\ phase' = "Open" /\ opened_at' = 0 /\ records' = <<>> /\ error_count' = 0
    /\ consecutive_success_count' = 0 /\ inflight_at_trip' = inflight
    /\ healthy' = FALSE
    /\ UNCHANGED stragglers_forgiven

OnResultClosed(is_error, inflight) ==
    LET pushed == Append(records, [age |-> 0, is_error |-> is_error])
        n      == Evicted(pushed)
        kept   == DropFirst(pushed, n)
        errors == ErrorsAfter(pushed, n, is_error)
    IN  /\ phase = "Closed"
        /\ \/ ShouldTrip(errors, Len(kept)) /\ Trip(inflight)
           \/ /\ ~ShouldTrip(errors, Len(kept))
              /\ records' = kept /\ error_count' = errors
              /\ UNCHANGED <<phase, opened_at, consecutive_success_count,
                             stragglers_forgiven, inflight_at_trip, healthy>>

IsStraggler(inflight) == inflight < inflight_at_trip /\ stragglers_forgiven < 2

Reopen ==
    /\ phase' = "Open" /\ opened_at' = 0 /\ consecutive_success_count' = 0
    /\ healthy' = FALSE
    /\ UNCHANGED <<records, error_count, stragglers_forgiven, inflight_at_trip>>

HalfOpenFailure(inflight) ==
    \/ ~IsStraggler(inflight) /\ Reopen
    \/ /\ IsStraggler(inflight)
       /\ consecutive_success_count' = 0
       /\ stragglers_forgiven' = stragglers_forgiven + 1
       /\ UNCHANGED <<phase, records, error_count, opened_at, inflight_at_trip, healthy>>

Close ==
    /\ phase' = "Closed" /\ opened_at' = Never /\ records' = <<>> /\ error_count' = 0
    /\ healthy' = TRUE

HalfOpenSuccess ==
    /\ consecutive_success_count' = consecutive_success_count + 1
    /\ UNCHANGED <<stragglers_forgiven, inflight_at_trip>>
    /\ \/ consecutive_success_count' >= ConsecutiveSuccesses /\ Close
       \/ /\ consecutive_success_count' < ConsecutiveSuccesses
          /\ UNCHANGED <<phase, records, error_count, opened_at, healthy>>

OnResultHalfOpen(is_error, inflight) ==
    /\ phase = "HalfOpen"
    /\ \/ is_error /\ HalfOpenFailure(inflight)
       \/ ~is_error /\ HalfOpenSuccess

\* A stale result from before the trip.
OnResultOpen == phase = "Open" /\ UNCHANGED breakerVars

OnResult(is_error, inflight) ==
    \/ OnResultClosed(is_error, inflight)
    \/ OnResultHalfOpen(is_error, inflight)
    \/ OnResultOpen

-----------------------------------------------------------------------------
(* try_allow_probe, with the lock held *)

\* Mutant of Elapsed: the opening is taken for just now on every check.
NeverElapsed == OpenTimeout = 0

Elapsed == opened_at >= OpenTimeout

\* open_timeout has elapsed: the caller and everybody after it may probe.
AllowProbe ==
    /\ phase = "Open" /\ Elapsed
    /\ phase' = "HalfOpen" /\ consecutive_success_count' = 0 /\ stragglers_forgiven' = 0
    /\ healthy' = TRUE
    /\ UNCHANGED <<records, error_count, opened_at, inflight_at_trip>>

\* Still open, or another thread has already changed the phase: the answer.
ProbeDenied  == phase = "Open" /\ ~Elapsed
ProbeSettled == phase # "Open"

-----------------------------------------------------------------------------
\* The clock advances (external).
Aged(age, bound) == IF age < bound THEN age + 1 ELSE age

BreakerTick ==
    /\ records' = [i \in DOMAIN records |->
                       [records[i] EXCEPT !.age = Aged(@, Window + 1)]]
    /\ opened_at' = IF opened_at = Never THEN Never ELSE Aged(opened_at, OpenTimeout)
    /\ UNCHANGED <<phase, error_count, consecutive_success_count, stragglers_forgiven,
                   inflight_at_trip, healthy>>

BreakerNext ==
    \/ \E is_error \in BOOLEAN, inflight \in Nat : OnResult(is_error, inflight)
    \/ AllowProbe
    \/ BreakerTick

\* The breaker on its own, told anything at any time.
BreakerSpec == BreakerInit /\ [][BreakerNext]_breakerVars

-----------------------------------------------------------------------------
(* Invariants *)

BreakerTypeOK ==
    /\ phase \in {"Closed", "Open", "HalfOpen"}
    /\ records \in Seq(Record)
    /\ error_count \in Nat
    /\ opened_at \in {Never} \cup 0..OpenTimeout
    /\ consecutive_success_count \in 0..ConsecutiveSuccesses
    /\ stragglers_forgiven \in 0..2
    /\ inflight_at_trip \in Nat
    /\ healthy \in BOOLEAN

\* Callers that skip the lock act on the real phase: `healthy` is false exactly when
\* the breaker is open, and an open breaker knows since when (without that instant
\* try_allow_probe would take it for just opened, for ever).
HealthyMatchesPhase ==
    /\ healthy <=> phase # "Open"
    /\ opened_at = Never <=> phase = "Closed"

\* The running error_count agrees with the window across pushes, expiry, the cap,
\* trips and recoveries (a drift would trip too early, or wrap the u32 below 0).
ErrorCountMatches == error_count = Errors(records)

\* When a result has just been judged, the window held no expired outcome and no
\* more than MAX_WINDOW_RECORDS.
WindowCurrent ==
    /\ Len(records) <= MaxWindowRecords
    /\ (records # <<>> /\ records[Len(records)].age = 0) =>
           \A i \in DOMAIN records : records[i].age <= Window

\* What on_result, try_allow_probe and the window's expiry leave behind in any order:
\* the counters have their types (at most two stragglers are forgiven per half-open
\* phase, error_count is never below 0), the flag, the phase, the count and the window
\* agree.
BreakerConsistent ==
    BreakerTypeOK /\ HealthyMatchesPhase /\ ErrorCountMatches /\ WindowCurrent
=============================================================================
