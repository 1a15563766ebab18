--------------------------- MODULE CircuitBreaker ---------------------------
(***************************************************************************)
(* The circuit breaker of a source (resilience_runtime.py) and the adapter *)
(* that goes through it (streaming_discovery.py, CircuitProtectedAdapter): *)
(* a call is admitted or rejected, runs, and ends in a success, a failure, *)
(* a cancellation or by being dropped where it waits at a yield.  Every    *)
(* operation of the breaker holds its lock from its first line to its      *)
(* last, so it is one step.                                                *)
(***************************************************************************)
EXTENDS Integers, FiniteSets

CONSTANTS
    Callers,            \* calls that may overlap; a refresh engine makes one at a time
    FailureThreshold, RecoveryTimeout, HalfOpenMax,
    MayDrop             \* whether a call may be dropped at a yield

ASSUME BreakerConstantsOK ==
    /\ FailureThreshold \in Nat \ {0} /\ RecoveryTimeout \in Nat \ {0}
    /\ HalfOpenMax \in Nat \ {0} /\ MayDrop \in BOOLEAN

VARIABLES
    state,      \* "closed", "open" or "half_open"
    failures,   \* consecutive failures, bounded here by the threshold
    sinceOpen,  \* now - opened_at, up to the recovery timeout
    inFlight,   \* half_open_in_flight
    call,       \* of each caller: "idle", "plain" or "probe" while it runs
    streak,     \* observed: calls that failed since the last success ...
    quiet       \* ... and the time since the last of them, up to the timeout

breaker == <<state, failures, sinceOpen, inFlight>>
vars == <<breaker, call, streak, quiet>>

Least(a, b) == IF a < b THEN a ELSE b
Running(c) == call[c] # "idle"

TypeOK ==
    /\ state \in {"closed", "open", "half_open"}
    /\ failures \in 0 .. FailureThreshold
    /\ sinceOpen \in 0 .. RecoveryTimeout /\ inFlight \in 0 .. HalfOpenMax
    /\ call \in [Callers -> {"idle", "plain", "probe"}]
    /\ streak \in 0 .. FailureThreshold /\ quiet \in 0 .. RecoveryTimeout

Init ==
    /\ state = "closed" /\ failures = 0 /\ sinceOpen = 0 /\ inFlight = 0
    /\ call = [c \in Callers |-> "idle"]
    /\ streak = 0 /\ quiet = RecoveryTimeout

\* Faulty: an open circuit admits its probe without waiting.
RejectedInHalfOpen == state = "half_open" /\ inFlight >= HalfOpenMax

Rejected == \/ state = "open" /\ sinceOpen < RecoveryTimeout
            \/ state = "half_open" /\ inFlight >= HalfOpenMax

Acquire(c) ==
    /\ ~Running(c) /\ ~Rejected
    /\ IF state = "closed"
       THEN call' = [call EXCEPT ![c] = "plain"] /\ UNCHANGED breaker
       ELSE /\ call' = [call EXCEPT ![c] = "probe"]
            /\ state' = "half_open"
            /\ inFlight' = 1 + (IF state = "open" THEN 0 ELSE inFlight)
            /\ UNCHANGED <<failures, sinceOpen>>
    /\ UNCHANGED <<streak, quiet>>

Released == IF state = "half_open" /\ inFlight > 0 THEN inFlight - 1 ELSE inFlight

Ended(c) == Running(c) /\ call' = [call EXCEPT ![c] = "idle"]

Success(c) ==
    /\ Ended(c)
    /\ state' = "closed" /\ failures' = 0 /\ inFlight' = Released
    /\ streak' = 0
    /\ UNCHANGED <<sinceOpen, quiet>>

Failure(c) ==
    /\ Ended(c)
    /\ inFlight' = Released
    /\ failures' = IF state = "half_open" THEN failures
                   ELSE Least(failures + 1, FailureThreshold)
    /\ IF state = "half_open" \/ failures' >= FailureThreshold
       THEN state' = "open" /\ sinceOpen' = 0
       ELSE UNCHANGED <<state, sinceOpen>>
    /\ streak' = Least(streak + 1, FailureThreshold) /\ quiet' = 0

\* Faulty: a cancelled probe keeps its permit.
CancelKeeping(c) ==
    Ended(c) /\ UNCHANGED <<state, failures, sinceOpen, inFlight, streak, quiet>>

\* CancelledError inside the call.
Cancel(c) ==
    /\ Ended(c)
    /\ inFlight' = Released
    /\ UNCHANGED <<state, failures, sinceOpen, streak, quiet>>

\* The call's generator is closed at its yield: GeneratorExit is neither a
\* CancelledError nor an Exception, and the breaker hears nothing.
Drop(c) ==
    /\ MayDrop
    /\ Ended(c)
    /\ UNCHANGED <<breaker, streak, quiet>>

Tick ==
    /\ sinceOpen < RecoveryTimeout \/ quiet < RecoveryTimeout
    /\ sinceOpen' = Least(sinceOpen + 1, RecoveryTimeout)
    /\ quiet' = Least(quiet + 1, RecoveryTimeout)
    /\ UNCHANGED <<state, failures, inFlight, call, streak>>

Next == \/ Tick
        \/ \E c \in Callers : \/ Acquire(c) \/ Success(c) \/ Failure(c)
                              \/ Cancel(c) \/ Drop(c)

\* Refreshes keep coming, their calls end, and time passes.
Fairness == /\ WF_vars(Tick)
            /\ \A c \in Callers : WF_vars(Acquire(c))
            /\ \A c \in Callers : WF_vars(Success(c) \/ Failure(c) \/ Cancel(c) \/ Drop(c))

Spec == Init /\ [][Next]_vars /\ Fairness

-----------------------------------------------------------------------------
(* Properties *)

\* A source that failed as often as the threshold allows is not called again
\* before it was left alone for the recovery timeout, however calls overlap
\* (acquire, failure).
RestsAfterTrip ==
    [][\A c \in Callers : ~Running(c) /\ Running(c)'
           => streak < FailureThreshold \/ quiet = RecoveryTimeout]_vars

\* A circuit never stays shut: calls are admitted again and again, whatever
\* the calls before them did (acquire, cancel).
StaysReachable == []<>(\E c \in Callers : Running(c))

\* At most HalfOpenMax probes run in one half-open period ("bounded half-open
\* probes").
ProbesBounded ==
    state = "half_open" => Cardinality({c \in Callers : call[c] = "probe"}) <= HalfOpenMax

\* When nothing runs, no permit of a half-open circuit is taken (cancel:
\* "Release a half-open probe permit when caller cancellation is not a source
\* failure").
PermitReleased ==
    state = "half_open" /\ (\A c \in Callers : ~Running(c)) => inFlight = 0
=============================================================================
