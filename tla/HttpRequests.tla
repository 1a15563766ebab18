---------------------------- MODULE HttpRequests ----------------------------
(***************************************************************************)
(* The requests of one HTTP client (http_runtime.py, AsyncHttpClient): an  *)
(* attempt takes a slot of its source's adaptive limiter and then a permit *)
(* of the client's gate, gives both back however it ends, and is retried   *)
(* after a delay.  A streamed feed keeps both while its consumer holds it  *)
(* at a yield, and is not retried once it has yielded.  The coroutines     *)
(* interleave at their awaits.                                             *)
(***************************************************************************)
EXTENDS Integers, FiniteSets

CONSTANTS
    Requests, Sources, SourceOf,
    Streams,                \* the requests that are iter_json_items
    Attempts,               \* retry_attempts
    Concurrency,            \* permits of the gate
    MinSlots, MaxSlots,     \* bounds of each limiter
    SuccessWindow,
    Backoff, MaxBackoff,    \* delay without Retry-After, and the cap of any delay
    RetryAfters,            \* delays a server may ask for
    MayCancel

ASSUME HttpConstantsOK ==
    /\ IsFiniteSet(Requests) /\ Streams \subseteq Requests /\ SourceOf \in [Requests -> Sources]
    /\ {Attempts, Concurrency, MinSlots, MaxSlots, SuccessWindow} \subseteq Nat \ {0}
    /\ MinSlots <= MaxSlots /\ MaxBackoff \in Nat /\ Backoff \in 0 .. MaxBackoff
    /\ RetryAfters \subseteq Nat /\ 0 \in RetryAfters /\ MayCancel \in BOOLEAN

VARIABLES
    at,         \* where each request is
    attempt,
    yielded,    \* items of the stream have reached its consumer
    delay,      \* time left of asyncio.sleep
    asked,      \* time left of the Retry-After last received
    limiter,    \* of each source: current, streak and slots in use
    gate        \* permits in use

vars == <<at, attempt, yielded, delay, asked, limiter, gate>>

Ended == {"done", "failed", "canceled"}
HoldsGate == {"sent", "yield"}
HoldsSlot == HoldsGate \union {"gate"}

TypeOK ==
    /\ at \in [Requests -> Ended \union HoldsSlot \union {"start", "asleep", "rejected", "backoff"}]
    /\ attempt \in [Requests -> 1 .. Attempts]
    /\ yielded \in [Requests -> BOOLEAN] /\ \A r \in Requests : yielded[r] => r \in Streams
    /\ delay \in [Requests -> 0 .. MaxBackoff] /\ asked \in [Requests -> Nat]
    /\ \A s \in Sources : /\ limiter[s].current \in MinSlots .. MaxSlots
                          /\ limiter[s].streak \in 0 .. SuccessWindow
                          /\ limiter[s].used \in 0 .. MaxSlots
    /\ gate \in 0 .. Concurrency

Init ==
    /\ at = [r \in Requests |-> "start"]
    /\ attempt = [r \in Requests |-> 1]
    /\ yielded = [r \in Requests |-> FALSE]
    /\ delay = [r \in Requests |-> 0] /\ asked = [r \in Requests |-> 0]
    /\ limiter = [s \in Sources |-> [current |-> MaxSlots, streak |-> 0, used |-> 0]]
    /\ gate = 0

\* The predicate of slot()'s condition, evaluated with its lock held: the
\* request goes on with a slot or waits to be notified.
TakeSlot(r) ==
    LET s == SourceOf[r] IN
    /\ at[r] = "start"
    /\ IF limiter[s].used < limiter[s].current
       THEN at' = [at EXCEPT ![r] = "gate"] /\ limiter' = [limiter EXCEPT ![s].used = @ + 1]
       ELSE at' = [at EXCEPT ![r] = "asleep"] /\ UNCHANGED limiter
    /\ UNCHANGED <<attempt, yielded, delay, asked, gate>>

TakeGate(r) ==
    /\ at[r] = "gate" /\ gate < Concurrency
    /\ at' = [at EXCEPT ![r] = "sent"] /\ gate' = gate + 1
    /\ UNCHANGED <<attempt, yielded, delay, asked, limiter>>

\* Faulty: nobody is notified.
NotifiedNone(f, s) == f

\* notify_all: the waiters of the source look again.
Notified(f, s) ==
    [q \in Requests |-> IF SourceOf[q] = s /\ f[q] = "asleep" THEN "start" ELSE f[q]]

\* Faulty: a slot is given back only by requests that were sent.
SlotsFreedSent(r) == [limiter EXCEPT ![SourceOf[r]].used = IF at[r] \in HoldsGate THEN @ - 1 ELSE @]

SlotsFreed(r) == [limiter EXCEPT ![SourceOf[r]].used = IF at[r] \in HoldsSlot THEN @ - 1 ELSE @]

\* Leaving `async with slot, gate` for state st, with what was held.
Leave(r, st) ==
    /\ gate' = IF at[r] \in HoldsGate THEN gate - 1 ELSE gate
    /\ at' = IF at[r] \in HoldsSlot THEN Notified([at EXCEPT ![r] = st], SourceOf[r])
             ELSE [at EXCEPT ![r] = st]

\* observe(success): one slot more after success_window successes of a source
\* whose latency is within its target.  A longer streak counts as a full one.
Grown(l, healthy) ==
    IF l.streak + 1 >= SuccessWindow /\ l.current < MaxSlots /\ healthy
    THEN [l EXCEPT !.current = @ + 1, !.streak = 0]
    ELSE [l EXCEPT !.streak = IF @ < SuccessWindow THEN @ + 1 ELSE @]

\* observe(failure): half of the slots.
Halved(l) ==
    [l EXCEPT !.streak = 0, !.current = IF MinSlots > @ \div 2 THEN MinSlots ELSE @ \div 2]

\* A body or a 304: observed before the permits are given back.
Succeed(r) ==
    /\ at[r] = "sent"
    /\ \E healthy \in BOOLEAN :
          limiter' = [SlotsFreed(r) EXCEPT ![SourceOf[r]] = Grown(@, healthy)]
    /\ Leave(r, "done")
    /\ UNCHANGED <<attempt, yielded, delay, asked>>

\* A streamed item reaches the consumer, who comes back for the next.
Yield(r) ==
    /\ at[r] = "sent" /\ r \in Streams
    /\ at' = [at EXCEPT ![r] = "yield"] /\ yielded' = [yielded EXCEPT ![r] = TRUE]
    /\ UNCHANGED <<attempt, delay, asked, limiter, gate>>

Resume(r) ==
    /\ at[r] = "yield" /\ at' = [at EXCEPT ![r] = "sent"]
    /\ UNCHANGED <<attempt, yielded, delay, asked, limiter, gate>>

\* A retryable status, whose Retry-After may be given, or any other client
\* error or timeout: the permits are given back first.
Reject(r) ==
    /\ at[r] = "sent"
    /\ \E ra \in RetryAfters :
          /\ ra > 0 => ~yielded[r]
          /\ asked' = [asked EXCEPT ![r] = ra]
    /\ limiter' = SlotsFreed(r) /\ Leave(r, "rejected")
    /\ UNCHANGED <<attempt, yielded, delay>>

\* Faulty: a stream is retried like any request.
FinalAttempt(r) == attempt[r] = Attempts

Final(r) == yielded[r] \/ attempt[r] = Attempts

\* _backoff: 0 stands for no Retry-After.
Delay(ra) == IF ra > 0 THEN IF ra < MaxBackoff THEN ra ELSE MaxBackoff ELSE Backoff

\* The except clause: the failure is observed, then raised or slept on.
Observe(r) ==
    /\ at[r] = "rejected"
    /\ limiter' = [limiter EXCEPT ![SourceOf[r]] = Halved(@)]
    /\ IF Final(r) THEN at' = [at EXCEPT ![r] = "failed"] /\ UNCHANGED delay
       ELSE at' = [at EXCEPT ![r] = "backoff"] /\ delay' = [delay EXCEPT ![r] = Delay(asked[r])]
    /\ UNCHANGED <<attempt, yielded, asked, gate>>

Wake(r) ==
    /\ at[r] = "backoff" /\ delay[r] = 0
    /\ at' = [at EXCEPT ![r] = "start"] /\ attempt' = [attempt EXCEPT ![r] = @ + 1]
    /\ UNCHANGED <<yielded, delay, asked, limiter, gate>>

\* An error that is not the client's (a body too large, malformed JSON) is
\* neither observed nor retried.
Fatal(r) ==
    /\ at[r] = "sent" /\ limiter' = SlotsFreed(r) /\ Leave(r, "failed")
    /\ UNCHANGED <<attempt, yielded, delay, asked>>

\* The caller is cancelled, or drops the stream at its yield.
Cancel(r) ==
    /\ MayCancel /\ at[r] \notin Ended
    /\ limiter' = SlotsFreed(r) /\ Leave(r, "canceled")
    /\ UNCHANGED <<attempt, yielded, delay, asked>>

Sooner(t) == IF t > 0 THEN t - 1 ELSE 0

Tick ==
    /\ \E r \in Requests : at[r] = "backoff" /\ delay[r] > 0
    /\ delay' = [r \in Requests |-> Sooner(delay[r])]
    /\ asked' = [r \in Requests |-> IF at[r] = "rejected" THEN asked[r] ELSE Sooner(asked[r])]
    /\ UNCHANGED <<at, attempt, yielded, limiter, gate>>

Step(r) ==
    \/ TakeSlot(r) \/ TakeGate(r) \/ Succeed(r) \/ Yield(r) \/ Resume(r) \/ Reject(r)
    \/ Observe(r) \/ Wake(r) \/ Fatal(r) \/ Cancel(r)

Next == Tick \/ \E r \in Requests : Step(r)

Spec == Init /\ [][Next]_vars

Goes(r) == TakeSlot(r) \/ TakeGate(r) \/ Resume(r) \/ Observe(r) \/ Wake(r)
Answered(r) == Succeed(r) \/ Reject(r) \/ Fatal(r)

\* What can run runs, a server answers or the session's timeout strikes, a
\* consumer comes back, and feeds are finite.
FairSpec ==
    Spec /\ WF_vars(Tick) /\ \A r \in Requests : WF_vars(Goes(r)) /\ SF_vars(Answered(r))

-----------------------------------------------------------------------------
(* Properties *)

\* What is counted as in use is what requests hold, however they end: a slot
\* or permit that is not given back is lost until the process ends.
PermitsAccounted ==
    /\ gate = Cardinality({r \in Requests : at[r] \in HoldsGate})
    /\ \A s \in Sources :
          limiter[s].used = Cardinality({r \in Requests : SourceOf[r] = s /\ at[r] \in HoldsSlot})

\* A feed of which items have been yielded is not requested again: its
\* consumer would get them twice.
NoItemTwice == [][\A r \in Requests : yielded[r] => attempt'[r] = attempt[r]]_vars

\* A request is not sent again before the delay the server asked for is over.
HonorsRetryAfter ==
    \A r \in Requests : at[r] = "gate" /\ at'[r] = "sent" => asked[r] = 0

\* Every request ends: a waiter of a slot is told of the one given back.
EveryRequestEnds == <>(\A r \in Requests : at[r] \in Ended)
=============================================================================
