---------------------------- MODULE ReplayWindow ----------------------------
(***************************************************************************)
(* How a coordinator takes the signed requests of workers                  *)
(* (distributed_security.py): a request carries its time and a nonce, may  *)
(* be delivered late and more than once, and is executed when its time is  *)
(* near enough and its nonce is not among those remembered.  Signatures    *)
(* are taken as valid.                                                     *)
(***************************************************************************)
EXTENDS Integers, FiniteSets

CONSTANTS
    Requests, None,
    MaxAge, MaxEntries,     \* of the window of nonces
    MaxSkew,                \* max_clock_skew_s
    MaxAhead,               \* how far a worker's clock may be ahead of the coordinator's
    EndOfTime

\* The skew is within the window's age (90 and 120 seconds), and there is room for
\* every request: none is forgotten for 100,000 that follow it.
ASSUME WindowConstantsOK ==
    /\ MaxAge \in Nat \ {0} /\ MaxSkew \in Nat /\ MaxAhead \in Nat /\ EndOfTime \in Nat
    /\ MaxSkew <= MaxAge
    /\ IsFiniteSet(Requests) /\ Cardinality(Requests) <= MaxEntries
    /\ None \notin Int

VARIABLES
    now,        \* the coordinator's clock
    stamp,      \* the time of each request that was sent
    sent,       \* the coordinator's time then
    window,     \* when each remembered nonce was accepted
    executed    \* how often this coordinator process executed each request

vars == <<now, stamp, sent, window, executed>>

Times == 0 .. EndOfTime

TypeOK ==
    /\ now \in Times
    /\ stamp \in [Requests -> {None} \cup 0 .. EndOfTime + MaxAhead]
    /\ sent \in [Requests -> 0 .. now]
    /\ window \in [Requests -> {None} \cup 0 .. now]
    /\ executed \in [Requests -> Nat]

Init ==
    /\ now = 0
    /\ stamp = [r \in Requests |-> None] /\ sent = [r \in Requests |-> 0]
    /\ window = [r \in Requests |-> None]
    /\ executed = [r \in Requests |-> 0]

Tick == now < EndOfTime /\ now' = now + 1 /\ UNCHANGED <<stamp, sent, window, executed>>

\* signed_worker_headers, with the worker's clock.
Sign(r) ==
    /\ stamp[r] = None
    /\ \E ahead \in -MaxSkew .. MaxAhead :
          now + ahead >= 0 /\ stamp' = [stamp EXCEPT ![r] = now + ahead]
    /\ sent' = [sent EXCEPT ![r] = now]
    /\ UNCHANGED <<now, window, executed>>

\* Faulty: nonces are remembered for the clock skew only.
RememberedShort(r) == window[r] # None /\ window[r] >= now - MaxSkew

Remembered(r) == window[r] # None /\ window[r] >= now - MaxAge

InTime(r) == now - stamp[r] <= MaxSkew /\ stamp[r] - now <= MaxSkew

\* ReplayWindow.accept forgets what is too old, and remembers the nonce.
Accepted(r) ==
    [q \in Requests |-> IF q = r THEN now ELSE IF Remembered(q) THEN window[q] ELSE None]

\* verify_worker_request of a copy of the request.
Deliver(r) ==
    /\ stamp[r] # None
    /\ InTime(r) /\ ~Remembered(r)
    /\ window' = Accepted(r)
    /\ executed' = [executed EXCEPT ![r] = @ + 1]
    /\ UNCHANGED <<now, stamp, sent>>

\* A coordinator process starts with an empty window.
Restart ==
    /\ window' = [r \in Requests |-> None]
    /\ executed' = [r \in Requests |-> 0]
    /\ UNCHANGED <<now, stamp, sent>>

Next == Tick \/ Restart \/ \E r \in Requests : Sign(r) \/ Deliver(r)

Spec == Init /\ [][Next]_vars

-----------------------------------------------------------------------------
(* Properties *)

\* A nonce is remembered as long as its request is accepted, if the request was
\* not stamped further ahead than the window's age exceeds the skew.
Near(r) == stamp[r] - sent[r] <= MaxAge - MaxSkew

\* However often and late its copies arrive, a coordinator process executes a
\* request at most once, or, when the worker's clock was further ahead, at most
\* twice: it then accepts a copy after it has forgotten the nonce (accept, the
\* order of the checks in verify_worker_request).
ExecutedOnce ==
    \A r \in Requests : stamp[r] # None => executed[r] <= IF Near(r) THEN 1 ELSE 2
=============================================================================
