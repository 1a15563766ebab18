---------------------------- MODULE TaskLedger -----------------------------
(***************************************************************************)
(* What the coordinator store promises, without clocks, epochs, leadership *)
(* or coordinator processes: a task is held by at most one worker; only    *)
(* its holder adds results to it or finishes it; a task that is completed, *)
(* failed or canceled is never touched again; a canceled cycle hands out   *)
(* no work.  A lease may be taken back at any time.                        *)
(***************************************************************************)
CONSTANTS Tasks, Workers, Batches, Cycles, CycleOf, None

VARIABLES
    phase,     \* the state of each task
    holder,    \* the worker that holds it
    results,   \* the batches stored for it
    closed     \* canceled cycles

vars == <<phase, holder, results, closed>>

Phases == {"absent", "queued", "leased", "completed", "failed", "canceled"}

TypeOK ==
    /\ phase \in [Tasks -> Phases]
    /\ holder \in [Tasks -> Workers \cup {None}]
    /\ results \in [Tasks -> SUBSET Batches]
    /\ closed \subseteq Cycles

Init ==
    /\ phase = [t \in Tasks |-> "absent"]
    /\ holder = [t \in Tasks |-> None]
    /\ results = [t \in Tasks |-> {}]
    /\ closed = {}

Submit(new) ==
    /\ \A t \in new : phase[t] = "absent"
    /\ phase' = [t \in Tasks |-> IF t \in new THEN "queued" ELSE phase[t]]
    /\ UNCHANGED <<holder, results, closed>>

\* Leases on the tasks of `back` are taken back; `out` maps the tasks handed
\* out in the same step to their new holders.
Assign(back, out) ==
    /\ \A t \in back : phase[t] = "leased"
    /\ \A t \in DOMAIN out : /\ phase[t] = "queued" \/ t \in back
                             /\ CycleOf[t] \notin closed
    /\ phase' = [t \in Tasks |-> IF t \in DOMAIN out THEN "leased"
                                 ELSE IF t \in back THEN "queued" ELSE phase[t]]
    /\ holder' = [t \in Tasks |-> IF t \in DOMAIN out THEN out[t]
                                  ELSE IF t \in back THEN None ELSE holder[t]]
    /\ UNCHANGED <<results, closed>>

Deliver(t, w, b) ==
    /\ phase[t] = "leased" /\ holder[t] = w
    /\ results' = [results EXCEPT ![t] = @ \cup {b}]
    /\ UNCHANGED <<phase, holder, closed>>

Finish(t, w, outcome) ==
    /\ phase[t] = "leased" /\ holder[t] = w
    /\ phase' = [phase EXCEPT ![t] = outcome]
    /\ holder' = [holder EXCEPT ![t] = None]
    /\ UNCHANGED <<results, closed>>

Cancel(c) ==
    LET dropped == {t \in Tasks : CycleOf[t] = c /\ phase[t] \in {"queued", "leased"}}
    IN  /\ closed' = closed \cup {c}
        /\ phase' = [t \in Tasks |-> IF t \in dropped THEN "canceled" ELSE phase[t]]
        /\ holder' = [t \in Tasks |-> IF t \in dropped THEN None ELSE holder[t]]
        /\ UNCHANGED results

Next ==
    \/ \E new \in SUBSET Tasks : Submit(new)
    \/ \E back \in SUBSET Tasks : Assign(back, [t \in {} |-> None])
    \/ \E back \in SUBSET Tasks, t \in Tasks, w \in Workers : Assign(back, [s \in {t} |-> w])
    \/ \E t \in Tasks, w \in Workers :
          \/ \E b \in Batches : Deliver(t, w, b)
          \/ \E outcome \in {"completed", "failed"} : Finish(t, w, outcome)
    \/ \E c \in Cycles : Cancel(c)

Spec == Init /\ [][Next]_vars
=============================================================================
