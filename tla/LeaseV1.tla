------------------------------ MODULE LeaseV1 ------------------------------
(***************************************************************************)
(* The unauthenticated coordinator and its workers                         *)
(* (distributed_runtime.py): a store of one process whose single thread    *)
(* executes one request after the other, workers that lease a task, send   *)
(* its batches while they heartbeat, and complete or fail it, and the      *)
(* collector that reads the results of a cycle that is done.  A lease is   *)
(* known by the name of its worker alone.  A request whose sender no       *)
(* longer waits for the answer may still be executed.                      *)
(***************************************************************************)
EXTENDS Integers, FiniteSets

CONSTANTS
    Tasks,          \* of one cycle, ordered as the store orders them
    Before(_, _),   \* ORDER BY created_at, task_id
    Workers, None,
    MaxIndex,       \* batches have the indexes 0 .. MaxIndex
    MaxAttempts,    \* --max-attempts of the workers
    Faults          \* crashes, lost answers, timeouts and late heartbeats

ASSUME LeaseConstantsOK ==
    /\ MaxIndex \in Nat /\ MaxAttempts \in Nat \ {0} /\ Faults \in Nat
    /\ None \notin Workers

VARIABLES
    task,      \* the row of each task
    batches,   \* of each task and index: the attempt whose batch is stored, or 0
    worker,    \* of each worker: its stage in run_one and what it works on
    net,       \* requests on their way to the store
    collected, \* whether the cycle was seen done, and the rows read after that
    faults

vars == <<task, batches, worker, net, collected, faults>>

Indexes == 0 .. MaxIndex
Attempts == 1 .. MaxAttempts + Faults + 1
Terminal == {"completed", "failed"}
Idle == [stage |-> "idle", task |-> None, attempt |-> 0, next |-> 0, lost |-> FALSE]
Requests == [kind : {"batch", "complete", "requeue", "fail"}, from : Workers, task : Tasks,
             attempt : Attempts, index : Indexes \cup {MaxIndex + 1}]

TypeOK ==
    /\ task \in [Tasks -> [state : {"absent", "queued", "leased"} \cup Terminal,
                           owner : Workers \cup {None}, live : BOOLEAN,
                           attempts : Attempts \cup {0}]]
    /\ batches \in [Tasks -> [Indexes -> Attempts \cup {0}]]
    /\ worker \in [Workers -> [stage : {"idle", "run", "sent", "failing", "down"},
                               task : Tasks \cup {None}, attempt : Attempts \cup {0},
                               next : Indexes \cup {MaxIndex + 1}, lost : BOOLEAN]]
    /\ net \subseteq Requests
    /\ faults \in 0 .. Faults

Init ==
    /\ task = [t \in Tasks |-> [state |-> "absent", owner |-> None, live |-> FALSE, attempts |-> 0]]
    /\ batches = [t \in Tasks |-> [i \in Indexes |-> 0]]
    /\ worker = [w \in Workers |-> Idle]
    /\ net = {} /\ collected = [seen |-> FALSE, rows |-> {}] /\ faults = 0

Fault == faults < Faults /\ faults' = faults + 1

\* submit_cycle: sources that are there already are ignored.
Submit(new) ==
    /\ \A t \in new : task[t].state = "absent"
    /\ new # {}
    /\ task' = [t \in Tasks |-> IF t \in new THEN [task[t] EXCEPT !.state = "queued"] ELSE task[t]]
    /\ UNCHANGED <<batches, worker, net, collected, faults>>

Released(row, state) == [row EXCEPT !.state = state, !.owner = None, !.live = FALSE]

Holds(w, t) == task[t].state = "leased" /\ task[t].owner = w /\ task[t].live

\* Faulty: the leases of workers that are gone are never taken back.
SweptNone == task

Swept == [t \in Tasks |-> IF task[t].state = "leased" /\ ~task[t].live
                          THEN Released(task[t], "queued") ELSE task[t]]

Oldest(rows) == {t \in Tasks : /\ rows[t].state = "queued"
                               /\ \A u \in Tasks \ {t} : rows[u].state = "queued" => Before(t, u)}

Given(row, w) == [state |-> "leased", owner |-> w, live |-> TRUE, attempts |-> row.attempts + 1]

\* lease and the worker's answer to it.  A lost answer ends run_one, which has
\* no handler for it, and with it the worker's process.
Lease(w) ==
    /\ worker[w].stage = "idle"
    /\ \/ /\ Oldest(Swept) = {}
          /\ task' = Swept
          /\ UNCHANGED <<worker, faults>>
       \/ \E t \in Oldest(Swept) :
            /\ task' = [Swept EXCEPT ![t] = Given(@, w)]
            /\ \/ /\ worker' = [worker EXCEPT ![w] =
                        [stage |-> "run", task |-> t, attempt |-> task'[t].attempts,
                         next |-> 0, lost |-> FALSE]]
                  /\ UNCHANGED faults
               \/ Fault /\ worker' = [worker EXCEPT ![w].stage = "down"]
    /\ UNCHANGED <<batches, net, collected>>

\* A heartbeat that is refused or does not arrive stops the heartbeats.
HeartbeatFails(w) ==
    /\ worker[w].stage \in {"run", "sent"} /\ ~worker[w].lost
    /\ \/ ~Holds(w, worker[w].task) /\ UNCHANGED faults
       \/ Fault
    /\ worker' = [worker EXCEPT ![w].lost = TRUE]
    /\ UNCHANGED <<task, batches, net, collected>>

Request(w, kind) ==
    [kind |-> kind, from |-> w, task |-> worker[w].task, attempt |-> worker[w].attempt,
     index |-> worker[w].next]

Send(w, kind, stage) ==
    /\ net' = net \cup {Request(w, kind)}
    /\ worker' = [worker EXCEPT ![w].stage = stage]
    /\ UNCHANGED <<task, batches, collected>>

\* The executor yields a batch ...
SendBatch(w) ==
    /\ worker[w].stage = "run" /\ ~worker[w].lost /\ worker[w].next \in Indexes
    /\ Send(w, "batch", "sent") /\ UNCHANGED faults

\* ... or has no more ...
SendComplete(w) ==
    /\ worker[w].stage = "run" /\ ~worker[w].lost
    /\ Send(w, "complete", "sent") /\ UNCHANGED faults

FailKind(w) == IF worker[w].attempt < MaxAttempts THEN "requeue" ELSE "fail"

\* ... or raises, or the lease was lost: the attempt is given up.
GiveUp(w) ==
    /\ worker[w].stage = "run"
    /\ Send(w, FailKind(w), "failing") /\ UNCHANGED faults

\* Faulty: a batch whose answer does not come counts as sent.
TimeoutSkipping(w) ==
    /\ worker[w].stage = "sent" /\ worker[w].next \in Indexes /\ Fault
    /\ worker' = [worker EXCEPT ![w].stage = "run", ![w].next = @ + 1]
    /\ UNCHANGED <<task, batches, net, collected>>

\* The answer does not come in time; the request is still on its way.
Timeout(w) ==
    /\ worker[w].stage \in {"sent", "failing"} /\ Fault
    /\ IF worker[w].stage = "sent"
       THEN Send(w, FailKind(w), "failing")
       ELSE worker' = [worker EXCEPT ![w] = Idle] /\ UNCHANGED <<task, batches, net, collected>>

Waits(r) ==
    LET v == worker[r.from]
    IN  /\ v.task = r.task /\ v.attempt = r.attempt
        /\ v.stage = IF r.kind \in {"requeue", "fail"} THEN "failing" ELSE "sent"

\* Faulty: the store asks for the task only, not for its lease.
AnyHolder(r) == task[r.task].state # "absent"

Accepted(r) == Holds(r.from, r.task)

\* INSERT OR IGNORE under the task's key and the index.
Stored(r) == IF batches[r.task][r.index] = 0
             THEN [batches EXCEPT ![r.task][r.index] = r.attempt] ELSE batches

After(kind) == CASE kind = "complete" -> "completed"
                 [] kind = "requeue" -> "queued"
                 [] kind = "fail" -> "failed"

\* The store executes a request.
Effect(r) ==
    /\ batches' = IF Accepted(r) /\ r.kind = "batch" THEN Stored(r) ELSE batches
    /\ task' = IF Accepted(r) /\ r.kind # "batch"
               THEN [task EXCEPT ![r.task] = Released(@, After(r.kind))] ELSE task

\* The sender's next step: a refusal (409) makes the attempt fail.
Answered(r) ==
    IF ~Waits(r) THEN worker[r.from]
    ELSE CASE r.kind = "batch" /\ Accepted(r) ->
                  [worker[r.from] EXCEPT !.stage = "run", !.next = @ + 1]
           [] r.kind \in {"batch", "complete"} /\ ~Accepted(r) ->
                  [worker[r.from] EXCEPT !.stage = "run", !.lost = TRUE]
           [] OTHER -> Idle

Execute(r) ==
    /\ r \in net
    /\ Effect(r)
    /\ worker' = [worker EXCEPT ![r.from] = Answered(r)]
    /\ net' = net \ {r}
    /\ UNCHANGED <<collected, faults>>

\* A request nobody waits for never arrives.
Lose(r) ==
    /\ r \in net /\ ~Waits(r)
    /\ net' = net \ {r}
    /\ UNCHANGED <<task, batches, worker, collected, faults>>

WorksOn(w, t) == /\ worker[w].stage \in {"run", "sent", "failing"} /\ ~worker[w].lost
                 /\ worker[w].task = t /\ worker[w].attempt = task[t].attempts

\* Nobody renews the lease, or the heartbeats come too late.
Expire(t) ==
    /\ task[t].state = "leased" /\ task[t].live
    /\ \/ (\A w \in Workers : ~WorksOn(w, t)) /\ UNCHANGED faults
       \/ Fault
    /\ task' = [task EXCEPT ![t].live = FALSE]
    /\ UNCHANGED <<batches, worker, net, collected>>

Crash(w) ==
    /\ worker[w].stage # "down" /\ Fault
    /\ worker' = [worker EXCEPT ![w] = [Idle EXCEPT !.stage = "down"]]
    /\ UNCHANGED <<task, batches, net, collected>>

\* The process is started again under the same name.
Restart(w) ==
    /\ worker[w].stage = "down"
    /\ worker' = [worker EXCEPT ![w] = Idle]
    /\ UNCHANGED <<task, batches, net, collected, faults>>

Submitted == {t \in Tasks : task[t].state # "absent"}
Done == Submitted # {} /\ \A t \in Submitted : task[t].state \in Terminal

Row(t) == [task |-> t, state |-> task[t].state, batches |-> batches[t]]

\* run_collect asks whether the cycle is done ...
SeeDone ==
    /\ ~collected.seen /\ Done
    /\ collected' = [collected EXCEPT !.seen = TRUE]
    /\ UNCHANGED <<task, batches, worker, net, faults>>

\* ... and then for its results.
Collect ==
    /\ collected.seen /\ collected.rows = {}
    /\ collected' = [collected EXCEPT !.rows = {Row(t) : t \in Submitted}]
    /\ UNCHANGED <<task, batches, worker, net, faults>>

WorkerStep(w) == \/ Lease(w) \/ SendBatch(w) \/ SendComplete(w) \/ GiveUp(w) \/ Restart(w)

Next ==
    \/ \E new \in SUBSET Tasks : Submit(new)
    \/ \E w \in Workers : \/ WorkerStep(w) \/ HeartbeatFails(w) \/ Timeout(w) \/ Crash(w)
    \/ \E r \in net : Execute(r) \/ Lose(r)
    \/ \E t \in Tasks : Expire(t)
    \/ SeeDone \/ Collect

\* The workers are kept running and make progress, the store executes the
\* requests whose senders wait, and time passes for a lease nobody renews.
Fairness ==
    /\ \A w \in Workers : WF_vars(WorkerStep(w))
    /\ \A w \in Workers : WF_vars(\E r \in net : r.from = w /\ Waits(r) /\ Execute(r))
    /\ \A t \in Tasks : WF_vars(Expire(t) /\ UNCHANGED faults)

Spec == Init /\ [][Next]_vars /\ Fairness

-----------------------------------------------------------------------------
(* Properties *)

\* The store gives each task to one worker at a time, takes results and ends
\* from that worker only, and leaves finished tasks alone (the WHERE clauses
\* of _lease_sync, _add_batch_sync, _complete_sync and _fail_sync).
Ledger == INSTANCE TaskLedger
            WITH Batches <- Indexes, Cycles <- {"cycle"}, CycleOf <- [t \in Tasks |-> "cycle"],
                 phase <- [t \in Tasks |-> task[t].state],
                 holder <- [t \in Tasks |-> task[t].owner],
                 results <- [t \in Tasks |-> {i \in Indexes : batches[t][i] # 0}],
                 closed <- {}

ImplementsLedger == Ledger!Spec

\* However attempts are cut off and their requests delayed, the batches of a
\* task are stored without gaps: an attempt sends the next one only after the
\* answer to the last (run_one), and the ones of an earlier attempt stay
\* (INSERT OR IGNORE).
NoGaps == \A t \in Tasks : \A i \in Indexes \ {0} :
              batches[t][i] # 0 => batches[t][i - 1] # 0

\* A task is completed only by an attempt all of whose batches are stored
\* (complete is sent after the answer to the last batch).
CompletesWhole ==
    [][\A t \in Tasks : task'[t].state = "completed" /\ task[t].state # "completed" =>
          \E r \in net \ net' : /\ r.kind = "complete" /\ r.task = t
                               /\ \A i \in Indexes : i < r.index => batches[t][i] # 0]_vars

\* The batches a collector read of a finished task are all it will ever have:
\* no request that was still on its way adds to it (run_collect).
CollectedStays ==
    \A row \in collected.rows : row.state \in Terminal => row = Row(row.task)

\* A task that was submitted ends, whatever workers crash and answers get lost
\* (the sweep of _lease_sync, max_attempts of run_one).
EveryTaskEnds ==
    \A t \in Tasks : task[t].state = "queued" ~> task[t].state \in Terminal
=============================================================================
