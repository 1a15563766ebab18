---------------------------- MODULE SecureStore ----------------------------
(***************************************************************************)
(* The durable v2 coordinator store and the coordinators that share it.    *)
(*                                                                         *)
(* One SQLite file (secure_store_*.py) holds the leadership row, cycles,   *)
(* tasks, workers and result batches.  An active coordinator and any       *)
(* number of standbys open the same file; each runs its store operations   *)
(* on a single-threaded executor.  Leadership and task leases are          *)
(* deadlines; every lease carries the epoch of the leadership it was       *)
(* granted under.                                                          *)
(*                                                                         *)
(* Atomicity is that of the code.  `acquire_leader` and `lease` run in one *)
(* BEGIN IMMEDIATE transaction and are one step.  `heartbeat`, `complete`, *)
(* `fail`, `add_batch` and `register_worker` read with plain SELECTs and   *)
(* then open a write transaction: they are a Check step, which puts the    *)
(* operation in the coordinator's `job`, and a Write step.  Between the    *)
(* two no other operation of the same coordinator runs (its executor has   *)
(* one thread), but another coordinator's transaction may commit.          *)
(*                                                                         *)
(* A deadline d is kept as the time left, d - now: positive while the code *)
(* finds `d > now`, 0 when they are equal, -1 from the first instant       *)
(* `d < now`.  Tick lets one unit of time pass for all of them.  The       *)
(* coordinators share one clock.                                           *)
(***************************************************************************)
EXTENDS Integers, FiniteSets

CONSTANTS
    Nodes,            \* coordinator node ids
    Workers, Tasks, Cycles,
    Batches,          \* batch ids a task's executions may send
    None,             \* SQL NULL
    CycleOf,          \* the cycle a task belongs to
    Capable,          \* workers that meet a task's capabilities and labels
    Affinity,         \* workers a task prefers, {} when it has no affinity
    Gated,            \* tasks with a hard CPU, memory, thermal or power limit
    LeaderLease, TaskLease, QuarantineTime,   \* lease_s, lease_s, quarantine_s
    QuarantineAfter,
    MaxEpoch, MaxAttempts, MaxUploads         \* bounds on the counters

ASSUME ConstantsOK ==
    /\ None \notin Nodes \cup Workers \cup Int
    /\ CycleOf \in [Tasks -> Cycles]
    /\ Capable \in [Tasks -> SUBSET Workers]
    /\ Affinity \in [Tasks -> SUBSET Workers]
    /\ Gated \subseteq Tasks
    /\ LeaderLease \in Nat \ {0}
    /\ TaskLease \in Nat \ {0}
    /\ QuarantineTime \in Nat \ {0}
    /\ QuarantineAfter \in Nat \ {0}
    /\ MaxEpoch \in Nat \ {0}
    /\ MaxAttempts \in Nat \ {0}
    /\ MaxUploads \in Nat

VARIABLES
    leader,    \* the secure_leader row
    cycles,    \* secure_cycles: absent, open or canceled
    tasks,     \* secure_tasks
    workers,   \* secure_workers
    batches,   \* secure_batches: the batch ids stored for a task
    up,        \* coordinators whose process is running
    view,      \* a coordinator's _leader, the LeaderState it last read
    job,       \* the check-then-write operation its executor is inside of
    uploads,   \* add_batch calls between the first check and the insert
    drained    \* history: workers drained and not undrained since

rows == <<leader, cycles, tasks, workers, batches>>
vars == <<leader, cycles, tasks, workers, batches, up, view, job, uploads, drained>>

Left(d) == -1 .. d
Passed(left) == IF left = None THEN None ELSE IF left > -1 THEN left - 1 ELSE -1

LeaderState == [id : Nodes \cup {None}, epoch : 0 .. MaxEpoch, left : Left(LeaderLease)]
NoLeader == [id |-> None, epoch |-> 0, left |-> -1]

TaskStates == {"absent", "queued", "leased", "completed", "failed", "canceled"}
Terminal == {"completed", "failed", "canceled"}
Task == [state : TaskStates, owner : Workers \cup {None},
         left : Left(TaskLease) \cup {None}, epoch : (1 .. MaxEpoch) \cup {None},
         attempts : 0 .. MaxAttempts]
NoTask == [state |-> "absent", owner |-> None, left |-> None, epoch |-> None, attempts |-> 0]

WorkerStates == {"absent", "active", "draining", "quarantined"}
Worker == [state : WorkerStates,
           failures : 0 .. QuarantineAfter, left : Left(QuarantineTime) \cup {None}]
NoWorker == [state |-> "absent", failures |-> 0, left |-> None]

Claim == [task : Tasks, worker : Workers, epoch : 1 .. MaxEpoch]
Upload == [node : Nodes, claim : Claim, batch : Batches]
RegisterJob == [op : {"register"}, worker : Workers, state : WorkerStates \ {"absent"},
                left : Left(QuarantineTime) \cup {None}]
LeaseJob(ops, lefts) == [op : ops, claim : Claim, left : lefts]
Job == LeaseJob({"heartbeat"}, Left(TaskLease))
       \cup LeaseJob({"fail", "requeue"}, Left(QuarantineTime))
       \cup LeaseJob({"complete"}, {-1})
       \cup [op : {"batch"}, claim : Claim, batch : Batches, left : {-1}]
       \cup RegisterJob
NoJob == [op |-> "none"]

TypeOK ==
    /\ leader \in LeaderState
    /\ cycles \in [Cycles -> {"absent", "open", "canceled"}]
    /\ tasks \in [Tasks -> Task]
    /\ workers \in [Workers -> Worker]
    /\ batches \in [Tasks -> SUBSET Batches]
    /\ up \subseteq Nodes
    /\ view \in [Nodes -> LeaderState]
    /\ job \in [Nodes -> Job \cup {NoJob}]
    /\ uploads \subseteq Upload
    /\ drained \subseteq Workers

Init ==
    /\ leader = NoLeader
    /\ cycles = [c \in Cycles |-> "absent"]
    /\ tasks = [t \in Tasks |-> NoTask]
    /\ workers = [w \in Workers |-> NoWorker]
    /\ batches = [t \in Tasks |-> {}]
    /\ up = {}
    /\ view = [n \in Nodes |-> NoLeader]
    /\ job = [n \in Nodes |-> NoJob]
    /\ uploads = {}
    /\ drained = {}

----------------------------------------------------------------------------
(* Leadership                                                              *)

\* Faulty: takes leadership over without looking at the lease's deadline.
AcquiredFromLiveLeader(n) ==
    IF leader.id = n THEN [leader EXCEPT !.left = LeaderLease]
    ELSE [id |-> n, epoch |-> leader.epoch + 1, left |-> LeaderLease]

\* Faulty: opens a new epoch only for the first leader.
AcquiredInSameEpoch(n) ==
    IF leader.id = n /\ leader.left > 0
    THEN [leader EXCEPT !.left = LeaderLease]
    ELSE IF leader.left <= 0
    THEN [id |-> n, epoch |-> IF leader.id = None THEN 1 ELSE leader.epoch, left |-> LeaderLease]
    ELSE leader

\* The secure_leader row after `acquire_leader` by n: renewed when n holds
\* it, taken over in a new epoch when nobody does, else unchanged.
Acquired(n) ==
    IF leader.id = n /\ leader.left > 0
    THEN [leader EXCEPT !.left = LeaderLease]
    ELSE IF leader.id = None \/ leader.left <= 0
    THEN [id |-> n, epoch |-> leader.epoch + 1, left |-> LeaderLease]
    ELSE leader

AcquireLeader(n) ==
    /\ Acquired(n).epoch <= MaxEpoch
    /\ leader' = Acquired(n)
    /\ view' = [view EXCEPT ![n] = Acquired(n)]

\* `_require_active`: the cached LeaderState names this node and has not expired.
Active(n) == n \in up /\ view[n].id = n /\ view[n].left > 0

\* A coordinator process starts and tries for leadership; when another node
\* holds it, only a standby stays up.
Start(n, standby) ==
    /\ n \notin up
    /\ Acquired(n).id = n \/ standby
    /\ AcquireLeader(n)
    /\ up' = up \cup {n}
    /\ UNCHANGED <<cycles, tasks, workers, batches, job, uploads, drained>>

\* One round of the leadership loop.
LeadershipRound(n) ==
    /\ n \in up
    /\ job[n] = NoJob
    /\ AcquireLeader(n)
    /\ UNCHANGED <<cycles, tasks, workers, batches, up, job, uploads, drained>>

\* The process dies, or is stopped; leadership is not given up in the store.
Crash(n) ==
    /\ n \in up
    /\ up' = up \ {n}
    /\ view' = [view EXCEPT ![n] = NoLeader]
    /\ job' = [job EXCEPT ![n] = NoJob]
    /\ uploads' = {u \in uploads : u.node # n}
    /\ UNCHANGED <<leader, cycles, tasks, workers, batches, drained>>

----------------------------------------------------------------------------
(* Cycles and workers: operations of one transaction                       *)

\* An active coordinator whose executor is free runs a request's operation.
Serving(n) == Active(n) /\ job[n] = NoJob

SubmitCycle(n, c, sources) ==
    /\ Serving(n)
    /\ cycles' = [cycles EXCEPT ![c] = IF @ = "absent" THEN "open" ELSE @]
    /\ tasks' = [t \in Tasks |-> IF t \in sources /\ tasks[t].state = "absent"
                                 THEN [tasks[t] EXCEPT !.state = "queued"] ELSE tasks[t]]
    /\ UNCHANGED <<leader, workers, batches, up, view, job, uploads, drained>>

\* Faulty: lets the leased tasks of the cycle go on.
CancelOnlyQueued(n, c) ==
    /\ Serving(n)
    /\ cycles[c] # "absent"
    /\ cycles' = [cycles EXCEPT ![c] = "canceled"]
    /\ tasks' = [t \in Tasks |->
                    IF CycleOf[t] = c /\ tasks[t].state = "queued"
                    THEN [tasks[t] EXCEPT !.state = "canceled"] ELSE tasks[t]]
    /\ UNCHANGED <<leader, workers, batches, up, view, job, uploads, drained>>

\* Faulty: cancels the tasks that have ended as well.
CancelEverything(n, c) ==
    /\ Serving(n)
    /\ cycles[c] # "absent"
    /\ cycles' = [cycles EXCEPT ![c] = "canceled"]
    /\ tasks' = [t \in Tasks |->
                    IF CycleOf[t] = c /\ tasks[t].state # "absent"
                    THEN [tasks[t] EXCEPT !.state = "canceled", !.owner = None,
                                          !.left = None, !.epoch = None]
                    ELSE tasks[t]]
    /\ UNCHANGED <<leader, workers, batches, up, view, job, uploads, drained>>

CancelCycle(n, c) ==
    /\ Serving(n)
    /\ cycles[c] # "absent"
    /\ cycles' = [cycles EXCEPT ![c] = "canceled"]
    /\ tasks' = [t \in Tasks |->
                    IF CycleOf[t] = c /\ tasks[t].state \in {"queued", "leased"}
                    THEN [tasks[t] EXCEPT !.state = "canceled", !.owner = None,
                                          !.left = None, !.epoch = None]
                    ELSE tasks[t]]
    /\ UNCHANGED <<leader, workers, batches, up, view, job, uploads, drained>>

QuarantineOver(row) == row.state = "quarantined" /\ row.left # None /\ row.left <= 0
Readmitted(row) ==
    IF QuarantineOver(row) THEN [row EXCEPT !.state = "active", !.left = None] ELSE row

\* The admin's drain and the worker's own drain on SIGTERM.
Drain(n, w) ==
    /\ Serving(n)
    /\ workers[w].state # "absent"
    /\ workers' = [workers EXCEPT ![w].state = "draining"]
    /\ drained' = drained \cup {w}
    /\ UNCHANGED <<leader, cycles, tasks, batches, up, view, job, uploads>>

Undrain(n, w) ==
    /\ Serving(n)
    /\ workers[w].state # "absent"
    /\ workers' = [workers EXCEPT ![w].state = "active"]
    /\ drained' = drained \ {w}
    /\ UNCHANGED <<leader, cycles, tasks, batches, up, view, job, uploads>>

----------------------------------------------------------------------------
(* Leasing                                                                 *)

\* `_reclaim_expired` on one row.
Reclaimed(row) ==
    IF row.state = "leased" /\ row.left # None /\ row.left < 0
    THEN [row EXCEPT !.state = "queued", !.owner = None, !.left = None, !.epoch = None]
    ELSE row

\* SchedulingRequirements.matches: hard requirements, then affinity, which a
\* task old enough to be stolen waives.
Matches(w, t, fit, steal) ==
    /\ w \in Capable[t]
    /\ Affinity[t] = {} \/ w \in Affinity[t] \/ steal
    /\ t \in Gated => fit

\* The tasks with the best score: affinity outweighs the rest of it.
Preferred(w, candidates) ==
    IF \E t \in candidates : w \in Affinity[t]
    THEN {t \in candidates : w \in Affinity[t]} ELSE candidates

\* Worker w asks for work; `fit` and `steal` are what the resources and the
\* steal delay sent with the request allow.  Expired leases are reclaimed and
\* an ended quarantine is lifted even when no task is handed out.
Lease(n, w, fit, steal) ==
    LET rowsNow == [t \in Tasks |-> Reclaimed(tasks[t])]
        candidates == {t \in Tasks : /\ rowsNow[t].state = "queued"
                                     /\ cycles[CycleOf[t]] = "open"
                                     /\ Matches(w, t, fit, steal)
                                     /\ rowsNow[t].attempts < MaxAttempts}
    IN  /\ Serving(n)
        /\ leader.epoch = view[n].epoch
        /\ leader.left > 0
        /\ Readmitted(workers[w]).state = "active"
        /\ workers' = [workers EXCEPT ![w] = Readmitted(@)]
        /\ \/ candidates = {} /\ tasks' = rowsNow
           \/ \E t \in Preferred(w, candidates) :
                 tasks' = [rowsNow EXCEPT ![t] =
                             [state |-> "leased", owner |-> w, left |-> TaskLease,
                              epoch |-> leader.epoch, attempts |-> @.attempts + 1]]
        /\ UNCHANGED <<leader, cycles, batches, up, view, job, uploads, drained>>

\* Faulty: does not compare the epoch with the leader's.
LeaseValidInOwnEpoch(claim) ==
    LET row == tasks[claim.task]
    IN  /\ row.state = "leased"
        /\ row.owner = claim.worker
        /\ row.left # None /\ row.left > 0
        /\ row.epoch = claim.epoch
        /\ leader.left > 0

\* Faulty: does not compare the lease's owner with the caller.
LeaseValidForAnyone(claim) ==
    LET row == tasks[claim.task]
    IN  /\ row.state = "leased"
        /\ row.left # None /\ row.left > 0
        /\ row.epoch = claim.epoch
        /\ leader.epoch = claim.epoch
        /\ leader.left > 0

\* `_lease_valid`.  Its two SELECTs are one step: the row carrying the epoch
\* the leader row has then pins the leader row in between.
LeaseValid(claim) ==
    LET row == tasks[claim.task]
    IN  /\ row.state = "leased"
        /\ row.owner = claim.worker
        /\ row.left # None /\ row.left > 0
        /\ row.epoch = claim.epoch
        /\ leader.epoch = claim.epoch
        /\ leader.left > 0

----------------------------------------------------------------------------
(* Operations that check, then write: four on a lease, and register        *)

Unchecked == <<leader, cycles, tasks, workers, batches, up, view, drained>>

\* The deadline the operation will write, counted from its own reading of
\* the clock.
CheckOp(n, claim, op, left) ==
    /\ Serving(n)
    /\ LeaseValid(claim)
    /\ job' = [job EXCEPT ![n] = [op |-> op, claim |-> claim, left |-> left]]
    /\ UNCHANGED uploads
    /\ UNCHANGED Unchecked

CheckHeartbeat(n, claim) ==
    /\ cycles[CycleOf[claim.task]] = "open"
    /\ CheckOp(n, claim, "heartbeat", TaskLease)

CheckComplete(n, claim) == CheckOp(n, claim, "complete", -1)

CheckFail(n, claim, requeue) ==
    CheckOp(n, claim, IF requeue THEN "requeue" ELSE "fail", QuarantineTime)

\* add_batch: a first check, the artifact written to the content store while
\* the executor is free, then a second check and the insert.
BeginUpload(n, claim, b) ==
    /\ Serving(n)
    /\ LeaseValid(claim)
    /\ Cardinality(uploads) < MaxUploads
    /\ uploads' = uploads \cup {[node |-> n, claim |-> claim, batch |-> b]}
    /\ UNCHANGED job
    /\ UNCHANGED Unchecked

CheckBatch(u) ==
    /\ u \in uploads
    /\ job[u.node] = NoJob
    /\ uploads' = uploads \ {u}
    /\ job' = IF LeaseValid(u.claim)
              THEN [job EXCEPT ![u.node] = [op |-> "batch", claim |-> u.claim,
                                            batch |-> u.batch, left |-> -1]]
              ELSE job
    /\ UNCHANGED Unchecked

\* Faulty: a worker that registers is active.
CheckRegisterActive(n, w) ==
    /\ Serving(n)
    /\ job' = [job EXCEPT ![n] = [op |-> "register", worker |-> w, left |-> workers[w].left,
                                  state |-> "active"]]
    /\ UNCHANGED uploads
    /\ UNCHANGED Unchecked

\* `_register_worker_sync` reads the worker's state and writes back what it
\* read, or 'active' for a new worker and for one whose quarantine is over.
CheckRegister(n, w) ==
    LET row == Readmitted(workers[w])
    IN  /\ Serving(n)
        /\ job' = [job EXCEPT ![n] =
                     [op |-> "register", worker |-> w, left |-> row.left,
                      state |-> IF row.state = "absent" THEN "active" ELSE row.state]]
        /\ UNCHANGED uploads
        /\ UNCHANGED Unchecked

WriteRegister(n) ==
    /\ job[n].op = "register"
    /\ workers' = [workers EXCEPT ![job[n].worker].state = job[n].state,
                                  ![job[n].worker].left = job[n].left]
    /\ UNCHANGED <<tasks, batches>>

WriteHeartbeat(n) ==
    /\ job[n].op = "heartbeat"
    /\ tasks' = [tasks EXCEPT ![job[n].claim.task].left = job[n].left]
    /\ UNCHANGED <<workers, batches>>

WriteComplete(n) ==
    /\ job[n].op = "complete"
    /\ tasks' = [tasks EXCEPT ![job[n].claim.task] =
                    [@ EXCEPT !.state = "completed", !.owner = None, !.left = None]]
    /\ workers' = [workers EXCEPT ![job[n].claim.worker].failures = 0]
    /\ UNCHANGED batches

\* Faulty: tolerates one failure too many.
FailedOnceMore(row, until) ==
    IF row.failures + 1 > QuarantineAfter
    THEN [state |-> "quarantined", failures |-> row.failures + 1, left |-> until]
    ELSE [row EXCEPT !.failures = @ + 1]

\* One more failure for the worker; the counter stops at the threshold, past
\* which nothing tells its values apart.
Failed(row, until) ==
    LET failures == IF row.failures < QuarantineAfter THEN row.failures + 1 ELSE row.failures
    IN  IF failures >= QuarantineAfter
        THEN [state |-> "quarantined", failures |-> failures, left |-> until]
        ELSE [row EXCEPT !.failures = failures]

WriteFail(n) ==
    /\ job[n].op \in {"fail", "requeue"}
    /\ tasks' = [tasks EXCEPT ![job[n].claim.task] =
                    [@ EXCEPT !.state = IF job[n].op = "requeue" THEN "queued" ELSE "failed",
                              !.owner = None, !.left = None, !.epoch = None]]
    /\ workers' = [workers EXCEPT ![job[n].claim.worker] = Failed(@, job[n].left)]
    /\ UNCHANGED batches

\* INSERT OR IGNORE: a batch id already stored for the task stays as it is.
WriteBatch(n) ==
    /\ job[n].op = "batch"
    /\ batches' = [batches EXCEPT ![job[n].claim.task] = @ \cup {job[n].batch}]
    /\ UNCHANGED <<tasks, workers>>

Write(n) ==
    /\ job[n] # NoJob
    /\ WriteHeartbeat(n) \/ WriteComplete(n) \/ WriteFail(n) \/ WriteBatch(n) \/ WriteRegister(n)
    /\ job' = [job EXCEPT ![n] = NoJob]
    /\ UNCHANGED <<leader, cycles, up, view, uploads, drained>>

----------------------------------------------------------------------------
Tick ==
    /\ leader' = [leader EXCEPT !.left = Passed(@)]
    /\ tasks' = [t \in Tasks |-> [tasks[t] EXCEPT !.left = Passed(@)]]
    /\ workers' = [w \in Workers |-> [workers[w] EXCEPT !.left = Passed(@)]]
    /\ view' = [n \in Nodes |-> [view[n] EXCEPT !.left = Passed(@)]]
    /\ job' = [n \in Nodes |-> IF job[n] = NoJob THEN NoJob ELSE [job[n] EXCEPT !.left = Passed(@)]]
    /\ UNCHANGED <<cycles, batches, up, uploads, drained>>

CycleTasks(c) == {t \in Tasks : CycleOf[t] = c}

Coordinate(n) ==
    \/ \E standby \in BOOLEAN : Start(n, standby)
    \/ LeadershipRound(n)
    \/ Crash(n)

Administer(n) ==
    \/ \E c \in Cycles : \E sources \in SUBSET CycleTasks(c) : SubmitCycle(n, c, sources)
    \/ \E c \in Cycles : CancelCycle(n, c)
    \/ \E w \in Workers : Drain(n, w) \/ Undrain(n, w)

Request(n) ==
    \/ \E w \in Workers : CheckRegister(n, w)
    \/ \E w \in Workers, fit \in BOOLEAN, steal \in BOOLEAN : Lease(n, w, fit, steal)
    \/ \E claim \in Claim :
          \/ CheckHeartbeat(n, claim)
          \/ CheckComplete(n, claim)
          \/ \E requeue \in BOOLEAN : CheckFail(n, claim, requeue)
          \/ \E b \in Batches : BeginUpload(n, claim, b)

Next ==
    \/ \E n \in Nodes : Coordinate(n) \/ Administer(n) \/ Request(n) \/ Write(n)
    \/ \E u \in uploads : CheckBatch(u)
    \/ Tick

Spec == Init /\ [][Next]_vars

----------------------------------------------------------------------------
(* The same system when no transaction of another coordinator falls        *)
(* between an operation's check and its write.  One coordinator by itself  *)
(* always runs like this.                                                  *)

Undisturbed ==
    /\ \A n \in Nodes : job[n] # NoJob /\ job'[n] # NoJob => Tick \/ UNCHANGED rows
    /\ \A m, n \in Nodes : job'[m] # NoJob /\ job'[n] # NoJob => m = n

SerialNext == Next /\ Undisturbed
SerialSpec == Init /\ [][SerialNext]_vars

----------------------------------------------------------------------------
(* Safety under every interleaving of the coordinators                     *)

\* A coordinator that answers requests as the active one is the leader in
\* the store, in the epoch it believes: `active` compares a cached
\* LeaderState with the clock, and is never true of a deposed node.
ActiveIsLeader ==
    \A n \in Nodes : Active(n) => /\ leader.id = n
                                  /\ leader.epoch = view[n].epoch
                                  /\ leader.left > 0

\* An epoch has one owner: two coordinators whose last LeaderState named
\* themselves never saw the same epoch, however old either of them is.
\* Epochs fence leases only because of this.
EpochOwned ==
    \A m, n \in Nodes : view[m].id = m /\ view[n].id = n /\ view[m].epoch = view[n].epoch
                           => m = n

\* A leased row names its worker, epoch and deadline: without a deadline it
\* would be taken for leased for ever (_reclaim_expired skips NULL), without
\* an epoch or owner nobody could finish it.  No write of an operation that
\* was overtaken by another coordinator leaves such a row.
LeaseHasHolder ==
    \A t \in Tasks : tasks[t].state = "leased" =>
        /\ tasks[t].owner \in Workers
        /\ tasks[t].left # None
        /\ tasks[t].epoch # None /\ tasks[t].epoch <= leader.epoch

\* After cancel_cycle commits no task of the cycle is leased again, whatever
\* operation another coordinator had checked before and writes after.
CanceledNeverLeased ==
    \A t \in Tasks : cycles[CycleOf[t]] = "canceled" => tasks[t].state # "leased"

\* A registration in progress that read worker w active and will write it so.
ReadActive(j, w) == j.op = "register" /\ j.worker = w /\ j.state = "active"

\* A worker in quarantine comes back before the quarantine is over only by
\* the admin's undrain, or by the write of a registration that had read it
\* before: one that begins during the quarantine does not lift it
\* (_register_worker_sync), and neither does a lease request or a task that
\* ends, whichever coordinator runs it.
QuarantineServed ==
    [][\A w \in Workers : workers[w].state = "quarantined" /\ workers[w].left > 0 =>
          /\ workers'[w].state = "active" =>
                \E n \in Nodes : Undrain(n, w) \/ (Write(n) /\ ReadActive(job[n], w))
          /\ \A n \in Nodes : ReadActive(job'[n], w) => ReadActive(job[n], w)]_vars

----------------------------------------------------------------------------
(* Safety when operations do not overtake one another (SerialSpec)         *)

\* The write of an operation on a lease ends its job.
Writes(n) == n \in up /\ job[n] # NoJob /\ job[n].op # "register" /\ n \in up' /\ job'[n] = NoJob

\* A request made under an epoch that is over changes no task, no worker and
\* no result (docs/DISTRIBUTED_RUNTIME.md, Invariants).
FencedMutation ==
    [][\A n \in Nodes : Writes(n) /\ job[n].claim.epoch # leader.epoch
                          => UNCHANGED <<tasks, workers, batches>>]_vars

\* Until it expires, a lease is taken away only by its own worker's complete
\* or fail or by canceling its cycle: not by another worker, an earlier lease
\* of the task, a new leader or the reclaiming of expired leases.
LiveLeaseExclusive ==
    [][\A t \in Tasks :
          LET row == tasks[t]
              mine == [task |-> t, worker |-> row.owner, epoch |-> row.epoch]
          IN  /\ row.state = "leased" /\ row.left > 0
              /\ \/ tasks'[t].state # "leased"
                 \/ tasks'[t].owner # row.owner
                 \/ tasks'[t].epoch # row.epoch
              => \/ cycles'[CycleOf[t]] = "canceled"
                 \/ \E n \in Nodes : Writes(n) /\ job[n].claim = mine]_vars

\* The store implements the task ledger.
Ledger == INSTANCE TaskLedger
            WITH phase <- [t \in Tasks |-> tasks[t].state],
                 holder <- [t \in Tasks |-> tasks[t].owner],
                 results <- batches,
                 closed <- {c \in Cycles : cycles[c] = "canceled"}

\* Whatever happens to coordinators, leases and clocks, callers see the task
\* ledger: results come from the holder, finished tasks and their results
\* are final, a canceled cycle hands out nothing.
ImplementsLedger == Ledger!Spec

----------------------------------------------------------------------------
(* Claims of the documentation                                             *)

\* docs/DISTRIBUTED_RUNTIME.md, Invariants: "A draining worker receives no
\* new leases."
DrainedGetsNoLease ==
    [][\A t \in Tasks : tasks'[t].attempts > tasks[t].attempts
                          => tasks'[t].owner \notin drained]_vars
=============================================================================
