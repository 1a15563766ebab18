------------------------- MODULE SecureStoreProofs -------------------------
(***************************************************************************)
(* Proofs about SecureStore for every number of coordinators, workers,     *)
(* tasks and cycles and every length of the leases.                        *)
(***************************************************************************)
EXTENDS SecureStore, TLAPS

USE DEF Left

\* Time passing keeps a time left, and a NULL, within its type, and makes no
\* deadline that has passed lie in the future.
LEMMA PassedType ==
    ASSUME NEW d \in Nat, NEW left \in Left(d) \cup {None}
    PROVE  /\ Passed(left) \in Left(d) \cup {None}
           /\ left # None => Passed(left) \in Left(d) /\ Passed(left) <= left
           /\ left = None <=> Passed(left) = None
BY ConstantsOK DEF Passed

\* A leader lease that has not run out belongs to an epoch that was opened:
\* without it a task could be leased under epoch 0, which is not an epoch.
EpochOpen == leader.left > 0 => leader.epoch > 0

TInv == TypeOK /\ EpochOpen

LEMMA TInvInit == Init => TInv
BY ConstantsOK DEF Init, TInv, TypeOK, EpochOpen, NoLeader, LeaderState, NoTask, Task,
    TaskStates, NoWorker, Worker, WorkerStates, NoJob

LEMMA AcquireLeaderType ==
    ASSUME TInv, NEW n \in Nodes, AcquireLeader(n)
    PROVE  /\ leader' \in LeaderState
           /\ view' \in [Nodes -> LeaderState]
           /\ EpochOpen'
<1>1. Acquired(n) \in LeaderState
  BY ConstantsOK DEF AcquireLeader, Acquired, TInv, TypeOK, LeaderState
<1>2. Acquired(n).left > 0 => Acquired(n).epoch > 0
  BY ConstantsOK DEF Acquired, TInv, TypeOK, LeaderState, EpochOpen
<1> QED BY <1>1, <1>2 DEF AcquireLeader, TInv, TypeOK, EpochOpen

\* What a coordinator does about leadership keeps the types.
LEMMA CoordinateType ==
    ASSUME TInv, NEW n \in Nodes, Coordinate(n)
    PROVE  TInv'
<1>1. ASSUME NEW standby \in BOOLEAN, Start(n, standby) PROVE TInv'
  <2>1. AcquireLeader(n) BY <1>1 DEF Start
  <2> QED BY <1>1, <2>1, AcquireLeaderType DEF Start, TInv, TypeOK
<1>2. CASE LeadershipRound(n)
  <2>1. AcquireLeader(n) BY <1>2 DEF LeadershipRound
  <2> QED BY <1>2, <2>1, AcquireLeaderType DEF LeadershipRound, TInv, TypeOK
<1>3. CASE Crash(n)
  <2>1. NoLeader \in LeaderState BY ConstantsOK DEF NoLeader, LeaderState
  <2>2. view' \in [Nodes -> LeaderState] BY <1>3, <2>1 DEF Crash, TInv, TypeOK
  <2>3. job' \in [Nodes -> Job \cup {NoJob}] BY <1>3 DEF Crash, TInv, TypeOK
  <2> QED BY <1>3, <2>2, <2>3 DEF Crash, TInv, TypeOK, EpochOpen
<1> QED BY <1>1, <1>2, <1>3 DEF Coordinate

\* A row whose lease is cleared, with and without its epoch.
LEMMA EndedType ==
    ASSUME NEW row \in Task, NEW state \in TaskStates
    PROVE  /\ [row EXCEPT !.state = state, !.owner = None, !.left = None] \in Task
           /\ [row EXCEPT !.state = state, !.owner = None, !.left = None, !.epoch = None] \in Task
BY DEF Task

\* Operations of one transaction other than lease.
LEMMA AdministerType ==
    ASSUME TInv, NEW n \in Nodes, Administer(n)
    PROVE  TInv'
<1>1. ASSUME NEW c \in Cycles, NEW sources \in SUBSET CycleTasks(c), SubmitCycle(n, c, sources)
      PROVE  TInv'
  <2>1. cycles' \in [Cycles -> {"absent", "open", "canceled"}]
    BY <1>1 DEF SubmitCycle, TInv, TypeOK
  <2>2. tasks' \in [Tasks -> Task]
    BY <1>1 DEF SubmitCycle, TInv, TypeOK, Task, TaskStates
  <2> QED BY <1>1, <2>1, <2>2 DEF SubmitCycle, TInv, TypeOK, EpochOpen
<1>2. ASSUME NEW c \in Cycles, CancelCycle(n, c) PROVE TInv'
  <2>1. cycles' \in [Cycles -> {"absent", "open", "canceled"}]
    BY <1>2 DEF CancelCycle, TInv, TypeOK
  <2>2. tasks' \in [Tasks -> Task]
    BY <1>2, EndedType DEF CancelCycle, TInv, TypeOK, TaskStates
  <2> QED BY <1>2, <2>1, <2>2 DEF CancelCycle, TInv, TypeOK, EpochOpen
<1>3. ASSUME NEW w \in Workers, Drain(n, w) \/ Undrain(n, w) PROVE TInv'
  <2>1. workers' \in [Workers -> Worker]
    BY <1>3 DEF Drain, Undrain, TInv, TypeOK, Worker, WorkerStates
  <2> QED BY <1>3, <2>1 DEF Drain, Undrain, TInv, TypeOK, EpochOpen
<1> QED BY <1>1, <1>2, <1>3 DEF Administer

LEMMA ReadmittedType ==
    ASSUME NEW row \in Worker
    PROVE  Readmitted(row) \in Worker
BY DEF Readmitted, Worker, WorkerStates

LEMMA ReclaimedType ==
    ASSUME NEW row \in Task
    PROVE  /\ Reclaimed(row) \in Task
           /\ Reclaimed(row).attempts = row.attempts
BY DEF Reclaimed, Task, TaskStates

LEMMA LeaseType ==
    ASSUME TInv, NEW n \in Nodes, NEW w \in Workers, NEW fit \in BOOLEAN,
           NEW steal \in BOOLEAN, Lease(n, w, fit, steal)
    PROVE  TInv'
<1> DEFINE rowsNow == [t \in Tasks |-> Reclaimed(tasks[t])]
           granted(t) == [state |-> "leased", owner |-> w, left |-> TaskLease,
                          epoch |-> leader.epoch, attempts |-> rowsNow[t].attempts + 1]
<1>1. workers' \in [Workers -> Worker]
  BY ReadmittedType DEF Lease, TInv, TypeOK
<1>2. rowsNow \in [Tasks -> Task]
  BY ReclaimedType DEF TInv, TypeOK
<1>3. leader.epoch \in 1 .. MaxEpoch
  BY ConstantsOK DEF Lease, TInv, TypeOK, EpochOpen, LeaderState
<1>4. ASSUME NEW t \in Tasks, rowsNow[t].attempts < MaxAttempts
      PROVE  granted(t) \in Task
  BY <1>2, <1>3, <1>4, ConstantsOK DEF Task, TaskStates
<1>5. tasks' \in [Tasks -> Task]
  <2>1. CASE tasks' = rowsNow BY <1>2, <2>1
  <2>2. ASSUME NEW t \in Tasks, rowsNow[t].attempts < MaxAttempts,
               tasks' = [rowsNow EXCEPT ![t] = granted(t)]
        PROVE  tasks' \in [Tasks -> Task]
    BY <1>2, <1>4, <2>2
  <2> QED BY <2>1, <2>2 DEF Lease, Preferred
<1> QED BY <1>1, <1>5 DEF Lease, TInv, TypeOK, EpochOpen

\* The checks of a request change only the job they begin, or the uploads.
LEMMA RequestType ==
    ASSUME TInv, NEW n \in Nodes, Request(n)
    PROVE  TInv'
<1>1. ASSUME NEW w \in Workers, CheckRegister(n, w) PROVE TInv'
  <2>1. Readmitted(workers[w]) \in Worker
    BY ReadmittedType DEF TInv, TypeOK
  <2>2. job' \in [Nodes -> Job \cup {NoJob}]
    BY <1>1, <2>1 DEF CheckRegister, TInv, TypeOK, Job, RegisterJob, Worker, WorkerStates
  <2> QED BY <1>1, <2>2 DEF CheckRegister, Unchecked, TInv, TypeOK, EpochOpen
<1>2. ASSUME NEW w \in Workers, NEW fit \in BOOLEAN, NEW steal \in BOOLEAN, Lease(n, w, fit, steal)
      PROVE  TInv'
  BY <1>2, LeaseType
<1>3. ASSUME NEW claim \in Claim, NEW op, NEW left, CheckOp(n, claim, op, left),
             [op |-> op, claim |-> claim, left |-> left] \in Job
      PROVE  TInv'
  BY <1>3 DEF CheckOp, Unchecked, TInv, TypeOK, EpochOpen
<1>4. ASSUME NEW claim \in Claim, CheckHeartbeat(n, claim) PROVE TInv'
  <2>1. [op |-> "heartbeat", claim |-> claim, left |-> TaskLease] \in Job
    BY ConstantsOK DEF Job, LeaseJob
  <2> QED BY <1>3, <1>4, <2>1 DEF CheckHeartbeat
<1>5. ASSUME NEW claim \in Claim, CheckComplete(n, claim) PROVE TInv'
  <2>1. [op |-> "complete", claim |-> claim, left |-> -1] \in Job
    BY DEF Job, LeaseJob
  <2> QED BY <1>3, <1>5, <2>1 DEF CheckComplete
<1>6. ASSUME NEW claim \in Claim, NEW requeue \in BOOLEAN, CheckFail(n, claim, requeue) PROVE TInv'
  <2> DEFINE op == IF requeue THEN "requeue" ELSE "fail"
  <2>1. [op |-> op, claim |-> claim, left |-> QuarantineTime] \in Job
    BY ConstantsOK DEF Job, LeaseJob
  <2> QED BY <1>3, <1>6, <2>1 DEF CheckFail
<1>7. ASSUME NEW claim \in Claim, NEW b \in Batches, BeginUpload(n, claim, b) PROVE TInv'
  BY <1>7 DEF BeginUpload, Unchecked, TInv, TypeOK, EpochOpen, Upload
<1> QED BY <1>1, <1>2, <1>4, <1>5, <1>6, <1>7 DEF Request

LEMMA CheckBatchType ==
    ASSUME TInv, NEW u \in uploads, CheckBatch(u)
    PROVE  TInv'
<1>1. u \in Upload BY DEF TInv, TypeOK
<1>2. [op |-> "batch", claim |-> u.claim, batch |-> u.batch, left |-> -1] \in Job
  BY <1>1 DEF Job, Upload
<1>3. job' \in [Nodes -> Job \cup {NoJob}]
  BY <1>1, <1>2 DEF CheckBatch, TInv, TypeOK, Upload
<1> QED BY <1>3 DEF CheckBatch, Unchecked, TInv, TypeOK, EpochOpen

\* What an operation's record says by its kind.
LEMMA JobKinds ==
    ASSUME NEW j \in Job \cup {NoJob}
    PROVE  /\ j.op = "heartbeat" => j.claim \in Claim /\ j.left \in Left(TaskLease)
           /\ j.op = "complete" => j.claim \in Claim
           /\ j.op \in {"fail", "requeue"} => j.claim \in Claim /\ j.left \in Left(QuarantineTime)
           /\ j.op = "batch" => j.claim \in Claim /\ j.batch \in Batches
           /\ j.op = "register" => /\ j.worker \in Workers /\ j.state \in WorkerStates
                                   /\ j.left \in Left(QuarantineTime) \cup {None}
BY DEF Job, LeaseJob, RegisterJob, NoJob

LEMMA FailedType ==
    ASSUME NEW row \in Worker, NEW until \in Left(QuarantineTime)
    PROVE  Failed(row, until) \in Worker
BY ConstantsOK DEF Failed, Worker, WorkerStates

LEMMA WriteType ==
    ASSUME TInv, NEW n \in Nodes, Write(n)
    PROVE  TInv'
<1> DEFINE claim == job[n].claim
<1>0. /\ job[n] \in Job \cup {NoJob}
      /\ tasks \in [Tasks -> Task] /\ workers \in [Workers -> Worker]
  BY DEF TInv, TypeOK
<1>1. job' \in [Nodes -> Job \cup {NoJob}]
  BY DEF Write, TInv, TypeOK
<1> SUFFICES /\ tasks' \in [Tasks -> Task]
             /\ workers' \in [Workers -> Worker]
             /\ batches' \in [Tasks -> SUBSET Batches]
  BY <1>1 DEF Write, TInv, TypeOK, EpochOpen
<1>2. CASE WriteHeartbeat(n)
  <2>1. claim.task \in Tasks /\ job[n].left \in Left(TaskLease)
    BY <1>0, <1>2, JobKinds DEF WriteHeartbeat, Claim
  <2>2. tasks' \in [Tasks -> Task] BY <1>0, <1>2, <2>1 DEF WriteHeartbeat, Task
  <2> QED BY <1>0, <1>2, <2>2 DEF WriteHeartbeat, TInv, TypeOK
<1>3. CASE WriteComplete(n)
  <2>1. claim.task \in Tasks /\ claim.worker \in Workers
    BY <1>0, <1>3, JobKinds DEF WriteComplete, Claim
  <2>2. tasks' \in [Tasks -> Task] BY <1>0, <1>3, <2>1, EndedType DEF WriteComplete, TaskStates
  <2>3. workers' \in [Workers -> Worker]
    BY <1>0, <1>3, <2>1, ConstantsOK DEF WriteComplete, Worker
  <2> QED BY <1>3, <2>2, <2>3 DEF WriteComplete, TInv, TypeOK
<1>4. CASE WriteFail(n)
  <2>1. claim \in Claim /\ job[n].left \in Left(QuarantineTime)
    BY <1>0, <1>4, JobKinds DEF WriteFail
  <2>2. tasks' \in [Tasks -> Task] BY <1>0, <1>4, <2>1, EndedType DEF WriteFail, TaskStates, Claim
  <2>3. workers' \in [Workers -> Worker]
    BY <1>0, <1>4, <2>1, FailedType DEF WriteFail, Claim
  <2> QED BY <1>4, <2>2, <2>3 DEF WriteFail, TInv, TypeOK
<1>5. CASE WriteBatch(n)
  <2>1. claim \in Claim /\ job[n].batch \in Batches
    BY <1>0, <1>5, JobKinds DEF WriteBatch
  <2> QED BY <1>0, <1>5, <2>1 DEF WriteBatch, TInv, TypeOK, Claim
<1>6. CASE WriteRegister(n)
  <2>1. /\ job[n].worker \in Workers /\ job[n].state \in WorkerStates
        /\ job[n].left \in Left(QuarantineTime) \cup {None}
    BY <1>0, <1>6, JobKinds DEF WriteRegister
  <2>2. workers' \in [Workers -> Worker] BY <1>0, <1>6, <2>1 DEF WriteRegister, Worker
  <2> QED BY <1>6, <2>2 DEF WriteRegister, TInv, TypeOK
<1> QED BY <1>2, <1>3, <1>4, <1>5, <1>6 DEF Write

LEMMA PassedLeader ==
    ASSUME NEW state \in LeaderState
    PROVE  /\ [state EXCEPT !.left = Passed(@)] \in LeaderState
           /\ Passed(state.left) > 0 => state.left > 0
BY ConstantsOK DEF LeaderState, Passed

LEMMA TickType ==
    ASSUME TInv, Tick
    PROVE  TInv'
<1>1. leader' \in LeaderState /\ EpochOpen'
  BY PassedLeader DEF Tick, TInv, TypeOK, EpochOpen, LeaderState
<1>2. view' \in [Nodes -> LeaderState]
  BY PassedLeader DEF Tick, TInv, TypeOK
<1>3. tasks' \in [Tasks -> Task]
  <2>1. ASSUME NEW row \in Task PROVE [row EXCEPT !.left = Passed(@)] \in Task
    <3>1. Passed(row.left) \in Left(TaskLease) \cup {None} BY PassedType, ConstantsOK DEF Task
    <3> QED BY <3>1 DEF Task
  <2> QED BY <2>1 DEF Tick, TInv, TypeOK
<1>4. workers' \in [Workers -> Worker]
  <2>1. ASSUME NEW row \in Worker PROVE [row EXCEPT !.left = Passed(@)] \in Worker
    <3>1. Passed(row.left) \in Left(QuarantineTime) \cup {None} BY PassedType, ConstantsOK DEF Worker
    <3> QED BY <3>1 DEF Worker
  <2> QED BY <2>1 DEF Tick, TInv, TypeOK
<1>5. job' \in [Nodes -> Job \cup {NoJob}]
  <2>1. ASSUME NEW j \in Job PROVE [j EXCEPT !.left = Passed(@)] \in Job
    <3>1. CASE j \in LeaseJob({"heartbeat"}, Left(TaskLease))
      BY <3>1, PassedType, ConstantsOK DEF Job, LeaseJob
    <3>2. CASE j \in LeaseJob({"fail", "requeue"}, Left(QuarantineTime))
      BY <3>2, PassedType, ConstantsOK DEF Job, LeaseJob
    <3>3. CASE j \in LeaseJob({"complete"}, {-1})
      BY <3>3, ConstantsOK DEF Job, LeaseJob, Passed
    <3>4. CASE j \in [op : {"batch"}, claim : Claim, batch : Batches, left : {-1}]
      BY <3>4, ConstantsOK DEF Job, Passed
    <3>5. CASE j \in RegisterJob
      <4>1. Passed(j.left) \in Left(QuarantineTime) \cup {None}
        BY <3>5, PassedType, ConstantsOK DEF RegisterJob
      <4> QED BY <3>5, <4>1 DEF Job, RegisterJob
    <3> QED BY <3>1, <3>2, <3>3, <3>4, <3>5 DEF Job
  <2> QED BY <2>1 DEF Tick, TInv, TypeOK
<1> QED BY <1>1, <1>2, <1>3, <1>4, <1>5 DEF Tick, TInv, TypeOK

LEMMA TInvNext == TInv /\ [Next]_vars => TInv'
<1> SUFFICES ASSUME TInv, [Next]_vars PROVE TInv'
  OBVIOUS
<1>1. CASE UNCHANGED vars BY <1>1 DEF vars, TInv, TypeOK, EpochOpen
<1> QED BY <1>1, CoordinateType, AdministerType, RequestType, WriteType, CheckBatchType,
           TickType DEF Next

\* Type correctness: every row, LeaderState and operation is well formed in
\* every reachable state, and no lease is ever granted in epoch 0.
THEOREM TypeCorrect == Spec => []TypeOK
<1>1. TInv => TypeOK BY DEF TInv
<1> QED BY TInvInit, TInvNext, <1>1, PTL DEF Spec

----------------------------------------------------------------------------
(* Leadership                                                              *)

\* A node that read itself as the leader, with time left, is the leader, and
\* the store's deadline is not before the one it read.
LeaderKnown ==
    \A n \in Nodes : view[n].id = n /\ view[n].left > 0 =>
        leader.id = n /\ leader.epoch = view[n].epoch /\ leader.left >= view[n].left

\* The epoch a node last led in is not ahead of the store's and, while it is
\* the store's, the node is still the leader of record.
EpochKnown ==
    \A n \in Nodes : view[n].id = n =>
        view[n].epoch <= leader.epoch /\ (view[n].epoch = leader.epoch => leader.id = n)

LeaderInv == LeaderKnown /\ EpochKnown /\ EpochOwned

LEMMA LeaderInvInit == Init => LeaderInv
BY ConstantsOK DEF Init, LeaderInv, LeaderKnown, EpochKnown, EpochOwned, NoLeader

LEMMA AcquireLeaderInv ==
    ASSUME TInv, LeaderInv, NEW n \in Nodes, AcquireLeader(n)
    PROVE  LeaderInv'
<1> DEFINE new == Acquired(n)
<1>0. /\ leader \in LeaderState /\ view \in [Nodes -> LeaderState]
      /\ leader' = new /\ view' = [view EXCEPT ![n] = new]
  BY DEF AcquireLeader, TInv, TypeOK
<1>1. CASE leader.id = n /\ leader.left > 0
  <2>1. new.id = n /\ new.epoch = leader.epoch /\ new.left = LeaderLease
    BY <1>0, <1>1 DEF Acquired, LeaderState
  <2>2. \A m \in Nodes \ {n} : view'[m] = view[m] /\ (view[m].id = m => view[m].left <= 0)
    BY <1>0, <1>1, ConstantsOK DEF LeaderInv, LeaderKnown, LeaderState
  <2> QED BY <1>0, <1>1, <2>1, <2>2, ConstantsOK
          DEF LeaderInv, LeaderKnown, EpochKnown, EpochOwned, LeaderState
<1>2. CASE ~(leader.id = n /\ leader.left > 0) /\ (leader.id = None \/ leader.left <= 0)
  <2>1. new.id = n /\ new.epoch = leader.epoch + 1 /\ new.left = LeaderLease
    BY <1>0, <1>2 DEF Acquired, LeaderState
  <2>2. \A m \in Nodes \ {n} : /\ view'[m] = view[m]
                              /\ view[m].id = m => view[m].left <= 0 /\ view[m].epoch < new.epoch
    BY <1>0, <1>2, <2>1, ConstantsOK DEF LeaderInv, LeaderKnown, EpochKnown, LeaderState
  <2> QED BY <1>0, <2>1, <2>2, ConstantsOK
          DEF LeaderInv, LeaderKnown, EpochKnown, EpochOwned, LeaderState
<1>3. CASE leader.id # n /\ leader.id # None /\ ~(leader.left <= 0)
  <2>1. new = leader BY <1>3 DEF Acquired
  <2> QED BY <1>0, <1>3, <2>1 DEF LeaderInv, LeaderKnown, EpochKnown, EpochOwned
<1>4. leader.left \in Int BY <1>0 DEF LeaderState
<1> QED BY <1>1, <1>2, <1>3, <1>4

LEMMA LeaderInvNext == TInv /\ LeaderInv /\ [Next]_vars => LeaderInv'
<1> SUFFICES ASSUME TInv, LeaderInv, [Next]_vars PROVE LeaderInv'
  OBVIOUS
<1> USE DEF LeaderInv
<1>1. CASE UNCHANGED <<leader, view>>
  BY <1>1 DEF LeaderKnown, EpochKnown, EpochOwned
<1>2. ASSUME NEW n \in Nodes, AcquireLeader(n) PROVE LeaderInv'
  BY <1>2, AcquireLeaderInv
<1>3. ASSUME NEW n \in Nodes, Crash(n) PROVE LeaderInv'
  BY <1>3, ConstantsOK DEF Crash, NoLeader, LeaderKnown, EpochKnown, EpochOwned, TInv, TypeOK
<1>4. CASE Tick
  <2>1. /\ leader'.id = leader.id /\ leader'.epoch = leader.epoch
        /\ leader'.left = Passed(leader.left)
    BY <1>4 DEF Tick, TInv, TypeOK, LeaderState
  <2>2. \A n \in Nodes : /\ view'[n].id = view[n].id /\ view'[n].epoch = view[n].epoch
                         /\ view'[n].left = Passed(view[n].left)
    BY <1>4 DEF Tick, TInv, TypeOK, LeaderState
  <2>3. \A n \in Nodes : Passed(view[n].left) > 0 /\ leader.left >= view[n].left =>
            /\ view[n].left > 0
            /\ Passed(leader.left) >= Passed(view[n].left)
    BY ConstantsOK DEF Passed, TInv, TypeOK, LeaderState
  <2> QED BY <2>1, <2>2, <2>3, ConstantsOK
          DEF LeaderKnown, EpochKnown, EpochOwned, Passed, TInv, TypeOK, LeaderState
<1>5. ASSUME NEW n \in Nodes, Coordinate(n) PROVE LeaderInv'
  BY <1>2, <1>3, <1>5 DEF Coordinate, Start, LeadershipRound
<1>6. ASSUME NEW n \in Nodes, Administer(n) \/ Request(n) \/ Write(n) PROVE LeaderInv'
  <2>1. UNCHANGED <<leader, view>>
    BY <1>6 DEF Administer, SubmitCycle, CancelCycle, Drain, Undrain, Request, Lease,
        CheckRegister, CheckHeartbeat, CheckComplete, CheckFail, CheckOp, BeginUpload, Unchecked, Write
  <2> QED BY <1>1, <2>1
<1>7. ASSUME NEW u \in uploads, CheckBatch(u) PROVE LeaderInv'
  BY <1>1, <1>7 DEF CheckBatch, Unchecked
<1>8. CASE UNCHANGED vars BY <1>1, <1>8 DEF vars
<1> QED BY <1>4, <1>5, <1>6, <1>7, <1>8 DEF Next

\* However many coordinators share the store, at most one is active, and it
\* is the leader of record in the epoch it puts on the leases it grants.
THEOREM ActiveIsTheLeader == Spec => []ActiveIsLeader
<1>1. TInv /\ LeaderInv => ActiveIsLeader
  BY DEF TInv, TypeOK, LeaderState, LeaderInv, LeaderKnown, ActiveIsLeader, Active
<1> QED BY TInvInit, TInvNext, LeaderInvInit, LeaderInvNext, <1>1, PTL DEF Spec

\* No two coordinators ever lead in the same epoch.
THEOREM OneOwnerPerEpoch == Spec => []EpochOwned
<1>1. LeaderInv => EpochOwned BY DEF LeaderInv
<1> QED BY TInvInit, TInvNext, LeaderInvInit, LeaderInvNext, <1>1, PTL DEF Spec

----------------------------------------------------------------------------
(* Task rows                                                               *)

Holds(row) ==
    row.state = "leased" =>
        /\ row.owner \in Workers /\ row.left # None
        /\ row.epoch # None /\ row.epoch <= leader.epoch

Unleased(t) == cycles[CycleOf[t]] = "canceled" => tasks[t].state # "leased"

RowInv == \A t \in Tasks : Holds(tasks[t]) /\ Unleased(t)

LEMMA RowInvInit == Init => RowInv
BY DEF Init, RowInv, Holds, Unleased, NoTask

\* The epoch of the store never goes back.
LEMMA EpochGrows ==
    ASSUME TInv, [Next]_vars
    PROVE  leader'.epoch >= leader.epoch
<1>0. leader \in LeaderState BY DEF TInv, TypeOK
<1>1. CASE UNCHANGED leader BY <1>0, <1>1 DEF LeaderState
<1>2. ASSUME NEW n \in Nodes, AcquireLeader(n) PROVE leader'.epoch >= leader.epoch
  BY <1>0, <1>2 DEF AcquireLeader, Acquired, LeaderState
<1>3. CASE Tick BY <1>0, <1>3 DEF Tick, LeaderState
<1> QED BY <1>1, <1>2, <1>3 DEF Next, vars, Coordinate, Start, LeadershipRound, Crash,
        Administer, SubmitCycle, CancelCycle, Drain, Undrain, Request, Lease, CheckRegister,
        CheckHeartbeat, CheckComplete, CheckFail, CheckOp, BeginUpload, CheckBatch, Unchecked, Write

LEMMA RowInvNext == TInv /\ RowInv /\ [Next]_vars => RowInv'
<1> SUFFICES ASSUME TInv, RowInv, [Next]_vars, NEW t \in Tasks
             PROVE  Holds(tasks[t])' /\ Unleased(t)'
  BY DEF RowInv
<1>0. /\ tasks \in [Tasks -> Task] /\ leader \in LeaderState
      /\ cycles \in [Cycles -> {"absent", "open", "canceled"}]
      /\ Holds(tasks[t]) /\ Unleased(t) /\ CycleOf[t] \in Cycles
  BY ConstantsOK DEF TInv, TypeOK, RowInv
<1>1. leader'.epoch >= leader.epoch /\ leader.epoch \in Int /\ leader'.epoch \in Int
  BY <1>0, EpochGrows, TInvNext DEF TInv, TypeOK, LeaderState
<1> DEFINE Goal == Holds(tasks[t])' /\ Unleased(t)'
<1>2. CASE tasks'[t] = tasks[t] /\ UNCHANGED cycles
  BY <1>0, <1>1, <1>2 DEF Holds, Unleased, Task
<1>3. ASSUME tasks'[t].state # "leased" PROVE Goal
  BY <1>3 DEF Holds, Unleased
<1>4. ASSUME NEW n \in Nodes, NEW c \in Cycles, NEW sources \in SUBSET CycleTasks(c),
             SubmitCycle(n, c, sources)
      PROVE  Goal
  BY <1>0, <1>1, <1>4 DEF SubmitCycle, Holds, Unleased, Task
<1>5. ASSUME NEW n \in Nodes, NEW c \in Cycles, CancelCycle(n, c) PROVE Goal
  BY <1>0, <1>1, <1>5 DEF CancelCycle, Holds, Unleased, Task
<1>6. ASSUME NEW n \in Nodes, NEW w \in Workers, NEW fit \in BOOLEAN, NEW steal \in BOOLEAN,
             Lease(n, w, fit, steal)
      PROVE  Goal
  <2> DEFINE rowsNow == [u \in Tasks |-> Reclaimed(tasks[u])]
             granted(u) == [state |-> "leased", owner |-> w, left |-> TaskLease,
                            epoch |-> leader.epoch, attempts |-> rowsNow[u].attempts + 1]
  <2>1. UNCHANGED <<cycles, leader>> BY <1>6 DEF Lease
  <2>2. Holds(rowsNow[t]) /\ (rowsNow[t].state = "leased" => tasks[t].state = "leased")
    BY <1>0 DEF Reclaimed, Holds, Task
  <2>3. CASE tasks'[t] = rowsNow[t]
    BY <1>0, <2>1, <2>2, <2>3 DEF Holds, Unleased
  <2>4. CASE tasks'[t] = granted(t) /\ cycles[CycleOf[t]] = "open"
    BY <1>0, <1>1, <2>1, <2>4, ConstantsOK DEF Holds, Unleased, LeaderState
  <2>5. tasks'[t] = rowsNow[t] \/ (tasks'[t] = granted(t) /\ cycles[CycleOf[t]] = "open")
    <3>1. CASE tasks' = rowsNow BY <3>1
    <3>2. ASSUME NEW u \in Tasks, cycles[CycleOf[u]] = "open",
                 tasks' = [rowsNow EXCEPT ![u] = granted(u)]
          PROVE  tasks'[t] = rowsNow[t] \/ (tasks'[t] = granted(t) /\ cycles[CycleOf[t]] = "open")
      BY <3>2
    <3> QED BY <1>6, <3>1, <3>2 DEF Lease, Preferred
  <2> QED BY <2>3, <2>4, <2>5
<1>7. ASSUME NEW n \in Nodes, Write(n) PROVE Goal
  <2>0. UNCHANGED <<cycles, leader>> BY <1>7 DEF Write
  <2>4. job[n] \in Job \cup {NoJob} BY DEF TInv, TypeOK
  <2>1. CASE WriteHeartbeat(n)
    <3>1. job[n].left \in Left(TaskLease) BY <2>4, <2>1, JobKinds DEF WriteHeartbeat
    <3>2. job[n].left # None BY <3>1, ConstantsOK
    <3> QED BY <1>0, <2>0, <2>1, <3>2 DEF WriteHeartbeat, Holds, Unleased, Task
  <2>2. CASE WriteComplete(n) \/ WriteFail(n)
    <3>1. CASE job[n].claim.task = t
      <4>1. CASE WriteComplete(n)
        <5>1. tasks'[t] = [tasks[t] EXCEPT !.state = "completed", !.owner = None, !.left = None]
          BY <1>0, <3>1, <4>1 DEF WriteComplete
        <5> QED BY <1>0, <1>3, <5>1 DEF Task
      <4>2. CASE WriteFail(n)
        <5>1. PICK state \in {"queued", "failed"} :
                 tasks'[t] = [tasks[t] EXCEPT !.state = state, !.owner = None,
                                              !.left = None, !.epoch = None]
          BY <1>0, <3>1, <4>2 DEF WriteFail
        <5> QED BY <1>0, <1>3, <5>1 DEF Task
      <4> QED BY <2>2, <4>1, <4>2
    <3>2. CASE job[n].claim.task # t
      <4>1. tasks'[t] = tasks[t] BY <1>0, <2>2, <3>2 DEF WriteComplete, WriteFail
      <4> QED BY <1>2, <2>0, <4>1
    <3> QED BY <3>1, <3>2
  <2>3. CASE WriteBatch(n) \/ WriteRegister(n)
    BY <1>2, <2>0, <2>3 DEF WriteBatch, WriteRegister
  <2> QED BY <1>7, <2>1, <2>2, <2>3 DEF Write
<1>8. CASE Tick
  <2>1. tasks'[t] = [tasks[t] EXCEPT !.left = Passed(@)] /\ leader'.epoch = leader.epoch
    BY <1>0, <1>8 DEF Tick, LeaderState
  <2>2. tasks[t].left \in Left(TaskLease) \cup {None} BY <1>0 DEF Task
  <2>3. tasks[t].left # None => Passed(tasks[t].left) # None
    BY <2>2, PassedType, ConstantsOK
  <2> QED BY <1>0, <1>8, <2>1, <2>3 DEF Tick, Holds, Unleased, Task
<1> QED BY <1>2, <1>4, <1>5, <1>6, <1>7, <1>8 DEF Next, vars, Coordinate, Start,
        LeadershipRound, Crash, Administer, Drain, Undrain, Request, CheckRegister,
        CheckHeartbeat, CheckComplete, CheckFail, CheckOp, BeginUpload, CheckBatch, Unchecked

\* No lease row leaks: whatever a coordinator writes after it was overtaken,
\* a leased task names the worker, the deadline and the epoch that end it.
THEOREM LeasesEnd == Spec => []LeaseHasHolder
<1>1. RowInv => LeaseHasHolder BY DEF RowInv, Holds, LeaseHasHolder
<1> QED BY TInvInit, TInvNext, RowInvInit, RowInvNext, <1>1, PTL DEF Spec

\* A canceled cycle has no leased task, ever again.
THEOREM CancelIsFinal == Spec => []CanceledNeverLeased
<1>1. RowInv => CanceledNeverLeased BY DEF RowInv, Unleased, CanceledNeverLeased
<1> QED BY TInvInit, TInvNext, RowInvInit, RowInvNext, <1>1, PTL DEF Spec

----------------------------------------------------------------------------
(* Operations that are not overtaken (SerialSpec)                          *)

\* The task row and the leader row are still those the operation checked.
Current(claim) ==
    /\ tasks[claim.task].state = "leased"
    /\ tasks[claim.task].owner = claim.worker
    /\ tasks[claim.task].epoch = claim.epoch
    /\ leader.epoch = claim.epoch

JobCurrent == \A n \in Nodes : job[n] # NoJob /\ job[n].op # "register" => Current(job[n].claim)

\* Only a running coordinator has an operation or an upload in progress.
Running ==
    /\ \A n \in Nodes : job[n] # NoJob => n \in up
    /\ \A u \in uploads : u.node \in up

\* A registration that will make its worker active did not read it in quarantine.
Seen(j) ==
    j.op = "register" /\ workers[j.worker].state = "quarantined" /\ workers[j.worker].left > 0
        => j.state # "active"

\* An operation in progress after a step has just passed its check, on the
\* rows as they are, or was in progress before.
LEMMA JobStep ==
    ASSUME TInv, Running, [Next]_vars, NEW n \in Nodes, job'[n] # NoJob
    PROVE  /\ n \in up'
           /\ \/ /\ UNCHANGED rows
                 /\ job'[n].op # "register" => job'[n].claim \in Claim /\ LeaseValid(job'[n].claim)
                 /\ Seen(job'[n])
              \/ job[n] # NoJob /\ job'[n] = job[n]
              \/ job[n] # NoJob /\ Tick /\ job'[n] = [job[n] EXCEPT !.left = Passed(@)]
<1> DEFINE Goal == /\ n \in up'
                   /\ \/ /\ UNCHANGED rows
                         /\ job'[n].op # "register" => job'[n].claim \in Claim /\ LeaseValid(job'[n].claim)
                         /\ Seen(job'[n])
                      \/ job[n] # NoJob /\ job'[n] = job[n]
                      \/ job[n] # NoJob /\ Tick /\ job'[n] = [job[n] EXCEPT !.left = Passed(@)]
<1>0. job \in [Nodes -> Job \cup {NoJob}] /\ uploads \subseteq Upload
  BY DEF TInv, TypeOK
<1>1. CASE UNCHANGED <<job, up>> BY <1>1 DEF Running
<1>2. ASSUME NEW m \in Nodes, Coordinate(m) PROVE Goal
  <2>1. CASE Crash(m) BY <1>0, <2>1 DEF Crash, Running
  <2>2. ASSUME job' = job, up \subseteq up' PROVE Goal BY <2>2 DEF Running
  <2> QED BY <1>2, <2>1, <2>2 DEF Coordinate, Start, LeadershipRound
<1>3. ASSUME NEW m \in Nodes, Administer(m) PROVE Goal
  BY <1>1, <1>3 DEF Administer, SubmitCycle, CancelCycle, Drain, Undrain
<1>4. ASSUME NEW m \in Nodes, NEW j, m \in up, UNCHANGED rows, UNCHANGED up,
             job' = [job EXCEPT ![m] = j],
             j.op # "register" => j.claim \in Claim /\ LeaseValid(j.claim), Seen(j)
      PROVE  Goal
  BY <1>0, <1>4 DEF Running
<1>5. ASSUME NEW m \in Nodes, NEW claim \in Claim, NEW op, NEW left, CheckOp(m, claim, op, left),
             op # "register"
      PROVE  Goal
  BY <1>4, <1>5 DEF CheckOp, Serving, Active, Unchecked, rows, Seen
<1>6. ASSUME NEW m \in Nodes, Request(m) PROVE Goal
  <2>1. ASSUME NEW w \in Workers, CheckRegister(m, w) PROVE Goal
    <3> DEFINE row == Readmitted(workers[w])
               j == [op |-> "register", worker |-> w, left |-> row.left,
                     state |-> IF row.state = "absent" THEN "active" ELSE row.state]
    <3>1. job' = [job EXCEPT ![m] = j] /\ j.op = "register"
      BY <2>1 DEF CheckRegister
    <3>2. workers[w] \in Worker BY DEF TInv, TypeOK
    <3>3. Seen(j) BY <3>2, ConstantsOK DEF Seen, Readmitted, QuarantineOver, Worker
    <3> HIDE DEF j
    <3> QED BY <1>4, <2>1, <3>1, <3>3 DEF CheckRegister, Serving, Active, Unchecked, rows
  <2>2. ASSUME NEW claim \in Claim, CheckHeartbeat(m, claim) \/ CheckComplete(m, claim)
        PROVE  Goal
    BY <1>5, <2>2 DEF CheckHeartbeat, CheckComplete
  <2>3. ASSUME NEW claim \in Claim, NEW requeue \in BOOLEAN, CheckFail(m, claim, requeue)
        PROVE  Goal
    BY <1>5, <2>3 DEF CheckFail
  <2>4. CASE UNCHANGED <<job, up>> BY <1>1, <2>4
  <2> QED BY <1>6, <2>1, <2>2, <2>3, <2>4 DEF Request, Lease, BeginUpload, Unchecked
<1>7. ASSUME NEW m \in Nodes, Write(m) PROVE Goal
  BY <1>0, <1>7 DEF Write, Running
<1>8. ASSUME NEW u \in uploads, CheckBatch(u) PROVE Goal
  <2>1. u \in Upload /\ u.node \in Nodes /\ u.claim \in Claim BY <1>0 DEF Upload
  <2>2. CASE LeaseValid(u.claim)
    BY <1>4, <1>8, <2>1, <2>2 DEF CheckBatch, Unchecked, rows, Running, Seen
  <2>3. CASE ~LeaseValid(u.claim) BY <1>1, <1>8, <2>3 DEF CheckBatch, Unchecked
  <2> QED BY <2>2, <2>3
<1>9. CASE Tick BY <1>0, <1>9 DEF Tick, Running
<1> QED BY <1>1, <1>2, <1>3, <1>6, <1>7, <1>8, <1>9 DEF Next, vars

LEMMA RunningInit == Init => Running
BY DEF Init, Running

LEMMA RunningNext == TInv /\ Running /\ [Next]_vars => Running'
<1> SUFFICES ASSUME TInv, Running, [Next]_vars PROVE Running'
  OBVIOUS
<1>1. \A n \in Nodes : job'[n] # NoJob => n \in up' BY JobStep
<1> DEFINE Goal == \A u \in uploads' : u.node \in up'
<1>2. ASSUME uploads' \subseteq uploads, up \subseteq up' PROVE Goal
  BY <1>2 DEF Running
<1>3. ASSUME NEW n \in Nodes, Coordinate(n) PROVE Goal
  <2>1. CASE Crash(n) BY <2>1 DEF Crash, Running
  <2> QED BY <1>2, <1>3, <2>1 DEF Coordinate, Start, LeadershipRound
<1>4. ASSUME NEW n \in Nodes, Request(n) PROVE Goal
  <2>1. ASSUME NEW claim \in Claim, NEW b \in Batches, BeginUpload(n, claim, b) PROVE Goal
    BY <2>1 DEF BeginUpload, Unchecked, Serving, Active, Running
  <2> QED BY <1>2, <1>4, <2>1 DEF Request, Lease, CheckRegister, CheckHeartbeat, CheckComplete,
          CheckFail, CheckOp, Unchecked
<1>5. ASSUME NEW n \in Nodes, Administer(n) \/ Write(n) PROVE Goal
  BY <1>2, <1>5 DEF Administer, SubmitCycle, CancelCycle, Drain, Undrain, Write
<1>6. ASSUME NEW u \in uploads, CheckBatch(u) PROVE Goal
  BY <1>2, <1>6 DEF CheckBatch, Unchecked
<1>7. Goal BY <1>2, <1>3, <1>4, <1>5, <1>6 DEF Next, vars, Tick
<1> QED BY <1>1, <1>7 DEF Running

LEMMA JobCurrentInit == Init => JobCurrent
BY DEF Init, JobCurrent

LEMMA JobCurrentNext == TInv /\ Running /\ JobCurrent /\ [SerialNext]_vars => JobCurrent'
<1> SUFFICES ASSUME TInv, Running, JobCurrent, [SerialNext]_vars, NEW n \in Nodes,
                    job'[n] # NoJob, job'[n].op # "register"
             PROVE  Current(job[n].claim)'
  BY DEF JobCurrent
<1>0. [Next]_vars BY DEF SerialNext
<1>1. CASE UNCHANGED rows /\ LeaseValid(job'[n].claim)
  BY <1>1 DEF rows, LeaseValid, Current
<1>2. CASE job[n] # NoJob /\ job'[n] = job[n] /\ UNCHANGED rows
  BY <1>2 DEF JobCurrent, Current, rows
<1>3. CASE job[n] # NoJob /\ Tick /\ job'[n].claim = job[n].claim /\ job'[n].op = job[n].op
  <2>1. Current(job[n].claim) BY <1>3 DEF JobCurrent
  <2>2. job[n].claim \in Claim
    <3>1. job[n] \in Job BY <1>3 DEF TInv, TypeOK
    <3> QED BY <1>3, <3>1 DEF Job, LeaseJob, RegisterJob
  <2> QED BY <1>3, <2>1, <2>2 DEF Current, Tick, Claim, TInv, TypeOK, Task, LeaderState
<1>4. job[n] # NoJob /\ job'[n] = job[n] => UNCHANGED rows \/ Tick
  BY DEF SerialNext, Undisturbed, vars, rows
<1>5. job[n] # NoJob /\ job'[n] = [job[n] EXCEPT !.left = Passed(@)]
        => job'[n].claim = job[n].claim /\ job'[n].op = job[n].op
  <2>1. job \in [Nodes -> Job \cup {NoJob}] BY DEF TInv, TypeOK
  <2> QED BY <2>1 DEF Job, LeaseJob, RegisterJob
<1> QED BY <1>0, <1>1, <1>2, <1>3, <1>4, <1>5, JobStep

\* While no commit of another coordinator overtakes an operation, what is
\* written under an epoch that is over is nothing.
THEOREM StaleEpochWritesNothing == SerialSpec => FencedMutation
<1>1. JobCurrent => [\A n \in Nodes : Writes(n) /\ job[n].claim.epoch # leader.epoch
                          => UNCHANGED <<tasks, workers, batches>>]_vars
  BY DEF JobCurrent, Current, Writes
<1>2. [SerialNext]_vars => [Next]_vars BY DEF SerialNext
<1> QED BY TInvInit, TInvNext, RunningInit, RunningNext, JobCurrentInit, JobCurrentNext,
           <1>1, <1>2, PTL DEF SerialSpec, FencedMutation

\* The steps that make a worker active.
LEMMA ReactivatingStep ==
    ASSUME TInv, [Next]_vars, NEW w \in Workers,
           workers[w].state = "quarantined", workers[w].left > 0, workers'[w].state = "active"
    PROVE  \E n \in Nodes : Undrain(n, w) \/ (Write(n) /\ ReadActive(job[n], w))
<1>0. /\ workers \in [Workers -> Worker] /\ workers[w] \in Worker
      /\ job \in [Nodes -> Job \cup {NoJob}]
  BY DEF TInv, TypeOK
<1>1. workers' # workers BY DEF Worker
<1>2. ASSUME NEW n \in Nodes, Administer(n) PROVE Undrain(n, w)
  <2>1. ASSUME NEW v \in Workers, Drain(n, v) PROVE FALSE
    BY <1>0, <2>1 DEF Drain, Worker
  <2>2. ASSUME NEW v \in Workers, Undrain(n, v) PROVE v = w
    BY <1>0, <2>2 DEF Undrain, Worker
  <2> QED BY <1>1, <1>2, <2>1, <2>2 DEF Administer, SubmitCycle, CancelCycle
<1>3. ASSUME NEW n \in Nodes, Request(n) PROVE FALSE
  <2>1. ASSUME NEW v \in Workers, NEW fit \in BOOLEAN, NEW steal \in BOOLEAN, Lease(n, v, fit, steal)
        PROVE  FALSE
    <3>1. workers' = [workers EXCEPT ![v] = Readmitted(workers[v])] BY <2>1 DEF Lease
    <3>2. Readmitted(workers[w]) = workers[w]
      BY <1>0, ConstantsOK DEF Readmitted, QuarantineOver, Worker
    <3> QED BY <1>0, <1>1, <3>1, <3>2
  <2> QED BY <1>1, <1>3, <2>1 DEF Request, CheckRegister, CheckHeartbeat, CheckComplete, CheckFail,
          CheckOp, BeginUpload, Unchecked
<1>4. ASSUME NEW n \in Nodes, Write(n) PROVE ReadActive(job[n], w)
  <2>1. CASE WriteComplete(n) BY <1>0, <2>1 DEF WriteComplete, Worker
  <2>2. CASE WriteFail(n)
    <3>1. workers' = [workers EXCEPT ![job[n].claim.worker] = Failed(@, job[n].left)]
      BY <2>2 DEF WriteFail
    <3>2. Failed(workers[w], job[n].left).state = "quarantined"
      BY <1>0 DEF Failed, Worker
    <3> QED BY <1>0, <3>1, <3>2
  <2>3. CASE WriteRegister(n)
    <3>1. job[n].worker \in Workers BY <1>0, <2>3, JobKinds DEF WriteRegister
    <3>2. workers' = [workers EXCEPT ![job[n].worker].state = job[n].state,
                                     ![job[n].worker].left = job[n].left]
      BY <2>3 DEF WriteRegister
    <3>3. job[n].worker = w /\ job[n].state = "active" BY <1>0, <3>1, <3>2 DEF Worker
    <3> QED BY <2>3, <3>3 DEF WriteRegister, ReadActive
  <2> QED BY <1>1, <1>4, <2>1, <2>2, <2>3 DEF Write, WriteHeartbeat, WriteBatch
<1>5. CASE Tick BY <1>0, <1>5 DEF Tick, Worker
<1> QED BY <1>1, <1>2, <1>3, <1>4, <1>5 DEF Next, vars, Coordinate, Start, LeadershipRound, Crash,
        CheckBatch, Unchecked

\* No registration begins to see a worker active that is in quarantine.
LEMMA RegistrationsSee ==
    ASSUME TInv, Running, [Next]_vars, NEW w \in Workers,
           workers[w].state = "quarantined", workers[w].left > 0,
           NEW n \in Nodes, ReadActive(job'[n], w)
    PROVE  ReadActive(job[n], w)
<1>1. job'[n] # NoJob BY DEF ReadActive, NoJob
<1>2. ~Seen(job'[n]) BY DEF Seen, ReadActive
<1>3. job[n] \in Job \cup {NoJob} BY DEF TInv, TypeOK
<1>4. CASE job'[n] = job[n] BY <1>4
<1>5. CASE job[n] # NoJob /\ job'[n] = [job[n] EXCEPT !.left = Passed(@)]
  <2>1. job'[n].op = job[n].op BY <1>3, <1>5 DEF Job, LeaseJob, RegisterJob
  <2>2. job[n] \in RegisterJob BY <1>3, <1>5, <2>1 DEF Job, LeaseJob, ReadActive
  <2> QED BY <1>5, <2>1, <2>2 DEF RegisterJob, ReadActive
<1> QED BY <1>1, <1>2, <1>4, <1>5, JobStep

\* Whichever coordinators run and however their operations overtake one another, a
\* quarantine ends early only by the admin's undrain or by the write of a registration that
\* had read the worker before the quarantine: none that begins during it lifts it.
THEOREM QuarantineIsServed == Spec => QuarantineServed
<1>1. TInv /\ Running /\ [Next]_vars =>
        [\A w \in Workers : workers[w].state = "quarantined" /\ workers[w].left > 0 =>
          /\ workers'[w].state = "active" =>
                \E n \in Nodes : Undrain(n, w) \/ (Write(n) /\ ReadActive(job[n], w))
          /\ \A n \in Nodes : ReadActive(job'[n], w) => ReadActive(job[n], w)]_vars
  BY ReactivatingStep, RegistrationsSee
<1> QED BY TInvInit, TInvNext, RunningInit, RunningNext, <1>1, PTL DEF Spec, QuarantineServed

\* The task rows once a lease request has taken back what has expired.
Now == [t \in Tasks |-> Reclaimed(tasks[t])]

\* The rows a lease request leaves: at most one task more is handed out.
LEMMA LeaseRows ==
    ASSUME TInv, NEW n \in Nodes, NEW w \in Workers, NEW fit \in BOOLEAN, NEW steal \in BOOLEAN,
           Lease(n, w, fit, steal)
    PROVE  \/ tasks' = Now
           \/ \E t \in Tasks : /\ Now[t].state = "queued" /\ cycles[CycleOf[t]] = "open"
                               /\ tasks' = [Now EXCEPT ![t] =
                                     [state |-> "leased", owner |-> w, left |-> TaskLease,
                                      epoch |-> leader.epoch, attempts |-> @.attempts + 1]]
BY DEF Lease, Preferred, Now

\* An operation on a lease that is about to write.
LEMMA WritingJob ==
    ASSUME TInv, Running, JobCurrent, NEW n \in Nodes, Write(n),
           job[n].op \in {"complete", "fail", "requeue", "batch"}
    PROVE  /\ job[n].claim \in Claim /\ Current(job[n].claim) /\ Writes(n)
           /\ job[n].op = "batch" => job[n].batch \in Batches
<1>1. job \in [Nodes -> Job \cup {NoJob}] BY DEF TInv, TypeOK
<1>2. /\ job[n].claim \in Claim
      /\ job[n].op = "batch" => job[n].batch \in Batches
  BY <1>1, JobKinds
<1>3. Current(job[n].claim) BY DEF JobCurrent, Write
<1> QED BY <1>1, <1>2, <1>3 DEF Write, Writes, Running

LEMMA LeaseTakenBack ==
    ASSUME TInv, Running, JobCurrent, [Next]_vars, NEW t \in Tasks,
           tasks[t].state = "leased", tasks[t].left > 0,
           \/ tasks'[t].state # "leased"
           \/ tasks'[t].owner # tasks[t].owner
           \/ tasks'[t].epoch # tasks[t].epoch
    PROVE  \/ cycles'[CycleOf[t]] = "canceled"
           \/ \E n \in Nodes :
                 /\ Writes(n)
                 /\ job[n].claim = [task |-> t, worker |-> tasks[t].owner, epoch |-> tasks[t].epoch]
<1>0. /\ tasks \in [Tasks -> Task] /\ tasks[t] \in Task
      /\ cycles \in [Cycles -> {"absent", "open", "canceled"}] /\ CycleOf[t] \in Cycles
  BY ConstantsOK DEF TInv, TypeOK
<1>1. tasks'[t] # tasks[t] OBVIOUS
<1> DEFINE Goal == \/ cycles'[CycleOf[t]] = "canceled"
                   \/ \E n \in Nodes :
                         /\ Writes(n)
                         /\ job[n].claim = [task |-> t, worker |-> tasks[t].owner,
                                            epoch |-> tasks[t].epoch]
<1>2. ASSUME NEW n \in Nodes, Administer(n) PROVE Goal
  <2>1. ASSUME NEW c \in Cycles, NEW sources \in SUBSET CycleTasks(c), SubmitCycle(n, c, sources)
        PROVE  FALSE
    BY <1>0, <1>1, <2>1 DEF SubmitCycle
  <2>2. ASSUME NEW c \in Cycles, CancelCycle(n, c) PROVE Goal
    BY <1>0, <1>1, <2>2 DEF CancelCycle
  <2> QED BY <1>1, <1>2, <2>1, <2>2 DEF Administer, Drain, Undrain
<1>3. ASSUME NEW n \in Nodes, NEW w \in Workers, NEW fit \in BOOLEAN, NEW steal \in BOOLEAN,
             Lease(n, w, fit, steal)
      PROVE  FALSE
  <2>1. Now[t] = tasks[t] BY <1>0, ConstantsOK DEF Now, Reclaimed, Task
  <2>2. Now \in [Tasks -> Task] BY <1>0, ReclaimedType DEF Now
  <2>3. tasks'[t] = Now[t]
    <3>1. CASE tasks' = Now BY <3>1
    <3>2. ASSUME NEW u \in Tasks, Now[u].state = "queued",
                 tasks' = [Now EXCEPT ![u] =
                             [state |-> "leased", owner |-> w, left |-> TaskLease,
                              epoch |-> leader.epoch, attempts |-> @.attempts + 1]]
          PROVE  tasks'[t] = Now[t]
      <4>1. u # t BY <2>1, <3>2
      <4> QED BY <2>2, <3>2, <4>1
    <3> QED BY <1>3, <3>1, <3>2, LeaseRows
  <2> QED BY <1>1, <2>1, <2>3
<1>4. ASSUME NEW n \in Nodes, Write(n) PROVE Goal
  <2>1. CASE WriteComplete(n) \/ WriteFail(n)
    <3>1. /\ job[n].claim \in Claim /\ Current(job[n].claim) /\ Writes(n)
      BY <1>4, <2>1, WritingJob DEF WriteComplete, WriteFail
    <3>2. job[n].claim.task = t
      BY <1>0, <1>1, <2>1 DEF WriteComplete, WriteFail
    <3>3. job[n].claim = [task |-> t, worker |-> tasks[t].owner, epoch |-> tasks[t].epoch]
      BY <3>1, <3>2 DEF Current, Claim
    <3> QED BY <3>1, <3>3
  <2>2. CASE WriteHeartbeat(n) BY <1>0, <2>2 DEF WriteHeartbeat, Task
  <2> QED BY <1>1, <1>4, <2>1, <2>2 DEF Write, WriteBatch, WriteRegister
<1>5. CASE Tick BY <1>0, <1>5 DEF Tick, Task
<1>6. ASSUME NEW n \in Nodes, Request(n) PROVE FALSE
  BY <1>1, <1>3, <1>6 DEF Request, CheckRegister, CheckHeartbeat, CheckComplete, CheckFail,
     CheckOp, BeginUpload, Unchecked
<1> QED BY <1>1, <1>2, <1>4, <1>5, <1>6 DEF Next, vars, Coordinate, Start, LeadershipRound,
        Crash, CheckBatch, Unchecked

\* A lease that has not run out ends by its own worker's complete or fail, or
\* with its cycle, and in no other way.
THEOREM LiveLeaseIsExclusive == SerialSpec => LiveLeaseExclusive
<1> DEFINE Kept ==
      \A t \in Tasks :
         LET row == tasks[t]
             mine == [task |-> t, worker |-> row.owner, epoch |-> row.epoch]
         IN  /\ row.state = "leased" /\ row.left > 0
             /\ \/ tasks'[t].state # "leased"
                \/ tasks'[t].owner # row.owner
                \/ tasks'[t].epoch # row.epoch
             => \/ cycles'[CycleOf[t]] = "canceled"
                \/ \E n \in Nodes : Writes(n) /\ job[n].claim = mine
<1>1. [SerialNext]_vars => [Next]_vars BY DEF SerialNext
<1>2. TInv /\ Running /\ JobCurrent /\ [SerialNext]_vars => [Kept]_vars
  BY <1>1, LeaseTakenBack
<1> QED BY TInvInit, TInvNext, RunningInit, RunningNext, JobCurrentInit, JobCurrentNext,
           <1>1, <1>2, PTL DEF SerialSpec, LiveLeaseExclusive

----------------------------------------------------------------------------
(* The task ledger                                                         *)

\* What a step that leaves tasks, results and cancellations alone is to it.
LEMMA LedgerStutter ==
    ASSUME batches' = batches, cycles' = cycles,
           \A t \in Tasks : tasks'[t].state = tasks[t].state /\ tasks'[t].owner = tasks[t].owner
    PROVE  UNCHANGED Ledger!vars
BY DEF Ledger!vars

LEMMA LedgerAssign ==
    ASSUME NEW back \in SUBSET Tasks, NEW out \in SUBSET Tasks, NEW w,
           batches' = batches, cycles' = cycles,
           \A t \in back : tasks[t].state = "leased",
           \A t \in out : /\ tasks[t].state = "queued" \/ t \in back
                          /\ cycles[CycleOf[t]] # "canceled",
           \A t \in Tasks :
               /\ tasks'[t].state = IF t \in out THEN "leased"
                                    ELSE IF t \in back THEN "queued" ELSE tasks[t].state
               /\ tasks'[t].owner = IF t \in out THEN w
                                    ELSE IF t \in back THEN None ELSE tasks[t].owner
    PROVE  Ledger!Assign(back, [s \in out |-> w])
<1> DEFINE f == [s \in out |-> w]
<1>1. DOMAIN f = out /\ \A s \in out : f[s] = w OBVIOUS
<1> HIDE DEF f
<1>2. [t \in Tasks |-> tasks'[t].state]
        = [t \in Tasks |-> IF t \in DOMAIN f THEN "leased"
                           ELSE IF t \in back THEN "queued" ELSE tasks[t].state]
  BY <1>1
<1>3. [t \in Tasks |-> tasks'[t].owner]
        = [t \in Tasks |-> IF t \in DOMAIN f THEN f[t]
                           ELSE IF t \in back THEN None ELSE tasks[t].owner]
  BY <1>1
<1>4. Ledger!Assign(back, f) BY <1>1, <1>2, <1>3 DEF Ledger!Assign
<1> QED BY <1>4 DEF f

LEMMA LeaseAssigns ==
    ASSUME TInv, NEW n \in Nodes, NEW w \in Workers, NEW fit \in BOOLEAN, NEW steal \in BOOLEAN,
           Lease(n, w, fit, steal)
    PROVE  Ledger!Next
<1> DEFINE back == {t \in Tasks : tasks[t].state = "leased" /\ Now[t].state = "queued"}
<1>0. tasks \in [Tasks -> Task] /\ Now \in [Tasks -> Task] /\ batches' = batches /\ cycles' = cycles
  BY ReclaimedType DEF Lease, TInv, TypeOK, Now
<1>1. \A t \in Tasks :
         /\ Now[t].state = IF t \in back THEN "queued" ELSE tasks[t].state
         /\ Now[t].owner = IF t \in back THEN None ELSE tasks[t].owner
  BY <1>0 DEF Now, Reclaimed, Task
<1>2. back \in SUBSET Tasks /\ \A t \in back : tasks[t].state = "leased" OBVIOUS
<1> HIDE DEF back
<1>3. CASE tasks' = Now
  <2>1. Ledger!Assign(back, [t \in {} |-> None])
    BY <1>0, <1>1, <1>2, <1>3, LedgerAssign
  <2> QED BY <1>2, <2>1 DEF Ledger!Next
<1>4. ASSUME NEW t \in Tasks, Now[t].state = "queued", cycles[CycleOf[t]] = "open",
             tasks' = [Now EXCEPT ![t] =
                         [state |-> "leased", owner |-> w, left |-> TaskLease,
                          epoch |-> leader.epoch, attempts |-> @.attempts + 1]]
      PROVE  Ledger!Next
  <2>1. ASSUME NEW s \in Tasks
        PROVE  /\ tasks'[s].state = IF s \in {t} THEN "leased"
                                    ELSE IF s \in back THEN "queued" ELSE tasks[s].state
               /\ tasks'[s].owner = IF s \in {t} THEN w
                                    ELSE IF s \in back THEN None ELSE tasks[s].owner
    BY <1>0, <1>1, <1>4
  <2>2. \A s \in {t} : /\ tasks[s].state = "queued" \/ s \in back
                       /\ cycles[CycleOf[s]] # "canceled"
    BY <1>1, <1>4
  <2>3. {t} \in SUBSET Tasks OBVIOUS
  <2>4. Ledger!Assign(back, [s \in {t} |-> w])
    BY <1>0, <1>2, <2>1, <2>2, <2>3, LedgerAssign
  <2> QED BY <1>2, <2>4 DEF Ledger!Next
<1> QED BY <1>3, <1>4, LeaseRows

LEMMA SubmitSubmits ==
    ASSUME TInv, NEW n \in Nodes, NEW c \in Cycles, NEW sources \in SUBSET CycleTasks(c),
           SubmitCycle(n, c, sources)
    PROVE  Ledger!Next
<1> PICK new \in SUBSET Tasks : new = {t \in sources : tasks[t].state = "absent"}
  BY DEF CycleTasks
<1>0. /\ tasks \in [Tasks -> Task] /\ cycles \in [Cycles -> {"absent", "open", "canceled"}]
      /\ batches' = batches
      /\ cycles' = [cycles EXCEPT ![c] = IF @ = "absent" THEN "open" ELSE @]
  BY DEF TInv, TypeOK, CycleTasks, SubmitCycle
<1>1. \A t \in Tasks : /\ tasks'[t].state = IF t \in new THEN "queued" ELSE tasks[t].state
                       /\ tasks'[t].owner = tasks[t].owner
  BY <1>0 DEF SubmitCycle, Task
<1>2. \A t \in new : tasks[t].state = "absent" OBVIOUS
<1>3. {d \in Cycles : cycles'[d] = "canceled"} = {d \in Cycles : cycles[d] = "canceled"}
  <2>1. \A d \in Cycles : cycles'[d] = "canceled" <=> cycles[d] = "canceled" BY <1>0
  <2> QED BY <2>1
<1>4. Ledger!Submit(new) BY <1>0, <1>1, <1>2, <1>3 DEF Ledger!Submit
<1> QED BY <1>4 DEF Ledger!Next

LEMMA CancelCancels ==
    ASSUME TInv, NEW n \in Nodes, NEW c \in Cycles, CancelCycle(n, c)
    PROVE  Ledger!Next
<1> DEFINE dropped == {t \in Tasks : CycleOf[t] = c /\ tasks[t].state \in {"queued", "leased"}}
<1>0. /\ tasks \in [Tasks -> Task] /\ cycles \in [Cycles -> {"absent", "open", "canceled"}]
      /\ batches' = batches /\ cycles' = [cycles EXCEPT ![c] = "canceled"]
  BY DEF TInv, TypeOK, CancelCycle
<1>1. \A t \in Tasks : /\ tasks'[t].state = IF t \in dropped THEN "canceled" ELSE tasks[t].state
                       /\ tasks'[t].owner = IF t \in dropped THEN None ELSE tasks[t].owner
  <2> SUFFICES ASSUME NEW t \in Tasks
               PROVE  /\ tasks'[t].state = IF t \in dropped THEN "canceled" ELSE tasks[t].state
                      /\ tasks'[t].owner = IF t \in dropped THEN None ELSE tasks[t].owner
    OBVIOUS
  <2>1. CASE t \in dropped
    <3>1. tasks'[t] = [tasks[t] EXCEPT !.state = "canceled", !.owner = None,
                                       !.left = None, !.epoch = None]
      BY <2>1 DEF CancelCycle
    <3> QED BY <1>0, <2>1, <3>1 DEF Task
  <2>2. CASE t \notin dropped
    <3>1. tasks'[t] = tasks[t] BY <2>2 DEF CancelCycle
    <3> QED BY <2>2, <3>1
  <2> QED BY <2>1, <2>2
<1>2. {d \in Cycles : cycles'[d] = "canceled"} = {d \in Cycles : cycles[d] = "canceled"} \cup {c}
  <2>1. \A d \in Cycles : cycles'[d] = "canceled" <=> cycles[d] = "canceled" \/ d = c BY <1>0
  <2> QED BY <2>1
<1>3. Ledger!Cancel(c) BY <1>0, <1>1, <1>2 DEF Ledger!Cancel
<1> QED BY <1>3 DEF Ledger!Next

LEMMA WriteEnds ==
    ASSUME TInv, Running, JobCurrent, NEW n \in Nodes, Write(n)
    PROVE  Ledger!Next \/ UNCHANGED Ledger!vars
<1> DEFINE t == job[n].claim.task
           w == job[n].claim.worker
<1>0. /\ tasks \in [Tasks -> Task] /\ batches \in [Tasks -> SUBSET Batches] /\ cycles' = cycles
  BY DEF TInv, TypeOK, Write
<1>1. ASSUME job[n].op \in {"complete", "fail", "requeue", "batch"}
      PROVE  /\ t \in Tasks /\ w \in Workers /\ tasks[t].state = "leased" /\ tasks[t].owner = w
             /\ job[n].op = "batch" => job[n].batch \in Batches
  BY <1>1, WritingJob DEF Claim, Current
<1>2. CASE WriteHeartbeat(n)
  <2>1. \A s \in Tasks : tasks'[s].state = tasks[s].state /\ tasks'[s].owner = tasks[s].owner
    BY <1>0, <1>2 DEF WriteHeartbeat, Task
  <2> QED BY <1>0, <1>2, <2>1, LedgerStutter DEF WriteHeartbeat
<1>3. CASE WriteRegister(n) BY <1>0, <1>3, LedgerStutter DEF WriteRegister
<1>4. CASE WriteBatch(n)
  <2>1. t \in Tasks /\ w \in Workers /\ job[n].batch \in Batches
    BY <1>1, <1>4 DEF WriteBatch
  <2>2. Ledger!Deliver(t, w, job[n].batch)
    BY <1>0, <1>1, <1>4, <2>1 DEF WriteBatch, Ledger!Deliver
  <2> QED BY <2>1, <2>2 DEF Ledger!Next
<1>5. ASSUME NEW state \in {"completed", "failed", "queued"}, batches' = batches,
             t \in Tasks, tasks' = [tasks EXCEPT ![t] = tasks'[t]],
             tasks'[t].state = state, tasks'[t].owner = None
      PROVE  \A s \in Tasks : /\ tasks'[s].state = IF s = t THEN state ELSE tasks[s].state
                              /\ tasks'[s].owner = IF s = t THEN None ELSE tasks[s].owner
  BY <1>0, <1>5
<1>6. ASSUME NEW outcome \in {"completed", "failed"}, batches' = batches,
             t \in Tasks, w \in Workers, tasks[t].state = "leased", tasks[t].owner = w,
             tasks' = [tasks EXCEPT ![t] = tasks'[t]],
             tasks'[t].state = outcome, tasks'[t].owner = None
      PROVE  Ledger!Next
  <2>1. \A s \in Tasks : /\ tasks'[s].state = IF s = t THEN outcome ELSE tasks[s].state
                         /\ tasks'[s].owner = IF s = t THEN None ELSE tasks[s].owner
    BY <1>5, <1>6
  <2>2. Ledger!Finish(t, w, outcome) BY <1>0, <1>6, <2>1 DEF Ledger!Finish
  <2> QED BY <1>6, <2>2 DEF Ledger!Next
<1>7. CASE WriteComplete(n)
  <2>1. /\ t \in Tasks /\ w \in Workers /\ tasks[t].state = "leased" /\ tasks[t].owner = w
        /\ batches' = batches
    BY <1>1, <1>7 DEF WriteComplete
  <2>2. /\ tasks' = [tasks EXCEPT ![t] = tasks'[t]]
        /\ tasks'[t] = [tasks[t] EXCEPT !.state = "completed", !.owner = None, !.left = None]
    BY <1>0, <1>7, <2>1 DEF WriteComplete
  <2>3. tasks'[t].state = "completed" /\ tasks'[t].owner = None
    BY <1>0, <2>1, <2>2 DEF Task
  <2> QED BY <1>6, <2>1, <2>2, <2>3
<1>8. CASE WriteFail(n)
  <2> DEFINE state == IF job[n].op = "requeue" THEN "queued" ELSE "failed"
  <2>1. /\ t \in Tasks /\ w \in Workers /\ tasks[t].state = "leased" /\ tasks[t].owner = w
        /\ batches' = batches
    BY <1>1, <1>8 DEF WriteFail
  <2>2. /\ tasks' = [tasks EXCEPT ![t] = tasks'[t]]
        /\ tasks'[t] = [tasks[t] EXCEPT !.state = state, !.owner = None,
                                        !.left = None, !.epoch = None]
    BY <1>0, <1>8, <2>1 DEF WriteFail
  <2>3. tasks'[t].state = state /\ tasks'[t].owner = None
    BY <1>0, <2>1, <2>2 DEF Task
  <2>4. CASE job[n].op = "fail" BY <1>6, <2>1, <2>2, <2>3, <2>4
  <2>5. CASE job[n].op = "requeue"
    <3>0. PICK u \in Tasks : u = t BY <2>1
    <3>1. /\ {u} \in SUBSET Tasks /\ {} \in SUBSET Tasks
          /\ batches' = batches /\ cycles' = cycles
          /\ \A s \in {u} : tasks[s].state = "leased"
      BY <1>0, <2>1, <3>0
    <3>2. \A s \in Tasks :
            /\ tasks'[s].state = IF s \in {} THEN "leased"
                                 ELSE IF s \in {u} THEN "queued" ELSE tasks[s].state
            /\ tasks'[s].owner = IF s \in {} THEN None
                                 ELSE IF s \in {u} THEN None ELSE tasks[s].owner
      BY <1>5, <2>1, <2>2, <2>3, <2>5, <3>0
    <3>3. Ledger!Assign({u}, [s \in {} |-> None])
      BY <3>1, <3>2, LedgerAssign
    <3> QED BY <3>1, <3>3 DEF Ledger!Next
  <2> QED BY <1>8, <2>4, <2>5 DEF WriteFail
<1> QED BY <1>2, <1>3, <1>4, <1>7, <1>8 DEF Write

LEMMA LedgerStep ==
    TInv /\ Running /\ JobCurrent /\ [Next]_vars => [Ledger!Next]_(Ledger!vars)
<1> SUFFICES ASSUME TInv, Running, JobCurrent, [Next]_vars PROVE [Ledger!Next]_(Ledger!vars)
  OBVIOUS
<1>1. CASE UNCHANGED <<cycles, tasks, batches>> BY <1>1, LedgerStutter
<1>2. ASSUME NEW n \in Nodes, Administer(n) PROVE Ledger!Next \/ UNCHANGED <<cycles, tasks, batches>>
  BY <1>2, SubmitSubmits, CancelCancels DEF Administer, Drain, Undrain
<1>3. ASSUME NEW n \in Nodes, Request(n) PROVE Ledger!Next \/ UNCHANGED <<cycles, tasks, batches>>
  BY <1>3, LeaseAssigns DEF Request, CheckRegister, CheckHeartbeat, CheckComplete, CheckFail,
     CheckOp, BeginUpload, Unchecked
<1>4. ASSUME NEW n \in Nodes, Write(n) PROVE Ledger!Next \/ UNCHANGED Ledger!vars
  BY <1>4, WriteEnds
<1>5. CASE Tick
  <2>1. \A t \in Tasks : tasks'[t].state = tasks[t].state /\ tasks'[t].owner = tasks[t].owner
    BY <1>5 DEF Tick, TInv, TypeOK, Task
  <2> QED BY <1>5, <2>1, LedgerStutter DEF Tick
<1> QED BY <1>1, <1>2, <1>3, <1>4, <1>5 DEF Next, vars, Coordinate, Start, LeadershipRound,
        Crash, CheckBatch, Unchecked

\* Whatever happens to leadership, leases and clocks, what the store does is
\* what the task ledger allows, as long as no operation is overtaken.
THEOREM StoreKeepsLedger == SerialSpec => ImplementsLedger
<1>1. Init => Ledger!Init
  BY DEF Init, NoTask, Ledger!Init
<1>2. [SerialNext]_vars => [Next]_vars BY DEF SerialNext
<1> QED BY TInvInit, TInvNext, RunningInit, RunningNext, JobCurrentInit, JobCurrentNext, LedgerStep,
           <1>1, <1>2, PTL DEF SerialSpec, ImplementsLedger, Ledger!Spec

\* One coordinator's executor has one thread: with an operation in progress
\* before and after a step, only time can have passed over the rows.
LEMMA LoneStep ==
    ASSUME \A m, n \in Nodes : m = n, TInv, Running, Next
    PROVE  Undisturbed
<1> SUFFICES ASSUME NEW n \in Nodes, job[n] # NoJob, job'[n] # NoJob
             PROVE  Tick \/ UNCHANGED rows
  BY DEF Undisturbed
<1>0. n \in up /\ ~Serving(n) BY DEF Running, Serving
<1>1. ASSUME NEW m \in Nodes, Coordinate(m) PROVE UNCHANGED rows
  <2>1. m = n OBVIOUS
  <2> QED BY <1>0, <1>1, <2>1 DEF Coordinate, Start, LeadershipRound, Crash, TInv, TypeOK
<1>2. ASSUME NEW m \in Nodes, Administer(m) PROVE FALSE
  <2>1. m = n OBVIOUS
  <2> QED BY <1>0, <1>2, <2>1 DEF Administer, SubmitCycle, CancelCycle, Drain, Undrain
<1>3. ASSUME NEW m \in Nodes, Request(m) PROVE FALSE
  <2>1. m = n OBVIOUS
  <2> QED BY <1>0, <1>3, <2>1 DEF Request, Lease, CheckRegister, CheckHeartbeat, CheckComplete,
          CheckFail, CheckOp, BeginUpload
<1>4. ASSUME NEW m \in Nodes, Write(m) PROVE FALSE
  <2>1. m = n OBVIOUS
  <2> QED BY <1>4, <2>1 DEF Write, TInv, TypeOK
<1>5. ASSUME NEW u \in uploads, CheckBatch(u) PROVE UNCHANGED rows
  BY <1>5 DEF CheckBatch, Unchecked, rows
<1> QED BY <1>1, <1>2, <1>3, <1>4, <1>5 DEF Next

\* The store has the guarantees of SerialSpec when one coordinator has it.
THEOREM LoneCoordinatorIsSerial ==
    ASSUME \A m, n \in Nodes : m = n
    PROVE  Spec => SerialSpec
<1>1. TInv /\ Running /\ [Next]_vars => [SerialNext]_vars
  BY LoneStep DEF SerialNext
<1> QED BY TInvInit, TInvNext, RunningInit, RunningNext, <1>1, PTL DEF Spec, SerialSpec
=============================================================================
