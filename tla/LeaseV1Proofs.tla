---------------------------- MODULE LeaseV1Proofs ---------------------------
(* Proofs about LeaseV1, for any tasks, workers, batches, attempts and     *)
(* number of faults.                                                       *)
EXTENDS LeaseV1, TLAPS

Busy == {"run", "sent", "failing"}

Row0 == [state : {"absent", "queued", "leased"} \cup Terminal,
         owner : Workers \cup {None}, live : BOOLEAN, attempts : Nat]
Worker0 == [stage : Busy \cup {"idle", "down"}, task : Tasks \cup {None}, attempt : Nat,
            next : Nat, lost : BOOLEAN]
Request0 == [kind : {"batch", "complete", "requeue", "fail"}, from : Workers, task : Tasks,
             attempt : Nat, index : Nat]

Typed ==
    /\ task \in [Tasks -> Row0]
    /\ batches \in [Tasks -> [Indexes -> Nat]]
    /\ worker \in [Workers -> Worker0]
    /\ net \subseteq Request0

\* The batches of t below k are stored.
Full(t, k) == \A i \in Indexes : i < k => batches[t][i] # 0

\* What a worker counts as sent is stored.
SentIsStored ==
    \A w \in Workers : worker[w].stage \in Busy =>
        /\ worker[w].task \in Tasks
        /\ worker[w].attempt >= 1 /\ worker[w].attempt <= task[worker[w].task].attempts
        /\ Full(worker[w].task, worker[w].next)

\* And so is what came before a request.
RequestsFollow ==
    \A r \in net :
        /\ r.attempt >= 1 /\ r.attempt <= task[r.task].attempts
        /\ r.kind = "batch" => r.index \in Indexes
        /\ Full(r.task, r.index)

\* A request by which the attempt a worker is at goes on.
Mine(r, w) ==
    /\ r.from = w /\ r.task = worker[w].task /\ r.attempt = worker[w].attempt
    /\ r.kind \in {"batch", "complete"}

\* There is at most one of them, the one the worker waits for.
OneOutstanding ==
    \A w \in Workers :
        /\ worker[w].stage = "run" => \A r \in net : ~Mine(r, w)
        /\ worker[w].stage = "sent" =>
              /\ \A r \in net : Mine(r, w) => r.index = worker[w].next
              /\ \A r, q \in net : Mine(r, w) /\ Mine(q, w) => r = q

IInv == Typed /\ SentIsStored /\ RequestsFollow /\ OneOutstanding /\ NoGaps

LEMMA Numbers == MaxIndex \in Nat /\ MaxAttempts \in Nat /\ Indexes \subseteq Nat
BY LeaseConstantsOK DEF Indexes

LEMMA InitIInv == Init => IInv
<1> SUFFICES ASSUME Init PROVE IInv OBVIOUS
<1>1. Typed
  <2>1. Idle \in Worker0 BY DEF Idle, Worker0
  <2> QED BY <2>1, Numbers DEF Init, Typed, Row0
<1>2. NoGaps BY Numbers DEF Init, NoGaps, Indexes
<1> QED BY <1>1, <1>2 DEF Init, IInv, SentIsStored, RequestsFollow, OneOutstanding, Idle, Busy

-----------------------------------------------------------------------------
\* Steps at the store that leave attempts and batches as they are.
LEMMA StoreKeeps ==
    ASSUME IInv, UNCHANGED <<batches, worker, net>>,
           task' \in [Tasks -> Row0], \A t \in Tasks : task'[t].attempts = task[t].attempts
    PROVE  IInv'
<1>1. Typed' BY DEF IInv, Typed
<1>2. SentIsStored' BY DEF IInv, SentIsStored, Full
<1>3. RequestsFollow'
  <2>1. \A r \in net : r.task \in Tasks BY DEF IInv, Typed, Request0
  <2> QED BY <2>1 DEF IInv, RequestsFollow, Full
<1>4. OneOutstanding' /\ NoGaps' BY DEF IInv, OneOutstanding, Mine, NoGaps
<1> QED BY <1>1, <1>2, <1>3, <1>4 DEF IInv

LEMMA SubmitKeeps == ASSUME IInv, NEW new \in SUBSET Tasks, Submit(new) PROVE IInv'
<1>1. task' = [t \in Tasks |-> IF t \in new THEN [task[t] EXCEPT !.state = "queued"] ELSE task[t]]
      /\ UNCHANGED <<batches, worker, net>>
  BY DEF Submit
<1>2. ASSUME NEW t \in Tasks PROVE task'[t] \in Row0 /\ task'[t].attempts = task[t].attempts
  <2>1. task[t] \in Row0 BY DEF IInv, Typed
  <2>2. task'[t] = IF t \in new THEN [task[t] EXCEPT !.state = "queued"] ELSE task[t] BY <1>1
  <2> QED BY <2>1, <2>2 DEF Row0
<1>3. task' \in [Tasks -> Row0] BY <1>1, <1>2
<1> QED BY <1>1, <1>2, <1>3, StoreKeeps

LEMMA ExpireKeeps == ASSUME IInv, NEW s \in Tasks, Expire(s) PROVE IInv'
<1>1. task' = [task EXCEPT ![s].live = FALSE] /\ UNCHANGED <<batches, worker, net>> BY DEF Expire
<1>2. ASSUME NEW t \in Tasks PROVE task'[t] \in Row0 /\ task'[t].attempts = task[t].attempts
  <2>1. task[t] \in Row0 /\ task \in [Tasks -> Row0] BY DEF IInv, Typed
  <2>2. task'[t] = IF t = s THEN [task[t] EXCEPT !.live = FALSE] ELSE task[t] BY <1>1, <2>1
  <2> QED BY <2>1, <2>2 DEF Row0
<1>3. task' \in [Tasks -> Row0] BY <1>1, <1>2 DEF IInv, Typed
<1> QED BY <1>1, <1>2, <1>3, StoreKeeps

\* Steps of one worker that send nothing and go on with nothing.
LEMMA WorkerKeeps ==
    ASSUME IInv, NEW w \in Workers, NEW v \in Worker0, UNCHANGED <<batches, task, net>>,
           worker' = [worker EXCEPT ![w] = v],
           \/ v.stage \in {"idle", "down"}
           \/ /\ v.stage = worker[w].stage /\ v.task = worker[w].task
              /\ v.attempt = worker[w].attempt /\ v.next = worker[w].next
    PROVE  IInv'
<1>1. Typed' BY DEF IInv, Typed
<1>2. worker'[w] = v /\ \A x \in Workers \ {w} : worker'[x] = worker[x] BY DEF IInv, Typed
<1>3. SentIsStored' BY <1>2 DEF IInv, SentIsStored, Full, Busy
<1>4. RequestsFollow' /\ NoGaps' BY DEF IInv, RequestsFollow, Full, NoGaps
<1>5. OneOutstanding' BY <1>2 DEF IInv, OneOutstanding, Mine
<1> QED BY <1>1, <1>3, <1>4, <1>5 DEF IInv

LEMMA IdleTyped == Idle \in Worker0 /\ [Idle EXCEPT !.stage = "down"] \in Worker0
BY DEF Idle, Worker0

LEMMA QuietKeeps ==
    ASSUME IInv, NEW w \in Workers,
           \/ HeartbeatFails(w) \/ Crash(w) \/ Restart(w)
           \/ Timeout(w) /\ worker[w].stage = "failing"
    PROVE  IInv'
<1>0. worker[w] \in Worker0 BY DEF IInv, Typed
<1>1. CASE HeartbeatFails(w)
  <2> DEFINE v == [worker[w] EXCEPT !.lost = TRUE]
  <2>1. v \in Worker0 /\ v.stage = worker[w].stage /\ v.task = worker[w].task
        /\ v.attempt = worker[w].attempt /\ v.next = worker[w].next
    BY <1>0 DEF Worker0
  <2>2. worker' = [worker EXCEPT ![w] = v] /\ UNCHANGED <<batches, task, net>>
    BY <1>1 DEF HeartbeatFails, IInv, Typed
  <2> HIDE DEF v
  <2> QED BY <2>1, <2>2, WorkerKeeps
<1>2. CASE Crash(w)
  <2>1. worker' = [worker EXCEPT ![w] = [Idle EXCEPT !.stage = "down"]]
        /\ UNCHANGED <<batches, task, net>>
    BY <1>2 DEF Crash
  <2>2. [Idle EXCEPT !.stage = "down"].stage = "down" BY DEF Idle
  <2> QED BY <2>1, <2>2, IdleTyped, WorkerKeeps
<1>3. CASE Restart(w) \/ (Timeout(w) /\ worker[w].stage = "failing")
  <2>1. worker' = [worker EXCEPT ![w] = Idle] /\ UNCHANGED <<batches, task, net>>
    BY <1>3 DEF Restart, Timeout
  <2>2. Idle.stage = "idle" BY DEF Idle
  <2> QED BY <2>1, <2>2, IdleTyped, WorkerKeeps
<1> QED BY <1>1, <1>2, <1>3

-----------------------------------------------------------------------------
\* A request that is lost.
LEMMA LoseKeeps == ASSUME IInv, NEW r \in net, Lose(r) PROVE IInv'
<1>1. net' = net \ {r} /\ UNCHANGED <<task, batches, worker>> BY DEF Lose
<1> QED BY <1>1 DEF IInv, Typed, SentIsStored, RequestsFollow, OneOutstanding, Mine, Full, NoGaps

\* A worker sends its next request and waits for the answer.
LEMMA SendKeeps ==
    ASSUME IInv, NEW w \in Workers, NEW kind, NEW stage, Send(w, kind, stage),
           \/ kind \in {"batch", "complete"} /\ stage = "sent" /\ worker[w].stage = "run"
           \/ kind \in {"requeue", "fail"} /\ stage = "failing" /\ worker[w].stage \in {"run", "sent"},
           kind = "batch" => worker[w].next \in Indexes
    PROVE  IInv'
<1> DEFINE q == Request(w, kind)
           v == [worker[w] EXCEPT !.stage = stage]
<1>0. worker[w] \in Worker0 /\ worker[w].stage \in Busy BY DEF IInv, Typed, Busy
<1>1. worker[w].task \in Tasks /\ worker[w].attempt >= 1
      /\ worker[w].attempt <= task[worker[w].task].attempts /\ Full(worker[w].task, worker[w].next)
  BY <1>0 DEF IInv, SentIsStored
<1>2. q \in Request0 BY <1>0, <1>1 DEF Request, Request0, Worker0
<1>3. /\ q.kind = kind /\ q.from = w /\ q.task = worker[w].task
      /\ q.attempt = worker[w].attempt /\ q.index = worker[w].next
  BY DEF Request
<1>4. v \in Worker0 BY <1>0 DEF Worker0, Busy
<1>5. /\ v.stage = stage /\ v.task = worker[w].task
      /\ v.attempt = worker[w].attempt /\ v.next = worker[w].next
  BY <1>0 DEF Worker0
<1>6. net' = net \cup {q} /\ worker' = [worker EXCEPT ![w] = v] /\ UNCHANGED <<task, batches>>
  BY DEF Send, IInv, Typed
<1> HIDE DEF q, v
<1>7. worker'[w] = v /\ \A x \in Workers \ {w} : worker'[x] = worker[x] BY <1>6 DEF IInv, Typed
<1>8. Typed' BY <1>2, <1>4, <1>6 DEF IInv, Typed
<1>9. SentIsStored' BY <1>1, <1>5, <1>6, <1>7 DEF IInv, SentIsStored, Full
<1>10. RequestsFollow' BY <1>1, <1>3, <1>6 DEF IInv, RequestsFollow, Full
<1>11. OneOutstanding'
  <2> SUFFICES ASSUME NEW x \in Workers
               PROVE  /\ worker'[x].stage = "run" => \A r \in net' : ~Mine(r, x)'
                      /\ worker'[x].stage = "sent" =>
                            /\ \A r \in net' : Mine(r, x)' => r.index = worker'[x].next
                            /\ \A r, y \in net' : Mine(r, x)' /\ Mine(y, x)' => r = y
    BY DEF OneOutstanding
  <2>1. \A r : Mine(r, x)' <=> Mine(r, x) BY <1>5, <1>7 DEF Mine
  <2>2. CASE x # w
    <3>1. ~Mine(q, x) BY <1>3, <2>2 DEF Mine
    <3> QED BY <1>6, <1>7, <2>1, <2>2, <3>1 DEF IInv, OneOutstanding
  <2>3. CASE x = w
    <3>1. CASE stage = "sent"
      <4>1. \A r \in net : ~Mine(r, w) BY <3>1 DEF IInv, OneOutstanding
      <4> QED BY <1>3, <1>5, <1>6, <1>7, <2>1, <2>3, <3>1, <4>1
    <3>2. CASE stage = "failing" BY <1>5, <1>7, <2>3, <3>2
    <3> QED BY <3>1, <3>2
  <2> QED BY <2>2, <2>3
<1>12. NoGaps' BY <1>6 DEF IInv, NoGaps
<1> QED BY <1>8, <1>9, <1>10, <1>11, <1>12 DEF IInv

LEMMA SendingKeeps ==
    ASSUME IInv, NEW w \in Workers,
           \/ SendBatch(w) \/ SendComplete(w) \/ GiveUp(w)
           \/ Timeout(w) /\ worker[w].stage = "sent"
    PROVE  IInv'
<1>1. CASE SendBatch(w) BY <1>1, SendKeeps DEF SendBatch
<1>2. CASE SendComplete(w) BY <1>2, SendKeeps DEF SendComplete
<1>3. FailKind(w) \in {"requeue", "fail"} BY DEF FailKind
<1>4. CASE GiveUp(w) BY <1>3, <1>4, SendKeeps DEF GiveUp
<1>5. CASE Timeout(w) /\ worker[w].stage = "sent" BY <1>3, <1>5, SendKeeps DEF Timeout
<1> QED BY <1>1, <1>2, <1>4, <1>5

-----------------------------------------------------------------------------
\* What Swept and the lease do to the rows.
LEMMA SweptRows ==
    ASSUME Typed
    PROVE  /\ Swept \in [Tasks -> Row0]
           /\ \A t \in Tasks :
                /\ Swept[t].attempts = task[t].attempts
                /\ Swept[t].state =
                      IF task[t].state = "leased" /\ ~task[t].live THEN "queued" ELSE task[t].state
                /\ Swept[t].owner =
                      IF task[t].state = "leased" /\ ~task[t].live THEN None ELSE task[t].owner
<1>1. ASSUME NEW t \in Tasks
      PROVE  /\ Swept[t] \in Row0 /\ Swept[t].attempts = task[t].attempts
             /\ Swept[t].state =
                   IF task[t].state = "leased" /\ ~task[t].live THEN "queued" ELSE task[t].state
             /\ Swept[t].owner =
                   IF task[t].state = "leased" /\ ~task[t].live THEN None ELSE task[t].owner
  <2>1. task[t] \in Row0 BY DEF Typed
  <2>2. Swept[t] = IF task[t].state = "leased" /\ ~task[t].live
                   THEN Released(task[t], "queued") ELSE task[t]
    BY DEF Swept
  <2>3. /\ Released(task[t], "queued") \in Row0
        /\ Released(task[t], "queued").attempts = task[t].attempts
        /\ Released(task[t], "queued").state = "queued"
        /\ Released(task[t], "queued").owner = None
    BY <2>1 DEF Released, Row0
  <2> QED BY <2>1, <2>2, <2>3
<1>2. Swept \in [Tasks -> Row0] BY <1>1 DEF Swept
<1> QED BY <1>1, <1>2

LEMMA GivenRow ==
    ASSUME NEW row \in Row0, NEW w \in Workers
    PROVE  /\ Given(row, w) \in Row0 /\ Given(row, w).attempts = row.attempts + 1
           /\ Given(row, w).state = "leased" /\ Given(row, w).owner = w
BY DEF Given, Row0

\* A leased task has an attempt no request and no worker knows yet.
LEMMA LeaseKeeps == ASSUME IInv, NEW w \in Workers, Lease(w) PROVE IInv'
<1>1. worker[w].stage = "idle" /\ UNCHANGED <<batches, net>> BY DEF Lease
<1>2. CASE task' = Swept /\ UNCHANGED worker
  BY <1>1, <1>2, SweptRows, StoreKeeps DEF IInv
<1>3. ASSUME NEW t \in Tasks, task' = [Swept EXCEPT ![t] = Given(@, w)],
             \/ worker' = [worker EXCEPT ![w] =
                     [stage |-> "run", task |-> t, attempt |-> task'[t].attempts,
                      next |-> 0, lost |-> FALSE]]
             \/ worker' = [worker EXCEPT ![w].stage = "down"]
      PROVE  IInv'
  <2>1. /\ task' \in [Tasks -> Row0] /\ task[t].attempts \in Nat
        /\ task'[t].attempts = task[t].attempts + 1
        /\ \A s \in Tasks \ {t} : task'[s].attempts = task[s].attempts
    <3>1. Swept \in [Tasks -> Row0] /\ \A s \in Tasks : Swept[s].attempts = task[s].attempts
      BY SweptRows DEF IInv
    <3>2. Swept[t] \in Row0 BY <3>1
    <3>3. task'[t] = Given(Swept[t], w) /\ \A s \in Tasks \ {t} : task'[s] = Swept[s]
      BY <1>3, <3>1
    <3>4. task' \in [Tasks -> Row0] BY <1>3, <3>1, <3>2, GivenRow
    <3>5. task[t].attempts \in Nat BY <3>1, <3>2 DEF Row0
    <3> QED BY <3>1, <3>2, <3>3, <3>4, <3>5, GivenRow
  <2>2. PICK v \in Worker0 :
          /\ worker' = [worker EXCEPT ![w] = v]
          /\ \/ v.stage = "down"
             \/ /\ v.stage = "run" /\ v.task = t /\ v.next = 0
                /\ v.attempt = task[t].attempts + 1
    <3>1. worker[w] \in Worker0 BY DEF IInv, Typed
    <3>2. CASE worker' = [worker EXCEPT ![w].stage = "down"]
      <4> DEFINE v == [worker[w] EXCEPT !.stage = "down"]
      <4>1. v \in Worker0 /\ v.stage = "down" BY <3>1 DEF Worker0
      <4>2. worker' = [worker EXCEPT ![w] = v] BY <3>2 DEF IInv, Typed
      <4> HIDE DEF v
      <4> QED BY <4>1, <4>2
    <3>3. CASE worker' = [worker EXCEPT ![w] =
                  [stage |-> "run", task |-> t, attempt |-> task'[t].attempts,
                   next |-> 0, lost |-> FALSE]]
      <4>1. [stage |-> "run", task |-> t, attempt |-> task'[t].attempts,
             next |-> 0, lost |-> FALSE] \in Worker0
        BY <2>1 DEF Worker0, Busy
      <4> QED BY <2>1, <3>3, <4>1
    <3> QED BY <1>3, <3>2, <3>3
  <2>3. worker'[w] = v /\ \A x \in Workers \ {w} : worker'[x] = worker[x] BY <2>2 DEF IInv, Typed
  <2>4. Typed' BY <1>1, <2>1, <2>2 DEF IInv, Typed
  <2>5. SentIsStored'
    <3> SUFFICES ASSUME NEW x \in Workers, worker'[x].stage \in Busy
                 PROVE  /\ worker'[x].task \in Tasks
                        /\ worker'[x].attempt >= 1
                        /\ worker'[x].attempt <= task'[worker'[x].task].attempts
                        /\ Full(worker[x].task, worker[x].next)'
      BY DEF SentIsStored
    <3>1. CASE x = w
      <4>1. v.stage = "run" /\ v.task = t /\ v.next = 0 /\ v.attempt = task[t].attempts + 1
        BY <2>2, <2>3, <3>1 DEF Busy
      <4>2. Full(t, 0)' BY Numbers DEF Full, Indexes
      <4> QED BY <2>1, <2>3, <3>1, <4>1, <4>2
    <3>2. CASE x # w
      <4>1. worker[x] \in Worker0 /\ worker[x].task \in Tasks /\ worker[x].attempt >= 1
            /\ worker[x].attempt <= task[worker[x].task].attempts
            /\ Full(worker[x].task, worker[x].next)
        BY <2>3, <3>2 DEF IInv, Typed, SentIsStored
      <4>2. worker[x].attempt \in Nat /\ task[worker[x].task].attempts \in Nat
        BY <4>1 DEF IInv, Typed, Worker0, Row0
      <4> QED BY <1>1, <2>1, <2>3, <3>2, <4>1, <4>2 DEF Full
    <3> QED BY <3>1, <3>2
  <2>6. RequestsFollow'
    <3> SUFFICES ASSUME NEW r \in net
                 PROVE  r.attempt >= 1 /\ r.attempt <= task'[r.task].attempts
                        /\ (r.kind = "batch" => r.index \in Indexes) /\ Full(r.task, r.index)'
      BY <1>1 DEF RequestsFollow
    <3>1. r \in Request0 BY DEF IInv, Typed
    <3>2. r.task \in Tasks /\ r.attempt \in Nat /\ task[r.task].attempts \in Nat
      BY <3>1 DEF Request0, Row0, IInv, Typed
    <3> QED BY <1>1, <2>1, <3>2 DEF IInv, RequestsFollow, Full
  <2>7. OneOutstanding'
    <3>1. ASSUME NEW r \in net, v.stage # "down" PROVE ~Mine(r, w)'
      <4>1. r \in Request0 BY DEF IInv, Typed
      <4>2. r.attempt \in Nat /\ r.attempt <= task[r.task].attempts
        BY <4>1 DEF IInv, Request0, RequestsFollow
      <4>3. v.task = t /\ v.attempt = task[t].attempts + 1 BY <2>2, <3>1
      <4> QED BY <2>1, <2>3, <4>2, <4>3 DEF Mine
    <3>2. \A x \in Workers \ {w} : \A r : Mine(r, x)' <=> Mine(r, x) BY <2>3 DEF Mine
    <3> QED BY <1>1, <2>2, <2>3, <3>1, <3>2 DEF IInv, OneOutstanding
  <2>8. NoGaps' BY <1>1 DEF IInv, NoGaps
  <2> QED BY <2>4, <2>5, <2>6, <2>7, <2>8 DEF IInv
<1>4. \/ task' = Swept /\ UNCHANGED worker
      \/ \E t \in Tasks :
            /\ task' = [Swept EXCEPT ![t] = Given(@, w)]
            /\ \/ worker' = [worker EXCEPT ![w] =
                       [stage |-> "run", task |-> t, attempt |-> task'[t].attempts,
                        next |-> 0, lost |-> FALSE]]
               \/ worker' = [worker EXCEPT ![w].stage = "down"]
  BY DEF Lease, Oldest
<1> QED BY <1>2, <1>3, <1>4

-----------------------------------------------------------------------------
LEMMA ReleasedRow ==
    ASSUME NEW row \in Row0, NEW state \in {"queued"} \cup Terminal
    PROVE  /\ Released(row, state) \in Row0 /\ Released(row, state).attempts = row.attempts
           /\ Released(row, state).state = state /\ Released(row, state).owner = None
BY DEF Released, Row0

LEMMA AfterState ==
    ASSUME NEW kind \in {"complete", "requeue", "fail"}
    PROVE  After(kind) \in {"queued"} \cup Terminal
BY DEF After, Terminal

\* What the store changes when it executes a request.
LEMMA EffectRows ==
    ASSUME IInv, NEW r \in net, Effect(r)
    PROVE  /\ task' \in [Tasks -> Row0]
           /\ \A t \in Tasks : task'[t].attempts = task[t].attempts
           /\ \A t \in Tasks : task'[t] # task[t] =>
                 /\ t = r.task /\ Accepted(r) /\ r.kind # "batch"
                 /\ task'[t].state = After(r.kind) /\ task'[t].owner = None
<1>1. r \in Request0 /\ task \in [Tasks -> Row0] BY DEF IInv, Typed
<1>2. r.task \in Tasks /\ task[r.task] \in Row0 BY <1>1 DEF Request0
<1>3. CASE Accepted(r) /\ r.kind # "batch"
  <2> DEFINE row == Released(task[r.task], After(r.kind))
  <2>1. r.kind \in {"complete", "requeue", "fail"} BY <1>1, <1>3 DEF Request0
  <2>2. /\ row \in Row0 /\ row.attempts = task[r.task].attempts
        /\ row.state = After(r.kind) /\ row.owner = None
    BY <1>2, <2>1, AfterState, ReleasedRow
  <2>3. task' = [task EXCEPT ![r.task] = row] BY <1>3, <1>1 DEF Effect
  <2> HIDE DEF row
  <2> QED BY <1>1, <1>2, <1>3, <2>2, <2>3
<1>4. CASE ~(Accepted(r) /\ r.kind # "batch")
  <2>1. task' = task BY <1>4 DEF Effect
  <2> QED BY <1>1, <2>1
<1> QED BY <1>3, <1>4

LEMMA EffectBatches ==
    ASSUME IInv, NEW r \in net, Effect(r)
    PROVE  /\ batches' \in [Tasks -> [Indexes -> Nat]]
           /\ \A t \in Tasks, i \in Indexes : batches[t][i] # 0 => batches'[t][i] = batches[t][i]
           /\ \A t \in Tasks, i \in Indexes : batches'[t][i] # batches[t][i] =>
                 t = r.task /\ i = r.index /\ Accepted(r) /\ r.kind = "batch"
           /\ Accepted(r) /\ r.kind = "batch" => batches'[r.task][r.index] # 0
<1>1. r \in Request0 /\ batches \in [Tasks -> [Indexes -> Nat]] /\ r.attempt >= 1
  BY DEF IInv, Typed, RequestsFollow
<1>2. r.task \in Tasks /\ r.attempt \in Nat /\ r.attempt # 0 BY <1>1 DEF Request0
<1>3. CASE Accepted(r) /\ r.kind = "batch" /\ batches[r.task][r.index] = 0
  <2>1. r.index \in Indexes BY <1>3 DEF IInv, RequestsFollow
  <2>2. batches' = [batches EXCEPT ![r.task][r.index] = r.attempt] BY <1>3 DEF Effect, Stored
  <2> QED BY <1>1, <1>2, <1>3, <2>1, <2>2
<1>4. CASE ~(Accepted(r) /\ r.kind = "batch" /\ batches[r.task][r.index] = 0)
  <2>1. batches' = batches BY <1>4 DEF Effect, Stored
  <2> QED BY <1>1, <1>4, <2>1
<1> QED BY <1>3, <1>4

LEMMA RunRow ==
    ASSUME NEW u \in Worker0, NEW n \in Nat
    PROVE  LET v == [u EXCEPT !.stage = "run", !.next = n]
           IN  /\ v \in Worker0 /\ v.stage = "run" /\ v.task = u.task
               /\ v.attempt = u.attempt /\ v.next = n
BY DEF Worker0, Busy

\* How its sender goes on.
LEMMA AnsweredWorker ==
    ASSUME IInv, NEW r \in net
    PROVE  /\ Answered(r) \in Worker0
           /\ \/ Answered(r) = worker[r.from] /\ ~Waits(r)
              \/ Answered(r).stage = "idle"
              \/ /\ Waits(r) /\ r.kind \in {"batch", "complete"}
                 /\ Answered(r).stage = "run" /\ Answered(r).task = worker[r.from].task
                 /\ Answered(r).attempt = worker[r.from].attempt
                 /\ \/ Answered(r).next = worker[r.from].next
                    \/ /\ Answered(r).next = worker[r.from].next + 1
                       /\ Accepted(r) /\ r.kind = "batch"
<1>1. r \in Request0 BY DEF IInv, Typed
<1>2. r.from \in Workers /\ r.kind \in {"batch", "complete", "requeue", "fail"} BY <1>1 DEF Request0
<1>3. worker[r.from] \in Worker0 BY <1>2 DEF IInv, Typed
<1>4. Idle.stage = "idle" BY DEF Idle
<1> DEFINE u == worker[r.from]
           lost == [u EXCEPT !.stage = "run", !.lost = TRUE]
           on == [u EXCEPT !.stage = "run", !.next = @ + 1]
<1>5. /\ lost \in Worker0 /\ lost.stage = "run" /\ lost.task = u.task
      /\ lost.attempt = u.attempt /\ lost.next = u.next
  BY <1>3 DEF Worker0, Busy
<1>6. /\ on \in Worker0 /\ on.stage = "run" /\ on.task = u.task
      /\ on.attempt = u.attempt /\ on.next = u.next + 1
  <2>1. u.next + 1 \in Nat BY <1>3 DEF Worker0
  <2> QED BY <1>3, <2>1, RunRow
<1>7. ~Waits(r) => Answered(r) = u BY DEF Answered
<1>8. ASSUME Waits(r), r.kind \in {"requeue", "fail"} \/ (r.kind = "complete" /\ Accepted(r))
      PROVE  Answered(r) = Idle
  BY <1>8 DEF Answered
<1>9. ASSUME Waits(r), r.kind \in {"batch", "complete"}, ~Accepted(r) PROVE Answered(r) = lost
  BY <1>9 DEF Answered
<1>10. ASSUME Waits(r), r.kind = "batch", Accepted(r) PROVE Answered(r) = on
  BY <1>10 DEF Answered
<1> HIDE DEF lost, on
<1> QED BY <1>2, <1>3, <1>4, <1>5, <1>6, <1>7, <1>8, <1>9, <1>10, IdleTyped

LEMMA ExecuteKeeps == ASSUME IInv, NEW r \in net, Execute(r) PROVE IInv'
<1> DEFINE v == Answered(r)
           w == r.from
<1>1. Effect(r) /\ worker' = [worker EXCEPT ![w] = v] /\ net' = net \ {r} BY DEF Execute
<1>2. r \in Request0 BY DEF IInv, Typed
<1>3. w \in Workers /\ r.task \in Tasks BY <1>2 DEF Request0
<1>4. v \in Worker0 BY AnsweredWorker
<1>5. worker'[w] = v /\ \A x \in Workers \ {w} : worker'[x] = worker[x]
  BY <1>1, <1>3 DEF IInv, Typed
<1>6. Typed' BY <1>1, <1>4, EffectRows, EffectBatches DEF IInv, Typed
<1>7. ASSUME NEW t \in Tasks, NEW k, Full(t, k) PROVE Full(t, k)'
  <2>1. ASSUME NEW i \in Indexes, i < k PROVE batches'[t][i] # 0
    BY <1>1, <1>7, <2>1, EffectBatches DEF Full
  <2> QED BY <2>1 DEF Full
<1>8. ASSUME Waits(r), r.kind \in {"batch", "complete"}
      PROVE  /\ worker[w].stage = "sent" /\ Mine(r, w) /\ r.index = worker[w].next
             /\ \A q \in net' : ~Mine(q, w)
  <2>1. worker[w].stage = "sent" /\ Mine(r, w) BY <1>8 DEF Waits, Mine
  <2> QED BY <1>1, <1>3, <2>1 DEF IInv, OneOutstanding
<1>9. SentIsStored'
  <2> SUFFICES ASSUME NEW x \in Workers, worker'[x].stage \in Busy
               PROVE  /\ worker'[x].task \in Tasks
                      /\ worker'[x].attempt >= 1
                      /\ worker'[x].attempt <= task'[worker'[x].task].attempts
                      /\ \A i \in Indexes : i < worker'[x].next => batches'[worker'[x].task][i] # 0
    BY DEF SentIsStored, Full
  <2>1. CASE worker'[x] = worker[x]
    <3>1. worker[x].task \in Tasks /\ worker[x].attempt >= 1
          /\ worker[x].attempt <= task[worker[x].task].attempts
          /\ Full(worker[x].task, worker[x].next)
      BY <2>1 DEF IInv, SentIsStored
    <3>2. \A i \in Indexes : i < worker[x].next => batches'[worker[x].task][i] # 0
      BY <1>1, <3>1, EffectBatches DEF Full
    <3>3. task'[worker[x].task].attempts = task[worker[x].task].attempts
      BY <1>1, <3>1, EffectRows
    <3> QED BY <2>1, <3>1, <3>2, <3>3
  <2>2. CASE worker'[x] # worker[x]
    <3>1. x = w /\ worker'[x] = v /\ v # worker[w] BY <1>5, <2>2
    <3>2. /\ Waits(r) /\ r.kind \in {"batch", "complete"}
          /\ v.task = worker[w].task /\ v.attempt = worker[w].attempt
          /\ v.next = worker[w].next \/ (v.next = worker[w].next + 1 /\ Accepted(r) /\ r.kind = "batch")
      BY <3>1, AnsweredWorker DEF Busy
    <3>3. worker[w].stage = "sent" /\ r.index = worker[w].next /\ r.task = worker[w].task
      BY <1>8, <3>2 DEF Mine
    <3>4. worker[w].task \in Tasks /\ worker[w].attempt >= 1
          /\ worker[w].attempt <= task[worker[w].task].attempts
          /\ Full(worker[w].task, worker[w].next)
      BY <1>3, <3>3 DEF IInv, SentIsStored, Busy
    <3>5. task'[worker[w].task].attempts = task[worker[w].task].attempts
      BY <1>1, <3>4, EffectRows
    <3>6. ASSUME NEW i \in Indexes, i < v.next PROVE batches'[v.task][i] # 0
      <4>1. worker[w].next \in Nat /\ i \in Nat BY <1>3, Numbers DEF IInv, Typed, Worker0
      <4>2. CASE i < worker[w].next BY <1>1, <3>2, <3>4, <4>2, EffectBatches DEF Full
      <4>3. CASE ~(i < worker[w].next)
        <5>1. i = r.index /\ Accepted(r) /\ r.kind = "batch" BY <3>2, <3>3, <3>6, <4>1, <4>3
        <5> QED BY <1>1, <3>2, <3>3, <5>1, EffectBatches
      <4> QED BY <4>2, <4>3
    <3> QED BY <3>1, <3>2, <3>4, <3>5, <3>6
  <2> QED BY <2>1, <2>2
<1>10. RequestsFollow'
  <2> SUFFICES ASSUME NEW q \in net'
               PROVE  q.attempt >= 1 /\ q.attempt <= task'[q.task].attempts
                      /\ (q.kind = "batch" => q.index \in Indexes) /\ Full(q.task, q.index)'
    BY DEF RequestsFollow
  <2>1. q \in net /\ q \in Request0 BY <1>1 DEF IInv, Typed
  <2>2. q.task \in Tasks BY <2>1 DEF Request0
  <2>3. q.attempt >= 1 /\ q.attempt <= task[q.task].attempts
        /\ (q.kind = "batch" => q.index \in Indexes) /\ Full(q.task, q.index)
    BY <2>1 DEF IInv, RequestsFollow
  <2>4. task'[q.task].attempts = task[q.task].attempts BY <1>1, <2>2, EffectRows
  <2> QED BY <1>7, <2>2, <2>3, <2>4
<1>11. OneOutstanding'
  <2> SUFFICES ASSUME NEW x \in Workers
               PROVE  /\ worker'[x].stage = "run" => \A q \in net' : ~Mine(q, x)'
                      /\ worker'[x].stage = "sent" =>
                            /\ \A q \in net' : Mine(q, x)' => q.index = worker'[x].next
                            /\ \A q, y \in net' : Mine(q, x)' /\ Mine(y, x)' => q = y
    BY DEF OneOutstanding
  <2>1. CASE worker'[x] = worker[x]
    <3>1. \A q : Mine(q, x)' <=> Mine(q, x) BY <2>1 DEF Mine
    <3> QED BY <1>1, <2>1, <3>1 DEF IInv, OneOutstanding
  <2>2. CASE worker'[x] # worker[x]
    <3>1. x = w /\ worker'[x] = v /\ v # worker[w] BY <1>5, <2>2
    <3>2. CASE v.stage = "idle" BY <3>1, <3>2
    <3>3. CASE v.stage # "idle"
      <4>1. /\ Waits(r) /\ r.kind \in {"batch", "complete"} /\ v.stage = "run"
            /\ v.task = worker[w].task /\ v.attempt = worker[w].attempt
        BY <3>1, <3>3, AnsweredWorker
      <4>2. \A q : Mine(q, x)' <=> Mine(q, x) BY <3>1, <4>1 DEF Mine
      <4> QED BY <1>8, <3>1, <4>1, <4>2
    <3> QED BY <3>2, <3>3
  <2> QED BY <2>1, <2>2
<1>12. NoGaps'
  <2> SUFFICES ASSUME NEW t \in Tasks, NEW i \in Indexes \ {0}, batches'[t][i] # 0
               PROVE  batches'[t][i - 1] # 0
    BY DEF NoGaps
  <2>1. i - 1 \in Indexes /\ i - 1 < i BY Numbers DEF Indexes
  <2>2. batches[t][i - 1] # 0
    <3>1. CASE batches[t][i] # 0 BY <3>1 DEF IInv, NoGaps
    <3>2. CASE batches[t][i] = 0
      <4>1. t = r.task /\ i = r.index BY <1>1, <3>2, EffectBatches
      <4> QED BY <2>1, <4>1 DEF IInv, RequestsFollow, Full
    <3> QED BY <3>1, <3>2
  <2> QED BY <1>1, <2>1, <2>2, EffectBatches
<1> QED BY <1>6, <1>9, <1>10, <1>11, <1>12 DEF IInv

-----------------------------------------------------------------------------
LEMMA CollectorKeeps == ASSUME IInv, SeeDone \/ Collect PROVE IInv'
BY DEF SeeDone, Collect, IInv, Typed, SentIsStored, RequestsFollow, OneOutstanding, Mine, Full, NoGaps

LEMMA IInvStep == IInv /\ [Next]_vars => IInv'
<1> SUFFICES ASSUME IInv, [Next]_vars PROVE IInv' OBVIOUS
<1>1. CASE UNCHANGED vars
  BY <1>1 DEF vars, IInv, Typed, SentIsStored, RequestsFollow, OneOutstanding, Mine, Full, NoGaps
<1>2. CASE \E new \in SUBSET Tasks : Submit(new) BY <1>2, SubmitKeeps
<1>3. ASSUME NEW w \in Workers, WorkerStep(w) \/ HeartbeatFails(w) \/ Timeout(w) \/ Crash(w)
      PROVE  IInv'
  <2>1. CASE Lease(w) BY <2>1, LeaseKeeps
  <2>2. CASE SendBatch(w) \/ SendComplete(w) \/ GiveUp(w) BY <2>2, SendingKeeps
  <2>3. CASE Restart(w) \/ HeartbeatFails(w) \/ Crash(w) BY <2>3, QuietKeeps
  <2>4. CASE Timeout(w) BY <2>4, QuietKeeps, SendingKeeps DEF Timeout
  <2> QED BY <1>3, <2>1, <2>2, <2>3, <2>4 DEF WorkerStep
<1>4. CASE \E r \in net : Execute(r) \/ Lose(r) BY <1>4, ExecuteKeeps, LoseKeeps
<1>5. CASE \E t \in Tasks : Expire(t) BY <1>5, ExpireKeeps
<1>6. CASE SeeDone \/ Collect BY <1>6, CollectorKeeps
<1> QED BY <1>1, <1>2, <1>3, <1>4, <1>5, <1>6 DEF Next

LEMMA IInvInvariant == Spec => []IInv
BY InitIInv, IInvStep, PTL DEF Spec

\* The batches of a task are stored without gaps, whatever attempts are cut
\* off and whatever requests of theirs arrive late or never.
THEOREM StoredWithoutGaps == Spec => []NoGaps
BY IInvInvariant, PTL DEF IInv

-----------------------------------------------------------------------------
\* A step of the store as the ledger sees it.
LEMMA SubmitMaps == ASSUME IInv, NEW new \in SUBSET Tasks, Submit(new) PROVE Ledger!Submit(new)
<1>1. /\ task' = [t \in Tasks |-> IF t \in new THEN [task[t] EXCEPT !.state = "queued"] ELSE task[t]]
      /\ batches' = batches /\ \A t \in new : task[t].state = "absent"
  BY DEF Submit
<1>2. ASSUME NEW t \in Tasks
      PROVE  /\ task'[t].state = IF t \in new THEN "queued" ELSE task[t].state
             /\ task'[t].owner = task[t].owner
  <2>1. task[t] \in Row0 BY DEF IInv, Typed
  <2>2. task'[t] = IF t \in new THEN [task[t] EXCEPT !.state = "queued"] ELSE task[t] BY <1>1
  <2> QED BY <2>1, <2>2 DEF Row0
<1> QED BY <1>1, <1>2 DEF Ledger!Submit

LEMMA StutterMaps ==
    ASSUME batches' = batches,
           \A t \in Tasks : task'[t].state = task[t].state /\ task'[t].owner = task[t].owner
    PROVE  UNCHANGED Ledger!vars
BY DEF Ledger!vars

LEMMA ExpireMaps == ASSUME IInv, NEW s \in Tasks, Expire(s) PROVE UNCHANGED Ledger!vars
<1>1. task' = [task EXCEPT ![s].live = FALSE] /\ batches' = batches BY DEF Expire
<1>2. ASSUME NEW t \in Tasks PROVE task'[t].state = task[t].state /\ task'[t].owner = task[t].owner
  <2>1. task[t] \in Row0 /\ task \in [Tasks -> Row0] BY DEF IInv, Typed
  <2>2. task'[t] = IF t = s THEN [task[t] EXCEPT !.live = FALSE] ELSE task[t] BY <1>1, <2>1
  <2> QED BY <2>1, <2>2 DEF Row0
<1> QED BY <1>1, <1>2, StutterMaps

LEMMA AssignIntro ==
    ASSUME NEW back \in SUBSET Tasks, NEW out \in SUBSET Tasks, NEW w, batches' = batches,
           \A t \in back : task[t].state = "leased",
           \A t \in out : task[t].state = "queued" \/ t \in back,
           \A t \in Tasks :
               /\ task'[t].state = IF t \in out THEN "leased"
                                   ELSE IF t \in back THEN "queued" ELSE task[t].state
               /\ task'[t].owner = IF t \in out THEN w
                                   ELSE IF t \in back THEN None ELSE task[t].owner
    PROVE  Ledger!Assign(back, [s \in out |-> w])
<1> DEFINE f == [s \in out |-> w]
<1>1. DOMAIN f = out /\ \A s \in out : f[s] = w OBVIOUS
<1> HIDE DEF f
<1>2. [t \in Tasks |-> task'[t].state]
        = [t \in Tasks |-> IF t \in DOMAIN f THEN "leased"
                           ELSE IF t \in back THEN "queued" ELSE task[t].state]
  BY <1>1
<1>3. [t \in Tasks |-> task'[t].owner]
        = [t \in Tasks |-> IF t \in DOMAIN f THEN f[t]
                           ELSE IF t \in back THEN None ELSE task[t].owner]
  BY <1>1
<1>4. Ledger!Assign(back, f) BY <1>1, <1>2, <1>3 DEF Ledger!Assign
<1> QED BY <1>4 DEF f

\* The sweep takes back the leases that have run out, and the request is
\* given the oldest task, if there is one.
Back == {t \in Tasks : task[t].state = "leased" /\ ~task[t].live}

LEMMA LeaseMaps ==
    ASSUME IInv, NEW w \in Workers, Lease(w)
    PROVE  \/ Ledger!Assign(Back, [t \in {} |-> None])
           \/ \E t \in Tasks : Ledger!Assign(Back, [s \in {t} |-> w])
<1>1. /\ Swept \in [Tasks -> Row0]
      /\ \A t \in Tasks :
            /\ Swept[t].state = IF t \in Back THEN "queued" ELSE task[t].state
            /\ Swept[t].owner = IF t \in Back THEN None ELSE task[t].owner
  BY SweptRows DEF IInv, Back
<1>2. batches' = batches BY DEF Lease
<1>3. \A t \in Back : task[t].state = "leased" BY DEF Back
<1>4. CASE task' = Swept
  <2>1. Ledger!Assign(Back, [t \in {} |-> None]) 
    BY <1>1, <1>2, <1>3, <1>4, AssignIntro DEF Back
  <2> QED BY <2>1
<1>5. ASSUME NEW t \in Tasks, t \in Oldest(Swept), task' = [Swept EXCEPT ![t] = Given(@, w)]
      PROVE  Ledger!Assign(Back, [s \in {t} |-> w])
  <2>1. Swept[t].state = "queued" BY <1>5 DEF Oldest
  <2>2. Given(Swept[t], w).state = "leased" /\ Given(Swept[t], w).owner = w BY <1>1, GivenRow
  <2>3. ASSUME NEW s \in Tasks
        PROVE  /\ task'[s].state = IF s \in {t} THEN "leased"
                                   ELSE IF s \in Back THEN "queued" ELSE task[s].state
               /\ task'[s].owner = IF s \in {t} THEN w
                                   ELSE IF s \in Back THEN None ELSE task[s].owner
    BY <1>1, <1>5, <2>2
  <2>4. task[t].state = "queued" \/ t \in Back BY <1>1, <2>1
  <2>5. Back \in SUBSET Tasks /\ {t} \in SUBSET Tasks BY DEF Back
  <2>6. \A s \in {t} : task[s].state = "queued" \/ s \in Back BY <2>4
  <2> QED BY <1>2, <1>3, <2>3, <2>5, <2>6, AssignIntro
<1> QED BY <1>4, <1>5 DEF Lease, Oldest

LEMMA ExecuteMaps ==
    ASSUME IInv, NEW r \in net, Execute(r)
    PROVE  \/ UNCHANGED Ledger!vars
           \/ \E t \in Tasks : Ledger!Assign({t}, [s \in {} |-> None])
           \/ \E t \in Tasks, w \in Workers :
                 \/ \E b \in Indexes : Ledger!Deliver(t, w, b)
                 \/ \E outcome \in {"completed", "failed"} : Ledger!Finish(t, w, outcome)
<1> DEFINE t == r.task
           w == r.from
<1>1. r \in Request0 /\ Effect(r) BY DEF IInv, Typed, Execute
<1>2. t \in Tasks /\ w \in Workers /\ r.kind \in {"batch", "complete", "requeue", "fail"}
  BY <1>1 DEF Request0
<1>3. Accepted(r) => task[t].state = "leased" /\ task[t].owner = w BY DEF Accepted, Holds
<1>4. CASE ~Accepted(r)
  <2>1. batches' = batches /\ task' = task BY <1>1, <1>4 DEF Effect
  <2> QED BY <2>1, StutterMaps
<1>5. CASE Accepted(r) /\ r.kind = "batch"
  <2>1. task' = task BY <1>1, <1>5 DEF Effect
  <2>2. r.index \in Indexes BY <1>5 DEF IInv, RequestsFollow
  <2>3. ASSUME NEW s \in Tasks
        PROVE  {i \in Indexes : batches'[s][i] # 0} =
                 IF s = t THEN {i \in Indexes : batches[s][i] # 0} \cup {r.index}
                 ELSE {i \in Indexes : batches[s][i] # 0}
    <3>1. \A i \in Indexes : batches'[s][i] # 0 <=> batches[s][i] # 0 \/ (s = t /\ i = r.index)
      BY <1>1, <1>5, EffectBatches
    <3> QED BY <2>2, <3>1
  <2>4. Ledger!Deliver(t, w, r.index) BY <1>2, <1>3, <1>5, <2>1, <2>3 DEF Ledger!Deliver
  <2> QED BY <1>2, <2>2, <2>4
<1>6. CASE Accepted(r) /\ r.kind # "batch"
  <2>1. batches' = batches BY <1>1, <1>6 DEF Effect
  <2>2. task[t] \in Row0 /\ task \in [Tasks -> Row0] BY <1>2 DEF IInv, Typed
  <2>3. task' = [task EXCEPT ![t] = Released(task[t], After(r.kind))] BY <1>1, <1>6, <2>2 DEF Effect
  <2>4. ASSUME NEW s \in Tasks
        PROVE  /\ task'[s].state = IF s = t THEN After(r.kind) ELSE task[s].state
               /\ task'[s].owner = IF s = t THEN None ELSE task[s].owner
    <3>1. r.kind \in {"complete", "requeue", "fail"} BY <1>2, <1>6
    <3> QED BY <2>2, <2>3, <3>1, AfterState, ReleasedRow
  <2>5. CASE r.kind = "requeue"
    <3>1. After(r.kind) = "queued" BY <2>5 DEF After
    <3>2. Ledger!Assign({t}, [s \in {} |-> None])
      BY <1>2, <1>3, <1>6, <2>1, <2>4, <3>1 DEF Ledger!Assign
    <3> QED BY <1>2, <3>2
  <2>6. CASE r.kind \in {"complete", "fail"}
    <3>1. After(r.kind) \in {"completed", "failed"} BY <2>6 DEF After
    <3>2. Ledger!Finish(t, w, After(r.kind))
      BY <1>2, <1>3, <1>6, <2>1, <2>4, <3>1 DEF Ledger!Finish
    <3> QED BY <1>2, <3>1, <3>2
  <2> QED BY <1>2, <1>6, <2>5, <2>6
<1> QED BY <1>4, <1>5, <1>6

LEMMA NextMaps == IInv /\ [Next]_vars => [Ledger!Next]_(Ledger!vars)
<1> SUFFICES ASSUME IInv, [Next]_vars PROVE [Ledger!Next]_(Ledger!vars) OBVIOUS
<1>1. CASE task' = task /\ batches' = batches BY <1>1, StutterMaps
<1>2. ASSUME NEW new \in SUBSET Tasks, Submit(new) PROVE Ledger!Next
  BY <1>2, SubmitMaps DEF Ledger!Next
<1>3. ASSUME NEW w \in Workers, Lease(w) PROVE Ledger!Next
  <2>1. Back \in SUBSET Tasks BY DEF Back
  <2> QED BY <1>3, <2>1, LeaseMaps DEF Ledger!Next
<1>4. ASSUME NEW r \in net, Execute(r) PROVE [Ledger!Next]_(Ledger!vars)
  <2>1. \A t \in Tasks : {t} \in SUBSET Tasks OBVIOUS
  <2> QED BY <1>4, <2>1, ExecuteMaps DEF Ledger!Next
<1>5. CASE \E t \in Tasks : Expire(t) BY <1>5, ExpireMaps
<1>6. ASSUME NEW w \in Workers, WorkerStep(w) \/ HeartbeatFails(w) \/ Timeout(w) \/ Crash(w)
      PROVE  Lease(w) \/ (task' = task /\ batches' = batches)
  BY <1>6 DEF WorkerStep, SendBatch, SendComplete, GiveUp, Restart, HeartbeatFails, Timeout, Crash, Send
<1>7. CASE \E r \in net : Lose(r) BY <1>1, <1>7 DEF Lose
<1>8. CASE SeeDone \/ Collect BY <1>1, <1>8 DEF SeeDone, Collect
<1>9. CASE UNCHANGED vars BY <1>1, <1>9 DEF vars
<1> QED BY <1>1, <1>2, <1>3, <1>4, <1>5, <1>6, <1>7, <1>8, <1>9 DEF Next

\* The unauthenticated store keeps the ledger: one holder at a time, results
\* and ends from the holder only, and finished tasks left alone.
THEOREM LedgerKept == Spec => ImplementsLedger
<1>1. Init => Ledger!Init
  <2> SUFFICES ASSUME Init PROVE Ledger!Init OBVIOUS
  <2>1. \A t \in Tasks : task[t].state = "absent" /\ task[t].owner = None BY DEF Init
  <2>2. \A t \in Tasks : {i \in Indexes : batches[t][i] # 0} = {} BY DEF Init
  <2> QED BY <2>1, <2>2 DEF Ledger!Init
<1> QED BY <1>1, NextMaps, IInvInvariant, PTL DEF Spec, ImplementsLedger, Ledger!Spec

-----------------------------------------------------------------------------
Whole ==
    \A t \in Tasks : task'[t].state = "completed" /\ task[t].state # "completed" =>
        \E r \in net \ net' : /\ r.kind = "complete" /\ r.task = t
                             /\ \A i \in Indexes : i < r.index => batches[t][i] # 0

LEMMA WholeStep == IInv /\ [Next]_vars => Whole
<1> SUFFICES ASSUME IInv, [Next]_vars, NEW t \in Tasks,
                    task'[t].state = "completed", task[t].state # "completed"
             PROVE  \E r \in net \ net' : /\ r.kind = "complete" /\ r.task = t
                                          /\ \A i \in Indexes : i < r.index => batches[t][i] # 0
  BY DEF Whole
<1>1. ASSUME NEW r \in net, Execute(r)
      PROVE  r \in net \ net' /\ r.kind = "complete" /\ r.task = t
             /\ \A i \in Indexes : i < r.index => batches[t][i] # 0
  <2>1. Effect(r) /\ net' = net \ {r} BY <1>1 DEF Execute
  <2>2. t = r.task /\ r.kind # "batch" /\ After(r.kind) = "completed" BY <2>1, EffectRows
  <2>3. r.kind \in {"batch", "complete", "requeue", "fail"} BY DEF IInv, Typed, Request0
  <2>4. r.kind = "complete" BY <2>2, <2>3 DEF After
  <2> QED BY <2>1, <2>2, <2>4 DEF IInv, RequestsFollow, Full
<1>2. ASSUME NEW new \in SUBSET Tasks, Submit(new) PROVE FALSE
  <2>1. task[t] \in Row0 BY DEF IInv, Typed
  <2>2. task'[t] = IF t \in new THEN [task[t] EXCEPT !.state = "queued"] ELSE task[t]
    BY <1>2 DEF Submit
  <2> QED BY <2>1, <2>2 DEF Row0
<1>3. ASSUME NEW s \in Tasks, Expire(s) PROVE FALSE
  <2>1. task[t] \in Row0 /\ task \in [Tasks -> Row0] BY DEF IInv, Typed
  <2>2. task'[t] = IF t = s THEN [task[t] EXCEPT !.live = FALSE] ELSE task[t]
    BY <1>3, <2>1 DEF Expire
  <2> QED BY <2>1, <2>2 DEF Row0
<1>4. ASSUME NEW w \in Workers, Lease(w) PROVE FALSE
  <2>1. /\ Swept \in [Tasks -> Row0]
        /\ Swept[t].state = "queued" \/ Swept[t].state = task[t].state
    BY SweptRows DEF IInv
  <2>2. CASE task' = Swept BY <2>1, <2>2
  <2>3. ASSUME NEW s \in Tasks, task' = [Swept EXCEPT ![s] = Given(@, w)] PROVE FALSE
    <3>1. Given(Swept[s], w).state = "leased" BY <2>1, GivenRow
    <3> QED BY <2>1, <2>3, <3>1
  <2> QED BY <1>4, <2>2, <2>3 DEF Lease, Oldest
<1>5. ASSUME NEW w \in Workers, WorkerStep(w) \/ HeartbeatFails(w) \/ Timeout(w) \/ Crash(w)
      PROVE  FALSE
  <2>1. Lease(w) \/ task' = task
    BY <1>5 DEF WorkerStep, SendBatch, SendComplete, GiveUp, Restart, HeartbeatFails, Timeout, Crash, Send
  <2> QED BY <1>4, <2>1
<1>6. ~ UNCHANGED vars /\ ~ (\E r \in net : Lose(r)) /\ ~ SeeDone /\ ~ Collect
  BY DEF vars, Lose, SeeDone, Collect
<1>7. PICK r \in net : Execute(r) BY <1>2, <1>3, <1>5, <1>6 DEF Next
<1> QED BY <1>1, <1>7

\* A task is completed only by a request before which all batches of its
\* attempt were stored.
THEOREM CompletedWhole == Spec => CompletesWhole
<1>1. IInv /\ [Next]_vars => [Whole]_vars BY WholeStep
<1> QED BY <1>1, IInvInvariant, PTL DEF Spec, CompletesWhole, Whole

-----------------------------------------------------------------------------
\* Rows that were read of finished tasks are those of the store.
RowsAreFinal ==
    \A row \in collected.rows :
        row.task \in Tasks /\ (row.state \in Terminal => row = Row(row.task))

\* A finished task is left alone.
LEMMA FinishedStays ==
    ASSUME IInv, [Next]_vars, NEW t \in Tasks, task[t].state \in Terminal
    PROVE  Row(t)' = Row(t)
<1>0. task[t].state # "leased" /\ task[t].state # "queued" /\ task[t].state # "absent"
      /\ task[t] \in Row0 /\ task \in [Tasks -> Row0] /\ batches \in [Tasks -> [Indexes -> Nat]]
  BY DEF Terminal, IInv, Typed
<1>1. SUFFICES task'[t].state = task[t].state /\ batches'[t] = batches[t] BY DEF Row
<1>2. ASSUME NEW r \in net, Execute(r) PROVE task'[t].state = task[t].state /\ batches'[t] = batches[t]
  <2>1. Effect(r) BY <1>2 DEF Execute
  <2>2. ~ (t = r.task /\ Accepted(r)) BY <1>0 DEF Accepted, Holds
  <2>3. task'[t] = task[t] BY <2>1, <2>2, EffectRows
  <2>4. batches' \in [Tasks -> [Indexes -> Nat]] /\ \A i \in Indexes : batches'[t][i] = batches[t][i]
    BY <2>1, <2>2, EffectBatches
  <2> QED BY <1>0, <2>3, <2>4
<1>3. ASSUME NEW new \in SUBSET Tasks, Submit(new)
      PROVE  task'[t].state = task[t].state /\ batches'[t] = batches[t]
  BY <1>0, <1>3 DEF Submit
<1>4. ASSUME NEW s \in Tasks, Expire(s) PROVE task'[t].state = task[t].state /\ batches'[t] = batches[t]
  BY <1>0, <1>4 DEF Expire
<1>5. ASSUME NEW w \in Workers, Lease(w) PROVE task'[t].state = task[t].state /\ batches'[t] = batches[t]
  <2>1. Swept \in [Tasks -> Row0] /\ Swept[t].state = task[t].state BY <1>0, SweptRows DEF IInv
  <2>2. batches' = batches BY <1>5 DEF Lease
  <2>3. CASE task' = Swept BY <2>1, <2>2, <2>3
  <2>4. ASSUME NEW s \in Oldest(Swept), task' = [Swept EXCEPT ![s] = Given(@, w)]
        PROVE  task'[t].state = task[t].state
    <3>1. s # t BY <1>0, <2>1 DEF Oldest
    <3> QED BY <2>1, <2>4, <3>1
  <2> QED BY <1>5, <2>2, <2>3, <2>4 DEF Lease
<1>6. ASSUME NEW w \in Workers, WorkerStep(w) \/ HeartbeatFails(w) \/ Timeout(w) \/ Crash(w)
      PROVE  task'[t].state = task[t].state /\ batches'[t] = batches[t]
  <2>1. Lease(w) \/ (task' = task /\ batches' = batches)
    BY <1>6 DEF WorkerStep, SendBatch, SendComplete, GiveUp, Restart, HeartbeatFails, Timeout, Crash, Send
  <2> QED BY <1>5, <2>1
<1>7. UNCHANGED vars \/ (\E r \in net : Lose(r)) \/ SeeDone \/ Collect => task' = task /\ batches' = batches
  BY DEF vars, Lose, SeeDone, Collect
<1> QED BY <1>2, <1>3, <1>4, <1>6, <1>7 DEF Next

LEMMA RowsStep == IInv /\ RowsAreFinal /\ [Next]_vars => RowsAreFinal'
<1> SUFFICES ASSUME IInv, RowsAreFinal, [Next]_vars PROVE RowsAreFinal' OBVIOUS
<1>1. ASSUME collected'.rows = collected.rows PROVE RowsAreFinal'
  <2> SUFFICES ASSUME NEW row \in collected.rows, row.state \in Terminal
               PROVE  row = Row(row.task)'
    BY <1>1 DEF RowsAreFinal
  <2>1. row.task \in Tasks /\ row = Row(row.task) BY DEF RowsAreFinal
  <2>2. row.state = task[row.task].state BY <2>1 DEF Row
  <2> QED BY <2>1, <2>2, FinishedStays
<1>2. CASE Collect
  <2>1. collected'.rows \subseteq {Row(t) : t \in Submitted} /\ task' = task /\ batches' = batches
    BY <1>2 DEF Collect
  <2>2. \A t \in Submitted : t \in Tasks /\ Row(t).task = t /\ Row(t)' = Row(t)
    BY <2>1 DEF Submitted, Row
  <2> QED BY <2>1, <2>2 DEF RowsAreFinal
<1>3. CASE SeeDone
  <2>1. collected'.rows = collected.rows BY <1>3 DEF SeeDone
  <2> QED BY <1>1, <2>1
<1>4. ~Collect /\ ~SeeDone => collected' = collected
  BY DEF Next, vars, WorkerStep, Submit, Lease, SendBatch, SendComplete, GiveUp, Restart, HeartbeatFails,
         Timeout, Crash, Send, Execute, Lose, Expire
<1> QED BY <1>1, <1>2, <1>3, <1>4

\* What a collector read of a finished task is all there will ever be of it.
THEOREM CollectedIsFinal == Spec => []CollectedStays
<1>1. Init => RowsAreFinal BY DEF Init, RowsAreFinal
<1>2. RowsAreFinal => CollectedStays BY DEF RowsAreFinal, CollectedStays
<1> QED BY <1>1, <1>2, RowsStep, IInvInvariant, PTL DEF Spec
=============================================================================
