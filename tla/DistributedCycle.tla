-------------------------- MODULE DistributedCycle --------------------------
(***************************************************************************)
(* Refresh cycles run by remote workers, end to end: the service or the    *)
(* `collect` command submits one task per source, workers lease tasks,     *)
(* fetch their source page by page and upload a batch per page, and when   *)
(* every task of the cycle is terminal its batches are recorded in the     *)
(* catalog history, which decides what has disappeared.                    *)
(*                                                                         *)
(* The coordinator store is the task ledger, which SecureStore implements. *)
(* Requests travel on a wire: a worker that stops waiting for an answer    *)
(* (timeout, connection error, 503, its own death) leaves its request      *)
(* there, to be executed later or never.                                   *)
(*                                                                         *)
(* A source is a list of pages with one listing each.  Which listings it   *)
(* still offers changes over time.                                         *)
(***************************************************************************)
EXTENDS Integers, FiniteSets

CONSTANTS
    Sources, Workers, None,
    NumPages,          \* pages, so listings, of a source
    MaxAttempts,       \* max_attempts of a worker
    DisappearAfter,    \* disappearance_after_runs
    MaxCycles, MaxLeases, MaxWire    \* bounds

Kinds == {"batch", "complete", "fail", "requeue"}

ConstantsOK ==
    /\ None \notin Workers \cup Int \cup Sources \X Int \cup Kinds
    /\ NumPages \in Nat \ {0}
    /\ MaxAttempts \in Nat \ {0}
    /\ DisappearAfter \in Nat \ {0}
    /\ MaxCycles \in Nat /\ MaxLeases \in Nat /\ MaxWire \in Nat

Pages == 1 .. NumPages
Listings == Sources \X Pages
SourceOf == [l \in Listings |-> l[1]]

Cycles == 1 .. MaxCycles
Tasks == Sources \X Cycles
CycleOf == [t \in Tasks |-> t[2]]

\* The number in a batch id, `task_key:index`.
Indices == 0 .. NumPages - 1

VARIABLES
    phase, holder,     \* the ledger's tasks
    closed,            \* canceled cycles
    stored,            \* the page stored under each batch id of a task
    attempts,          \* leases a task has had
    exec,              \* what each worker is doing
    wire,              \* requests sent and not yet executed
    cycle, collector,  \* the cycle last submitted, and how far its collector is
    unread,            \* its batches the collector has not recorded yet
    offered,           \* listings the sources still offer
    mixed,             \* tasks whose attempts may get mixed up, see Mixed below
    listing, run, seen \* the catalog history

ledgerVars == <<phase, holder, closed, stored, attempts>>
collectorVars == <<cycle, collector, unread, listing, run, seen>>
vars == <<phase, holder, closed, stored, attempts, exec, wire, cycle, collector, unread,
          offered, mixed, listing, run, seen>>

Ledger == INSTANCE TaskLedger
            WITH Batches <- Indices,
                 results <- [t \in Tasks |-> {i \in Indices : stored[t][i] # None}]

History == INSTANCE CatalogHistory

Request == [kind : Kinds, task : Tasks, worker : Workers,
            attempt : 1 .. MaxLeases, index : Indices \cup {None}, page : Pages \cup {None}]

Idle == [task |-> None, attempt |-> 0, todo |-> {}, index |-> 0, awaits |-> None]
Execution == [task : Tasks, attempt : 1 .. MaxLeases, todo : SUBSET Pages, index : 0 .. NumPages,
              awaits : Kinds \cup {None}]

TypeOK ==
    /\ Ledger!TypeOK
    /\ History!HistoryTypeOK
    /\ stored \in [Tasks -> [Indices -> Pages \cup {None}]]
    /\ attempts \in [Tasks -> 0 .. MaxLeases]
    /\ exec \in [Workers -> Execution \cup {Idle}]
    /\ wire \subseteq Request
    /\ cycle \in 0 .. MaxCycles
    /\ collector \in {"idle", "waiting", "collecting"}
    /\ unread \subseteq Tasks \X Indices
    /\ offered \subseteq Listings
    /\ mixed \subseteq Tasks

Init ==
    /\ stored = [t \in Tasks |-> [i \in Indices |-> None]]
    /\ Ledger!Init
    /\ History!HistoryInit
    /\ attempts = [t \in Tasks |-> 0]
    /\ exec = [w \in Workers |-> Idle]
    /\ wire = {}
    /\ cycle = 0
    /\ collector = "idle"
    /\ unread = {}
    /\ offered = Listings
    /\ mixed = {}

----------------------------------------------------------------------------
(* Workers                                                                 *)

\* Two attempts at a task may get mixed up, as every attempt numbers its batches
\* from 0: when pages come in another order than the first, when the source
\* changes while the task is under way, and when a worker leases the task while a
\* request of its earlier attempt is on the wire.
Mixed(tasks, happens) == mixed' = IF happens THEN mixed \cup tasks ELSE mixed

Busy(w) == exec[w].task # None
Free(w) == Busy(w) /\ exec[w].awaits = None

\* An idle worker leases a task; expired leases are reclaimed on the way.
LeaseTask(w, t) ==
    /\ ~Busy(w)
    /\ attempts[t] < MaxLeases
    /\ UNCHANGED stored
    /\ \E expired \in SUBSET {s \in Tasks : phase[s] = "leased"} :
          Ledger!Assign(expired, [s \in {t} |-> w])
    /\ attempts' = [attempts EXCEPT ![t] = @ + 1]
    /\ exec' = [exec EXCEPT ![w] = [task |-> t, attempt |-> attempts[t] + 1, todo |-> Pages,
                                    index |-> 0, awaits |-> None]]
    /\ Mixed({t}, \E r \in wire : r.worker = w /\ r.task = t)
    /\ UNCHANGED <<wire, offered>>
    /\ UNCHANGED collectorVars

\* A lease expires and is reclaimed.
ReclaimExpired(t) ==
    /\ UNCHANGED stored
    /\ Ledger!Assign({t}, [s \in {} |-> None])
    /\ UNCHANGED <<attempts, exec, wire, offered, mixed>>
    /\ UNCHANGED collectorVars

Sent(w, kind, index, page) ==
    wire \cup {[kind |-> kind, task |-> exec[w].task, worker |-> w,
                attempt |-> exec[w].attempt, index |-> index, page |-> page]}

\* The next page arrives.  A page without listings gives no batch; a batch
\* takes the next index of this attempt.
FetchPage(w, p) ==
    LET l == <<exec[w].task[1], p>>
    IN  /\ Free(w)
        /\ p \in exec[w].todo
        /\ IF l \in offered
           THEN /\ wire' = Sent(w, "batch", exec[w].index, p)
                /\ exec' = [exec EXCEPT ![w].todo = @ \ {p}, ![w].index = @ + 1,
                                        ![w].awaits = "batch"]
           ELSE /\ exec' = [exec EXCEPT ![w].todo = @ \ {p}]
                /\ UNCHANGED wire
        /\ Mixed({exec[w].task}, \E q \in exec[w].todo : q < p)
        /\ UNCHANGED offered
        /\ UNCHANGED ledgerVars
        /\ UNCHANGED collectorVars

SendComplete(w) ==
    /\ Free(w)
    /\ exec[w].todo = {}
    /\ wire' = Sent(w, "complete", None, None)
    /\ exec' = [exec EXCEPT ![w].awaits = "complete"]
    /\ UNCHANGED <<offered, mixed>>
    /\ UNCHANGED ledgerVars
    /\ UNCHANGED collectorVars

\* `requeue` of the worker's fail request.
FailKind(w) == IF exec[w].attempt < MaxAttempts THEN "requeue" ELSE "fail"

\* The source fails, or the heartbeat has found the lease lost: `fail` is sent.
SourceFails(w) ==
    /\ Free(w)
    /\ wire' = Sent(w, FailKind(w), None, None)
    /\ exec' = [exec EXCEPT ![w].awaits = FailKind(w)]
    /\ UNCHANGED <<offered, mixed>>
    /\ UNCHANGED ledgerVars
    /\ UNCHANGED collectorVars

\* The worker stops waiting for an answer: it sends `fail`, or, when it was
\* waiting for that, ignores it.  The request stays on the wire.
GiveUp(w) ==
    /\ Busy(w) /\ exec[w].awaits # None
    /\ IF exec[w].awaits \in {"batch", "complete"}
       THEN /\ wire' = Sent(w, FailKind(w), None, None)
            /\ exec' = [exec EXCEPT ![w].awaits = FailKind(w)]
       ELSE /\ exec' = [exec EXCEPT ![w] = Idle]
            /\ UNCHANGED wire
    /\ Cardinality(wire) < MaxWire
    /\ UNCHANGED <<offered, mixed>>
    /\ UNCHANGED ledgerVars
    /\ UNCHANGED collectorVars

WorkerCrash(w) ==
    /\ Busy(w)
    /\ Cardinality(wire) < MaxWire
    /\ exec' = [exec EXCEPT ![w] = Idle]
    /\ UNCHANGED <<wire, offered, mixed>>
    /\ UNCHANGED ledgerVars
    /\ UNCHANGED collectorVars

----------------------------------------------------------------------------
(* The coordinator executes a request; a waiting worker gets its answer.   *)

LeaseValid(r) == phase[r.task] = "leased" /\ holder[r.task] = r.worker

Waiting(r) == exec[r.worker].task = r.task /\ exec[r.worker].attempt = r.attempt
              /\ exec[r.worker].awaits = r.kind

Answered(r, next) == IF Waiting(r) THEN [exec EXCEPT ![r.worker] = next] ELSE exec

\* INSERT OR IGNORE: the first batch stored under an id stays.  The worker
\* goes on whatever the answer, 409 included.
ServeBatch(r) ==
    /\ r.kind = "batch"
    /\ stored' = IF LeaseValid(r) /\ stored[r.task][r.index] = None
                 THEN [stored EXCEPT ![r.task][r.index] = r.page] ELSE stored
    /\ IF LeaseValid(r) THEN Ledger!Deliver(r.task, r.worker, r.index)
                        ELSE UNCHANGED <<phase, holder, closed>>
    /\ exec' = Answered(r, [exec[r.worker] EXCEPT !.awaits = None])
    /\ wire' = wire \ {r}

\* The worker whose `complete` is refused sends `fail`.
ServeComplete(r) ==
    /\ r.kind = "complete"
    /\ UNCHANGED stored
    /\ IF LeaseValid(r)
       THEN /\ Ledger!Finish(r.task, holder[r.task], "completed")
            /\ exec' = Answered(r, Idle)
            /\ wire' = wire \ {r}
       ELSE /\ UNCHANGED <<phase, holder, closed>>
            /\ exec' = Answered(r, [exec[r.worker] EXCEPT !.awaits = FailKind(r.worker)])
            /\ wire' = (IF Waiting(r) THEN Sent(r.worker, FailKind(r.worker), None, None)
                                      ELSE wire) \ {r}

ServeFail(r) ==
    /\ r.kind \in {"fail", "requeue"}
    /\ UNCHANGED stored
    /\ IF LeaseValid(r)
       THEN IF r.kind = "requeue" THEN Ledger!Assign({r.task}, [s \in {} |-> None])
                                  ELSE Ledger!Finish(r.task, r.worker, "failed")
       ELSE UNCHANGED <<phase, holder, closed>>
    /\ exec' = Answered(r, Idle)
    /\ wire' = wire \ {r}

Serve(r) ==
    /\ ServeBatch(r) \/ ServeComplete(r) \/ ServeFail(r)
    /\ UNCHANGED <<attempts, offered, mixed>>
    /\ UNCHANGED collectorVars

LoseRequest(r) ==
    /\ ~Waiting(r)
    /\ wire' = wire \ {r}
    /\ UNCHANGED <<exec, offered, mixed>>
    /\ UNCHANGED ledgerVars
    /\ UNCHANGED collectorVars

----------------------------------------------------------------------------
(* The collector                                                           *)

CycleTasks == {t \in Tasks : t[2] = cycle}
Terminal == {"completed", "failed", "canceled"}
Done == \A t \in CycleTasks : phase[t] \in Terminal

SubmitCycle ==
    /\ collector = "idle" /\ cycle < MaxCycles
    /\ cycle' = cycle + 1
    /\ collector' = "waiting"
    /\ UNCHANGED stored
    /\ Ledger!Submit({t \in Tasks : t[2] = cycle + 1})
    /\ UNCHANGED <<attempts, exec, wire, unread, offered, mixed, listing, run, seen>>

\* The cycle's deadline passes.
CancelCycle ==
    /\ collector = "waiting"
    /\ ~Done
    /\ collector' = "idle"
    /\ UNCHANGED stored
    /\ Ledger!Cancel(cycle)
    /\ UNCHANGED <<attempts, exec, wire, cycle, unread, offered, mixed, listing, run, seen>>

\* A status request fails, or the collecting process dies: the cycle goes on
\* without a collector.
AbandonCycle ==
    /\ collector = "waiting"
    /\ collector' = "idle"
    /\ UNCHANGED <<exec, wire, cycle, unread, offered, mixed, listing, run, seen>>
    /\ UNCHANGED ledgerVars

\* Every task is terminal: the result refs are read and a run begins.
BeginCollect ==
    /\ collector = "waiting"
    /\ Done
    /\ collector' = "collecting"
    /\ unread' = {b \in CycleTasks \X Indices : stored[b[1]][b[2]] # None}
    /\ History!BeginRefresh
    /\ UNCHANGED <<exec, wire, cycle, offered, mixed>>
    /\ UNCHANGED ledgerVars

CollectBatch(b) ==
    /\ b \in unread
    /\ unread' = unread \ {b}
    /\ History!RecordBatch({<<b[1][1], stored[b[1]][b[2]]>>})
    /\ UNCHANGED <<exec, wire, cycle, collector, offered, mixed>>
    /\ UNCHANGED ledgerVars

\* Faulty: every source with a terminal task counts as polled.
FinishAllSources ==
    /\ collector = "collecting" /\ unread = {}
    /\ collector' = "idle"
    /\ History!FinishRefresh({t[1] : t \in CycleTasks})
    /\ UNCHANGED <<exec, wire, cycle, unread, offered, mixed>>
    /\ UNCHANGED ledgerVars

\* Only the sources whose task is completed count as polled.
FinishCollect ==
    /\ collector = "collecting" /\ unread = {}
    /\ collector' = "idle"
    /\ History!FinishRefresh({t[1] : t \in {s \in CycleTasks : phase[s] = "completed"}})
    /\ UNCHANGED <<exec, wire, cycle, unread, offered, mixed>>
    /\ UNCHANGED ledgerVars

\* An error or the death of the collecting process ends the run.
AbortCollect ==
    /\ collector = "collecting"
    /\ collector' = "idle"
    /\ unread' = {}
    /\ History!AbortRefresh
    /\ UNCHANGED <<exec, wire, cycle, offered, mixed>>
    /\ UNCHANGED ledgerVars

\* A source takes a listing off.
Withdraw(l) ==
    /\ l \in offered
    /\ offered' = offered \ {l}
    /\ Mixed({t \in Tasks : t[1] = l[1] /\ phase[t] \in {"queued", "leased"}}, TRUE)
    /\ UNCHANGED <<exec, wire>>
    /\ UNCHANGED ledgerVars
    /\ UNCHANGED collectorVars

Work(w) ==
    \/ \E t \in Tasks : LeaseTask(w, t)
    \/ \E p \in Pages : FetchPage(w, p)
    \/ SendComplete(w) \/ SourceFails(w) \/ GiveUp(w) \/ WorkerCrash(w)

Collect ==
    \/ SubmitCycle \/ CancelCycle \/ AbandonCycle \/ BeginCollect \/ FinishCollect \/ AbortCollect
    \/ \E b \in unread : CollectBatch(b)

Next ==
    \/ \E w \in Workers : Work(w)
    \/ \E t \in Tasks : ReclaimExpired(t)
    \/ \E r \in wire : Serve(r) \/ LoseRequest(r)
    \/ \E l \in Listings : Withdraw(l)
    \/ Collect

Spec == Init /\ [][Next]_vars

----------------------------------------------------------------------------
\* At the store: a completed task has stored every listing its source still offers,
\* whichever attempts, late requests and lost leases its batches came from, if its
\* attempts did not get mixed up.  The collector takes a completed source for
\* fully polled because of this.
CompletedIsWhole ==
    \A t \in Tasks \ mixed : phase[t] = "completed" =>
        \A l \in offered : l[1] = t[1] => \E i \in Indices : stored[t][i] = l[2]

\* A listing its source has offered all along is never taken for gone, if no task
\* of the source was mixed up.
\* README.md: "rate-limited/failed sources cannot manufacture disappearance
\* events"; docs/DISTRIBUTED_RUNTIME.md, Invariants: "A failed/canceled source
\* never looks like an empty successful source."
NoFalseDisappearance ==
    \A l \in offered : (\A t \in mixed : t[1] # l[1]) => ~listing[l].gone

\* The listings a source still offers, in the order of its pages.
Offers(s) == {p \in Pages : <<s, p>> \in offered}
Rank(s, p) == Cardinality({q \in Offers(s) : q < p})

Ours(t, w) == phase[t] = "leased" /\ holder[t] = w

\* An index is one a page of the source can have; an attempt has sent the first
\* pages in their order, unless its task is mixed up, as in what follows.
InPageOrder ==
    \A w \in Workers : Busy(w) =>
        /\ Cardinality(exec[w].todo) + exec[w].index <= NumPages
        /\ exec[w].task \notin mixed =>
              /\ \A p \in exec[w].todo : \A q \in Pages : p < q => q \in exec[w].todo
              /\ Ours(exec[w].task, w) =>
                    exec[w].index = Cardinality(Offers(exec[w].task[1]) \ exec[w].todo)

\* A worker that waits for nothing has no request about its task on the wire, and one
\* that waits for other than the answer to `fail` has only the one it waits for.
About(r, w) == r.worker = w /\ r.task = exec[w].task
OneOutstanding ==
    \A r \in wire : Busy(r.worker) /\ About(r, r.worker) /\ r.task \notin mixed =>
        /\ exec[r.worker].awaits # None
        /\ exec[r.worker].awaits \in {"batch", "complete"} =>
              Waiting(r) /\ \A q \in wire : About(q, r.worker) => q = r
        /\ r.kind = "batch" /\ Waiting(r) => r.index + 1 = exec[r.worker].index

\* While a task is not over, what is stored of it, or may be, is what its source
\* offers, each page under the index of its rank.
StoredInPlace ==
    \A t \in Tasks \ mixed : \A i \in Indices :
        /\ phase[t] = "absent" => stored[t][i] = None
        /\ phase[t] \in {"queued", "leased"} /\ stored[t][i] # None =>
              stored[t][i] \in Offers(t[1]) /\ i = Rank(t[1], stored[t][i])

SentInPlace ==
    \A r \in wire : r.task \notin mixed /\ Ours(r.task, r.worker) =>
        /\ r.kind = "batch" =>
              r.page \in Offers(r.task[1]) /\ r.index = Rank(r.task[1], r.page)
        /\ r.kind = "complete" =>
              \A p \in Offers(r.task[1]) : stored[r.task][Rank(r.task[1], p)] # None

\* What the holder of a task has sent is stored, but for a batch it waits for
\* the answer to.
SentIsStored ==
    \A w \in Workers : Busy(w) /\ exec[w].task \notin mixed /\ Ours(exec[w].task, w) =>
        \A p \in Offers(exec[w].task[1]) \ exec[w].todo :
            LET i == Rank(exec[w].task[1], p)
            IN  \/ stored[exec[w].task][i] # None
                \/ exec[w].awaits \in {"fail", "requeue"}
                \/ exec[w].awaits = "batch" /\ i + 1 = exec[w].index

\* While the batches of a cycle are collected, its tasks are over, and each of
\* them is still to be recorded or was seen.
CollectedIsSeen ==
    /\ \A b \in unread : stored[b[1]][b[2]] # None
    /\ collector = "collecting" =>
          \A t \in CycleTasks :
            /\ phase[t] \in Terminal
            /\ \A i \in Indices : stored[t][i] # None =>
                  <<t, i>> \in unread \/ <<t[1], stored[t][i]>> \in seen

\* The inductive invariant.
CycleInv ==
    /\ TypeOK /\ InPageOrder /\ OneOutstanding
    /\ StoredInPlace /\ SentInPlace /\ SentIsStored
    /\ CompletedIsWhole /\ CollectedIsSeen /\ NoFalseDisappearance
=============================================================================
