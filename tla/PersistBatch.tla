---------------------------- MODULE PersistBatch ----------------------------
(***************************************************************************)
(* How a batch is persisted (catalog_refresh.py, _persist_batch): a task   *)
(* group writes it to the history and, beside that, normalizes its items   *)
(* on a pool of threads (runtime.py, map_sync_bounded_iter), a producer    *)
(* and workers joined by two bounded queues; when both are done the        *)
(* normalized items are appended to the spool.  Either may fail, which     *)
(* cancels the other, and the caller may be cancelled.                     *)
(***************************************************************************)
EXTENDS Integers, Sequences, FiniteSets

CONSTANTS
    NumItems, Workers, QueueSize,
    Raising,        \* sets of items whose normalization raises
    MayFail,        \* the history may fail
    MayCancel

PersistConstantsOK ==
    /\ NumItems \in Nat /\ QueueSize \in Nat \ {0} /\ IsFiniteSet(Workers) /\ Workers # {}
    /\ Raising \subseteq SUBSET (1 .. NumItems) /\ {MayFail, MayCancel} \subseteq BOOLEAN

Items == 1 .. NumItems
EndMark == 0
Error == -1

VARIABLES
    bad,                    \* the items that raise
    producer, next, closed, \* its state, the next item, end marks put
    inq, outq,
    worker, hand,           \* of each worker: its state, and the item or result it has
    consumer, got, ended,   \* the generator's caller: state, results, end marks seen
    record,                 \* the history's task
    spooled

map == <<bad, producer, next, closed, inq, outq, worker, hand, consumer, got, ended>>
vars == <<map, record, spooled>>

TypeOK ==
    /\ bad \in Raising
    /\ producer \in {"putting", "raising", "closing", "done"}
    /\ next \in 1 .. NumItems + 1 /\ closed \in 0 .. Cardinality(Workers)
    /\ inq \in Seq(Items \union {EndMark}) /\ Len(inq) <= QueueSize
    /\ outq \in Seq(Items \union {EndMark, Error}) /\ Len(outq) <= QueueSize
    /\ worker \in [Workers -> {"getting", "running", "putting", "done"}]
    /\ hand \in [Workers -> Items \union {EndMark, Error}]
    /\ consumer \in {"getting", "ok", "error", "canceled"}
    /\ got \in Seq(Items) /\ ended \in 0 .. Cardinality(Workers)
    /\ record \in {"running", "committed", "failed"} /\ spooled \in BOOLEAN

Init ==
    /\ bad \in Raising
    /\ producer = "putting" /\ next = 1 /\ closed = 0 /\ inq = <<>> /\ outq = <<>>
    /\ worker = [w \in Workers |-> "getting"] /\ hand = [w \in Workers |-> EndMark]
    /\ consumer = "getting" /\ got = <<>> /\ ended = 0
    /\ record = "running" /\ spooled = FALSE

\* Faulty: the queues are not bounded.
RoomAlways(q) == TRUE

Room(q) == Len(q) < QueueSize

-----------------------------------------------------------------------------
(* map_sync_bounded_iter *)

Produce ==
    /\ producer = "putting"
    /\ IF next <= NumItems
       THEN /\ Room(inq) /\ inq' = Append(inq, next) /\ next' = next + 1 /\ UNCHANGED producer
       ELSE producer' = "closing" /\ UNCHANGED <<inq, next>>
    /\ UNCHANGED <<bad, closed, outq, worker, hand, consumer, got, ended, record, spooled>>

\* The exception a cancellation raises in it goes to the output first.
ProducerRaises ==
    /\ producer = "raising" /\ Room(outq)
    /\ outq' = Append(outq, Error) /\ producer' = "closing"
    /\ UNCHANGED <<bad, next, closed, inq, worker, hand, consumer, got, ended, record, spooled>>

\* Faulty: one end mark for all workers.
CloseOnce ==
    /\ producer = "closing" /\ Room(inq)
    /\ inq' = Append(inq, EndMark) /\ closed' = closed + 1 /\ producer' = "done"
    /\ UNCHANGED <<bad, next, outq, worker, hand, consumer, got, ended, record, spooled>>

\* `finally`: an end mark for each worker.
Close ==
    /\ producer = "closing" /\ Room(inq)
    /\ inq' = Append(inq, EndMark) /\ closed' = closed + 1
    /\ producer' = IF closed + 1 = Cardinality(Workers) THEN "done" ELSE "closing"
    /\ UNCHANGED <<bad, next, outq, worker, hand, consumer, got, ended, record, spooled>>

WorkerGet(w) ==
    /\ worker[w] = "getting" /\ inq # <<>>
    /\ inq' = Tail(inq) /\ hand' = [hand EXCEPT ![w] = Head(inq)]
    /\ worker' = [worker EXCEPT ![w] = IF Head(inq) = EndMark THEN "putting" ELSE "running"]
    /\ UNCHANGED <<bad, producer, next, closed, outq, consumer, got, ended, record, spooled>>

\* A thread of the pool runs func.
WorkerRuns(w) ==
    /\ worker[w] = "running" /\ worker' = [worker EXCEPT ![w] = "putting"]
    /\ hand' = [hand EXCEPT ![w] = IF @ \in bad THEN Error ELSE @]
    /\ UNCHANGED <<bad, producer, next, closed, inq, outq, consumer, got, ended, record, spooled>>

WorkerPuts(w) ==
    /\ worker[w] = "putting" /\ Room(outq)
    /\ outq' = Append(outq, hand[w])
    /\ worker' = [worker EXCEPT ![w] = IF hand[w] \in Items THEN "getting" ELSE "done"]
    /\ UNCHANGED <<bad, producer, next, closed, inq, hand, consumer, got, ended, record, spooled>>

\* task.cancel() of those not done: each raises where it waits.  An exception
\* at a put or in the pool is itself put; one in `finally`, in the except
\* clause or at the get ends the task.
TasksCanceled ==
    /\ producer' = CASE producer = "putting" -> "raising"
                     [] OTHER -> "done"
    /\ worker' = [w \in Workers |->
                    IF worker[w] = "running" \/ (worker[w] = "putting" /\ hand[w] # Error)
                    THEN "putting" ELSE "done"]
    /\ hand' = [w \in Workers |-> Error]

Finish(outcome) == consumer' = outcome /\ TasksCanceled

\* Faulty: the first worker that ends ends the map.
TakeFirst ==
    /\ consumer = "getting" /\ outq # <<>> /\ outq' = Tail(outq)
    /\ LET x == Head(outq) IN
       CASE x \in Items -> got' = Append(got, x) /\ UNCHANGED <<producer, worker, hand, consumer, ended>>
         [] x = Error   -> Finish("error") /\ UNCHANGED <<got, ended>>
         [] OTHER       -> Finish("ok") /\ ended' = ended + 1 /\ UNCHANGED got
    /\ UNCHANGED <<bad, next, closed, inq, record, spooled>>

\* The caller takes results until each worker has ended, or an error came.
Take ==
    /\ consumer = "getting" /\ outq # <<>> /\ outq' = Tail(outq)
    /\ LET x == Head(outq) IN
       CASE x \in Items -> got' = Append(got, x) /\ UNCHANGED <<producer, worker, hand, consumer, ended>>
         [] x = Error   -> Finish("error") /\ UNCHANGED <<got, ended>>
         [] OTHER       -> /\ ended' = ended + 1 /\ UNCHANGED got
                           /\ IF ended + 1 = Cardinality(Workers) THEN Finish("ok")
                              ELSE UNCHANGED <<producer, worker, hand, consumer>>
    /\ UNCHANGED <<bad, next, closed, inq, record, spooled>>

MapDone == consumer # "getting" /\ producer = "done" /\ \A w \in Workers : worker[w] = "done"

-----------------------------------------------------------------------------
(* _persist_batch *)

\* The transaction of record_batch.  When the map failed its task is
\* cancelled, but the thread writes on.
Commit ==
    /\ record = "running"
    /\ record' = "committed" \/ (MayFail /\ record' = "failed")
    /\ UNCHANGED <<map, spooled>>

\* The other task failed, or the caller is cancelled.
MapCanceled ==
    /\ consumer = "getting" /\ (record = "failed" \/ MayCancel)
    /\ Finish("canceled")
    /\ UNCHANGED <<bad, next, closed, inq, outq, got, ended, record, spooled>>

\* The group's end: an exception, or the spool.
Spool ==
    /\ MapDone /\ consumer = "ok" /\ record = "committed" /\ ~spooled
    /\ spooled' = TRUE
    /\ UNCHANGED <<map, record>>

Step == \/ Produce \/ ProducerRaises \/ Close \/ Take \/ Commit \/ Spool
        \/ \E w \in Workers : WorkerGet(w) \/ WorkerRuns(w) \/ WorkerPuts(w)

Next == Step \/ MapCanceled

Spec == Init /\ [][Next]_vars

\* The loop and the threads run; func and the transaction end.
FairSpec == Spec /\ WF_vars(Step) /\ WF_vars(record = "failed" /\ MapCanceled)

-----------------------------------------------------------------------------
(* Properties *)

\* What is spooled is every item of the batch, once, and the batch is in the
\* history: a batch of which one item cannot be normalized is not published
\* in part.
SpooledIsWhole ==
    spooled => /\ record = "committed" /\ bad = {}
               /\ Len(got) = NumItems /\ {got[i] : i \in 1 .. Len(got)} = Items

\* However long the input, only what the queues and the workers hold is under
\* way (map_sync_bounded_iter's caller need not materialize it).
InFlightBounded ==
    consumer = "getting" => next - 1 - Len(got) <= 2 * QueueSize + Cardinality(Workers)

\* Which and how many of the first n entries of a queue are in S, and how many
\* of all.
Places(q, n, S) == {i \in 1 .. n : q[i] \in S}
CountTo(q, n, S) == Cardinality(Places(q, n, S))
Count(q, S) == CountTo(q, Len(q), S)

\* The workers that have put their end mark, and those with an item or with the
\* error it raised.
Ended == {w \in Workers : worker[w] = "done" /\ hand[w] = EndMark}
Busy == {w \in Workers : worker[w] # "getting" /\ hand[w] # EndMark}

\* Where an item that was produced may be.
Somewhere(i) ==
    \/ \E k \in 1 .. Len(inq) : inq[k] = i
    \/ \E w \in Workers : worker[w] \in {"running", "putting"} /\ hand[w] = i
    \/ \E w \in Workers : worker[w] \in {"putting", "done"} /\ hand[w] = Error
    \/ \E k \in 1 .. Len(outq) : outq[k] = i
    \/ \E k \in 1 .. Len(got) : got[k] = i

\* End marks are behind every item, in the input and at the workers.
MarksAreLast ==
    /\ producer \in {"closing", "done"} => next = NumItems + 1
    /\ producer # "raising"
    /\ \A k \in 1 .. Len(inq) : inq[k] = EndMark =>
          producer # "putting" /\ \A l \in k .. Len(inq) : inq[l] = EndMark
    /\ \A w \in Workers : worker[w] \in {"putting", "done"} /\ hand[w] = EndMark =>
          producer # "putting" /\ \A k \in 1 .. Len(inq) : inq[k] = EndMark

\* A worker runs items, ends with a mark or an error, and lets no bad item pass.
WorkersInOrder ==
    /\ \A w \in Workers : /\ worker[w] = "running" => hand[w] \in Items
                          /\ worker[w] = "done" => hand[w] \notin Items
                          /\ worker[w] = "putting" => hand[w] \notin bad
    /\ \A k \in 1 .. Len(outq) : outq[k] \notin bad
    /\ \A k \in 1 .. Len(got) : got[k] \notin bad

\* Each item is in one place, no item is lost, every end mark of a worker is
\* counted or still in the output, and the last one is behind every item.
Accounted ==
    /\ next - 1 = Count(inq, Items) + Cardinality(Busy) + Count(outq, Items) + Len(got)
    /\ \A i \in 1 .. next - 1 : Somewhere(i)
    /\ Cardinality(Ended) = ended + Count(outq, {EndMark})
    /\ \A k \in 1 .. Len(outq) :
          outq[k] \in Items => ended + CountTo(outq, k - 1, {EndMark}) < Cardinality(Workers)

\* The inductive invariant: while the caller takes results nothing is lost, so
\* what it has at the end is the batch.
BatchInv ==
    /\ TypeOK
    /\ producer # "done" => closed < Cardinality(Workers)
    /\ consumer = "getting" => MarksAreLast /\ WorkersInOrder /\ Accounted
    /\ consumer = "ok" =>
          bad = {} /\ Len(got) = NumItems /\ {got[i] : i \in 1 .. Len(got)} = Items
    /\ spooled => record = "committed" /\ consumer = "ok"

\* The batch ends: the tasks are done, and so is the group.
BatchEnds == <>(MapDone /\ record # "running")
=============================================================================
