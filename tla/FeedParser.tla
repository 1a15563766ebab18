----------------------------- MODULE FeedParser -----------------------------
(***************************************************************************)
(* How a JSON feed that was downloaded is parsed and cached                *)
(* (streaming_discovery.py, CachedJsonFeedAdapter): a thread parses the    *)
(* items and puts batches into a bounded queue of the event loop, waiting  *)
(* for each to be taken; the generator yields them and stores what the     *)
(* thread kept for the cache.  The agent may leave it at a yield.          *)
(***************************************************************************)
EXTENDS Integers, Sequences

CONSTANTS
    NumItems,
    QueueSize,
    Targets,        \* sizes of a batch the batch sizer may ask for
    CacheLimit,     \* max_observations_per_entry
    MayLeave

FeedConstantsOK ==
    /\ NumItems \in Nat /\ QueueSize \in Nat \ {0} /\ CacheLimit \in Nat \ {0}
    /\ Targets \subseteq Nat \ {0} /\ Targets # {} /\ MayLeave \in BOOLEAN

VARIABLES
    thread,     \* parsing, putting, or ended
    item,       \* what the thread waits to put: a number of items, "error" or "end"
    parsed,     \* items
    batch,      \* ... of which are not yet put
    kept,       \* cached_records: how many, and whether `cacheable`
    queue,
    consumer,   \* waiting, at a yield, or ended
    outcome,    \* of the generator: none, ok, error or left
    received,   \* items yielded
    stored      \* items stored in the cache

vars == <<thread, item, parsed, batch, kept, queue, consumer, outcome, received, stored>>

Items == [kind : {"batch", "error", "end"}, size : 0 .. NumItems]
Batch(n) == [kind |-> "batch", size |-> n]
Error == [kind |-> "error", size |-> 0]
EndMark == [kind |-> "end", size |-> 0]

TypeOK ==
    /\ thread \in {"parsing", "putting", "ended"} /\ item \in Items
    /\ parsed \in 0 .. NumItems /\ batch \in 0 .. parsed
    /\ kept \in [size : 0 .. CacheLimit, cacheable : BOOLEAN]
    /\ queue \in Seq(Items) /\ Len(queue) <= QueueSize
    /\ consumer \in {"waiting", "yield", "ended"}
    /\ outcome \in {"none", "ok", "error", "left"}
    /\ received \in 0 .. parsed /\ stored \in 0 .. NumItems

Init ==
    /\ thread = "parsing" /\ item = EndMark /\ parsed = 0 /\ batch = 0
    /\ kept = [size |-> 0, cacheable |-> TRUE]
    /\ queue = <<>> /\ consumer = "waiting" /\ outcome = "none"
    /\ received = 0 /\ stored = 0

\* Faulty: what follows the limit is kept again.
KeptAgain(k) == [size |-> IF k.size < CacheLimit THEN k.size + 1 ELSE 0, cacheable |-> TRUE]

Kept(k) ==
    IF ~k.cacheable THEN k
    ELSE IF k.size < CacheLimit THEN [k EXCEPT !.size = @ + 1]
         ELSE [size |-> 0, cacheable |-> FALSE]

Putting(x) == thread' = "putting" /\ item' = x

\* The next item: it completes a batch when the sizer's current target says so.
Parse ==
    /\ thread = "parsing" /\ parsed < NumItems
    /\ parsed' = parsed + 1 /\ kept' = Kept(kept)
    /\ \E target \in Targets :
          IF batch + 1 >= target THEN Putting(Batch(batch + 1)) /\ batch' = 0
          ELSE batch' = batch + 1 /\ UNCHANGED <<thread, item>>
    /\ UNCHANGED <<queue, consumer, outcome, received, stored>>

\* Faulty: the thread ends without its mark.
FinishUnmarked ==
    /\ thread = "parsing" /\ parsed = NumItems
    /\ IF batch > 0 THEN Putting(Batch(batch)) ELSE thread' = "ended" /\ UNCHANGED item
    /\ batch' = 0
    /\ UNCHANGED <<parsed, kept, queue, consumer, outcome, received, stored>>

\* The last batch, and then the end.
Finish ==
    /\ thread = "parsing" /\ parsed = NumItems
    /\ IF batch > 0 THEN Putting(Batch(batch)) ELSE Putting(EndMark)
    /\ batch' = 0
    /\ UNCHANGED <<parsed, kept, queue, consumer, outcome, received, stored>>

\* An item that cannot be parsed.
ParseFails ==
    /\ thread = "parsing" /\ parsed < NumItems
    /\ Putting(Error)
    /\ UNCHANGED <<parsed, batch, kept, queue, consumer, outcome, received, stored>>

AfterPut(x) ==
    CASE x.kind = "batch" -> thread' = "parsing" /\ item' = x
      [] x.kind = "error" -> Putting(EndMark)
      [] OTHER            -> thread' = "ended" /\ item' = x

\* run_coroutine_threadsafe(queue.put(item)).result().
Put ==
    /\ thread = "putting" /\ Len(queue) < QueueSize
    /\ queue' = Append(queue, item)
    /\ AfterPut(item)
    /\ UNCHANGED <<parsed, batch, kept, consumer, outcome, received, stored>>

\* Faulty: an error ends the feed like its end.
EndsNever(x) == FALSE

Ends(x) == x.kind = "error"

\* The generator's loop.
Get ==
    /\ consumer = "waiting" /\ outcome = "none" /\ queue # <<>>
    /\ LET x == Head(queue) IN
       CASE x.kind = "batch" -> /\ consumer' = "yield" /\ received' = received + x.size
                                /\ UNCHANGED <<outcome, stored>>
         [] Ends(x) -> /\ outcome' = "error" /\ UNCHANGED <<consumer, received, stored>>
         [] OTHER -> /\ outcome' = "ok" /\ stored' = kept.size
                     /\ UNCHANGED <<consumer, received>>
    /\ queue' = Tail(queue)
    /\ UNCHANGED <<thread, item, parsed, batch, kept>>

Resume ==
    /\ consumer = "yield" /\ consumer' = "waiting"
    /\ UNCHANGED <<thread, item, parsed, batch, kept, queue, outcome, received, stored>>

\* GeneratorExit at the yield; gather gets the task's cancellation, not the
\* thread's end.
Leave ==
    /\ MayLeave /\ consumer = "yield"
    /\ consumer' = "ended" /\ outcome' = "left"
    /\ UNCHANGED <<thread, item, parsed, batch, kept, queue, received, stored>>

\* The generator raised or returned; a task that is not done is cancelled.
End ==
    /\ consumer = "waiting" /\ outcome \in {"ok", "error"}
    /\ outcome = "ok" => thread = "ended"
    /\ consumer' = "ended"
    /\ UNCHANGED <<thread, item, parsed, batch, kept, queue, outcome, received, stored>>

Next == Parse \/ Finish \/ ParseFails \/ Put \/ Get \/ Resume \/ Leave \/ End

Spec == Init /\ [][Next]_vars

\* The thread parses on, the loop runs what can run, and the agent comes
\* back or leaves.
FairSpec == Spec /\ WF_vars(Next)

-----------------------------------------------------------------------------
(* Properties *)

\* A feed that ends without an error was yielded whole, and what the cache
\* has of it, to be given for a later 304, is all of it or nothing.
FeedIsWhole ==
    /\ outcome = "ok" => received = NumItems
    /\ stored # 0 => stored = NumItems

\* The generator has ended, and so has the thread if the agent did not leave it.
Over == consumer = "ended" /\ (outcome # "left" => thread = "ended")

\* The agent has left, and there is room for what the thread may still put: the
\* items it has not parsed, what it holds, its mark.
LeftFinishing ==
    /\ outcome = "left"
    /\ Len(queue) + (NumItems - parsed) + (IF batch > 0 THEN 1 ELSE 0)
       + (IF thread = "putting" /\ item.kind # "end" THEN 1 ELSE 0) + 1 <= QueueSize

\* The generator ends.  So does the thread, when the agent did not leave the
\* generator, or left when the queue had room for what the thread may still put:
\* otherwise the thread may wait at the queue for ever, hold a place in the pool
\* and keep the process from ending.
ThreadEnds ==
    /\ <>[]Over
    /\ LeftFinishing ~> thread = "ended"

-----------------------------------------------------------------------------
(* What holds of every state of a feed *)

\* Every item that was parsed is counted once: as received, in the queue, in the
\* hands of the thread, or in the batch; sums[i] counts those up to the i-th
\* entry of the queue.
Counts(sums) ==
    /\ sums[0] = received
    /\ \A i \in DOMAIN queue : sums[i] = sums[i - 1] + queue[i].size
    /\ \A i \in DOMAIN queue : sums[i - 1] <= sums[Len(queue)]
    /\ parsed = sums[Len(queue)] + batch + IF thread = "putting" THEN item.size ELSE 0

Counted == \E sums \in [0 .. Len(queue) -> 0 .. NumItems] : Counts(sums)

Failed == outcome = "error" \/ \E i \in DOMAIN queue : queue[i].kind = "error"

\* The mark is the last thing put, of a feed that is parsed or has failed.
MarkedLast ==
    /\ \A i \in DOMAIN queue : queue[i].kind = "end" => i = Len(queue) /\ thread = "ended"
    /\ thread = "ended" \/ (thread = "putting" /\ item.kind = "end")
          => (parsed = NumItems /\ batch = 0) \/ Failed
    /\ \A i \in DOMAIN queue : queue[i].kind # "batch" => queue[i].size = 0
    /\ item.kind # "batch" => item.size = 0

KeptWhole == kept.size = IF kept.cacheable THEN parsed ELSE 0

FeedInv ==
    /\ TypeOK /\ FeedIsWhole
    /\ Counted /\ MarkedLast /\ KeptWhole
    /\ consumer = "yield" => outcome = "none"
=============================================================================
