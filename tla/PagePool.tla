------------------------------ MODULE PagePool ------------------------------
(***************************************************************************)
(* How a source made of pages reads them (streaming_discovery.py,          *)
(* CachedJsonLdProductAdapter; public_discovery.py,                        *)
(* PublicWebDiscoveryAdapter): a producer, subworkers and the generator    *)
(* that yields batches, in one task group.  All of it runs on one event    *)
(* loop; a step is what a task does between two suspensions.               *)
(*                                                                         *)
(* When the agent that runs the generator is cancelled, or drops it at a   *)
(* yield, the task group cancels its tasks once and waits for them.        *)
(***************************************************************************)
EXTENDS Integers, Sequences, FiniteSets

CONSTANTS
    NumPages,
    Subworkers,
    QueueSize,      \* of both queues; 0 when they are unbounded
    Tolerant,       \* PublicWebDiscoveryAdapter: failed pages are only counted
    MayCancel

Pages == 1 .. NumPages
NumWorkers == Cardinality(Subworkers)

\* min(subworkers, len(urls)) subworkers.
PoolConstantsOK ==
    /\ NumPages \in Nat \ {0} /\ QueueSize \in Nat
    /\ IsFiniteSet(Subworkers) /\ NumWorkers \in Pages
    /\ Tolerant \in BOOLEAN /\ MayCancel \in BOOLEAN

VARIABLES
    put,        \* entries the producer has put: the pages, then a None per subworker
    producing,
    taken,      \* entries the subworkers have taken
    worker,     \* idle, fetch or put, its page (0 for None) and what it puts; ended
    output,
    consumer,   \* waiting, at a yield, closing, or ended
    outcome,    \* of the generator: none, ok, error or canceled
    finished,   \* Nones it has counted
    received, failed    \* pages

vars == <<put, producing, taken, worker, output, consumer, outcome, finished, received, failed>>

Item == [kind : {"page", "error", "none"}, page : 0 .. NumPages]
Worker == [at : {"idle", "fetch", "put", "ended"}, item : Item]
Nothing == [kind |-> "none", page |-> 0]
Total == NumPages + NumWorkers

TypeOK ==
    /\ put \in 0 .. Total /\ producing \in BOOLEAN /\ taken \in 0 .. put
    /\ worker \in [Subworkers -> Worker]
    /\ output \in Seq(Item) /\ Len(output) <= Total
    /\ QueueSize > 0 => put - taken <= QueueSize /\ Len(output) <= QueueSize
    /\ consumer \in {"waiting", "yield", "closing", "ended"}
    /\ outcome \in {"none", "ok", "error", "canceled"}
    /\ finished \in 0 .. NumWorkers
    /\ received \subseteq Pages /\ failed \subseteq Pages /\ received \cap failed = {}

\* The producer is the first task to run, and only a full queue suspends it.
Filled(n) == IF QueueSize = 0 \/ n + QueueSize > Total THEN Total ELSE n + QueueSize

Init ==
    /\ put = Filled(0) /\ producing = (put < Total) /\ taken = 0
    /\ worker = [w \in Subworkers |-> [at |-> "idle", item |-> Nothing]]
    /\ output = <<>> /\ consumer = "waiting" /\ outcome = "none" /\ finished = 0
    /\ received = {} /\ failed = {}

Produce ==
    /\ producing /\ put - taken < QueueSize
    /\ put' = Filled(taken) /\ producing' = (put' < Total)
    /\ UNCHANGED <<taken, worker, output, consumer, outcome, finished, received, failed>>

\* A subworker gets an entry of the queue.
Take(w) ==
    /\ worker[w].at = "idle" /\ taken < put
    /\ taken' = taken + 1
    /\ worker' = [worker EXCEPT ![w] =
                    IF taken' <= NumPages
                    THEN [at |-> "fetch", item |-> [kind |-> "page", page |-> taken']]
                    ELSE [at |-> "put", item |-> Nothing]]
    /\ UNCHANGED <<put, producing, output, consumer, outcome, finished, received, failed>>

\* _one or _product_page returns or raises.
Fetched(w, kind) ==
    /\ worker[w].at = "fetch" /\ kind \in {"page", "error"}
    /\ worker' = [worker EXCEPT ![w] = [at |-> "put", item |-> [@.item EXCEPT !.kind = kind]]]
    /\ UNCHANGED <<put, producing, taken, output, consumer, outcome, finished, received, failed>>

HasRoom == QueueSize = 0 \/ Len(output) < QueueSize

After(item) == IF item.kind = "none" THEN "ended" ELSE "idle"

\* Faulty: what does not fit into the queue is dropped.
PutDropping(w) ==
    /\ worker[w].at = "put"
    /\ output' = IF HasRoom \/ worker[w].item.kind = "none" THEN Append(output, worker[w].item) ELSE output
    /\ worker' = [worker EXCEPT ![w].at = After(worker[w].item)]
    /\ UNCHANGED <<put, producing, taken, consumer, outcome, finished, received, failed>>

Put(w) ==
    /\ worker[w].at = "put" /\ HasRoom
    /\ output' = Append(output, worker[w].item)
    /\ worker' = [worker EXCEPT ![w].at = After(worker[w].item)]
    /\ UNCHANGED <<put, producing, taken, consumer, outcome, finished, received, failed>>

\* Faulty: an error is the end of the source only when there are no other pages.
FailingTolerated(pages, errors) == pages = {} /\ errors # {}

\* Faulty: a tolerant pool never fails.
FailingStrictly(pages, errors) == ~Tolerant /\ errors # {}

\* What the generator raises when its task group has ended.
Failing(pages, errors) == IF Tolerant THEN pages = {} /\ errors # {} ELSE errors # {}

\* The generator gets an item; a page it may yield.
Get ==
    /\ consumer = "waiting" /\ finished < NumWorkers /\ output # <<>>
    /\ LET item == Head(output) IN
       /\ output' = Tail(output)
       /\ finished' = finished + (IF item.kind = "none" THEN 1 ELSE 0)
       /\ received' = received \cup (IF item.kind = "page" THEN {item.page} ELSE {})
       /\ failed' = failed \cup (IF item.kind = "error" THEN {item.page} ELSE {})
       /\ consumer' \in IF item.kind = "page" THEN {"waiting", "yield"} ELSE {"waiting"}
    /\ UNCHANGED <<put, producing, taken, worker, outcome>>

Resume ==
    /\ consumer = "yield" /\ consumer' = "waiting"
    /\ UNCHANGED <<put, producing, taken, worker, output, outcome, finished, received, failed>>

AllEnded == ~producing /\ \A w \in Subworkers : worker[w].at = "ended"

End ==
    /\ consumer = "waiting" /\ finished = NumWorkers /\ AllEnded
    /\ consumer' = "ended"
    /\ outcome' = IF Failing(received, failed) THEN "error" ELSE "ok"
    /\ UNCHANGED <<put, producing, taken, worker, output, finished, received, failed>>

\* Faulty: a subworker that is cancelled while it waits for room goes on.
CancelledStaying(wk) ==
    CASE wk.at = "idle" -> [wk EXCEPT !.at = "ended"]
      [] wk.at \in {"fetch", "put"} -> [at |-> "put", item |-> [wk.item EXCEPT !.kind = "error"]]
      [] OTHER -> wk

\* CancelledError at a subworker's await: `except BaseException` makes an
\* error of it unless the subworker waits for a page, or puts an error or None.
Cancelled(wk) ==
    CASE wk.at = "fetch" \/ (wk.at = "put" /\ wk.item.kind = "page") ->
             [at |-> "put", item |-> [wk.item EXCEPT !.kind = "error"]]
      [] OTHER -> [wk EXCEPT !.at = "ended"]

\* The agent is cancelled, or drops the generator.
Cancel ==
    /\ MayCancel /\ consumer \in {"waiting", "yield"}
    /\ consumer' = "closing" /\ producing' = FALSE
    /\ worker' = [w \in Subworkers |-> Cancelled(worker[w])]
    /\ UNCHANGED <<put, taken, output, outcome, finished, received, failed>>

Closed ==
    /\ consumer = "closing" /\ AllEnded
    /\ consumer' = "ended" /\ outcome' = "canceled"
    /\ UNCHANGED <<put, producing, taken, worker, output, finished, received, failed>>

\* What goes on as long as it can: the event loop runs every task that can
\* run, requests end (their timeouts see to it), and the caller comes back for
\* the next batch or drops it; nothing has to cancel.
Progress ==
    \/ Produce \/ Get \/ Resume \/ End \/ Closed
    \/ \E w \in Subworkers : \/ Take(w) \/ Put(w)
                             \/ \E kind \in {"page", "error"} : Fetched(w, kind)

Next == Progress \/ Cancel

Spec == Init /\ [][Next]_vars

FairSpec == Spec /\ WF_vars(Progress)

-----------------------------------------------------------------------------
(* Properties *)

Busy == {w \in Subworkers : worker[w].at \in {"fetch", "put"}}

\* A cancelled pool has what it still needs: entries for its subworkers until they
\* meet a None, and room for what they put, which nobody takes any more.
Closes ==
    /\ consumer = "closing" /\ put = Total
    /\ QueueSize > 0 => Len(output) + (Total - taken) + Cardinality(Busy) <= QueueSize

\* The generator ends, or is cancelled, whatever the sizes of queues and pool.
\* A cancelled one ends when its producer had come to its end and the output
\* queue has room for what is left; its task group may wait for ever otherwise.
PoolEnds ==
    /\ <>(consumer \in {"closing", "ended"})
    /\ Closes ~> consumer = "ended"

\* Every page is answered for when the generator is exhausted: none is lost
\* between the queues and the subworkers.
EveryPageAnswered == outcome \in {"ok", "error"} => received \cup failed = Pages

\* A source counts as polled, and listings it did not give as missing, only when
\* its pages were read: all of them, or at least one when the pool tolerates
\* failures.  The listings of a tolerant pool's failed pages do count as missing.
PolledIsRead == outcome = "ok" => received # {} /\ (Tolerant \/ failed = {})

-----------------------------------------------------------------------------
(* What holds of every state of a pool *)

InHand(w, p) == w \in Busy /\ worker[w].item.kind # "none" /\ worker[w].item.page = p
Waits(i, p) == output[i].kind # "none" /\ output[i].page = p

\* What is not a None is about a page.
Named ==
    /\ \A w \in Subworkers : /\ worker[w].at = "fetch" => worker[w].item.kind = "page"
                             /\ worker[w].item.kind # "none" => worker[w].item.page \in Pages
    /\ \A i \in DOMAIN output : output[i].kind # "none" => output[i].page \in Pages

\* A page is in one place at a time.
OnePlace ==
    \A p \in Pages :
        /\ p > taken => p \notin received \cup failed
        /\ \A w \in Subworkers : InHand(w, p) =>
              /\ p <= taken /\ p \notin received \cup failed
              /\ \A i \in DOMAIN output : ~Waits(i, p)
              /\ \A v \in Subworkers : InHand(v, p) => v = w
        /\ \A i \in DOMAIN output : Waits(i, p) =>
              /\ p <= taken /\ p \notin received \cup failed
              /\ \A j \in DOMAIN output : Waits(j, p) => j = i

NonesIn(q) == {i \in DOMAIN q : q[i].kind = "none"}
Nones == finished + Cardinality(NonesIn(output))
Gone == {w \in Subworkers : worker[w].at = "ended"}

\* What holds until the pool is cancelled: no page is lost, and the last None
\* comes after every page.
AllThere ==
    /\ \A p \in Pages : p <= taken =>
          \/ p \in received \cup failed
          \/ \E w \in Subworkers : InHand(w, p)
          \/ \E i \in DOMAIN output : Waits(i, p)
    /\ Nones <= Cardinality(Gone)
    /\ Nones > 0 \/ (\E w \in Subworkers : worker[w].at = "put" /\ worker[w].item.kind = "none")
          => taken > NumPages
    /\ Nones = NumWorkers /\ output # <<>> => output[Len(output)].kind = "none"

Canceled == consumer = "closing" \/ outcome = "canceled"

PoolInv ==
    /\ TypeOK /\ Named /\ OnePlace
    /\ Len(output) + Cardinality(Busy) <= taken
    /\ producing => put < Total
    /\ outcome = "none" <=> consumer # "ended"
    /\ ~Canceled => AllThere
    /\ outcome \in {"ok", "error"} => finished = NumWorkers
    /\ outcome = "ok" => ~Failing(received, failed)
=============================================================================
