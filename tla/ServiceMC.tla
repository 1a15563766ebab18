------------------------------ MODULE ServiceMC -----------------------------
(***************************************************************************)
(* The discovery service: its loop of cycles and the files they publish,   *)
(* how one batch is persisted and how large it is, the event journal, and  *)
(* the promotion that follows a cycle.  They share no state in these       *)
(* models, so a behaviour is about one of them, the part it picks at the   *)
(* start among Parts;  the variables of the others stay at their first     *)
(* values (ServiceLoop) or unused.                                         *)
(***************************************************************************)
EXTENDS ServiceLoop, Sequences, SequencesExt, TLC

CONSTANTS Parts, p1, p2, w1, w2, service, dashboard, page, offer, board, cpu, gpu, maker,
          shop, None, Unused

VARIABLES
    part,
    bad, producer, next, closed, inq, outq, worker, hand, consumer, got, ended, record,
    spooled,                                                          \* PersistBatch
    current, healthy, sample, calm, pressed,                          \* BatchSizer
    content, live, old, pc, seq, handle, stream, offset, journalGot, log,
    since,                                                            \* EventJournal
    active, runs, done, promotionOutput, catalog, report, promotionHealth, promotionAt,
    selected, seen, records, attempted, crashes, settled              \* Promotion

batchVars == <<bad, producer, next, closed, inq, outq, worker, hand, consumer, got, ended,
                record, spooled>>
sizerVars == <<current, healthy, sample, calm, pressed>>
journalVars == <<content, live, old, pc, seq, handle, stream, offset, journalGot, log,
                  since>>
promotionVars == <<active, runs, done, promotionOutput, catalog, report, promotionHealth,
                    promotionAt, selected, seen, records, attempted, crashes, settled>>
all == <<part, vars, batchVars, sizerVars, journalVars, promotionVars>>

-----------------------------------------------------------------------------
(* The parts *)

\* The service with one process id and without kills, for what must happen.
Asked == INSTANCE ServiceLoop WITH Pids <- {p1}, MaxBatches <- 1, MayCrash <- FALSE

\* A batch of a configuration c.
Batch(c) == INSTANCE PersistBatch WITH
    NumItems <- c.items, Workers <- c.workers, QueueSize <- c.queue, Raising <- c.raising,
    MayFail <- c.fails, MayCancel <- c.cancels

\* More items than the queues hold, all of which can be normalized.
Narrow == [items |-> 5, workers |-> {w1, w2}, queue |-> 1, raising |-> {{}},
           fails |-> FALSE, cancels |-> FALSE]

\* Items that raise are none, the first, or two; the history may fail and the
\* caller be cancelled, with queues that hold the batch and its end marks.
Failing == [items |-> 3, workers |-> {w1, w2}, queue |-> 5, raising |-> {{}, {1}, {2, 3}},
            fails |-> TRUE, cancels |-> TRUE]

\* Sizes of a configuration c.
Sizer(c) == INSTANCE BatchSizer WITH
    Minimum <- c.minimum, Maximum <- c.maximum, Window <- c.window

Small == [minimum |-> 1, maximum |-> 20, window |-> 3]

\* A journal of a configuration c:
Journal(c) == INSTANCE EventJournal WITH
    Writers <- c.writers, MaxLines <- c.lines, TailLines <- c.tail, MaxEvents <- c.events,
    got <- journalGot

\* of two processes, that rotates at two lines,
Shared == [writers |-> {service, dashboard}, lines |-> 2, tail |-> 1, events |-> 3]

\* that of one process,
Own == [writers |-> {service}, lines |-> 2, tail |-> 1, events |-> 6]

\* and one that is never full.
Long == [writers |-> {service, dashboard}, lines |-> 9, tail |-> 1, events |-> 2]

Full == [maker |-> TRUE, fallback |-> FALSE, part |-> TRUE, stock |-> TRUE, official |-> FALSE]
Sparse == [Full EXCEPT !.maker = FALSE, !.fallback = TRUE, !.part = FALSE]

\* Promotion of a configuration c: its listings, of which source and product each is.
Promoted(c) == INSTANCE Promotion WITH
    Listings <- c.listings, Parts <- c.parts, SourceOf <- c.source, PartOf <- c.part,
    Official <- c.official, Trusted <- c.trusted, Observations <- c.observations,
    MaxRefetch <- c.refetch, MaxRuns <- c.runs, MaxCrashes <- c.crashes,
    output <- promotionOutput, health <- promotionHealth, at <- promotionAt

\* Two listings of one product, from its maker and from a shop, and a third of
\* the maker.
Mixed == [listings |-> {page, offer, board}, parts |-> {cpu, gpu},
          source |-> page :> maker @@ offer :> shop @@ board :> maker,
          part |-> page :> cpu @@ offer :> cpu @@ board :> gpu,
          official |-> {maker}, trusted |-> {maker, shop}, observations |-> {Full, Sparse},
          refetch |-> 1, runs |-> 2, crashes |-> 1]

ASSUME PartsOK ==
    /\ Batch(Narrow)!PersistConstantsOK /\ Batch(Failing)!PersistConstantsOK
    /\ Sizer(Small)!SizerConstantsOK
    /\ Journal(Shared)!JournalConstantsOK /\ Journal(Own)!JournalConstantsOK
    /\ Journal(Long)!JournalConstantsOK
    /\ Promoted(Mixed)!PromotionConstantsOK
    \* what Asked instantiates is among what ServiceLoop allows
    /\ p1 \in Pids /\ MaxBatches >= 1

-----------------------------------------------------------------------------
NoBatch ==
    /\ bad = Unused /\ producer = Unused /\ next = Unused /\ closed = Unused /\ inq = Unused
    /\ outq = Unused /\ worker = Unused /\ hand = Unused /\ consumer = Unused
    /\ got = Unused /\ ended = Unused /\ record = Unused /\ spooled = Unused
NoSizer ==
    /\ current = Unused /\ healthy = Unused /\ sample = Unused /\ calm = Unused
    /\ pressed = Unused
NoJournal ==
    /\ content = Unused /\ live = Unused /\ old = Unused /\ pc = Unused /\ seq = Unused
    /\ handle = Unused /\ stream = Unused /\ offset = Unused /\ journalGot = Unused
    /\ log = Unused /\ since = Unused
NoPromotion ==
    /\ active = Unused /\ runs = Unused /\ done = Unused /\ promotionOutput = Unused
    /\ catalog = Unused /\ report = Unused /\ promotionHealth = Unused
    /\ promotionAt = Unused /\ selected = Unused /\ seen = Unused /\ records = Unused
    /\ attempted = Unused /\ crashes = Unused /\ settled = Unused

PartInit ==
    /\ part \in Parts
    /\ Init /\ (part # "cycles" => pid = p1)
    /\ CASE part = "narrow" -> Batch(Narrow)!Init
         [] part = "failing" -> Batch(Failing)!Init
         [] OTHER -> NoBatch
    /\ IF part = "sizer" THEN Sizer(Small)!Init ELSE NoSizer
    /\ CASE part = "shared" -> Journal(Shared)!Init
         [] part = "own" -> Journal(Own)!Init
         [] part = "long" -> Journal(Long)!Init
         [] OTHER -> NoJournal
    /\ IF part = "promoted" THEN Promoted(Mixed)!Init ELSE NoPromotion

OnlyService == UNCHANGED <<part, batchVars, sizerVars, journalVars, promotionVars>>
OnlyBatch == UNCHANGED <<part, vars, sizerVars, journalVars, promotionVars>>
OnlySizer == UNCHANGED <<part, vars, batchVars, journalVars, promotionVars>>
OnlyJournal == UNCHANGED <<part, vars, batchVars, sizerVars, promotionVars>>
OnlyPromotion == UNCHANGED <<part, vars, batchVars, sizerVars, journalVars>>

PartNext ==
    \/ part = "cycles" /\ Next /\ OnlyService
    \/ part = "asked" /\ Asked!Next /\ OnlyService
    \/ part = "narrow" /\ Batch(Narrow)!Next /\ OnlyBatch
    \/ part = "failing" /\ Batch(Failing)!Next /\ OnlyBatch
    \/ part = "sizer" /\ Sizer(Small)!Next /\ OnlySizer
    \/ part = "shared" /\ Journal(Shared)!Next /\ OnlyJournal
    \/ part = "own" /\ Journal(Own)!Next /\ OnlyJournal
    \/ part = "long" /\ Journal(Long)!Next /\ OnlyJournal
    \/ part = "promoted" /\ Promoted(Mixed)!Next /\ OnlyPromotion

\* The fairness of each component (FairSpec, and EventJournal's Fairness).
Fairness ==
    /\ WF_vars(part = "asked" /\ (Asked!Started \/ Asked!Cycle \/ Asked!Leave))
    /\ WF_vars(part = "asked" /\ Asked!Start(p1))
    /\ WF_batchVars(\/ part = "narrow" /\ Batch(Narrow)!Step
                    \/ part = "failing" /\ Batch(Failing)!Step)
    /\ WF_batchVars(part = "failing" /\ record = "failed" /\ Batch(Failing)!MapCanceled)
    /\ WF_journalVars(part = "long" /\ Journal(Long)!Follow)
    /\ WF_journalVars(part = "long" /\ Journal(Long)!Poll)
    /\ WF_journalVars(part = "long" /\ Journal(Long)!Read)
    /\ \A w \in {service, dashboard} : WF_journalVars(part = "long" /\ Journal(Long)!Writing(w))

PartSpec == PartInit /\ [][PartNext]_all /\ Fairness

-----------------------------------------------------------------------------
(* Properties, next to those of ServiceLoop *)

\* Batches, sizes, journals and promotions are of their types: queues stay
\* within their bounds, a size between its limits, no more pages are fetched
\* again than allowed, and the journal is not also its rotated file.
PartsTyped ==
    /\ part = "narrow" => Batch(Narrow)!TypeOK
    /\ part = "failing" => Batch(Failing)!TypeOK
    /\ part = "sizer" => Sizer(Small)!TypeOK
    /\ part = "shared" => Journal(Shared)!TypeOK
    /\ part = "own" => Journal(Own)!TypeOK
    /\ part = "long" => Journal(Long)!TypeOK
    /\ part = "promoted" => Promoted(Mixed)!TypeOK

\* A service asked to stop does so, and without that every run that begins is
\* published unless a step of it raises (serve, run_once).
StopsOrGoesOn == part = "asked" => StopsOrPublishes

\* What is spooled is every item of the batch, once, and the batch is in the
\* history, whatever raises, fails or is cancelled (_persist_batch).
SpooledIsWhole ==
    /\ part = "narrow" => Batch(Narrow)!SpooledIsWhole
    /\ part = "failing" => Batch(Failing)!SpooledIsWhole

\* However long the input, only what the queues and the workers hold is under
\* way (map_sync_bounded_iter).
InFlightBounded == part = "narrow" => Batch(Narrow)!InFlightBounded

\* A batch ends, with errors too when the queues hold it (_persist_batch).
BatchEnds ==
    /\ <>(part = "narrow" => Batch(Narrow)!MapDone /\ record # "running")
    /\ <>(part = "failing" => Batch(Failing)!MapDone /\ record # "running")

\* Pressure that lasts brings the batch to the minimum, and rest that lasts to
\* the maximum (AdaptiveBatchSizer.observe).
Adapts == part = "sizer" => Sizer(Small)!Adapts

\* The journal of two processes stays within its bound, but for one line of
\* the other (_append_sync).
Bounded == part = "shared" => Journal(Shared)!Bounded

\* The stream yields no event twice and those of a writer in order, across
\* rotations (follow).
InOrder == part = "shared" => Journal(Shared)!InOrder

\* With one process the last lines are on disk, in the journal or in the
\* rotated file (_append_sync).
RecentOnDisk == part = "own" => Journal(Own)!RecentOnDisk

\* A line that was written while the stream follows is yielded at last.
Delivered ==
    \A e \in Journal(Long)!Events :
        (part = "long" /\ stream = "poll" /\ ~Contains(log, e))
        /\ <>(part = "long" /\ Contains(log, e))
        ~> (part = "long" /\ Contains(journalGot, e))

\* What the report calls canonical is in the catalog, whenever the process
\* died or failed (promote).
ReportIsCatalogued == part = "promoted" => Promoted(Mixed)!ReportIsCatalogued

\* Promotion called fresh after a completed run decided every listing of that
\* run (_promotion_health).
FreshIsDecided == part = "promoted" => Promoted(Mixed)!FreshIsDecided

\* The files written one after another agree wherever a process dies: ratings,
\* debug artifacts, health, catalog and report are of runs that ended.
OutputsAgree ==
    /\ RatedByRun /\ LatestIsWhole /\ ReadyIsPublished
    /\ ReportIsCatalogued /\ FreshIsDecided

\* Within its bounds the journal loses nothing, and its stream repeats nothing.
JournalKept == InOrder /\ RecentOnDisk

\* The service's load is bounded: what is under way of a batch, the size of
\* batches, and the journal.
LoadBounded == TypeOK /\ PartsTyped /\ InFlightBounded /\ Adapts /\ Bounded

\* The service goes on until it is asked to stop: its runs and batches end, and
\* its events arrive.
ServiceGoesOn == StopsOrGoesOn /\ BatchEnds /\ Delivered
=============================================================================
