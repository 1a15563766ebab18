--------------------------- MODULE SourceReadingMC --------------------------
(***************************************************************************)
(* How sources are read: the HTTP client's requests, the pipeline of       *)
(* agents that runs the sources, and within a source the pool that reads   *)
(* its pages, the crawl that finds them and the thread that parses a feed. *)
(* They share no state in these models, so a behaviour is about one of     *)
(* them, the part it picks at the start among Parts; the variables of the  *)
(* others stay at their first values (HttpRequests) or unused.             *)
(***************************************************************************)
EXTENDS HttpRequests, Sequences, TLC

CONSTANTS Parts, r1, r2, r3, a, b, a1, a2, w1, w2, w3, i1, i2, i3, p1, p2, p3, Unused

VARIABLES
    part,
    producer, queue, output, agent, consumer, finished, received, errors, \* StreamingPipeline
    put, producing, taken, worker, poolOutput, poolConsumer, outcome, poolFinished,
    poolReceived, failed,                                             \* PagePool
    web, crawlQueue, visited, candidates, stage,                      \* PublicCrawl
    thread, item, parsed, batch, kept, feedQueue, feedConsumer, feedOutcome, feedReceived,
    stored                                                            \* FeedParser

pipelineVars == <<producer, queue, output, agent, consumer, finished, received, errors>>
poolVars == <<put, producing, taken, worker, poolOutput, poolConsumer, outcome,
               poolFinished, poolReceived, failed>>
crawlVars == <<web, crawlQueue, visited, candidates, stage>>
feedVars == <<thread, item, parsed, batch, kept, feedQueue, feedConsumer, feedOutcome,
               feedReceived, stored>>
all == <<part, vars, pipelineVars, poolVars, crawlVars, feedVars>>

\* r3 has a source of its own.
TwoSources == [r \in Requests |-> IF r = r3 THEN b ELSE a]

-----------------------------------------------------------------------------
(* The parts *)

\* The pipeline of a configuration c.
Pipeline(c) == INSTANCE StreamingPipeline WITH
    Agents <- c.agents, NumSources <- c.sources, NumBatches <- c.batches,
    QueueSize <- c.room, Timed <- c.timed

\* Three sources on two agents, none of them a child process.
Local == [agents |-> {a1, a2}, sources |-> 3, batches |-> 1, room |-> 1, timed |-> {}]

\* Every source is a child process with a timeout.
Timed == [Local EXCEPT !.sources = 2, !.batches = 2, !.room = 2, !.timed = {1, 2}]

\* The pool of a configuration c.
Pool(c) == INSTANCE PagePool WITH
    NumPages <- c.pages, Subworkers <- c.workers, QueueSize <- c.room, Tolerant <- c.tolerant,
    MayCancel <- c.mayCancel, output <- poolOutput, consumer <- poolConsumer,
    finished <- poolFinished, received <- poolReceived

\* More pages than the queues hold.
Narrow == [workers |-> {w1, w2}, pages |-> 3, room |-> 1, tolerant |-> FALSE, mayCancel |-> TRUE]

\* Queues that hold everything.
Wide == [Narrow EXCEPT !.room = 5]

\* The pool of PublicWebDiscoveryAdapter: unbounded queues, failures tolerated.
Public == [Narrow EXCEPT !.room = 0, !.tolerant = TRUE]

\* The crawl of a configuration c.
Crawl(c) == INSTANCE PublicCrawl WITH
    Indexes <- c.indexes, Seeds <- c.seeds, Pages <- c.pages, Foreign <- c.foreign,
    Excluded <- c.excluded, SameHost <- TRUE, MaxIndex <- c.maxIndex, MaxPages <- c.maxPages,
    queue <- crawlQueue

\* Two seeds and bounds that are reached.
Bounded ==
    [indexes |-> {i1, i2, i3}, seeds |-> <<i1, i2>>, pages |-> {p1, p2}, foreign |-> {}, excluded |-> {},
     maxIndex |-> 2, maxPages |-> 1]

\* One seed, pages that are foreign or excluded, and room for everything.
Whole ==
    [Bounded EXCEPT !.seeds = <<i1>>, !.pages = {p1, p2, p3}, !.foreign = {p2}, !.excluded = {p3},
                    !.maxIndex = 4, !.maxPages = 4]

\* The feed of a configuration c.
Feed(c) == INSTANCE FeedParser WITH
    NumItems <- c.items, QueueSize <- c.room, Targets <- c.targets, CacheLimit <- c.limit,
    MayLeave <- c.mayLeave, queue <- feedQueue, consumer <- feedConsumer,
    outcome <- feedOutcome, received <- feedReceived

\* A feed longer than the queue and than what the cache may keep.
Long == [items |-> 6, room |-> 2, targets |-> {1, 2, 3}, limit |-> 4, mayLeave |-> FALSE]

\* A feed longer than the queue, whose consumer may leave.
Left == [Long EXCEPT !.items = 5, !.mayLeave = TRUE]

ASSUME PartsOK ==
    /\ \A c \in {Local, Timed} : Pipeline(c)!PipelineConstantsOK
    /\ \A c \in {Narrow, Wide, Public} : Pool(c)!PoolConstantsOK
    /\ \A c \in {Bounded, Whole} : Crawl(c)!CrawlConstantsOK
    /\ \A c \in {Long, Left} : Feed(c)!FeedConstantsOK

-----------------------------------------------------------------------------
NoPipeline ==
    /\ producer = Unused /\ queue = Unused /\ output = Unused /\ agent = Unused
    /\ consumer = Unused /\ finished = Unused /\ received = Unused /\ errors = Unused
NoPool ==
    /\ put = Unused /\ producing = Unused /\ taken = Unused /\ worker = Unused
    /\ poolOutput = Unused /\ poolConsumer = Unused /\ outcome = Unused
    /\ poolFinished = Unused /\ poolReceived = Unused /\ failed = Unused
NoCrawl ==
    /\ web = Unused /\ crawlQueue = Unused /\ visited = Unused /\ candidates = Unused
    /\ stage = Unused
NoFeed ==
    /\ thread = Unused /\ item = Unused /\ parsed = Unused /\ batch = Unused
    /\ kept = Unused /\ feedQueue = Unused /\ feedConsumer = Unused /\ feedOutcome = Unused
    /\ feedReceived = Unused /\ stored = Unused

PartInit ==
    /\ part \in Parts
    /\ Init
    /\ CASE part = "local" -> Pipeline(Local)!Init [] part = "timed" -> Pipeline(Timed)!Init [] OTHER -> NoPipeline
    /\ CASE part = "narrow" -> Pool(Narrow)!Init [] part = "wide" -> Pool(Wide)!Init
         [] part = "public" -> Pool(Public)!Init [] OTHER -> NoPool
    /\ CASE part = "bounded" -> Crawl(Bounded)!Init [] part = "whole" -> Crawl(Whole)!Init [] OTHER -> NoCrawl
    /\ CASE part = "feed" -> Feed(Long)!Init [] part = "left" -> Feed(Left)!Init [] OTHER -> NoFeed

OnlyPipeline == UNCHANGED <<part, vars, poolVars, crawlVars, feedVars>>
OnlyPool == UNCHANGED <<part, vars, pipelineVars, crawlVars, feedVars>>
OnlyCrawl == UNCHANGED <<part, vars, pipelineVars, poolVars, feedVars>>
OnlyFeed == UNCHANGED <<part, vars, pipelineVars, poolVars, crawlVars>>
OnlyHttp == UNCHANGED <<part, pipelineVars, poolVars, crawlVars, feedVars>>

PartNext ==
    \/ part = "http" /\ Next /\ OnlyHttp
    \/ part = "local" /\ Pipeline(Local)!Next /\ OnlyPipeline
    \/ part = "timed" /\ Pipeline(Timed)!Next /\ OnlyPipeline
    \/ part = "narrow" /\ Pool(Narrow)!Next /\ OnlyPool
    \/ part = "wide" /\ Pool(Wide)!Next /\ OnlyPool
    \/ part = "public" /\ Pool(Public)!Next /\ OnlyPool
    \/ part = "bounded" /\ Crawl(Bounded)!Next /\ OnlyCrawl
    \/ part = "whole" /\ Crawl(Whole)!Next /\ OnlyCrawl
    \/ part = "feed" /\ Feed(Long)!Next /\ OnlyFeed
    \/ part = "left" /\ Feed(Left)!Next /\ OnlyFeed

\* The fairness of each component (FairSpec).
Fairness ==
    /\ WF_vars(part = "http" /\ Tick)
    /\ \A r \in Requests : /\ WF_vars(part = "http" /\ Goes(r))
                           /\ SF_vars(part = "http" /\ Answered(r))
    /\ WF_pipelineVars(\/ part = "local" /\ Pipeline(Local)!Progress
                       \/ part = "timed" /\ Pipeline(Timed)!Progress)
    /\ WF_poolVars(\/ part = "narrow" /\ Pool(Narrow)!Progress
                   \/ part = "wide" /\ Pool(Wide)!Progress
                   \/ part = "public" /\ Pool(Public)!Progress)
    /\ WF_feedVars(\/ part = "feed" /\ Feed(Long)!Next
                   \/ part = "left" /\ Feed(Left)!Next)

PartSpec == PartInit /\ [][PartNext]_all /\ Fairness

-----------------------------------------------------------------------------
(* Properties, next to those of HttpRequests *)

\* Pipelines, pools, crawls and feeds are of their types: queues and crawls
\* stay within their bounds, and a page is received or failed but not both.
PartsTyped ==
    /\ part = "local" => Pipeline(Local)!TypeOK
    /\ part = "timed" => Pipeline(Timed)!TypeOK
    /\ part = "narrow" => Pool(Narrow)!TypeOK
    /\ part = "wide" => Pool(Wide)!TypeOK
    /\ part = "public" => Pool(Public)!TypeOK
    /\ part = "bounded" => Crawl(Bounded)!TypeOK
    /\ part = "whole" => Crawl(Whole)!TypeOK
    /\ part = "feed" => Feed(Long)!TypeOK
    /\ part = "left" => Feed(Left)!TypeOK

\* Every request ends: a waiter of a slot is told of the one given back
\* (slot, notify_all).
RequestsEnd == part = "http" => EveryRequestEnds

\* When the stream ends, a source without an error has been received to its
\* last batch; what was not seen of it counts as missing (stream).
SuccessIsComplete ==
    /\ part = "local" => Pipeline(Local)!SuccessIsComplete
    /\ part = "timed" => Pipeline(Timed)!SuccessIsComplete

\* Nothing comes before its turn: a source's batches reach the consumer once and
\* in order, whichever agents and queues they went through (agent_worker,
\* stream), and no request is sent again before the server allowed it, when
\* that is within the longest delay (_delay).
InTurn ==
    [][/\ part = "local" => Pipeline(Local)!InOrder
       /\ part = "timed" => Pipeline(Timed)!InOrder
       /\ part = "http" => HonorsRetryAfter]_<<vars, pipelineVars>>

\* Whatever the adapters do, the refresh ends: the consumer sees every agent's
\* marker, or is cancelled, unless a child process's timeout has ended an agent at
\* a yield, which run process_timeout shows (stream).
StreamEnds ==
    <>(/\ part = "local" => Pipeline(Local)!StreamOver
       /\ part = "timed" => Pipeline(Timed)!StreamOver)

\* docs/CONCURRENCY.md says of child processes "Runtime/line size are
\* bounded": a refresh of them ends as well (ProcessJsonAdapter).
ProcessStreamEnds == <>(part = "timed" => consumer \in {"finished", "canceled"})

\* A cancelled refresh ends when the output queue has room for one item of every
\* agent that has one to put; without it, it may wait for ever (agent_worker).
CancelEnds ==
    \/ part = "local" /\ Pipeline(Local)!Cancelling
    \/ part = "timed" /\ Pipeline(Timed)!Cancelling
        ~> (part \in {"local", "timed"} => \A x \in {a1, a2} : agent[x].at = "done")

\* Every page is answered for when the pool's generator is exhausted: none is
\* lost between queues and subworkers (CachedJsonLdProductAdapter.fetch).
EveryPageAnswered ==
    /\ part = "narrow" => Pool(Narrow)!EveryPageAnswered
    /\ part = "wide" => Pool(Wide)!EveryPageAnswered
    /\ part = "public" => Pool(Public)!EveryPageAnswered

\* A source counts as polled, and listings it did not give as missing, only when no
\* request of its pages failed; of a crawled source (PublicWebDiscoveryAdapter),
\* only when some page was read: what failed of it does count as missing.
PolledIsRead ==
    /\ part = "narrow" => Pool(Narrow)!PolledIsRead
    /\ part = "wide" => Pool(Wide)!PolledIsRead
    /\ part = "public" => Pool(Public)!PolledIsRead

\* The pool's generator ends or is cancelled, whatever the sizes of queues and
\* pool; a cancelled one ends when its producer had ended and what is left fits
\* into the output queue, as it always does when that is unbounded.
PoolEnds ==
    /\ <>(part \in {"narrow", "wide", "public"} => poolConsumer \in {"closing", "ended"})
    /\ \/ part = "narrow" /\ Pool(Narrow)!Closes
       \/ part = "wide" /\ Pool(Wide)!Closes
       \/ part = "public" /\ Pool(Public)!Closes
           ~> poolConsumer = "ended"

\* A crawl that ends within its bounds has found every page the source may
\* have: no child is lost to the bound on waiting indexes (discover_urls).
NothingMissed == part = "whole" => Crawl(Whole)!NothingMissed

\* The crawl stays on the seeds' hosts and within the patterns (_allowed).
StaysInScope == part = "whole" => Crawl(Whole)!StaysInScope

\* No large sitemap takes the indexes of the other seeds (discover_urls).
SeedsFirst ==
    /\ part = "bounded" => Crawl(Bounded)!SeedsFirst
    /\ part = "whole" => Crawl(Whole)!SeedsFirst

\* A feed that ends without an error was yielded whole, and what the cache has
\* of it, to be given for a later 304, is all of it or nothing
\* (CachedJsonFeedAdapter).
FeedIsWhole ==
    /\ part = "feed" => Feed(Long)!FeedIsWhole
    /\ part = "left" => Feed(Left)!FeedIsWhole

\* The feed's generator ends, and so does its thread, unless the agent left when
\* the queue had no room for what the thread may still put.
ThreadEnds ==
    /\ <>[](/\ part = "feed" => Feed(Long)!Over
            /\ part = "left" => Feed(Left)!Over)
    /\ part = "left" /\ Feed(Left)!LeftFinishing ~> thread = "ended"

\* What was read is whole, on every level from a feed's items to a refresh, and a
\* source of which nothing, or of which not every listed page, could be read has
\* failed; crawled sources, which tolerate single failures, need one page.
ReadWhole ==
    /\ TypeOK /\ PartsTyped
    /\ SuccessIsComplete /\ EveryPageAnswered /\ PolledIsRead
    /\ NothingMissed /\ StaysInScope /\ SeedsFirst /\ FeedIsWhole

\* Requests, refreshes, pools of pages and feeds end, as far as the code gives it:
\* not a refresh whose agent was ended by a child process's timeout, nor a
\* cancelled refresh, a cancelled pool or a left feed whose queue is too full for
\* what is left.
ReadingEnds == RequestsEnd /\ StreamEnds /\ CancelEnds /\ PoolEnds /\ ThreadEnds
=============================================================================
