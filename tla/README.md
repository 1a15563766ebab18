# TLA+ models of LowPowerLLMCluster

Specifications, TLC runs and TLAPS proofs of the parts of `lowpower_llm_cluster`
that keep state and can go wrong by their order: reading sources, what a refresh
believes of the market, the service around it, the distributed coordinators, and
what is concluded about power, firmware and builds. Paths below are relative to
`src/lowpower_llm_cluster/` of the repository.

## 1. The system

| Component | State | Operations | Hard part | What makes it correct |
|---|---|---|---|---|
| Secure coordinator store and coordinators (`secure_store_*.py`, `secure_server.py`) | one SQLite file: leader row, cycles, tasks, workers, result batches; a cached `LeaderState` per process | acquire leadership, register, submit, lease, heartbeat, add_batch, complete, fail, cancel, drain | several coordinators share the file; four operations check with SELECTs and write afterwards | one leader per epoch, fenced mutations, exclusive leases, final outcomes |
| Distributed refresh cycle (`distributed_cli_secure.py`, `distributed_service.py`, `secure_client.py`, `history.py`) | current task, batch counter; polled cycle; `listing_state`, `refresh_runs` | lease, execute, upload, complete or fail; submit, poll, collect | crashes, retries, requests executed after their sender gave up | a completed task holds what its source offers; nothing is taken for gone because a poll failed |
| Streaming discovery (`streaming_discovery.py`, `process_adapter.py`, `public_discovery.py`) | bounded queues, agents, subworkers, parse thread, frontier of a crawl | producer, agents, consumer, pages, feeds, cancellation, timeout | back-pressure, adapters that raise, cancellation inside a put | every refresh ends; a source without an error was received whole |
| Circuit breaker, cooldown (`resilience_runtime.py`, `source_cooldown.py`, `source_failures.py`) | state, failures, half-open permits; cooldowns in the database | acquire, success, failure, cancel; plan and record a cycle | outcomes of calls admitted in an earlier state, restarts between plan and record | a failing source rests, and is tried again |
| HTTP client, conditional cache, snapshots (`http_runtime.py`, `snapshot_http.py`, `content_store.py`) | permits, limiters, validators, parsed results | fetch with retry, stream, 304 reuse, prune | eviction between request and answer, streams held at a yield | no permit lost, no item twice, a 304 never brings back another version |
| Thread mapping, batch sizing (`runtime.py`, `resilience_runtime.py`) | queues between loop and threads, size and streak | map, observe | errors with full queues | a batch is spooled whole or not at all |
| Authentication (`distributed_security.py`) | window of nonces | verify | forgetting nonces while copies are still accepted | a request executed once |
| Legacy v1 coordinator (`distributed_runtime.py`) | tasks, leases by worker name | the v1 protocol | restarts, lost answers, late requests | it is the same task ledger |
| Compaction and compatibility (`history_compaction.py`, `history_compat.py`, `landed_history.py`, `firmware_history.py`) | observation rows | compact, append | a second transaction, two sightings in one run | no evidence of a change is lost |
| Source registry, expansion, quality (`source_store.py`, `source_expansion.py`, `source_quality.py`, `announcement_links.py`, `learning_refresh.py`) | candidates, dynamic sources, cadences | expand, upsert, learn, select | three writes, bounds on hosts, probes and sources | no listing without its source; no source given up |
| Promotion and learning refresh (`promotion_*.py`, `canonical_promotion.py`) | catalog, report, health, active records | enrich, promote, project | crash between files, readers in between | what is reported is in the catalog |
| Service (`service_cli.py`, `service_runtime.py`, `catalog_refresh.py`, `debug_artifacts.py`) | spool, output, ratings, debug files, readiness | serve, run once, publish, stop | death anywhere, reused process ids | what is published is what one run recorded |
| Event log, notifications, quota (`event_log.py`, `dashboard_service.py`, `notifications.py`, `quota.py`) | journal and rotated file, offset of the stream | emit, rotate, tail, follow | two processes rotate one file | bounded, in order, no line twice |
| Market intelligence (`ops.py`, `market.py`, `intelligence.py`, `decision.py`, `tco.py`) | budgets, history, states, rates, alerts, fingerprints | run a profile, generate alerts, decide | files written one after another, everything recomputed | every change reported once, no Buy that is not on offer |
| Identity, specification and firmware (`spec_enrichment.py`, `manufacturer_discovery.py`, `structured_specs.py`, `compatibility.py`, `factory_firmware.py`, `seller_firmware.py`, `bios_versioning.py`) | cached associations, facts, provenance, the board's document | enrich, judge a board | seven parts fill the same fields, cached pages change | strongest evidence wins, no false readiness |
| Scoring, optimisation, cost and power (`power_*.py`, `compatibility.py`, `bom_sourcing.py`, `scoring.py`, `optimizer.py`, `tco.py`) | evidence store, builds | refresh evidence, estimate, construct builds | unknown facts, identity levels, refreshes that overlap | the narrowest evidence counts, rejected stays rejected |
| Benchmark runner (`benchmarking/`) | command, sampler, windows | run phases | sampler, command and its descendants end in any order | nothing is left running, samples are of their phase |

How they interact. A local refresh (`catalog_refresh.py`) runs the streaming
pipeline over the sources the scheduler selected; each source reads its pages or
feed through the breaker, the HTTP client and the cache; a batch is persisted to
the history and the spool; the finished run decides what has disappeared, and its
spool becomes the output, from which promotion and the dashboard work. A remote
refresh submits one task per source to a coordinator (v2 or legacy v1), whose
workers run the same adapters and upload batches; the collector streams them into
the same history. `ops.py` is a refresh of the market data with files of its own;
decisions, power, enrichment, boot readiness and builds read what it leaves. The
service runs cycles and events go to the journal.

## 2. Modules

| Module | What it is |
|---|---|
| `TaskLedger` | What a coordinator promises: the abstract specification that both stores implement |
| `SecureStore` | The v2 store and its coordinators, transaction by transaction |
| `CatalogHistory` | The history's transactions that decide on disappearance |
| `DistributedCycle` | Workers, network and collector over `TaskLedger` and `CatalogHistory` |
| `LeaseV1` | The v1 coordinator, its workers and its collector |
| `ReplayWindow` | The window of nonces of signed requests |
| `HistoryCompaction` | What compaction keeps of the observations of a run |
| `StreamingPipeline` | Producer, agents, consumer and queues of one refresh |
| `PagePool` | A source made of pages: producer, subworkers, generator |
| `PublicCrawl` | How a public source finds its product pages |
| `FeedParser` | The thread that parses a feed and the cache entry it leaves |
| `HttpRequests` | Permits, adaptive limiters, retries, streams |
| `ConditionalCache` | The cache and the polls that use it across requests, flushes and crashes |
| `CircuitBreaker` | The breaker and the adapter that goes through it |
| `SourceScheduler` | Cadences and cooldowns: which sources a cycle calls, across restarts |
| `SourceExpansion` | From announcements to stored, recorded and polled sources |
| `ServiceLoop` | serve, signals, deaths, and a cycle's way to its published files |
| `PersistBatch` | One batch: history beside threaded normalization, then the spool |
| `BatchSizer` | The adaptive batch size |
| `EventJournal` | The journal, its rotation by two processes, and its stream |
| `Promotion` | Catalog, report, health and the dashboard's projection of them |
| `MarketRefresh` | A run of a profile, its files, alerts and budgets |
| `Decision` | Buy, Watch or Avoid from histories, states and rates of different ages |
| `PowerEvidence` | The evidence store and the ladder of estimates |
| `SpecEnrichment` | Facts from makers' pages, with their caches and provenance |
| `BootReadiness` | Whether a board starts the CPU it is sold with |
| `Compatibility` | The checks of a build, and the builds' order |
| `BenchmarkRun` | Phases, commands, sampler and windows |

Each `…Proofs` module EXTENDS the module it is named after, or, of several parts,
their MC module. The MC modules give model values and the instances of the runs:

| MC module | extends | and instantiates |
|---|---|---|
| `SecureStoreMC` | `SecureStore` | |
| `SourcesMC` | `CircuitBreaker` | `SourceScheduler`, `SourceExpansion` |
| `SourceReadingMC` | `HttpRequests` | `StreamingPipeline`, `PagePool`, `PublicCrawl`, `FeedParser` |
| `MarketMC` | `ConditionalCache` | `MarketRefresh`, `Decision` |
| `ServiceMC` | `ServiceLoop` | `PersistBatch`, `BatchSizer`, `EventJournal`, `Promotion` |
| `LeaseV1MC` | `LeaseV1` | |
| `CyclesMC` | `ReplayWindow` | `DistributedCycle`, `HistoryCompaction` |
| `NodeMC` | `BenchmarkRun` | `PowerEvidence`, `SpecEnrichment`, `BootReadiness`, `Compatibility` |

**Parts.** The components an MC module brings together share no state: what one
hands to the other is an input of the other's model. Interleaving them would
multiply states and show nothing, so a behaviour is about one of them. `part` is
chosen at the start among `Parts`, named after an instance (a component with
constants of its own, a record of them: `Pool(Public)`, `Compaction(Repeated)`, `Batch(Narrow)`,
`Batch(Failing)`, `Sizer(Small)`, `Journal(Shared)`, `Journal(Own)`,
`Journal(Long)`, `Promoted(Mixed)`, `Refresh(Priced)`, `Recommend(Decided)`,
`Power(ThreeCards)`, `Enriched(Found)`, `Boot(OnSale)`, `Builds(FourBuilds)`), and does
not change; the variables of the others stay `Unused`, or at their first values for the extended
module. A property that reads `part = "x" => M!Prop` is `M!Prop` of every behaviour of that
instance. Where components do share state they are one specification: `DistributedCycle` composes
the ledger, the workers and the catalog history.

### Coordinators

**SecureStore.** One variable per table (`leader`, `cycles`, `tasks`, `workers`,
`batches`), and for each coordinator whether it runs (`up`), the `LeaderState` it
last read (`view`) and the operation its executor is inside of (`job`).
`acquire_leader` and `lease` are `BEGIN IMMEDIATE` transactions and one step;
`heartbeat`, `complete`, `fail`, `add_batch` and `register_worker` read first and
open the write transaction with their first UPDATE: a `Check…` action puts them
into `job`, `Write` does what follows. `add_batch` has one more check and leaves
the executor for the artifact in between (`uploads`). Deadlines are the time left,
counted down by `Tick` to -1; 0 and -1 are kept apart because the code compares
with `>` in some places and `<` in others. All coordinators share one clock.
Payloads, labels and scores are left out: `Capable`, `Affinity` and `Gated` say
what a worker can match. `SerialSpec` is the same system when no transaction of
another coordinator commits between an operation's check and its write.
`drained` remembers which workers an admin has drained, for `DrainedGetsNoLease`.
A registration reads the worker's state in its check and writes it back with its
`Write`, so it may undo a quarantine that came in between: `QuarantineServed`, asked
under every interleaving, allows that for the registrations that had read before.

**LeaseV1.** The store's single thread executes one request after the other;
`net` holds requests, and one whose sender crashed or timed out may still be
executed (`Execute`) or lost. A row keeps owner, whether its lease is live,
attempts and state; `batches` keeps of each index the attempt whose batch is
stored. Leases are known by worker name alone, so batches of different attempts
may stand side by side, and requests of a dead attempt may meet a live one of the
same worker. That a completed task is whole although nothing but the name is
compared is what the module shows.

**DistributedCycle.** `exec` is a worker's loop in `run_secure_worker`: task,
pages still to fetch, next batch index, awaited answer. `wire` holds requests
until they are executed (`Serve`) or lost; a worker that gives up leaves its
request there. Leases may expire at any time, which covers every heartbeat
schedule. A source is a list of pages with one listing each, of which it may
withdraw any, at any time, and an attempt may find its pages in any order. The
history variable `mixed` collects the tasks whose attempts the store cannot tell
apart: pages came in another order, the source changed while the task was under way,
or a worker leased the task while a request of its earlier attempt was on the wire.
The properties are about the other tasks; section 4 has what the code does to these.

**ReplayWindow.** `stamp` is a request's time by the worker's clock, which is
ahead by at most `MaxAhead`, which the run sets to all that is accepted. The code
accepts stamps up to 90 s ahead, so a copy for up to 180 s after it was sent, and
forgets its nonce after 120 s: `Near` tells the requests for which the window's age is
enough (at most 30 s ahead), which are executed once; the others are executed twice at
most. `sent` is a history variable. A restart
forgets the window and what its process executed: `ExecutedOnce` is about one
process, and a coordinator restarted within the skew can execute a copy again.

**HistoryCompaction.** `RecordBatch` is the base history's transaction, `Compact` the
deletion that follows in another; `removable` is what the first decided. `rows` are
the stored observations of a listing, at most one of each run, so their runs
order them as their ids do. A run may record a listing several times, as two sources
or pages may give it; `again` remembers which listings that happened to, and what
compaction keeps of the latest run is stated of the others. `compacted` has one listing
over many runs, `repeated` two over few.

### Reading sources

A step is what a coroutine or thread does between two suspensions.

**StreamingPipeline.** `agent` is `idle` (`queue.get`), `inside` the adapter,
`putting` (`output.put`) or `done`; a put is enabled while the queue has room.
`AfterPut` is the control flow of the nested `try`, `Cancelled` what a
CancelledError makes of it: the `finally` of a running adapter still puts its
duration. `TimeoutWhileBlocked` is `asyncio.timeout` around the `yield` of
`process_adapter.py`, for the sources in `Timed`.

**PagePool** has the same shape one level down: pages are put for subworkers,
results and end marks come back, and the task group cancels and waits when the
consumer leaves. `except BaseException` turns a cancellation into one more error
to put, so a cancelled pool is sure to end only when its producer had put its last
mark and the output holds what is left (`Closes`, the premise of `PoolEnds`); without
cancellation any queue is enough. `wide` has room for everything, `narrow` for one
page, and `public` is the pool of `public_discovery.py`: unbounded queues, and failed
pages are tolerated.
**PublicCrawl** chooses what the web links to at the start. **FeedParser**: the
thread is sure to end after its consumer has left only when the queue has room for the
rest (`LeftFinishing`); the part `left` has a queue shorter than its feed. In the same
way `Cancelling` is the room a cancelled refresh needs, and `StreamOver` leaves out a
refresh that has lost an agent to a child process's timeout.

**HttpRequests.** `at` is where a request is; `Goes` are its own steps, `Answered`
those of the server. Every failure but a rejection is retried, 4xx statuses that
are not worth a retry included, as in the code. **ConditionalCache**: `cache` is
`DiscoveryCache._entries` and which entry was accessed `before` which, `disk` the
last flush; ages replace times and are counted up to the first expired one; every poll has a page
of its own in the run, since with a shared page a slow parse can store an older
version between the other's request and its 304.

### Which sources

**CircuitBreaker**: an operation holds the lock from its first line to its last
and is a step; `streak` and `quiet` are history variables.
**SourceScheduler**: the plan takes the next number, the outcomes are written in
two transactions, and a crash or an exception may fall between any two; with
`Cooldowns = FALSE` it is the base engine, whose counter restarts with it.
**SourceExpansion** composes the engine's use of the store with `CatalogHistory`.

### The service

**ServiceLoop**: `at` is the point of the cycle; a batch is committed (`rows`) and
then spooled (`spool`, by process id and run); `Flush` to `Rewrite` are the
writes of `run_once`, learning and debug artifacts in their order. Any step may
raise and any two may be separated by a kill. The age test of readiness and the
distributed engine in place of the local one are left out.
**PersistBatch**: history and mapping run beside each other; after an error nobody
takes from the queues, so the batch ends when they hold it with its end marks. The
default is a queue of 64 with batches up to 2048: a batch whose normalization
raises can then hang, which the part `failing` avoids with a queue of 5.
**EventJournal**: every file operation is a step and paths are apart from files.
**Promotion**: observations are `Full` or `Sparse`; promotion and the reader see
each file as it is.

### Market, node and builds

**MarketRefresh**: `pc` walks through `run_profile`'s writes; fingerprints,
alerts, states and history are separate files; a poll may be repeated up to
`Attempts` times, which nothing charges to the budget. **Decision** decides twice, as
`decision.py` and `tco.py` do; the rows of a poll are in any one order.
**PowerEvidence**: watts are small numbers, a median is the set of rows it is
taken from, five identity facts stand for thirty; a refresh is a read of sources and
store (`copy`) and a later write, by any of two writers, and `stale` remembers
whether a source was edited since the refresh that was written last began.
**SpecEnrichment**: a fact's value is the part of the page it was read from, so
that provenance and strength are one thing; a page may change at any time. A page
shows one product and has the `names` of several; a curated page passes when any of the
terms its association asks for is on it or it asks for none (`Shown`), and a found one
when it has the part number.
**BootReadiness**: makers' pages and rules, and sellers when they speak, are true
at the time they are written; firmware is only updated upwards; boards whose key
has several parts are left out.
**Compatibility**: a need is a number and an offer the set of the numbers it
meets; one accelerator; the CPU is looked up in the board's support table by all names
known of it, of which a title has one and learning may add another (`CpuNames`,
`MatchScore`, `TableSays`); rows that tie come in any order.
**BenchmarkRun**: time passes only inside a phase and at most `MaxTime` in each. `held`
says whether descendants of the command have its pipes: `communicate` waits for the
pipes' end, before the kill and, without a limit, after it. A cancelled caller ends,
tells a phase's sampler to stop and waits neither for it nor for the command; the
sampler of an idle window is not even told.

## 3. Runs

A property of a run is one definition, and where the run has many parts it is a
conjunction of named statements, one per hazard, each defined in its component's
module with a comment that says what code it is about. TLC stops at the first
conjunct that fails; PROJECT.json lists for such a property faulty versions of
several of the components, each of which breaks a different conjunct. "Bounded"
type invariants (`TypeOK`, and `PartsTyped` for the parts) are conjuncts of one
property of each run.

| Run | Properties, and their parts | Distinct states |
|---|---|---|
| `failover` | `TypeOK`, `ActiveIsLeader`, `EpochOwned`, `CanceledNeverLeased`, `QuarantineServed` under every interleaving of check and write | 270 thousand |
| `serial` | `FencedMutation`, `LiveLeaseExclusive`, `ImplementsLedger` under `SerialSpec` | 743 thousand |
| `sources` | `SourcesKept` (`NeverGivenUp`, `CountsFailures`, `NoSourceLost`, `ListingsHaveSources`, `ScannedAreStored`, `ConfiguredNotProbed`), `RestsAfterTrip`, `NothingUndone` (`RestartKeepsCooldown`, `NotGoneWhenSeen`), `ReachedAtLast` (`ReachableAgain`, `BecomesSource`) | 548 thousand |
| `reading` | `PermitsAccounted`, `ReadWhole` (`SuccessIsComplete`, `EveryPageAnswered`, `PolledIsRead`, `NothingMissed`, `StaysInScope`, `SeedsFirst`, `FeedIsWhole`), `NoItemTwice`, `InTurn` (`InOrder`, `HonorsRetryAfter`), `ReadingEnds` (`RequestsEnd`, `StreamEnds`, `CancelEnds`, `PoolEnds`, `ThreadEnds`) | 168 thousand |
| `market` | `NeverStale`, `MarketBounded` (`CacheBounded`, `RequestsWithinBudget`), `ListingsReported` (`NoFalseDisappearance`, `LifecycleReported`, `EmittedOnce`, `DropsOnce`, `DropsReported`, `DealPerCrossing`), `DecidedOnOffers` (`BuyIsLive`, `BuyIsPriced`, `RecordIsSellers`, `CurrentIsOffered`) | 1.9 million |
| `service` | `PublishedIsRecorded`, `OutputsAgree` (`RatedByRun`, `LatestIsWhole`, `ReadyIsPublished`, `ReportIsCatalogued`, `FreshIsDecided`), `SpooledIsWhole`, `JournalKept` (`InOrder`, `RecentOnDisk`), `LoadBounded` (`InFlightBounded`, `Adapts`, `Bounded`), `ServiceGoesOn` (`StopsOrGoesOn`, `BatchEnds`, `Delivered`) | 600 thousand |
| `lease_v1` | `CollectedStays`, `ImplementsLedger`, `CompletesWhole`, `EveryTaskEnds` | 437 thousand |
| `cycles` | `ExecutedOnce`, `HistoryIsTrue` (`CompletedIsWhole`, `NoFalseDisappearance`, `LatestKept`, `HeartbeatKept`), `EvidenceGrows` (`OlderRunsKept` among them) | 1.9 million |
| `node` | `SamplesOfTheirPhase`, `NothingLeftRunning`, `BestEvidence` (`EnergyWithinSamples`, `Settles`, `RailNeverDevice`, `NarrowestCounts`, `LearnedUnlessHidden`, `StrongestWins`, `ProofMatches`, `StandsOnVerified`, `IdentityOnPage`), `JudgedRightly` (`NoFalseReadiness`, `RefusedByTable`, `SellerStaysBelow`, `DecidedWhenKnown`), `NothingUnlearned` (`LostByOverlap`, `VerdictKept`, `RejectedStays`, `BestFirst`), `BenchmarksEnd` | 369 thousand |
| `stale_write` | `FencedMutation` without the serial restriction | violated |
| `process_timeout` | `ProcessStreamEnds`: a refresh of child processes ends | violated |
| `market_budget` | `NarrowerIsNoDisappearance`: a budget that ends between two queries | violated |

### Bounds, and why they are enough

* **Coordinators.** They interfere through the leader row and the row of one
  task: two of them give takeover, re-acquisition by the old leader and a deposed
  writer. Two epochs are one takeover, two attempts one re-lease;
  `LeaderLease = 2` lets a lease be held, due and expired with a renewal in
  between. Tasks meet only in `lease`'s choice and in `cancel_cycle`, which treat
  rows one by one. `SYMMETRY` exchanges the coordinators.
* **lease_v1.** One task of two batches, two workers, two attempts and two
  faults: a batch of each attempt may be stored, an attempt may be given up, its
  requests stay under way and meet a live attempt of the same worker.
* **cycles.** Two pages are the least for batches to be permuted or partly
  stored; two leases with two attempts are one on each side of the requeue test, by the
  same worker or the other. The skew of three and the age of four stand for 90 and
  120 seconds: a stamp one unit ahead is near, those of two and three are not, and
  nine units let a copy be accepted when its nonce is forgotten, and a process restart.
  Compaction has four runs of one listing over four time units with a heartbeat of two,
  so that rows are kept for a change, for the heartbeat, and deleted (`compacted`), and
  two runs of two listings (`repeated`); in both a run may record a listing again.
* **sources.** Three calls around a threshold of 3 and one permit overlap in every
  state of the circuit. Cooldowns grow over 30 cycles to their maximum; cadences
  of up to 4 with two crashes. Two pages on two hosts and a sitemap compete for
  two places (`growing`) or have three (`roomy`).
* **reading.** Two plain requests and a stream for two sources share a gate of 2
  and a limiter that halves and grows. Two agents with three sources and a queue
  of 1 (`local`), or two timed ones of two batches with a queue of 2 (`timed`); three
  pages through queues of 1 (`narrow`), through queues that hold all (`wide`) and through
  unbounded ones that tolerate failures (`public`), all of which may be cancelled; three
  indexes that may link to each other, in crawls that end at a bound (`bounded`) and that
  do not (`whole`); six items through a queue of 2 (`feed`), five whose consumer may
  leave (`left`): the cases in which a pool, a feed or a refresh hangs are in the run, and
  the properties say which they are.
* **market.** In the cache one entry for two pages makes every store evict the
  other page's entry, while that page's request may be under way; a TTL of 1 tells
  a fresh, a due and an expired entry apart. Three runs of two shops of which any
  may stop (`stopping`), two queries, a budget of three and up to two attempts at each,
  also in runs that stop (`queried`), four runs
  of one listing at two prices (`priced`) and two rates (`rated`). Decisions have
  two listings in two currencies and up to three polls.
* **service.** Two process ids that are reused, three runs of up to two batches
  and two deaths: a run dies, its successor has the same spool name. `asked` is
  one process that is not killed. Journals of 2 lines with two writers (`shared`)
  or one that writes more than both files hold (`own`).
* **node.** An idle and a prefill phase, whose command may leave descendants and whose
  caller may be cancelled; two cards of one family and a third part with nothing but its
  category, rows with and without published power or load; two writers and two edits of
  the evidence; a curated page with terms of its own, one with a generic term, and a page
  of an accessory that has both; pages that change on any of three days; two or three
  firmware versions of each maker; builds of one or two parts per slot, and a CPU whose
  title says less than its page.

`CHECK_DEADLOCK FALSE` is stated because with the counters at their bounds, a
refresh over or a benchmark ended, the modelled system really stops.

### Fairness

Fairness is assumed only where the code's scheduling gives it, and never of
cancellation, crashes, timeouts in flight, or a source's good will.

* The event loop runs what can run, and threads run on: weak fairness of the own
  steps in `StreamingPipeline`, `PagePool`, `FeedParser`, `PersistBatch`,
  `EventJournal` and `BenchmarkRun`. Adapters and probes answer because HTTP
  clients, child processes and meters have timeouts; of a meter's command, which is
  killed in the same way as a benchmark's (`power.py:53`), this takes that it leaves
  no descendants. Of a benchmark's command neither its end nor that of its descendants
  is assumed.
* `HttpRequests`: time passes (`Tick`), each request's own steps are weakly fair;
  `Answered` is strongly fair, since a server's answer competes with nothing the
  request can wait for for ever, and a stream's consumer keeps coming back.
* `CircuitBreaker`: time passes, calls end, and refreshes keep coming. `undropped`
  leaves out calls dropped at a yield, which keep their permit (section 4).
* `SourceExpansion`: `Progress` is weakly fair, expansions that reach every page
  happen again and again (strong fairness of `Reach`), and at last no run is cut
  short. Without the last two nothing could be promised.
* `ServiceLoop`: a process that is not killed goes on.
* `LeaseV1`: workers that run take their next step, the server executes what a
  living sender waits for, and leases nobody renews expire. Faults are finite.

## 4. Disagreements between code and documents

Three have a run of their own. For each, section "findings" of PROJECT.json
quotes the document.

1. **`stale_write`** — `complete` checks the lease, the standby takes over,
   cancels or re-leases, and the deposed coordinator's UPDATE by `task_id` alone
   still commits (`secure_store_tasks.py:162`).
2. **`process_timeout`** — the timeout of a child process can cancel the agent
   instead of the adapter; its end marker is never put and the refresh does not
   end (`process_adapter.py:76`).
3. **`market_budget`** — a source that answers the first of its queries because
   its budget ends counts as polled, and the listings of the other queries are
   recorded as disappeared (`ops.py:62`).

The others were met while modelling. The statement is a definition of the module, or
the property named without a condition it has; asked of the configuration of the run,
or with the constants named here, it makes TLC print the behaviour.

| Statement | Module, constants | What the code does |
|---|---|---|
| `DrainedGetsNoLease` | `SecureStore`, one coordinator | A failure that quarantines a draining worker overwrites its state; after the quarantine it is active (`secure_store_tasks.py:186`, against docs/DISTRIBUTED_RUNTIME.md:230) |
| `QuarantineServed` without `ReadActive` | `SecureStore`, as run | A registration that had read the worker active writes that over a quarantine set in between (`secure_store_base.py:157`) |
| `ExecutedOnce` without `Near` | `ReplayWindow`, as run | The nonce of a request stamped more than 30 s ahead is forgotten while a copy is still accepted (`distributed_security.py:100` and 140, docs/DISTRIBUTED_SECURITY.md:32) |
| `NoFalseDisappearance` of tasks in `mixed` | `DistributedCycle`, as run | Batch ids repeat across attempts and the first stored one wins (`distributed_cli_secure.py:174`, README.md:90); a lease has no attempt number, so a late `complete` finishes the next attempt of the same worker (`secure_store_tasks.py:160`, docs/DISTRIBUTED_RUNTIME.md:286) |
| `StreamEnds` without the lost agents, `CancelEnds`, `PoolEnds` and `ThreadEnds` without `Cancelling`, `Closes` and `LeftFinishing` | `StreamingPipeline`, `PagePool`, `FeedParser`, as run | With queues shorter than what is left, as the defaults of 8 and 64 may be, cancelled refreshes and pools and left feeds wait for ever (`streaming_discovery.py:60`, 167 and 264) |
| `NoEmptySuccess` | `ConditionalCache` | When the entry is evicted between request and 304, the poll succeeds with nothing (`streaming_discovery.py:32`, tests/test_efficiency_next.py:50) |
| `ProbesBounded` | `CircuitBreaker` | The end of a call admitted before the trip gives a probe's permit back (`resilience_runtime.py:99`, its line 23) |
| `PermitReleased` | `CircuitBreaker`, `MayDrop = TRUE` | A probe dropped at its yield keeps its permit (`streaming_discovery.py:209`, `resilience_runtime.py:94`) |
| `SkipKeepsStatus` | `Promotion` | The report holds one cycle's decisions only (`canonical_promotion.py:185`, docs/DISCOVERY_PROMOTION_RESILIENCE.md:67) |
| `StaleIsReported` | `Promotion` | Staleness is compared with the latest run, which may be under way (`history_compat.py:75`, specs/MARKET_INTELLIGENCE.md:121) |
| `RecentOnDisk` | `EventJournal`, two writers | Two processes that find the file full lose the rotated one (`event_log.py:33`, docs/CONTINUOUS_OPERATION.md:15) |
| `NoneSkipped` | `EventJournal` | A line written between the tail and the first poll is not sent (`dashboard_service.py:158`, docs/DASHBOARD.md:23) |
| `EmittedOnce` | `MarketRefresh`, two rates | A new rate makes an old deal a new alert (`intelligence.py:288`, docs/AUTONOMOUS_REFRESH.md:73) |
| `DropsOnce` | `MarketRefresh`, `MayStop` | Alerts are written before their fingerprints (`intelligence.py:310`, docs/GPU_DEAL_WATCHES.md:18) |
| `DropsOnce` | `MarketRefresh`, small `MaxFingerprints` | Which fingerprints are dropped is arbitrary (`intelligence.py:311`, docs/CHANGE_INTELLIGENCE.md:54) |
| `DropsReported` | `MarketRefresh`, `MayStop` | A drop in a run that raises is not reported later (`intelligence.py:90`, docs/CHANGE_INTELLIGENCE.md:7) |
| `RequestsWithinBudget` without `Attempts *` | `MarketRefresh`, as run (`queried`) | Retries are not charged (`ops.py:73`, docs/CHANGE_INTELLIGENCE.md:43) |
| `BuyStaysLive` | `Decision` | The cost of the node makes a Buy of an expired Watch (`tco.py:193`, docs/DECISION_QUALITY.md:90) |
| `RecordIsLowest` | `Decision` | Lower prices after the current offer's poll do not count (`decision.py:186` and 463) |
| `CurrentIsOffered` | `Decision`, two scopes | Of a listing's states the one of the last scope is taken, however old (`decision.py:67`, docs/DECISION_QUALITY.md:59) |
| `EvidenceGrows`, `LatestKept` of listings in `again` | `HistoryCompaction`, as run | A second sighting in a run deletes the change of the first (`history_compaction.py:77`, specs/MARKET_INTELLIGENCE.md:102) |
| `PolledIsRead` without `Tolerant` | `PagePool`, as run (`public`) | One good page makes a public source succeed, and the listings of its failed pages are missing (`public_discovery.py:269`, specs/MARKET_INTELLIGENCE.md:69, docs/CONCURRENCY.md:132) |
| `HonorsRetryAfter` | `HttpRequests`, `RetryAfters` above `MaxBackoff` | A long Retry-After is cut to the longest delay (`http_runtime.py:331`, docs/CONCURRENCY.md:47) |
| `LadderHolds` | `PowerEvidence`, as run | The threshold is on another scale than the levels (`power_model.py:53`, docs/POWER_ESTIMATION.md:15) |
| `FallbackAvailable` | `PowerEvidence`, as run | The broader rows are not looked at (`power_evidence.py:117`, docs/HARDWARE_POWER_IDENTITY.md:19) |
| `CorrectionsArrive`, `HostAddedOnce`, `PagesFeedPower` | `PowerEvidence`, as run | A corrected record keeps its id; a measured node gets the host on top; enrichment writes no power rows (`power_evidence.py:152`, `power_model.py:73`, `power_ingestion.py:88`) |
| `AppendOnly` | `PowerEvidence`, as run | The later of two refreshes drops what the other added (`power_ingestion.py:224`, docs/POWER_ESTIMATION.md:23) |
| `IdentityOnPage` without `OwnTerms`, or of products without a curated association | `SpecEnrichment`, as run | Generic terms, or none, let another product's page pass (`spec_enrichment.py:335`); a page with the part number is verified although it is an accessory's (`manufacturer_discovery.py:122`), and a cached association's is read without looking for the product (`spec_enrichment.py:293`, docs/EXACT_SKU_ENRICHMENT.md:69) |
| `NeverCleared` | `Compatibility`, as run | A CPU that a complete table does not list under its title is supported once its model is learned (`compatibility.py:105` and 194, docs/EXACT_SKU_ENRICHMENT.md:101) |
| `BenchmarkEnds` without `HeldForEver`, `NothingLeftRunning` of a cancelled caller | `BenchmarkRun`, as run | After the kill `communicate` is awaited without a limit (`power.py:229`); cancellation neither kills the command nor waits for the sampler, and stops that of an idle window not at all (`power.py:168` and 230) |
| `RowIsTheCpus`, `OwnRulesOnly`, `LabelCounts` | `BootReadiness` | A 5600's row answers for a 5600X; a rule for one model is applied to others; a sticker alone is dropped (`compatibility.py:133`, `factory_firmware.py:38`, `spec_enrichment.py:363`) |
| `NothingSilentlyTrue`, `RankedByCost`, `PenaltyCounts` | `Compatibility` | An unknown requirement passes; without a price of the accelerator, or in the second sort, builds are not ranked by cost and penalty (`compatibility.py:293`, `bom_sourcing.py:121`, docs/COMPATIBLE_BUILDS.md:25 and 84) |

Where a property has a condition, the run contains the cases that it leaves out ("as
run"); where instead a part's constants keep a case out, the run shows what the code
gives without it.

## 5. Proofs

| Module | Theorem | States |
|---|---|---|
| `SecureStoreProofs` | `TypeCorrect` | `Spec => []TypeOK` |
| | `ActiveIsTheLeader` | `Spec => []ActiveIsLeader` |
| | `OneOwnerPerEpoch` | `Spec => []EpochOwned` |
| | `LeasesEnd` | `Spec => []LeaseHasHolder` |
| | `CancelIsFinal` | `Spec => []CanceledNeverLeased` |
| | `StaleEpochWritesNothing` | `SerialSpec => FencedMutation` |
| | `LiveLeaseIsExclusive` | `SerialSpec => LiveLeaseExclusive` |
| | `QuarantineIsServed` | `Spec => QuarantineServed` |
| | `StoreKeepsLedger` | `SerialSpec => ImplementsLedger`: the refinement of `TaskLedger` |
| | `LoneCoordinatorIsSerial` | one coordinator: `Spec => SerialSpec` |
| `LeaseV1Proofs` | `StoredWithoutGaps` | `Spec => []NoGaps` |
| | `LedgerKept` | `Spec => ImplementsLedger`: the refinement of `TaskLedger` |
| | `CompletedWhole` | `Spec => CompletesWhole` |
| | `CollectedIsFinal` | `Spec => []CollectedStays` |
| `CyclesProofs` | `AtMostOnce`, `HistoriesAreTrue`, `EvidenceIsKept` | of `CyclesMC`: `PartSpec => []ExecutedOnce`, `[]HistoryIsTrue`, `EvidenceGrows`: every property of the run `cycles` |
| `SourcesProofs` | `BreakerCorrect` | of `CircuitBreaker`: `Spec => []TypeOK /\ RestsAfterTrip` |
| | `SchedulerCorrect`, `CooldownsAreKept` | of `SourceScheduler`: `Spec => []TypeOK /\ []NeverGivenUp /\ []CountsFailures /\ []NoSourceLost`, and with cooldowns `[][RestartKeepsCooldown]` |
| | `ExpansionCorrect`, `ConfiguredAreNotProbed`, `NoneGoneWhenSeen` | of `SourceExpansion`: `Spec => []TypeOK /\ []ListingsHaveSources /\ []ScannedAreStored`, `[]ConfiguredNotProbed`, `[][NotGoneWhenSeen]` |
| | `SourcesAreKept`, `NothingIsUndone`, `Rests` | of `SourcesMC`: `PartSpec => []SourcesKept`, `NothingUndone`, `RestsAfterTrip`: every property of the run `sources` but liveness |
| `SourceReadingProofs` | `TypeCorrect`, `NoPermitLost`, `ItemsOnce`, `RetryAfterHonored` | of `HttpRequests`: `Spec => []TypeOK`, `[]PermitsAccounted`, `NoItemTwice`, `[][HonorsRetryAfter]` |
| | `PipelineCorrect`, `BatchesInOrder` | of `StreamingPipeline`: `Spec => []TypeOK /\ []SuccessIsComplete`, `[][InOrder]` |
| | `PoolCorrect` | of `PagePool`: `Spec => []TypeOK /\ []EveryPageAnswered /\ []PolledIsRead` |
| | `CrawlCorrect` | of `PublicCrawl`, on the seeds' hosts: `Spec => []TypeOK /\ []NothingMissed /\ []SeedsFirst /\ []StaysInScope` |
| | `FeedCorrect` | of `FeedParser`: `Spec => []TypeOK /\ []FeedIsWhole` |
| | `RequestsKeep`, `ReadIsWhole`, `InTurnKept` | of `SourceReadingMC`: `PartSpec => []PermitsAccounted /\ NoItemTwice`, `[]ReadWhole`, `InTurn`: every property of the run `reading` but liveness |
| `ServiceProofs` | `OutputIsARun`, `RatingsAreARun`, `ReadyMeansPublished`, `LatestIsThere`, `LoopIsBounded` | of `ServiceLoop`: `Spec => []PublishedIsRecorded`, `[]RatedByRun`, `[]ReadyIsPublished`, `[]LatestIsWhole`, `[]TypeOK` |
| | `BatchesAreWhole`, `BatchesAreBounded` | of `PersistBatch`: `Spec => []SpooledIsWhole`, `[]InFlightBounded` |
| | `PromotionsAgree` | of `Promotion`: `Spec => [](ReportIsCatalogued /\ FreshIsDecided)` |
| | `SizesAdapt` | of `BatchSizer`: `Spec => []Adapts` |
| | `StreamsInOrder`, `JournalsAreBounded`, `LastLinesStay` | of `EventJournal`: `Spec => []InOrder`, `[]Bounded`, and with one writer `[]RecentOnDisk` |
| | `PublishedOutputIsARun`, `FilesAgree`, `SpooledBatchesAreWhole`, `JournalIsKept`, `LoadIsBounded` | of `ServiceMC`: `PartSpec => []PublishedIsRecorded`, `[]OutputsAgree`, `[]SpooledIsWhole`, `[]JournalKept`, `[]LoadBounded`: every invariant of the run `service` |
| `MarketProofs` | `CacheWithinLimit`, `EntryKept`, `ListingsAreCurrent` | of `ConditionalCache`: `Spec => [](TypeOK /\ CacheBounded)`, `[]EntryMatchesRequest`, `[]NeverStale` |
| | `NewsIsReported`, `OnlyGoneDisappear`, `BudgetIsKept`, `NoDropIsMissed`, `NoDropIsRepeated`, `NothingIsRepeated` | of `MarketRefresh`: `Spec => [](TypeOK /\ LifecycleReported)`, `[]NoFalseDisappearance`, `[]RequestsWithinBudget`, `[]DropsReported`, `[]DropsOnce`, `[](EmittedOnce /\ DealPerCrossing)` |
| | `BuysArePriced`, `OffersAreLive` | of `Decision`: `Spec => [](BuyIsPriced /\ RecordIsSellers)`, `[](BuyIsLive /\ CurrentIsOffered)` |
| | `BoundsHold`, `ListingsAreReported`, `DecisionsAreGrounded`, `PartsAreCurrent` | of `MarketMC`: `PartSpec => []MarketBounded`, `[]ListingsReported`, `[]DecidedOnOffers`, `[]NeverStale`: every property of the run `market` |
| `NodeProofs` | `NothingIsLeft`, `SamplesBelong`, `EnergyIsMeasured`, `BenchmarkTyped` | of `BenchmarkRun`: `Spec => []NothingLeftRunning`, `[]SamplesOfTheirPhase`, `[]EnergyWithinSamples`, `[]TypeOK` |
| | `LostOnlyByOverlap`, `EvidenceSettles`, `EstimatesStandOnDevices`, `NarrowestIsCounted`, `LearnedUnlessIdleOnly` | of `PowerEvidence`: `Spec => [][LostByOverlap]`, `[]Settles`, `[]RailNeverDevice`, `[]NarrowestCounts`, `[]LearnedUnlessHidden` |
| | `StrongestPartWins`, `ProvenanceTellsTheFact`, `ReadFromVerified`, `CuratedPageShowsProduct`, `VerdictIsKept` | of `SpecEnrichment`: `Spec => []StrongestWins`, `[]ProofMatches`, `[]StandsOnVerified`, `[]IdentityOnPage`, `[][VerdictKept]` |
| | `ReadyBoardsBoot`, `TableRefuses`, `SellerCostsNothing` | of `BootReadiness`: `Spec => []NoFalseReadiness`, `[]RefusedByTable`, `[]SellerStaysBelow` |
| | `RejectedStaysRejected`, `KnownIsDecided`, `CheapestFirst` | of `Compatibility`: `Spec => [][RejectedStays]`, `[]DecidedWhenKnown`, `[][BestFirst]` |
| | `EvidenceIsBest`, `PartsAreJudged`, `LearningKeeps`, `BenchmarkLeavesNothing` | of `NodeMC`: `PartSpec => []BestEvidence`, `[]JudgedRightly`, `NothingUnlearned`, `[](NothingLeftRunning /\ SamplesOfTheirPhase)`: every property of the run `node` but liveness |

They hold for every value of the constants that meets the module's named
assumption (`ConstantsOK`, `WindowConstantsOK`, ...), where those of the parts of
`ServiceMC`, `SourcesMC`, `SourceReadingMC`, `MarketMC` and `NodeMC` are a parameter
`c` of the theorem, for any batch, journal, promotion, scheduler, expansion, pipeline,
pool, crawl, feed, profile, product, power source, listing, board and combination: the theorems on
`PartSpec` apply them to the configurations of the run. `PersistConstantsOK`,
`JournalConstantsOK`, `PromotionConstantsOK`, `ExpansionConstantsOK`, `PipelineConstantsOK`,
`PoolConstantsOK`, `CrawlConstantsOK`, `MarketConstantsOK` and `DecisionConstantsOK` say that
threads, processes, listings, candidates, agents, workers and what a web consists of are finitely
many. Some additions: `HttpRequests` needs finitely many requests; `RetryAfterHonored` and
`InTurnKept` assume that no server asks for more than `MaxBackoff`, which section 4 shows they
must; and `EntryKept`, `ListingsAreCurrent` and `PartsAreCurrent` assume `OwnPage`, that no two
polls share a page. The assumption is needed: with a shared page a slow parse can store an older
version between the other's request and its 304. Of the refresh, `OnlyGoneDisappear` assumes one
query of a source, `NoDropIsMissed` that every run ends regularly, `NoDropIsRepeated` that and
`NoForgetting` (all fingerprints there can be fit into the file, five for each listing and
generation), `NothingIsRepeated` also one exchange rate; of the decision, `OffersAreLive` assumes
one scope. Section 4 has the behaviour that breaks the property without each of them (the run
`market_budget` for the queries), and every part of the run `market` in which the property is
asked meets them. Power evidence, enrichment and benchmarks have no further conditions: their
properties name the cases they leave out. `ReadyBoardsBoot` assumes `Truthful`, of what the code
takes from outside: makers number in one train the versions the code puts in order, the row that
matches best names a firmware that knows the CPU, and factory rules are true of the boards they
apply to; section 4 has the rows and the rules of which the code does not make sure.
`KnownIsDecided` assumes `Described`: every field a check reads, the CPU's names and the boards'
tables among them, is a field of the configuration, told or not. `BuildConstantsOK` has at least
one build kept, for a list of none has no first, and names the eight slots; `PartsOK` is these
conditions for the configurations of the run, and TLC evaluates it. `ConfiguredAreNotProbed`
assumes that no configured host is one that `lstrip("www.")` mangles, and `NoneGoneWhenSeen` that
a listing must be missed twice to be gone; both are needed, for the engine takes a mangled host of
its configuration for a new one, and with `DisappearAfter = 1` a run that recorded a page through
the expansion counts it as missed when it ends. `ReplayWindow` assumes that the skew is within the
window's age and that there is room for every request.

The arguments:

* **SecureStore.** `TInv` strengthens `TypeOK` by "a leadership with time left has
  a positive epoch", which keeps the epoch of a lease in range. `ActiveIsLeader`
  is not inductive: a view may name its node with time left only while the leader
  row carries the same epoch and at least as much time, so the invariant relates
  every view to the row; a row is overwritten only when its own time is up, hence
  when that of the views is. `EpochOwned` follows from views never being ahead of
  the row's epoch and agreeing with it on its own. `LeaseHasHolder` and
  `CanceledNeverLeased` need that no pending write turns a row into a lease: a
  heartbeat's write touches only the deadline, the others end or requeue the task.
  `QuarantineServed` needs no more than the types: a registration remembers what it
  read, and reads "active" only of a worker that is not in quarantine
  (`RegistrationsSee`), so no step but an undrain or its write ends one that has time
  left. What holds of `SerialSpec` rests on `JobCurrent`: from an operation's check to
  its write the task row and the leader row still match its claim. So a write ends the
  lease it checked and no other one (`FencedMutation`, `LiveLeaseExclusive`), and is a
  step of the task ledger by the holder; a lease request is one step of the ledger that
  takes back what expired and hands out at most one task.
* **LeaseV1.** `SentIsStored`: what a worker counts as sent is stored.
  `RequestsFollow`: so is all that came before a request under way.
  `OneOutstanding`: of the attempt a worker is at there is at most one such
  request, the one it waits for. With `NoGaps` they say that the batches of a task
  are its first ones, whoever sent them, so that a `complete`, from whichever
  attempt, meets a whole task; every step is then shown to be a step of the ledger
  or a stutter.
* **ReplayWindow.** `AcceptedSince`: a request that was executed was last accepted after
  it was sent and within the skew of its stamp, and its nonce is remembered from then or
  the window's age has passed since; one that was executed twice, the window's age later.
  A near request is too old to be accepted when its nonce is forgotten (`Forgotten`), and
  any is when it is forgotten for the second time.
* **DistributedCycle.** `CycleInv` compares a worker's loop with what is stored. The
  place of a page is its rank among those its source offers: an attempt's requests
  under way and next index have it (`SentInPlace`, `InPageOrder`), so has every
  batch stored (`StoredInPlace`), whichever attempt it came from. What an attempt
  has sent and no longer waits for is stored (`SentIsStored`), so a task that is
  completed is whole (`CompletedIsWhole`); and what the collector has read is in
  `seen` (`CollectedIsSeen`), so none of it is gone. All of it is stated of tasks outside
  `mixed`, which a task never leaves.
* **HistoryCompaction.** `StandsFor`: each listing has an observation with the payload
  and near the time of the last sighting, and only what is about to be deleted
  comes after it. A deleted observation therefore repeats the one before it: it
  is no change (`RemovableIsNoChange`), and that it goes makes none of the others
  less of one (`ChangeStays`). Of listings in `again` only `RunsInv` is left, which is
  enough for the observations of earlier runs.
* **CircuitBreaker.** `Counts`: what the breaker keeps tells what was observed: a
  closed circuit counts the failures since the last success, below the threshold;
  an open one measures the time since the last; a half-open one has seen the
  timeout pass.
* **SourceScheduler.** That no source is given up is not inductive, for a source that
  is not due now must be due soon enough: `DueSoon` names, for each source that is
  not in the cycle under way, a cycle in the time left in which cooldown and
  cadence let it be planned, also when the cadence of the process started again
  from 0. A source that was planned last has such a cycle, because one of each
  period of its cadence comes after the end of its rest (`TurnComes`, `DueComes`);
  what no step is about keeps it. `CycleInOrder` ties the rest of a failure to the
  cycle that recorded it, `Counted` what a cycle will record to its outcomes.
* **SourceExpansion.** `ExpansionInv`: of a page only the score of its product is
  found and stored, and what a run found is in the store before the run records or
  scans it. `ProbedInv`: a running engine knows its configured hosts. `FreshInv`:
  what a run recorded has not been missed yet, so the first miss, when it
  finishes, is not the one that makes it gone.
* **HttpRequests.** The permits in use are the cardinality of the requests that
  hold one (`PermitsAccounted`), for the gate and every limiter, which halving and
  growing leave alone; who waits to send again has yielded nothing. `AskedWithin`:
  what a server asked for is within the delay its request waits.
* **StreamingPipeline.** `PipelineInv` follows a source from queue to consumer, while
  the refresh is not cancelled. Its batches in the output are the ones after the
  last received, in order (`InOutput`), and an agent inside the adapter or waiting
  to put holds the next after those (`Holds`), so a source that ends is received
  to its last batch (`Read`). An agent that the timeout of a child process ended
  leaves its source unheld, and then its own end mark is missing too: `Marked`
  counts the marks against the agents that are gone, hence a refresh that ends has
  lost no source. Nothing follows the last mark in the output.
* **PagePool.** A page that was taken is in one place (`OnePlace`), and before a
  cancellation it is in some place (`AllThere`): answered for, in a worker's hands,
  or in the output. A worker puts its None after every page is taken and the last
  None is behind every page, so a consumer that counted them has met all.
* **PublicCrawl.** `Kept`: nothing is lost until a bound is reached: of a visited index
  each child was met and each page found, or as many wait or are found as may.
  Reachable indexes are the least set closed under the sitemaps' links, and what
  was visited when nothing waits is closed. `SeedsAhead`: the seeds not yet visited
  stand at the front of the queue.
* **FeedParser.** What was parsed is the sum of what was received, waits, is in the
  thread's hands and in its batch: `Counted` states the sum by the function of the
  partial sums (`Counts`), which `put` extends and `get` shifts. `MarkedLast`: the
  end mark comes last, after all items or an error; `KeptWhole`: what the cache
  keeps is all that is parsed, or nothing.
* **ServiceLoop.** `SpoolIsRun`: the spool of the run under way holds what that
  run committed and nothing of an earlier process with the same id;
  `FutureIsEmpty`: runs to come have committed nothing. `LastIsPublished`
  relates the outcome in the health file to the run that is published. `DirsInv`
  says which debug directories stand while `latest` points to one of them, and
  that there are never more than are kept, counted by pigeonhole (`KeptAreFew`);
  `BoundsInv` with it gives `TypeOK`.
* **PersistBatch.** While results are taken, each item put in is in one place: in
  a queue, in a worker's hands, or got (`Accounted`, by counting). End marks stand
  behind the last item, and the last of them in the output behind every item
  (`MarksAreLast`, `WorkersInOrder`), so a consumer that has counted its marks has
  the batch. The bound of `InFlightBounded` is the sum of those of the places.
* **Promotion.** `CycleInOrder` says, for each point of a cycle, what of runs,
  records, catalog and report is written, so that the report names nothing that
  is not in the catalog wherever the process dies; `FreshIsWhole`, that a health
  file which is good for the last run goes with a report that decided every
  listing of that run.
* **BatchSizer.** `SizerInv`: below the maximum each window of calm has grown the
  size by one at least, above the minimum each pressed sample has shrunk it.
* **EventJournal.** A line is in one file, in the order of its writer, and written
  before any that is still to come (`FilesInOrder`, `Past`); what lies behind the
  stream's offset is later than all it has yielded, and so is a whole file that is
  shorter than the offset (`StreamInOrder`, `Later`). A writer that opens a missing
  journal makes a file that nobody holds: that one is left is a pigeonhole
  (`FreshFile`). `RoomInv` counts who will write without another look at the size
  (`Ahead`), and who still holds the rotated file. `RecentInv`, of one writer: the
  log ends with the rotated file and the journal.
* **The parts of ServiceMC, CyclesMC, SourcesMC, SourceReadingMC, MarketMC and NodeMC.** `part`
  does not change, each part's invariant is kept by its own step, and the others leave
  its variables alone. `PartsImplementLoop`: a behaviour of the composition is one of
  `ServiceLoop`, so the theorems on `Spec` hold of it.
* **ConditionalCache.** For each poll, `Matched`: while a conditional request is
  under way or answered 304, the entry of its page, if it is still there, has the
  tag that was sent, and listings; `Answered`: what a poll holds is of the version
  it was answered. `Sound`: in memory and on disk, which a restart exchanges, an
  entry's listings are of its tag's version, and the entries are in a total order of
  their accesses. That a prune leaves no more than the limit is counted: the number
  of earlier entries is different for each (a pigeonhole), so those with at least
  `over` of them are no more than the limit.
* **MarketRefresh.** `Absences`: while a run is under way the market is as its start
  found it and a source that answered was read to the end, so what was not found is
  not on offer. `Reserved`: budgets, times the attempts, cover what was asked and what the run may
  still ask (`Repeated`). `Reports`: an alert whose fingerprint is known is in an output, and so
  is all that happened up to the last generation; `EventsPast` keeps that true of a new one.
  Without interruptions `Observed` has the rows of a listing in the order of the runs and each
  generation in step with its run, so that a generation compares exactly the last two
  observations: `Dropped` says that earlier drops are in an output. `Emission`: the outputs are
  disjoint and their alerts remembered, for there are never more than the file keeps (each
  generation adds at most five of a listing, by counting). `Grounded` and `DealsInOrder` tie an
  alert to the observation it is about, so a second deal alert means a row between above the
  ceiling.
* **Decision.** `Marked`: a listing whose state is active has its last row at the price
  its source has now, which a poll of its only scope writes together with the state; so
  the offer of a report stands at that price until the next poll (`OfferStands`), and
  the decision after the cost of the node is about the same rows. `BoughtOffers` and
  `Records` say what either decision leaves: a Buy has an offer, and a record is below
  all earlier rows of its currency.
* **BenchmarkRun.** `Running` says for each step of a phase which of command and
  sampler may be alive, and that no pipe is held when the caller has gone on, unless it
  was cancelled; `InWindow` that every sample asked in a phase lies after its beginning. `Timely`
  bounds the clock by the phases that are over. The energy is a recursive function of the samples:
  `AreaBetween` shows by the least index at which it could fail that after each trapezoid the sum
  lies between two samples' powers over the time so far (`LeastStays`, `GreatestStays`), which
  replaces induction.
* **PowerEvidence.** `PowerInv`: the store holds what the sources may have said, each
  observation under its id once, and so does a refresh under way. `GrowingIn`: what a
  writer is about to write has all that it read, and all that the sources say unless
  they changed since it read them (`stale`), so whatever its write drops came after its
  reading. What is estimated follows for every such store: nothing of an internal rail
  has a device's scope, and as a narrower fact gives a higher level in every case, the
  highest level is the narrowest.
* **SpecEnrichment.** `FactsAre`: a listing whose page was read has, field by field, the
  first part of the page that tells it, then the title; the code's chain of merges is
  shown to give that (`IngestedIs`). `TaskIs`: a page that is read was named by a curated
  association and passed its terms, or by one verified within its time, which holds until
  the listing is done since no day passes in between.
* **BootReadiness.** `BoardIs`, `SaidIs` and `DocIs`: the board runs a firmware at least
  as late as the one it left the factory with and the one a seller speaks of, in the
  page as it is and as the document copied it. A score of 90 needs a minimum that one
  of these meets by the code's comparison, which in one train is the order of the
  firmware itself (`LaterIs`).
* **Compatibility.** What is known only grows, so a check that fails goes on failing; so do
  the CPU's names (`MoreNames`), and a row that matched goes on matching, so that what a
  table said of a CPU changes only with a name that is learned. The list is cut before
  it is ranked again: a compatible row lacks no fact, so it ranks by its cost (`RowIs`);
  when a compatible one exists the cut keeps one at least as cheap, and what stands first
  is not behind it (`FirstIsBest`).

Only model-checked: liveness (`ReachedAtLast`, `ReadingEnds`, `ServiceGoesOn`,
`EveryTaskEnds`, `BenchmarksEnd`, out of the prover's reach, like `ENABLED`) and the
bounds in `TypeOK` of `LeaseV1`. Every invariant and every other action property of a
passing run is proved. `LeasesEnd` and `StoredWithoutGaps` state what the proofs of other
theorems rest on, and are not properties of a run.

## 6. Not modelled

* Cryptography, TLS, HTTP framing, SQL and JSON encoding; certificates are a
  precondition.
* What a page or a feed says: the parsers (`manufacturer_*.py`, `firmware_*.py`,
  `structured_*.py`, `identity_extraction.py`) turn text into records without
  state. Where the order of their results matters, `SpecEnrichment`,
  `BootReadiness` and `Compatibility` model what is done with them.
* Scores, costs and estimates as floating point functions; `Decision`,
  `PowerEvidence` and `Compatibility` keep their comparisons and order.
* Clock skew between coordinators; backup and restore of the store; the 256 oldest
  rows that `lease` looks at; two tasks of one cycle with the same source.
* `snapshot_http.py` and garbage collection of `content_store.py`, which nothing
  but tests call; delivery of notifications, which is one attempt without state.
* Two processes that write the same JSON state at once (associations, watch
  files): the code has no coordination there to model, and each takes the file of
  the later one.
* The distributed engine inside `ServiceLoop`, the age test of readiness, and
  import and reporting commands, which read and print.

## 7. What is left

In order: a cycle's liveness in the v2 store, under workers that keep polling; the distributed
engine inside the service.
