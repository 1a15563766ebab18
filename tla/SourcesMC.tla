------------------------------ MODULE SourcesMC ------------------------------
(***************************************************************************)
(* Which sources a refresh calls: the circuit breaker of a source, the     *)
(* scheduler's cadences and cooldowns, and the expansion that finds new    *)
(* sources.  They share no state, so a behaviour is about one of them, the *)
(* part it picks at the start; the variables of the others stay unused.    *)
(***************************************************************************)
EXTENDS CircuitBreaker, TLC

CONSTANTS c1, c2, c3, shop, forum, p1, p2, s1, h1, h2, Unused

VARIABLES
    part,
    counter, seen, every, until, class, registered, adapters, at, selected, outcome, began,
    lastPlan, crashes, failuresOf, streakOf,                                \* SourceScheduler
    listing, run, seenRun, stage, offered, store, dynamic, known, polled, found, products,
    recorded                                                                \* SourceExpansion

schedulerVars == <<counter, seen, every, until, class, registered, adapters, at, selected,
                   outcome, began, lastPlan, crashes, failuresOf, streakOf>>
expansionVars == <<listing, run, seenRun, stage, offered, store, dynamic, known, polled, found,
                   products, recorded>>
all == <<part, vars, schedulerVars, expansionVars>>

-----------------------------------------------------------------------------
(* The parts *)

\* No call is dropped at a yield.
Undropped == INSTANCE CircuitBreaker WITH MayDrop <- FALSE

\* The scheduler of a configuration c.
Scheduler(c) == INSTANCE SourceScheduler WITH
    Curated <- c.curated, Found <- c.found, Learned <- c.learned, Errors <- c.errors,
    Cooldowns <- c.cooldowns, Adaptive <- c.adaptive, AdaptCurated <- c.adaptCurated,
    MinCycles <- c.minCycles, MaxScanEvery <- c.maxScanEvery, MaxCycles <- c.maxCycles,
    MaxCrashes <- c.maxCrashes, failures <- failuresOf, streak <- streakOf

Timeout == [status |-> 0, words |-> {"timeout"}]
Blocked == [status |-> 403, words |-> {"tls"}]

\* A curated source and one that is discovered on the way.
Scheduled ==
    [curated |-> {shop}, found |-> {forum}, learned |-> {forum}, errors |-> {Timeout},
     cooldowns |-> TRUE, adaptive |-> TRUE, adaptCurated |-> TRUE,
     minCycles |-> 2, maxScanEvery |-> 2, maxCycles |-> 7, maxCrashes |-> 1]

\* A curated source that times out or is blocked, with one restart.
Cooldown == [Scheduled EXCEPT !.found = {}, !.learned = {}, !.errors = {Timeout, Blocked},
                              !.maxScanEvery = 3, !.maxCycles = 30]

\* The engine without cooldowns, whose cycle counter starts again with it.
Cadence == [Scheduled EXCEPT !.cooldowns = FALSE, !.maxScanEvery = 4, !.maxCrashes = 2]

\* The expansion of a configuration c.
Expansion(c) == INSTANCE SourceExpansion WITH
    Listings <- c.pages, Pages <- c.pages, Surfaces <- c.surfaces,
    Sources <- c.pages \cup c.surfaces, SourceOf <- [p \in c.pages |-> p],
    HostOf <- c.hostOf, DisappearAfter <- c.disappearAfter,
    Scores <- c.scores, PageScore <- c.pageScore, MinScore <- c.minScore,
    ConfigHosts <- c.configHosts, Mangled <- c.mangled, MaxDomains <- c.maxDomains,
    MaxProducts <- c.maxProducts, MaxProbes <- c.maxProbes, MaxDynamic <- c.maxDynamic,
    seen <- seenRun

\* Two hosts; the second also has a sitemap.  Room for two of the three sources,
\* and a host the engine does not know again.
Growing ==
    [pages |-> {p1, p2}, surfaces |-> {s1}, hostOf |-> p1 :> h1 @@ p2 :> h2 @@ s1 :> h2,
     disappearAfter |-> 2, scores |-> {1, 2}, pageScore |-> 3, minScore |-> 2,
     configHosts |-> {h1}, mangled |-> {h2},
     maxDomains |-> 1, maxProducts |-> 2, maxProbes |-> 1, maxDynamic |-> 2]

\* Room for every source.
Roomy == [Growing EXCEPT !.configHosts = {}, !.mangled = {}, !.maxDomains = 2, !.maxDynamic = 3]

ASSUME PartsOK ==
    /\ h1 # h2
    /\ \A c \in {Cooldown, Scheduled, Cadence} : Scheduler(c)!SchedulerConstantsOK
    /\ \A c \in {Growing, Roomy} : Expansion(c)!ExpansionConstantsOK

-----------------------------------------------------------------------------
NoScheduler ==
    /\ counter = Unused /\ seen = Unused /\ every = Unused /\ until = Unused
    /\ class = Unused /\ registered = Unused /\ adapters = Unused /\ at = Unused
    /\ selected = Unused /\ outcome = Unused /\ began = Unused /\ lastPlan = Unused
    /\ crashes = Unused /\ failuresOf = Unused /\ streakOf = Unused

NoExpansion ==
    /\ listing = Unused /\ run = Unused /\ seenRun = Unused /\ stage = Unused
    /\ offered = Unused /\ store = Unused /\ dynamic = Unused /\ known = Unused
    /\ polled = Unused /\ found = Unused /\ products = Unused /\ recorded = Unused

PartInit ==
    /\ Init
    /\ \/ part \in {"breaker", "undropped"} /\ NoScheduler /\ NoExpansion
       \/ part = "cooldown" /\ Scheduler(Cooldown)!Init /\ NoExpansion
       \/ part = "scheduled" /\ Scheduler(Scheduled)!Init /\ NoExpansion
       \/ part = "cadence" /\ Scheduler(Cadence)!Init /\ NoExpansion
       \/ part = "growing" /\ Expansion(Growing)!Init /\ NoScheduler
       \/ part = "roomy" /\ Expansion(Roomy)!Init /\ NoScheduler

OnlyBreaker == UNCHANGED <<part, schedulerVars, expansionVars>>
OnlyScheduler == UNCHANGED <<part, vars, expansionVars>>
OnlyExpansion == UNCHANGED <<part, vars, schedulerVars>>

PartNext ==
    \/ part = "breaker" /\ Next /\ OnlyBreaker
    \/ part = "undropped" /\ Undropped!Next /\ OnlyBreaker
    \/ part = "cooldown" /\ Scheduler(Cooldown)!Next /\ OnlyScheduler
    \/ part = "scheduled" /\ Scheduler(Scheduled)!Next /\ OnlyScheduler
    \/ part = "cadence" /\ Scheduler(Cadence)!Next /\ OnlyScheduler
    \/ part = "growing" /\ Expansion(Growing)!Next /\ OnlyExpansion
    \/ part = "roomy" /\ Expansion(Roomy)!Next /\ OnlyExpansion

\* The fairness of CircuitBreaker and of SourceExpansion, of the parts whose
\* liveness is checked.
BreakerFairness ==
    /\ WF_vars(part = "undropped" /\ Tick)
    /\ \A c \in Callers :
          /\ WF_vars(part = "undropped" /\ Acquire(c))
          /\ WF_vars(part = "undropped" /\ (Success(c) \/ Failure(c) \/ Cancel(c)))

ExpansionFairness ==
    /\ WF_expansionVars(part = "roomy" /\ Expansion(Roomy)!Progress)
    /\ SF_expansionVars(part = "roomy" /\ Expansion(Roomy)!Reach)
    /\ <>[][part = "roomy" => ~Expansion(Roomy)!Crash]_expansionVars

PartSpec == PartInit /\ [][PartNext]_all /\ BreakerFairness /\ ExpansionFairness

-----------------------------------------------------------------------------
(* Properties, next to those of CircuitBreaker *)

\* Schedulers and expansions are of their types: cooldowns and counters stay
\* within their bounds, and the engine scans no more sources than it may.
PartsTyped ==
    /\ part = "cooldown" => Scheduler(Cooldown)!TypeOK
    /\ part = "scheduled" => Scheduler(Scheduled)!TypeOK
    /\ part = "cadence" => Scheduler(Cadence)!TypeOK
    /\ part = "growing" => Expansion(Growing)!TypeOK
    /\ part = "roomy" => Expansion(Roomy)!TypeOK

\* A circuit never stays shut: calls are admitted again and again, whatever
\* the calls before them did (acquire, cancel).
ReachableAgain == part = "undropped" => Undropped!StaysReachable

\* No source is given up: it is planned again before the longest cooldown of
\* its failure class and one period of its cadence have passed
\* (_scheduler_plan).
NeverGivenUp ==
    /\ part = "cooldown" => Scheduler(Cooldown)!NeverGivenUp
    /\ part = "cadence" => Scheduler(Cadence)!NeverGivenUp

\* As long as no process dies, the failures recorded of a source are those of
\* its scans since its last success (record_cycle).
CountsFailures == part = "scheduled" => Scheduler(Scheduled)!CountsFailures

\* Between cycles the engine has the adapter of every source it registered,
\* also after a cycle that raised (run_once).
NoSourceLost == part = "scheduled" => Scheduler(Scheduled)!NoSourceLost

\* Whatever step a run ends after, a listing the expansion recorded has its
\* source in the store (_expand_announcements).
ListingsHaveSources == part = "growing" => Expansion(Growing)!ListingsHaveSources

\* The sources the engine scans would be loaded again after a restart, if
\* better ones do not take their place (_activate_new_candidates, active).
ScannedAreStored == part = "growing" => Expansion(Growing)!ScannedAreStored

\* Hosts of configured sources are not probed for further surfaces (expand,
\* known_hosts).
ConfiguredNotProbed == part = "growing" => Expansion(Growing)!ConfiguredNotProbed

\* A page that stays linked and keeps describing its product is scanned, when
\* there is room for every source (expand, _activate_new_candidates).
BecomesSource ==
    \A p \in Roomy.pages : \/ []<>(part = "roomy" => p \notin offered)
                           \/ <>(part = "roomy" /\ p \in dynamic)

\* No source is lost, to its failures, to a cycle that raised or to a run that
\* ended between two writes.
SourcesKept ==
    /\ TypeOK /\ PartsTyped
    /\ NeverGivenUp /\ CountsFailures /\ NoSourceLost
    /\ ListingsHaveSources /\ ScannedAreStored /\ ConfiguredNotProbed

\* No step undoes what was seen: nothing but a recorded failure makes a source
\* wait longer than before, not a restart, a raised cycle or the scan of another
\* source; and no run records a listing as gone that it saw (finish_refresh).
NothingUndone ==
    [][/\ part = "cooldown" => Scheduler(Cooldown)!RestartKeepsCooldown
       /\ part = "growing" => Expansion(Growing)!NotGoneWhenSeen]_<<schedulerVars, expansionVars>>

\* Sources are reached at last: through a circuit that opened, and when their
\* page was only announced.
ReachedAtLast == ReachableAgain /\ BecomesSource
=============================================================================
