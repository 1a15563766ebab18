------------------------------ MODULE MarketMC ------------------------------
(***************************************************************************)
(* What a refresh believes of the market: the conditional cache of pages,  *)
(* the refresh of the market data with its alerts, and the decision on a   *)
(* product.  They share no state in these models, so a behaviour is about  *)
(* one of them, the part it picks at the start among Parts; the variables  *)
(* of the others stay at their first values (ConditionalCache) or unused.  *)
(***************************************************************************)
EXTENDS ConditionalCache, TLC

CONSTANTS Parts, feed, product, u1, u2, l1, l2, s, t, daily, Unused

VARIABLES
    part,
    offers, rate, moves, pc, run, now, budget, history, state, events, failures, fx, since,
    emitted, outputs, world, asked,                                   \* MarketRefresh
    decisionNow, decisionRate, experimental, rows, marks, latest, stage, report \* Decision

marketVars == <<offers, rate, moves, pc, run, now, budget, history, state, events,
                 failures, fx, since, emitted, outputs, world, asked>>
decisionVars == <<decisionNow, decisionRate, experimental, rows, marks, latest, stage,
                   report>>
all == <<part, vars, marketVars, decisionVars>>

OneUrlEach == [p \in Polls |-> IF p = feed THEN u1 ELSE u2]

-----------------------------------------------------------------------------
(* The parts.  None forgets a fingerprint. *)

Both == {l1, l2}
One == {l1}
TwoShops == l1 :> s @@ l2 :> t
OneShop == [l \in Both |-> s]
OneQuery == [l \in Both |-> 1]
TwoQueries == l1 :> 1 @@ l2 :> 2
Watched == l1 :> 2 @@ l2 :> 0
Low == [l \in One |-> 1]
ShopOfOne == [l \in One |-> s]
QueryOfOne == [l \in One |-> 1]
High == [l \in One |-> 2]
Fresh36 == l1 :> 36 @@ l2 :> 96

\* The refreshes of a configuration c.
Refresh(c) == INSTANCE MarketRefresh WITH
    Listings <- c.listings, Sources <- c.sources, Source <- c.source, Query <- c.query,
    Queries <- c.queries, PerRun <- c.perRun, Daily <- c.daily, Attempts <- c.attempts,
    Prices <- c.prices, Rates <- c.rates, DropPct <- c.dropPct, LandedPct <- c.landedPct,
    Ceiling <- c.ceiling, MaxFingerprints <- c.maxFingerprints, MaxRuns <- c.maxRuns,
    MaxMoves <- c.maxMoves, MayStop <- c.mayStop

\* Two sources with a listing each, whose runs may end early.
Stopping ==
    [listings |-> Both, sources |-> {s, t}, source |-> TwoShops, query |-> OneQuery,
     queries |-> 1, perRun |-> 1, daily |-> 2, attempts |-> 1, prices |-> {1}, rates |-> {1},
     dropPct |-> 50, landedPct |-> 50, ceiling |-> Watched, maxFingerprints |-> 20,
     maxRuns |-> 3, maxMoves |-> 1, mayStop |-> TRUE]

\* A source with two queries and requests for three in a day, each made up to
\* twice; runs may end early.
Queried ==
    [Stopping EXCEPT !.sources = {s}, !.source = OneShop, !.query = TwoQueries, !.queries = 2,
                     !.perRun = 2, !.daily = 3, !.attempts = 2, !.maxMoves = 2]

\* One listing at changing prices, with a watch; every run ends regularly.
Priced ==
    [listings |-> One, sources |-> {s}, source |-> ShopOfOne, query |-> QueryOfOne,
     queries |-> 1, perRun |-> 1, daily |-> 9, attempts |-> 1, prices |-> {1, 2},
     rates |-> {1}, dropPct |-> 50, landedPct |-> 50, ceiling |-> Low, maxFingerprints |-> 20,
     maxRuns |-> 4, maxMoves |-> 4, mayStop |-> FALSE]

\* The same at changing exchange rates.
Rated == [Priced EXCEPT !.rates = {1, 2}, !.ceiling = High, !.maxMoves = 3]

\* The recommendation of a product of a configuration c.
Recommend(c) == INSTANCE Decision WITH
    Listings <- c.listings, Scopes <- c.scopes, ScopeOrder <- c.order, Foreign <- c.foreign,
    Prices <- c.prices, Rates <- c.rates, Ttl <- c.ttl, Fit <- c.fit,
    Confidence <- c.confidence, Research <- c.research, TcoPercentiles <- c.percentiles,
    MaxPolls <- c.maxPolls, now <- decisionNow, rate <- decisionRate

\* A product with two listings in two currencies, found in one scope.
Decided ==
    [listings |-> Both, scopes |-> {daily}, order |-> <<daily>>, foreign |-> {l2},
     prices |-> {1, 2}, rates |-> {1, 2}, ttl |-> Fresh36, fit |-> 100, confidence |-> 90,
     research |-> {FALSE}, percentiles |-> {10, 100}, maxPolls |-> 3]

\* The same of a research platform.
Researched ==
    [Decided EXCEPT !.research = {TRUE}, !.percentiles = {10, 50, 100}, !.maxPolls = 2]

ASSUME PartsOK ==
    /\ \A c \in {Stopping, Queried, Priced, Rated} : Refresh(c)!MarketConstantsOK
    /\ \A c \in {Decided, Researched} : Recommend(c)!DecisionConstantsOK

-----------------------------------------------------------------------------
NoMarket ==
    /\ offers = Unused /\ rate = Unused /\ moves = Unused /\ pc = Unused /\ run = Unused
    /\ now = Unused /\ budget = Unused /\ history = Unused /\ state = Unused
    /\ events = Unused /\ failures = Unused /\ fx = Unused /\ since = Unused
    /\ emitted = Unused /\ outputs = Unused /\ world = Unused /\ asked = Unused
NoDecision ==
    /\ decisionNow = Unused /\ decisionRate = Unused /\ experimental = Unused
    /\ rows = Unused /\ marks = Unused /\ latest = Unused /\ stage = Unused
    /\ report = Unused

PartInit ==
    /\ part \in Parts
    /\ Init /\ (part # "cache" => page = [u \in Urls |-> 1])
    /\ CASE part = "stopping" -> Refresh(Stopping)!Init
         [] part = "queried" -> Refresh(Queried)!Init
         [] part = "priced" -> Refresh(Priced)!Init
         [] part = "rated" -> Refresh(Rated)!Init
         [] OTHER -> NoMarket
    /\ CASE part = "decided" -> Recommend(Decided)!Init
         [] part = "researched" -> Recommend(Researched)!Init
         [] OTHER -> NoDecision

OnlyMarket == UNCHANGED <<part, vars, decisionVars>>
OnlyDecision == UNCHANGED <<part, vars, marketVars>>
OnlyCache == UNCHANGED <<part, marketVars, decisionVars>>

PartNext ==
    \/ part = "cache" /\ Next /\ OnlyCache
    \/ part = "stopping" /\ Refresh(Stopping)!Next /\ OnlyMarket
    \/ part = "queried" /\ Refresh(Queried)!Next /\ OnlyMarket
    \/ part = "priced" /\ Refresh(Priced)!Next /\ OnlyMarket
    \/ part = "rated" /\ Refresh(Rated)!Next /\ OnlyMarket
    \/ part = "decided" /\ Recommend(Decided)!Next /\ OnlyDecision
    \/ part = "researched" /\ Recommend(Researched)!Next /\ OnlyDecision

PartSpec == PartInit /\ [][PartNext]_all

-----------------------------------------------------------------------------
(* Properties, next to those of ConditionalCache *)

\* Market refreshes and decisions are of their types: among others, no more
\* is reserved of a budget than it has, and a score stays within 0 .. 100.
PartsTyped ==
    /\ part = "stopping" => Refresh(Stopping)!TypeOK
    /\ part = "queried" => Refresh(Queried)!TypeOK
    /\ part = "priced" => Refresh(Priced)!TypeOK
    /\ part = "rated" => Refresh(Rated)!TypeOK
    /\ part = "decided" => Recommend(Decided)!TypeOK
    /\ part = "researched" => Recommend(Researched)!TypeOK

\* A listing is recorded as disappeared only at a time it was not on offer:
\* neither a source that failed, nor one skipped for its budget, nor a run
\* that ended early makes it disappear (update_listing_presence).
NoFalseDisappearance == part = "stopping" => Refresh(Stopping)!NoFalseDisappearance

\* specs/MARKET_INTELLIGENCE.md says the rule "prevents an API outage or a
\* narrower/different search from generating false sold-out/disappeared
\* events": so for a source whose budget ends between its queries.
NarrowerIsNoDisappearance == part = "queried" => Refresh(Queried)!NoFalseDisappearance

\* Once a run has written its state, every listing that appeared or returned
\* by then has been in the alerts, whatever runs ended early before
\* (_lifecycle_alerts).
LifecycleReported == part = "stopping" => Refresh(Stopping)!LifecycleReported

\* A source is asked no more often in a day than its budget has requests, each
\* counted with the repetitions with_retry makes without charging them
\* (reserve_source_budget): twice the budget where a request has two attempts.
RequestsWithinBudget ==
    /\ part = "stopping" => Refresh(Stopping)!RequestsWithinBudget
    /\ part = "queried" => Refresh(Queried)!RequestsWithinBudget

\* At one exchange rate, what happened once is in one generation of alerts
\* only (generate_change_intelligence).
EmittedOnce == part = "priced" => Refresh(Priced)!EmittedOnce

\* At any rate, so is a price drop.
DropsOnce == part = "rated" => Refresh(Rated)!DropsOnce

\* A drop between two observations of a listing has been in the alerts once a
\* later run has ended (_price_alerts).
DropsReported == part = "priced" => Refresh(Priced)!DropsReported

\* Two deal alerts of a listing have an observation above its ceiling between
\* them (_deal_threshold_alerts).
DealPerCrossing == part = "priced" => Refresh(Priced)!DealPerCrossing

\* Before the cost of the node counts, a product is a Buy only for an offer
\* that is at its price still, as far as its source was asked, and fresh
\* (build_decision_support).
BuyIsLive == part = "decided" => Recommend(Decided)!BuyIsLive

\* A Buy with its cost has a price, and a research platform is never one
\* (apply_tco_to_summary).
BuyIsPriced ==
    /\ part = "decided" => Recommend(Decided)!BuyIsPriced
    /\ part = "researched" => Recommend(Researched)!BuyIsPriced

\* The rate of exchange makes no record: a record is below what its own
\* sellers' prices were before.
RecordIsSellers == part = "decided" => Recommend(Decided)!RecordIsSellers

\* The offer is of a listing the last poll that reached it found, at the price
\* it found, when the listings are in one scope.
CurrentIsOffered == part = "decided" => Recommend(Decided)!CurrentIsOffered

\* Caches and scores stay within their bounds, and what is asked of a source
\* within its budget and the repetitions.
MarketBounded == TypeOK /\ PartsTyped /\ CacheBounded /\ RequestsWithinBudget

\* What happens to a listing is recorded when it does and reported once.
ListingsReported ==
    /\ NoFalseDisappearance /\ LifecycleReported
    /\ EmittedOnce /\ DropsOnce /\ DropsReported /\ DealPerCrossing

\* A recommendation stands on what is on offer.
DecidedOnOffers == BuyIsLive /\ BuyIsPriced /\ RecordIsSellers /\ CurrentIsOffered
=============================================================================
