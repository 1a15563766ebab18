---------------------------- MODULE MarketRefresh ----------------------------
(***************************************************************************)
(* A refresh of the market data (ops.py, run_profile) with the files it    *)
(* writes one after another: source budgets, price history, listing state, *)
(* source health, exchange rates (market.py), and the alerts with the      *)
(* state that keeps them from being given twice (intelligence.py).  A run  *)
(* may end between any two files, by an exception (the Bank of Canada does *)
(* not answer) or a restart; the next one starts from the files.           *)
(*                                                                         *)
(* One profile and one currency: its rate to CAD is an integer.  Shipping  *)
(* and taxes are factors of the price and left out.  A poll takes no time  *)
(* and stands for one instant; listing l answers query Query[l].           *)
(***************************************************************************)
EXTENDS Integers, Sequences, FiniteSets

CONSTANTS
    Listings, Sources,
    Source,             \* [Listings -> Sources]
    Query, Queries,     \* [Listings -> 1 .. Queries]: the first query that finds it
    PerRun, Daily,      \* max_queries_per_run, daily_request_budget of each source
    Attempts,           \* attempts of with_retry
    Prices, Rates,
    DropPct, LandedPct, \* price_drop_pct, landed_cost_change_pct
    Ceiling,            \* max_landed_cad of the watch a listing matches, 0: no such watch
    MaxFingerprints,
    MaxRuns, MaxMoves,  \* bounds: runs and generations; changes of the market
    MayStop             \* may a run end early?

MarketConstantsOK ==
    /\ IsFiniteSet(Listings) /\ Ceiling \in [Listings -> Nat]
    /\ Source \in [Listings -> Sources] /\ Query \in [Listings -> 1 .. Queries]
    /\ {Queries, PerRun, Daily, Attempts, MaxFingerprints, MaxRuns, MaxMoves,
        DropPct, LandedPct} \subseteq Nat
    /\ Prices \subseteq Nat \ {0} /\ Rates \subseteq Nat \ {0} /\ MayStop \in BOOLEAN

VARIABLES
    offers, rate, moves,    \* the market: price of a listing (0: not on offer), exchange rate
    pc, run,                \* the run: its next file, what it holds in memory
    now,                    \* time: runs and generations begun
    budget,                 \* source-budgets.json: requests estimated today
    history,                \* price-history.json
    state, events,          \* listing-state.json
    failures,               \* source-health.json: consecutive failures
    fx,                     \* fx-cad.json
    since, emitted,         \* intelligence-state.json
    outputs,                \* the contents daily-changes.json had
    world, asked            \* observed: what was on offer at each time; requests sent today

market == <<offers, rate, moves>>
alertFiles == <<since, emitted, outputs>>
vars == <<market, pc, run, now, budget, history, state, events, failures, fx, alertFiles, world, asked>>

Alerts == [type : {"price_drop", "landed_cost_change", "deal_threshold", "new_product", "stock_return"},
           listing : Listings, at : 0 .. MaxRuns, old : Nat, new : Nat, landed : Nat]

TypeOK ==
    /\ offers \in [Listings -> Prices \cup {0}] /\ rate \in Rates /\ moves \in 0 .. MaxMoves
    /\ pc \in {"idle", "poll", "prices", "presence", "health", "fx", "output", "state"}
    /\ run.allowed \in [Sources -> 0 .. Queries] /\ run.ok \subseteq Sources
    /\ run.found \subseteq Listings /\ run.fresh \subseteq Alerts
    /\ now \in 0 .. MaxRuns /\ budget \in [Sources -> 0 .. Daily]
    /\ history \in [Listings -> Seq([price : Prices, at : 0 .. MaxRuns])]
    /\ state \in [Listings -> {"none", "active", "gone"}]
    /\ events \subseteq [event : {"discovered", "reappeared", "disappeared"}, listing : Listings, at : 1 .. MaxRuns]
    /\ failures \in [Sources -> 0 .. MaxRuns] /\ fx \in Rates
    /\ since \in 0 .. MaxRuns /\ emitted \subseteq Alerts /\ outputs \in Seq(SUBSET Alerts)

NoRun == [allowed |-> [s \in Sources |-> 0], ok |-> {}, found |-> {}, fresh |-> {}]

Init ==
    /\ offers \in [Listings -> Prices \cup {0}] /\ rate \in Rates /\ moves = 0
    /\ pc = "idle" /\ run = NoRun /\ now = 0
    /\ budget = [s \in Sources |-> 0] /\ history = [l \in Listings |-> <<>>]
    /\ state = [l \in Listings |-> "none"] /\ events = {}
    /\ failures = [s \in Sources |-> 0] /\ fx = rate
    /\ since = 0 /\ emitted = {} /\ outputs = <<>> /\ world = <<>>
    /\ asked = [s \in Sources |-> 0]

-----------------------------------------------------------------------------
(* The market, between runs *)

Move ==
    /\ pc = "idle" /\ moves < MaxMoves /\ moves' = moves + 1
    /\ \/ \E l \in Listings : \E p \in (Prices \cup {0}) \ {offers[l]} :
            offers' = [offers EXCEPT ![l] = p] /\ UNCHANGED rate
       \/ \E r \in Rates \ {rate} : rate' = r /\ UNCHANGED offers
    /\ UNCHANGED <<pc, run, now, budget, history, state, events, failures, fx, alertFiles, world, asked>>

-----------------------------------------------------------------------------
(* The run *)

Then(here, there) == pc = here /\ pc' = there

Least(S) == CHOOSE n \in S : \A m \in S : n <= m

\* reserve_source_budget
Allowed(used) == [s \in Sources |-> Least({Queries, PerRun, IF Daily > used[s] THEN Daily - used[s] ELSE 0})]

\* adapters_for_profile: the budget is reserved before the poll; a new UTC date resets it.
Start ==
    /\ Then("idle", "poll") /\ now < MaxRuns /\ now' = now + 1
    /\ world' = Append(world, {l \in Listings : offers[l] # 0})
    /\ \E midnight \in BOOLEAN :
         LET used == IF midnight THEN [s \in Sources |-> 0] ELSE budget IN
         /\ run' = [NoRun EXCEPT !.allowed = Allowed(used)]
         /\ budget' = [s \in Sources |-> used[s] + Allowed(used)[s]]
         /\ asked' = IF midnight THEN [s \in Sources |-> 0] ELSE asked
    /\ UNCHANGED <<market, history, state, events, failures, fx, alertFiles>>

\* discover_with_status with RetryingAdapter: enabled sources answer
\* the queries their budget allows, or fail after their attempts.
Polled == {s \in Sources : run.allowed[s] > 0}

\* with_retry repeats the poll of a source as a whole.
Tries == [Sources -> 1 .. Attempts]

Poll ==
    /\ Then("poll", "prices")
    /\ \E ok \in SUBSET Polled, tries \in Tries :
         /\ run' = [run EXCEPT !.ok = ok,
                !.found = {l \in Listings : /\ offers[l] # 0 /\ Source[l] \in ok
                                            /\ Query[l] <= run.allowed[Source[l]]}]
         /\ asked' = [s \in Sources |-> asked[s] + run.allowed[s] * tries[s]]
    /\ UNCHANGED <<market, now, budget, history, state, events, failures, fx, alertFiles, world>>

\* append_price_observations
AppendPrices ==
    /\ Then("prices", "presence")
    /\ history' = [l \in Listings |-> IF l \in run.found
            THEN Append(history[l], [price |-> offers[l], at |-> now]) ELSE history[l]]
    /\ UNCHANGED <<market, run, now, budget, state, events, failures, fx, alertFiles, world, asked>>

\* Faulty: those of any source.
MissingAnywhere == {l \in Listings : state[l] = "active" /\ l \notin run.found}

\* update_listing_presence: only listings of sources that answered can disappear.
Missing == {l \in Listings : Source[l] \in run.ok /\ state[l] = "active" /\ l \notin run.found}

Happened(kind, those) == {[event |-> kind, listing |-> l, at |-> now] : l \in those}

UpdatePresence ==
    /\ Then("presence", "health")
    /\ state' = [l \in Listings |-> CASE l \in run.found -> "active"
                                      [] l \in Missing -> "gone"
                                      [] OTHER -> state[l]]
    /\ events' = events \cup Happened("discovered", {l \in run.found : state[l] = "none"})
                        \cup Happened("reappeared", {l \in run.found : state[l] = "gone"})
                        \cup Happened("disappeared", Missing)
    /\ UNCHANGED <<market, run, now, budget, history, failures, fx, alertFiles, world, asked>>

\* record_source_health
RecordHealth ==
    /\ Then("health", "fx")
    /\ failures' = [s \in Sources |-> IF s \notin Polled THEN failures[s]
                                      ELSE IF s \in run.ok THEN 0 ELSE failures[s] + 1]
    /\ UNCHANGED <<market, run, now, budget, history, state, events, fx, alertFiles, world, asked>>

\* refresh_bank_of_canada_fx
RefreshFx ==
    /\ Then("fx", "output") /\ fx' = rate
    /\ UNCHANGED <<market, run, now, budget, history, state, events, failures, alertFiles, world, asked>>

-----------------------------------------------------------------------------
(* Change intelligence *)

Alert(type, l, at, old, new, landed) ==
    [type |-> type, listing |-> l, at |-> at, old |-> old, new |-> new, landed |-> landed]

Newest(l) == history[l][Len(history[l])]
Before(l) == history[l][Len(history[l]) - 1]
Landed(row) == row.price * fx
Fell(old, new, pct) == 100 * (old - new) >= pct * old
Grew(old, new, pct) == 100 * (new - old) >= pct * old

\* Faulty: a listing's first observation against its newest.
PriceAlertsSinceFirst ==
    {Alert("price_drop", l, Newest(l).at, history[l][1].price, Newest(l).price, 0) :
        l \in {k \in Listings : Len(history[k]) > 1 /\ Fell(history[k][1].price, Newest(k).price, DropPct)}}

\* _price_alerts: the last two observations of a listing.
PriceAlerts ==
    {Alert("price_drop", l, Newest(l).at, Before(l).price, Newest(l).price, 0) :
        l \in {k \in Listings : Len(history[k]) > 1 /\ Fell(Before(k).price, Newest(k).price, DropPct)}}
    \cup {Alert("landed_cost_change", l, Newest(l).at, 0, 0, Landed(Newest(l))) :
        l \in {k \in Listings : /\ Len(history[k]) > 1
                                /\ \/ Fell(Landed(Before(k)), Landed(Newest(k)), LandedPct)
                                   \/ Grew(Landed(Before(k)), Landed(Newest(k)), LandedPct)}}

\* _deal_threshold_alerts: at or below the ceiling at first sight, or after an observation above it.
Deals ==
    {Alert("deal_threshold", l, Newest(l).at, 0, 0, Landed(Newest(l))) :
        l \in {k \in Listings : /\ Len(history[k]) > 0 /\ Landed(Newest(k)) <= Ceiling[k]
                                /\ Len(history[k]) > 1 => Landed(Before(k)) > Ceiling[k]}}

\* Faulty: the events of this run only.
LifecycleOfRun ==
    {Alert(IF e.event = "reappeared" THEN "stock_return" ELSE "new_product", e.listing, e.at, 0, 0, 0) :
        e \in {x \in events : x.at = now /\ x.event # "disappeared"}}

\* _lifecycle_alerts: the events after the last generation.
Lifecycle ==
    {Alert(IF e.event = "reappeared" THEN "stock_return" ELSE "new_product", e.listing, e.at, 0, 0, 0) :
        e \in {x \in events : x.at > since /\ x.event # "disappeared"}}

\* generate_change_intelligence writes the alerts not emitted before, then what it emitted.
Fresh == (PriceAlerts \cup Deals \cup Lifecycle) \ emitted

WriteOutput ==
    /\ Then("output", "state")
    /\ outputs' = Append(outputs, Fresh) /\ run' = [run EXCEPT !.fresh = Fresh]
    /\ UNCHANGED <<market, now, budget, history, state, events, failures, fx, since, emitted, world, asked>>

\* list(prior_fingerprints)[-5000:] of a set: which ones stay is anyone's guess.
Kept(prints) == {kept \in SUBSET prints : Cardinality(kept) = Least({MaxFingerprints, Cardinality(prints)})}

WriteState ==
    /\ Then("state", "idle")
    /\ since' = now /\ emitted' \in Kept(emitted \cup run.fresh) /\ run' = NoRun
    /\ UNCHANGED <<market, now, budget, history, state, events, failures, fx, outputs, world, asked>>

\* llm-cluster-refresh alerts: a generation of its own.
AlertsCommand ==
    /\ Then("idle", "output") /\ now < MaxRuns /\ now' = now + 1
    /\ world' = Append(world, {l \in Listings : offers[l] # 0})
    /\ UNCHANGED <<market, run, budget, history, state, events, failures, fx, alertFiles, asked>>

\* An exception or a restart: the files stay.
Stop ==
    /\ MayStop /\ pc # "idle"
    /\ pc' = "idle" /\ run' = NoRun
    /\ UNCHANGED <<market, now, budget, history, state, events, failures, fx, alertFiles, world, asked>>

Next == \/ Move \/ Start \/ Poll \/ AppendPrices \/ UpdatePresence \/ RecordHealth \/ RefreshFx
        \/ WriteOutput \/ WriteState \/ AlertsCommand \/ Stop

Spec == Init /\ [][Next]_vars

-----------------------------------------------------------------------------
(* Properties *)

\* A listing is recorded as disappeared only at a time it was not on offer: neither a source
\* that failed nor one skipped for its budget makes it disappear.
NoFalseDisappearance ==
    \A e \in events : e.event = "disappeared" => e.listing \notin world[e.at]

\* Once a run has ended and written its state, every listing that appeared or returned by
\* then has been in the alerts, whatever runs ended early before.
LifecycleReported ==
    \A e \in events : e.event # "disappeared" /\ e.at <= since =>
        \E i \in DOMAIN outputs : \E a \in outputs[i] :
            a.listing = e.listing /\ a.at = e.at /\ a.type \in {"new_product", "stock_return"}

SameOccurrence(a, b) == a.type = b.type /\ a.listing = b.listing /\ a.at = b.at

\* What happened once is in one generation of alerts only.
EmittedOnce ==
    \A i, j \in DOMAIN outputs : i < j =>
        \A a \in outputs[i], b \in outputs[j] : ~SameOccurrence(a, b)

\* The same of price drops only, whose fingerprint has no converted amount in it.
DropsOnce ==
    \A i, j \in DOMAIN outputs : i < j =>
        \A a \in outputs[i], b \in outputs[j] : a.type = "price_drop" => ~SameOccurrence(a, b)

\* A drop between two consecutive observations of a listing has been in the alerts, once
\* a run that ended regularly has passed the later one.
DropsReported ==
    \A l \in Listings : \A i \in 1 .. Len(history[l]) - 1 :
        LET old == history[l][i] IN LET new == history[l][i + 1] IN
        Fell(old.price, new.price, DropPct) /\ new.at <= since =>
            \E k \in DOMAIN outputs : \E a \in outputs[k] :
                a.type = "price_drop" /\ a.listing = l /\ a.at = new.at

\* Two deal alerts of one listing have an observation above its ceiling between them.
DealPerCrossing ==
    \A i, j \in DOMAIN outputs : i < j =>
        \A a \in outputs[i], b \in outputs[j] :
            a.type = "deal_threshold" /\ b.type = a.type /\ a.listing = b.listing =>
                \E k \in DOMAIN history[a.listing] :
                    LET row == history[a.listing][k] IN
                    a.at < row.at /\ row.at < b.at /\ Landed(row) > Ceiling[a.listing]

\* A source is asked no more often in a day than its budget allows, each request counted
\* as often as it may be repeated: only with one attempt each is that the budget itself.
RequestsWithinBudget == \A s \in Sources : asked[s] <= Attempts * Daily

=============================================================================
