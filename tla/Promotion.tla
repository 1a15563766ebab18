------------------------------ MODULE Promotion -----------------------------
(***************************************************************************)
(* Canonical promotion: what the service does with the records of a cycle  *)
(* after it published them (promotion_refresh.py), and what the dashboard  *)
(* makes of the files it finds.                                            *)
(*                                                                         *)
(* A run of the scanner observes listings one batch at a time, completes,  *)
(* and publishes its output; promotion then enriches the held records,     *)
(* writes the catalog, the report and the health file, one after another,  *)
(* and the process may die or fail anywhere in between.  A reader - the    *)
(* dashboard - projects the active listings through catalog and report     *)
(* (promotion_state.py) at any moment.                                     *)
(***************************************************************************)
EXTENDS Integers, FiniteSets

CONSTANTS
    Listings, Parts, None,
    SourceOf, PartOf,       \* source of a listing; manufacturer and part number of its product
    Official, Trusted,      \* sources known to be the maker's; those of enough confidence
    Observations,           \* what a scan may see of a listing
    MaxRefetch,
    MaxRuns, MaxCrashes     \* bounds of the exploration

Sources == {SourceOf[l] : l \in Listings}
Ids == Parts \cup Listings      \* _id hashes the part, or the URL when there is none

PromotionConstantsOK ==
    /\ IsFiniteSet(Listings) /\ SourceOf \in [Listings -> Sources] /\ PartOf \in [Listings -> Parts]
    /\ Official \subseteq Sources /\ Trusted \subseteq Sources
    /\ Observations \subseteq [maker : BOOLEAN, fallback : BOOLEAN, part : BOOLEAN,
                               stock : BOOLEAN, official : {FALSE}]
    /\ None \notin Listings /\ Parts \cap Listings = {}
    /\ MaxRefetch \in Nat /\ MaxRuns \in Nat /\ MaxCrashes \in Nat

VARIABLES
    active,     \* listing_state: the last observation of each listing and its run (0: none)
    runs, done, \* refresh_runs: the latest run, and whether it has a completion time
    output,     \* the published output: its run and its listings
    catalog,    \* auto-promoted.json: the listing each part was promoted from
    report,     \* promotion-latest.json: its run, and the decision of each listing in it
    health,     \* promotion-health.json: its status and the run it completed for
    at,         \* the engine: what it did last in this cycle
    selected, seen,     \* sources of the cycle, listings observed in it
    records,    \* the records promotion works on
    attempted,  \* pages the enrichment fetched
    crashes,
    settled     \* observed: the last decision any report held of each listing

files == <<output, catalog, report, health>>
vars == <<active, runs, done, files, at, selected, seen, records, attempted, crashes, settled>>

Evidence == [maker : BOOLEAN, fallback : BOOLEAN, part : BOOLEAN, stock : BOOLEAN,
             official : BOOLEAN]
Decisions == {"held", "canonical"}

TypeOK ==
    /\ \A l \in Listings : active[l].run \in 0 .. runs /\ active[l].evidence \in Evidence
    /\ runs \in 0 .. MaxRuns /\ done \in BOOLEAN
    /\ output.run \in 0 .. runs /\ output.listings \subseteq Listings
    /\ catalog \in [Ids -> Listings \cup {None}]
    /\ report.run \in 0 .. runs /\ report.decision \in [DOMAIN report.decision -> Decisions]
    /\ health.status \in {"none", "ok", "degraded"} /\ health.run \in 0 .. runs
    /\ at \in {"idle", "running", "completed", "published", "enriched", "cataloged", "reported"}
    /\ seen \subseteq {l \in Listings : SourceOf[l] \in selected}
    /\ DOMAIN records \subseteq Listings /\ \A l \in DOMAIN records : records[l] \in Evidence
    /\ attempted \in 0 .. MaxRefetch
    /\ settled \in [Listings -> Decisions \cup {"none"}]

Unseen == [run |-> 0, evidence |-> [maker |-> FALSE, fallback |-> FALSE, part |-> FALSE,
                                    stock |-> FALSE, official |-> FALSE]]

Init ==
    /\ active = [l \in Listings |-> Unseen]
    /\ runs = 0 /\ done = TRUE
    /\ output = [run |-> 0, listings |-> {}]
    /\ catalog = [i \in Ids |-> None]
    /\ report = [run |-> 0, decision |-> <<>>]
    /\ health = [status |-> "none", run |-> 0]
    /\ at = "idle" /\ selected = {} /\ seen = {} /\ records = <<>> /\ attempted = 0
    /\ crashes = 0 /\ settled = [l \in Listings |-> "none"]

-----------------------------------------------------------------------------
(* The gates, and what enrichment adds *)

Id(l, e) == IF e.maker /\ e.part THEN PartOf[l] ELSE l

\* evaluate: why a record is held; {} when it may be promoted
Reasons(l, e) ==
    {r \in {"missing_manufacturer", "metadata_fallback_unverified",
            "source_confidence_below_threshold", "identity_confidence_below_threshold",
            "out_of_stock"} :
       CASE r = "missing_manufacturer" -> ~e.maker
         [] r = "metadata_fallback_unverified" -> e.fallback
         [] r = "source_confidence_below_threshold" -> SourceOf[l] \notin Trusted
         [] r = "identity_confidence_below_threshold" -> ~e.part /\ ~e.official
         [] OTHER -> ~e.stock}

\* official_product_url: product pages of a maker's own site
HasOfficialPage(l) == SourceOf[l] \in Official

\* enrich_identity: an official source names the maker, and its product URL
\* stands for an identity.
WithIdentity(l, e) ==
    IF HasOfficialPage(l) THEN [e EXCEPT !.maker = TRUE, !.official = TRUE] ELSE e

\* _merge_normalized with the page's structured product, which names maker
\* and part; what it does not name (the stock) stays.
Merged(l, e) == WithIdentity(l, [e EXCEPT !.maker = TRUE, !.part = TRUE, !.fallback = FALSE])

\* the held records whose official page could supply what is missing
Candidates(rs) ==
    {l \in DOMAIN rs :
       /\ HasOfficialPage(l)
       /\ rs[l].fallback \/ Reasons(l, rs[l]) \cap {"identity_confidence_below_threshold",
                                                    "missing_manufacturer"} # {}}

-----------------------------------------------------------------------------
(* The scan *)

Start ==
    /\ at = "idle" /\ runs < MaxRuns
    /\ runs' = runs + 1 /\ done' = FALSE
    /\ selected' \in SUBSET Sources /\ seen' = {}
    /\ at' = "running"
    /\ UNCHANGED <<active, files, records, attempted, crashes, settled>>

Observe(l) ==
    /\ at = "running" /\ SourceOf[l] \in selected /\ l \notin seen
    /\ \E e \in Observations : active' = [active EXCEPT ![l] = [run |-> runs, evidence |-> e]]
    /\ seen' = seen \cup {l}
    /\ UNCHANGED <<runs, done, files, at, selected, records, attempted, crashes, settled>>

\* finish_refresh, or abort_refresh when the scan raised: both date the run.
Complete ==
    /\ at = "running" /\ done' = TRUE
    /\ at' \in {"completed", "idle"}
    /\ UNCHANGED <<active, runs, files, selected, seen, records, attempted, crashes, settled>>

Publish ==
    /\ at = "completed" /\ at' = "published"
    /\ output' = [run |-> runs, listings |-> seen]
    /\ UNCHANGED <<active, runs, done, catalog, report, health, selected, seen, records,
                   attempted, crashes, settled>>

-----------------------------------------------------------------------------
(* Promotion *)

\* records_from_output and enrich_held_records: at most MaxRefetch pages are
\* fetched, the first ones of the output's order; a page gives a product,
\* gives none, or fails.
Enrich ==
    /\ at = "published" /\ at' = "enriched"
    /\ LET base == [l \in output.listings |-> WithIdentity(l, active[l].evidence)] IN
       \E fetched \in SUBSET Candidates(base) :
         /\ Cardinality(fetched) <= MaxRefetch
         /\ Cardinality(fetched) = MaxRefetch \/ fetched = Candidates(base)
         /\ attempted' = Cardinality(fetched)
         /\ \E found \in SUBSET fetched :
              records' = [l \in DOMAIN base |-> IF l \in found THEN Merged(l, base[l]) ELSE base[l]]
    /\ UNCHANGED <<active, runs, done, files, selected, seen, crashes, settled>>

Passing == {l \in DOMAIN records : Reasons(l, records[l]) = {}}

\* canonical_part: the records that become part i, of which its id and the
\* listing in its provenance matter here
Becoming(i) == {l \in Passing : Id(l, records[l]) = i}

\* promote, up to the replacement of the catalog; of two records of one part
\* the later in the output stays.
WriteCatalog ==
    /\ at = "enriched" /\ at' = "cataloged"
    /\ \E last \in [{i \in Ids : Becoming(i) # {}} -> Listings] :
         /\ \A i \in DOMAIN last : last[i] \in Becoming(i)
         /\ catalog' = [i \in Ids |-> IF i \in DOMAIN last THEN last[i] ELSE catalog[i]]
    /\ UNCHANGED <<active, runs, done, output, report, health, selected, seen, records,
                   attempted, crashes, settled>>

Decided == [l \in DOMAIN records |-> IF l \in Passing THEN "canonical" ELSE "held"]

\* Faulty: the report is written when the catalog could not be.
WriteReportAnyway ==
    /\ at \in {"enriched", "cataloged"} /\ at' = "reported"
    /\ report' = [run |-> runs, decision |-> Decided]
    /\ settled' = [l \in Listings |-> IF l \in DOMAIN records THEN Decided[l] ELSE settled[l]]
    /\ UNCHANGED <<active, runs, done, output, catalog, health, selected, seen, records,
                   attempted, crashes>>

\* the rest of promote: the report replaces the last one
WriteReport ==
    /\ at = "cataloged" /\ at' = "reported"
    /\ report' = [run |-> runs, decision |-> Decided]
    /\ settled' = [l \in Listings |-> IF l \in DOMAIN records THEN Decided[l] ELSE settled[l]]
    /\ UNCHANGED <<active, runs, done, output, catalog, health, selected, seen, records,
                   attempted, crashes>>

WriteHealth ==
    /\ at = "reported" /\ at' = "idle"
    /\ health' = [status |-> "ok", run |-> runs]
    /\ UNCHANGED <<active, runs, done, output, catalog, report, selected, seen, records,
                   attempted, crashes, settled>>

\* An exception anywhere in the promotion.
Fail ==
    /\ at \in {"published", "enriched", "cataloged", "reported"} /\ at' = "idle"
    /\ health' = [status |-> "degraded", run |-> 0]
    /\ UNCHANGED <<active, runs, done, output, catalog, report, selected, seen, records,
                   attempted, crashes, settled>>

\* The process dies, and is started again; its run keeps the status it had.
Crash ==
    /\ at # "idle" /\ at' = "idle"
    /\ crashes < MaxCrashes /\ crashes' = crashes + 1
    /\ UNCHANGED <<active, runs, done, files, selected, seen, records, attempted, settled>>

Next == \/ Start \/ Complete \/ Publish
        \/ \E l \in Listings : Observe(l)
        \/ Enrich \/ WriteCatalog \/ WriteReport \/ WriteHealth \/ Fail \/ Crash

Spec == Init /\ [][Next]_vars

-----------------------------------------------------------------------------
(* The reader *)

\* Faulty: an observation of the report's own run counts as later than it.
StateFromDate(l) ==
    IF \E i \in Ids : catalog[i] = l THEN "canonical"
    ELSE IF report.run = 0 \/ active[l].run >= report.run THEN "discovered"
    ELSE IF l \in DOMAIN report.decision THEN report.decision[l]
    ELSE IF Reasons(l, active[l].evidence) = {} THEN "promotion_ready" ELSE "held"

\* _canonical_provenance and project_promotion_records
State(l) ==
    IF \E i \in Ids : catalog[i] = l THEN "canonical"
    ELSE IF report.run = 0 \/ active[l].run > report.run THEN "discovered"
    ELSE IF l \in DOMAIN report.decision THEN report.decision[l]
    ELSE IF Reasons(l, active[l].evidence) = {} THEN "promotion_ready" ELSE "held"

\* active_records: the listings a reader sees
Shown == {l \in Listings : active[l].run > 0}

\* _promotion_health: a run under way has no completion time to compare with.
Fresh == health.status = "ok" /\ ~(done /\ health.run < runs)

-----------------------------------------------------------------------------
(* Properties *)

\* Every listing the report calls canonical has its part in the catalog,
\* whether the process died between the two files or the next promotion
\* failed half-way (promote).
ReportIsCatalogued ==
    \A l \in DOMAIN report.decision :
        report.decision[l] = "canonical" => catalog[PartOf[l]] # None \/ catalog[l] # None

\* Promotion called fresh after a completed run decided every listing of that
\* run: none is shown as merely discovered, or as ready but not promoted
\* (_promotion_health, project_promotion_records).
FreshIsDecided ==
    done /\ Fresh => /\ report.run = runs /\ output.listings \subseteq Shown
                     /\ \A l \in output.listings : State(l) \in Decisions

\* What the steps of a cycle rely on: the listings it saw are of its run, and
\* what it works on, decides and reports is what it published.
CycleInOrder ==
    /\ at # "idle" => runs >= 1 /\ (health.status = "ok" => health.run < runs)
    /\ at \in {"running", "completed"} => \A l \in seen : active[l].run = runs
    /\ at \in {"published", "enriched", "cataloged", "reported"} =>
          \A l \in output.listings : active[l].run = runs
    /\ at \in {"enriched", "cataloged"} => DOMAIN records = output.listings
    /\ at = "cataloged" => \A l \in Passing : catalog[PartOf[l]] # None \/ catalog[l] # None
    /\ at = "reported" => report.run = runs /\ DOMAIN report.decision = output.listings

\* What promotion leaves when it ends well.
FreshIsWhole ==
    health.status = "ok" /\ health.run = runs =>
        /\ runs >= 1 /\ report.run = runs /\ output.listings \subseteq DOMAIN report.decision
        /\ \A l \in output.listings : active[l].run = runs

\* The inductive invariant.
PromotionInv ==
    /\ TypeOK /\ DOMAIN active = Listings /\ DOMAIN report.decision \subseteq Listings
    /\ CycleInOrder /\ FreshIsWhole /\ ReportIsCatalogued

\* Promotion is not called fresh while a completed run waits for it ("If a
\* completed discovery run is newer than the latest successful promotion
\* pass, dashboard/service health should report promotion as stale").
StaleIsReported == output.run > health.run => ~Fresh

\* A listing decided canonical stays so while its source is skipped
\* ("adaptive source skips do not erase a record's last known status").
SkipKeepsStatus ==
    \A l \in Shown : settled[l] = "canonical" /\ active[l].run <= report.run
                     => State(l) = "canonical"
=============================================================================
