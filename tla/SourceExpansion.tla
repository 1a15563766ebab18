-------------------------- MODULE SourceExpansion --------------------------
(***************************************************************************)
(* How a continuous refresh engine finds sources on its own                *)
(* (source_expansion.py, source_store.py, announcement_links.py and their  *)
(* use in catalog_refresh.py).  Announcements link to product pages of     *)
(* vendors; a page that describes a product becomes a source, and so do    *)
(* the sitemaps, feeds and category pages found on a host that is new to   *)
(* the engine.  What was found is stored, its products are recorded in the *)
(* catalog history, and as many sources as the configuration allows are    *)
(* scanned from the next run on.                                           *)
(***************************************************************************)
EXTENDS CatalogHistory, FiniteSets

CONSTANTS
    Pages,          \* linked by announcements; each is a listing and, as "jsonld", a source
    Surfaces,       \* sitemaps, feeds and categories
    HostOf,         \* the host of a page or surface
    Scores, PageScore, MinScore,    \* min_dynamic_source_score
    ConfigHosts,    \* hosts of the configured sources
    Mangled,        \* hosts that lstrip("www.") turns into something else
    MaxDomains, MaxProducts, MaxProbes, MaxDynamic

\* What as_source_config makes a source of.
Candidates == Pages \cup Surfaces

ExpansionConstantsOK ==
    /\ IsFiniteSet(Candidates) /\ Pages \cap Surfaces = {}
    /\ Listings = Pages /\ Sources = Candidates /\ SourceOf = [p \in Pages |-> p]
    /\ DisappearAfter \in Nat \ {0}
    /\ Scores \subseteq Nat \ {0} /\ PageScore \in Nat /\ MinScore \in Nat \ {0}
    /\ MaxDomains \in Nat \ {0} /\ MaxProducts \in Nat
    /\ MaxProbes \in Nat /\ MaxDynamic \in Nat \ {0}

VARIABLES
    stage,      \* of the engine's run
    offered,    \* pages that describe a product, surfaces that exist
    store,      \* source_candidates: the score of each active row, 0 when there is none
    dynamic,    \* sources of the store the engine scans ...
    known,      \* ... and _known_hosts
    polled,     \* the run's sources that were polled successfully
    found,      \* the run's candidates with their scores, 0 for the others
    products,   \* pages whose products the expansion verified
    recorded    \* observed: listings recorded by this run

engine == <<stage, dynamic, known, polled, found, products, recorded>>
vars == <<historyVars, engine, offered, store>>

Stages == {"down", "idle", "scan", "expand", "upsert", "persist", "activate", "finish"}
Nothing == [c \in Candidates |-> 0]

Hosts(cs) == {HostOf[c] : c \in cs}

TypeOK ==
    /\ HistoryTypeOK
    /\ stage \in Stages /\ offered \subseteq Candidates
    /\ store \in [Candidates -> Nat] /\ found \in [Candidates -> Nat]
    /\ dynamic \subseteq Candidates /\ Cardinality(dynamic) <= MaxDynamic
    /\ known \subseteq ConfigHosts \cup Hosts(Candidates)
    /\ polled \subseteq dynamic /\ products \subseteq Pages /\ recorded \subseteq Pages

Clear == /\ polled' = {} /\ found' = Nothing /\ products' = {} /\ recorded' = {}

Init ==
    /\ listing = [p \in Pages |-> [known |-> FALSE, missing |-> 0, gone |-> FALSE]]
    /\ run = "none" /\ seen = {}
    /\ stage = "down" /\ offered = {} /\ store = Nothing
    /\ dynamic = {} /\ known = {} /\ polled = {}
    /\ found = Nothing /\ products = {} /\ recorded = {}

Smaller(a, b) == IF a < b THEN a ELSE b
Larger(a, b) == IF a > b THEN a ELSE b

\* Vendors publish and withdraw pages.
Change(c) ==
    /\ offered' = IF c \in offered THEN offered \ {c} ELSE offered \cup {c}
    /\ UNCHANGED <<historyVars, engine, store>>

Loadable == {c \in Candidates : store[c] >= MinScore}

\* active(limit, min_score): the best of the store; ties are broken by time.
Best(cs, score, n) ==
    {best \in SUBSET cs : /\ Cardinality(best) = Smaller(n, Cardinality(cs))
                          /\ \A c \in best, d \in cs \ best : score[c] >= score[d]}

\* start, with _load_dynamic_sources.
Start ==
    /\ stage = "down"
    /\ dynamic' \in Best(Loadable, store, MaxDynamic)
    /\ known' = ConfigHosts \cup Hosts(dynamic')
    /\ stage' = "idle"
    /\ Clear
    /\ UNCHANGED <<historyVars, offered, store>>

Begin ==
    /\ stage = "idle"
    /\ BeginRefresh
    /\ stage' = "scan"
    /\ UNCHANGED <<offered, store, dynamic, known, polled, found, products, recorded>>

\* The pipeline polls the sources it had when the run began; some fail.
Scan(failed) ==
    /\ stage = "scan"
    /\ polled' = dynamic \ failed
    /\ RecordBatch(polled' \cap Pages \cap offered)
    /\ recorded' = seen'
    /\ stage' = "expand"
    /\ UNCHANGED <<offered, store, dynamic, known, found, products>>

\* hydrate_announcement_links: the links of the announcements that answer.
Outbound == SUBSET Pages

\* Hosts that expand does not find among the known ones.
NewHosts(links) == Hosts(links) \ (known \ Mangled)

\* Faulty: pages of known hosts are not looked at.
VerifiedOnNew(links, down) ==
    {p \in (links \cap offered) \ down : HostOf[p] \in NewHosts(links)}

\* _direct_product: pages that answer and describe a product.
Verified(links, down) == (links \cap offered) \ down

\* _probe_domain: the first probes of each new host find what is there.
Reachable(links, down) == {s \in Surfaces \cap offered : HostOf[s] \in NewHosts(links)} \ down

\* expand looks at the links up to its limits; `down` are pages that do not answer.
Expand(links, down) ==
    /\ stage = "expand"
    /\ Cardinality(NewHosts(links)) <= MaxDomains
    /\ Cardinality(Verified(links, down)) <= MaxProducts
    /\ products' = Verified(links, down)
    /\ \E surfaces \in SUBSET Reachable(links, down), score \in [Surfaces -> Scores] :
         /\ \A h \in Hosts(surfaces) :
               Cardinality({s \in surfaces : HostOf[s] = h}) <= MaxProbes
         /\ found' = [c \in Candidates |-> IF c \in products' THEN PageScore
                                           ELSE IF c \in surfaces THEN score[c] ELSE 0]
    /\ stage' = "upsert"
    /\ UNCHANGED <<historyVars, offered, store, dynamic, known, polled, recorded>>

\* upsert keeps the highest score; a verified row stays verified and active.
Merged == [c \in Candidates |-> Larger(store[c], found[c])]

\* Faulty: the transaction is not committed.
UpsertUncommitted ==
    /\ stage = "upsert" /\ stage' = "persist"
    /\ UNCHANGED <<historyVars, offered, store, dynamic, known, polled, found, products, recorded>>

Upsert ==
    /\ stage = "upsert"
    /\ store' = Merged
    /\ stage' = "persist"
    /\ UNCHANGED <<historyVars, offered, dynamic, known, polled, found, products, recorded>>

\* Faulty: rows that are there already stay as they are.
PersistNew ==
    /\ stage = "persist" /\ stage' = "activate"
    /\ listing' = [p \in Pages |-> IF p \in products THEN [listing[p] EXCEPT !.known = TRUE]
                                   ELSE listing[p]]
    /\ recorded' = recorded \cup products
    /\ UNCHANGED <<run, seen, offered, store, dynamic, known, polled, found, products>>

\* _persist_batch of the products: recorded, but not in seen_by_source.
Persist ==
    /\ stage = "persist"
    /\ listing' = [p \in Pages |-> IF p \in products
                                   THEN [known |-> TRUE, missing |-> 0, gone |-> FALSE]
                                   ELSE listing[p]]
    /\ recorded' = recorded \cup products
    /\ stage' = "activate"
    /\ UNCHANGED <<run, seen, offered, store, dynamic, known, polled, found, products>>

Room == MaxDynamic - Cardinality(dynamic)

\* _activate_new_candidates: what this run found and is good enough.
Eligible == {c \in Candidates \ dynamic : found[c] >= MinScore}

\* The best of them are registered, while there is room.
Activate ==
    /\ stage = "activate"
    /\ \E added \in Best(Eligible, found, Room) :
         /\ dynamic' = dynamic \cup added
         /\ known' = known \cup Hosts(added)
    /\ stage' = "finish"
    /\ UNCHANGED <<historyVars, offered, store, polled, found, products, recorded>>

\* finish_refresh with the sources of the pipeline.
Finish ==
    /\ stage = "finish"
    /\ FinishRefresh(polled)
    /\ stage' = "idle"
    /\ Clear
    /\ UNCHANGED <<offered, store, dynamic, known>>

Ends ==
    /\ IF run = "running" THEN AbortRefresh ELSE UNCHANGED historyVars
    /\ stage' = "down" /\ dynamic' = {} /\ known' = {}
    /\ Clear
    /\ UNCHANGED <<offered, store>>

\* An exception aborts the run and ends the service; its process may also die.
Crash == stage # "down" /\ Ends

\* What a service that is not killed does.
Progress ==
    \/ Start \/ Begin \/ Upsert \/ Persist \/ Activate \/ Finish
    \/ \E failed \in SUBSET dynamic : Scan(failed)
    \/ \E links \in Outbound, down \in SUBSET Candidates : Expand(links, down)

Next == Progress \/ Crash \/ \E c \in Candidates : Change(c)

Spec == Init /\ [][Next]_vars

\* At last no run is cut short any more, and again and again an expansion
\* reaches every page.
Reach == Expand(Pages, {})

FairSpec == Spec /\ WF_vars(Progress) /\ SF_vars(Reach) /\ <>[][~Crash]_vars

-----------------------------------------------------------------------------
(* Properties *)

\* Whatever step a run ends after, a listing the expansion recorded has its
\* source in the store, so that a later run can look at it again
\* (_expand_announcements stores the candidates before it records products).
ListingsHaveSources == \A p \in Pages : listing[p].known => store[p] >= PageScore

\* The sources the engine scans would be loaded again after a restart, if
\* better ones do not take their place: they are in the store with the score
\* it asks for (_activate_new_candidates, active).
ScannedAreStored == dynamic \subseteq Loadable

\* A listing is not recorded as gone by the run that saw it, although the
\* products of the expansion do not count as seen (finish_refresh).
NotGoneWhenSeen ==
    \A p \in Pages : p \in recorded /\ ~listing[p].gone => ~listing'[p].gone

\* Hosts of configured sources are not probed for further surfaces (expand,
\* known_hosts).
ConfiguredNotProbed == \A s \in Surfaces : HostOf[s] \in ConfigHosts => store[s] = 0

\* The inductive invariant: of a page only the score of its product is found and
\* stored, and what was found is stored before it is recorded or scanned.
ExpansionInv ==
    /\ TypeOK /\ ListingsHaveSources /\ ScannedAreStored
    /\ \A p \in Pages : /\ store[p] \in {0, PageScore}
                         /\ found[p] = IF p \in products THEN PageScore ELSE 0
    /\ stage \in {"persist", "activate"} => \A c \in Candidates : found[c] <= store[c]

\* If the engine knows the hosts of its configuration again.
ProbedInv ==
    /\ stage # "down" => ConfigHosts \subseteq known
    /\ \A s \in Surfaces : HostOf[s] \in ConfigHosts => store[s] = 0 /\ found[s] = 0

\* What a run has recorded starts to be missed again with the next run.
FreshInv == \A p \in recorded \cup seen : listing[p].missing = 0

\* A page that stays linked and keeps describing its product is scanned, when
\* there is room for every source (expand, _activate_new_candidates).
BecomesSource == \A p \in Pages : []<>(p \notin offered) \/ <>(p \in dynamic)
=============================================================================
