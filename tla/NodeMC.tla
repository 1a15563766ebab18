------------------------------- MODULE NodeMC -------------------------------
(***************************************************************************)
(* What is known of a node and its parts: the benchmark with its power     *)
(* windows, the store of power observations, the compatibility facts of    *)
(* the sourced parts, whether a board starts its CPU, and the builds that  *)
(* are put together.  They share no state in these models, so a behaviour  *)
(* is about one of them, the part it picks at the start among Parts; the   *)
(* variables of the others stay at their first values (BenchmarkRun) or    *)
(* unused.                                                                 *)
(***************************************************************************)
EXTENDS BenchmarkRun, TLC

CONSTANTS Parts, Unused

VARIABLES
    part,
    catalog, pages, runs, evidence, copy, stale, edits,               \* PowerEvidence
    page, cache, facts, proof, seen, task, day,                       \* SpecEnrichment
    board, said, bootPage, doc,                                       \* BootReadiness
    read, priced, builds                                              \* Compatibility

powerVars == <<catalog, pages, runs, evidence, copy, stale, edits>>
specVars == <<page, cache, facts, proof, seen, task, day>>
bootVars == <<board, said, bootPage, doc>>
buildVars == <<read, priced, builds>>
all == <<part, vars, powerVars, specVars, bootVars, buildVars>>

\* An idle window and a command.
IdleAndPrefill == <<"idle", "prefill">>

-----------------------------------------------------------------------------
(* Power evidence: two accelerators of one family and one of another, and  *)
(* the few rows the sources may say of them.                               *)

Hardware(exact, model, family) ==
    [exact |-> exact, memory |-> None, model |-> model, family |-> family, category |-> "gpu"]
Cards ==
    "card" :> [Hardware("sku1", "m1", "f1") EXCEPT !["memory"] = 24] @@
    "sister" :> Hardware(None, "m2", "f1") @@
    "other" :> Hardware(None, "m3", None)
CardNames == DOMAIN Cards

PowerRow(target, max, scope, measured) ==
    [target |-> target, max |-> max, scope |-> scope, measured |-> measured]
PowerRun(of, memory, idle, load, scope, speedScope, curated) ==
    [part |-> of, memory |-> memory, idle |-> idle, load |-> load,
     scope |-> scope, speedScope |-> speedScope, curated |-> curated]

BlankRow == PowerRow(None, None, None, None)
PowerCatalog ==
    "card" :> {BlankRow, PowerRow(2, 3, "board", None)} @@
    "sister" :> {PowerRow(None, 3, "board", None), PowerRow(2, 3, "board", 2)} @@
    "other" :> {BlankRow, PowerRow(2, 3, "board", None)}
\* What the enrichment writes has the fields' evidence but not the facts.
PowerPages ==
    "card" :> {[field |-> 3, fact |-> None, scope |-> "board"]} @@ "sister" :> {} @@ "other" :> {}
PowerRuns ==
    "bench" :> {PowerRun("card", None, 1, 2, "board", None, FALSE),
                PowerRun("card", 12, 1, 3, "board", None, FALSE),
                PowerRun("card", None, 1, None, "board", None, FALSE)} @@
    "rail" :> {PowerRun("sister", None, None, 1, "rail", "board", FALSE),
               PowerRun("sister", None, None, 1, None, "rail", FALSE)} @@
    "cured" :> {PowerRun("sister", None, 1, 2, "node", None, TRUE),
                PowerRun("sister", None, 1, 2, None, None, TRUE)}
PowerRunIds == DOMAIN PowerRuns

\* The evidence of a configuration c.
Power(c) == INSTANCE PowerEvidence WITH
    Parts <- c.parts, Identity <- c.identity, CatalogRows <- c.catalogRows,
    PageRows <- c.pageRows, RunIds <- c.runIds, RunRows <- c.runRows,
    Writers <- c.writers, MaxEdits <- c.maxEdits

ThreeCards ==
    [parts |-> CardNames, identity |-> Cards, catalogRows |-> PowerCatalog,
     pageRows |-> PowerPages, runIds |-> PowerRunIds, runRows |-> PowerRuns,
     writers |-> {"service", "command"}, maxEdits |-> 2]

-----------------------------------------------------------------------------
(* Enrichment: a listing of a product with a curated association, one of a *)
(* product found by its part number, and one that names no part number.  A *)
(* page shows one of the products, or has been taken down for another's;   *)
(* that of the third product, an accessory, names the second one too.      *)

NamedProduct == "board" :> "p1" @@ "psu" :> "p2" @@ "noname" :> None
InTitle == "board" :> {"socket"} @@ "psu" :> {"watts"} @@ "noname" :> {"watts"}

Content(p, names, curated, jsonld, table, pdf, text) ==
    [shows |-> p, names |-> names,
     offers |-> [curated |-> curated, jsonld |-> jsonld, table |-> table, identity |-> {},
                 support |-> {}, pdf |-> pdf, text |-> text]]
Contents ==
    {Content("p1", {"p1"}, {"socket"}, {"watts"}, {"socket", "watts"}, {}, {"pins"}),
     Content("p2", {"p2", "modular"}, {}, {}, {"watts"}, {"pins", "watts"}, {"socket", "pins"}),
     Content("p3", {"p2", "modular"}, {}, {"pins"}, {}, {}, {"watts"})}

\* The enrichment of a configuration c.
Enriched(c) == INSTANCE SpecEnrichment WITH
    Listings <- c.listings, Product <- c.product, Curated <- c.curated, Asked <- c.asked, Titled <- c.titled,
    Fields <- c.fields, Pages <- c.pages, Ttl <- c.ttl, MaxDays <- c.maxDays

\* One of the products has a curated association, of terms of its own,
Found ==
    [listings |-> DOMAIN NamedProduct, product |-> NamedProduct, curated |-> {"p1"},
     asked |-> "p1" :> {"p1"},
     titled |-> InTitle, fields |-> {"socket", "watts", "pins"}, pages |-> Contents,
     ttl |-> 1, maxDays |-> 3]

\* or both have, and the second one's asks for a generic term.
CuratedOnly ==
    [Found EXCEPT !.listings = {"board", "psu"}, !.product = "board" :> "p1" @@ "psu" :> "p2",
                  !.curated = {"p1", "p2"}, !.asked = "p1" :> {"p1"} @@ "p2" :> {"modular"},
                  !.maxDays = 1]

-----------------------------------------------------------------------------
(* Boot readiness: a board of each maker whose versions are ordered in a   *)
(* way of its own, and pages with and without the CPU's row.               *)

V(train, series, number, stable) ==
    [train |-> train, series |-> series, number |-> number, stable |-> stable]
B(vendor, model, revision, serial, factory) ==
    [vendor |-> vendor, model |-> model, revision |-> revision, serial |-> serial,
     factory |-> factory, runs |-> factory]

P1 == V("P", "P", 1, TRUE)
P2 == V("P", "P", 2, TRUE)
L3 == V("L", "L", 3, TRUE)
F12a == V("F", "F", 12, FALSE)
F12 == V("F", "F", 12, TRUE)
F14 == V("F", "F", 14, TRUE)
X1 == V("X", "X", 1, TRUE)
X9 == V("Y", "Y", 9, TRUE)

Makers == {"asrock", "gigabyte", "generic"}
Firmware == "asrock" :> {P1, P2, L3} @@ "gigabyte" :> {F12a, F12, F14} @@ "generic" :> {X1, X9}
Required == "asrock" :> P2 @@ "gigabyte" :> F12 @@ "generic" :> X1
CpuNames == {"Ryzen 5 5600X Box", "Ryzen 5 5600X"}
NameInName == {<<"Ryzen 5 5600", "Ryzen 5 5600X">>, <<"Ryzen 5 5600", "Ryzen 5 5600X Box">>,
               <<"Ryzen 5 5600X", "Ryzen 5 5600X Box">>}
CpuRow(cpu, minimum) == [cpu |-> cpu, minimum |-> minimum, unsupported |-> FALSE]
Refused(cpu) == [cpu |-> cpu, minimum |-> None, unsupported |-> TRUE]
SupportPage(cpuRows, complete, shipped, flashback, history) ==
    [rows |-> cpuRows, complete |-> complete, shipped |-> shipped, flashback |-> flashback,
     history |-> history]

\* the older CPU of the family is known to older firmware
OldOne == "asrock" :> P1 @@ "gigabyte" :> F12a @@ "generic" :> X9
RowsOf(v) == <<CpuRow("Ryzen 5 5600", OldOne[v]), CpuRow("Ryzen 5 5600X", Required[v])>>
SupportPages == [v \in Makers |->
    {SupportPage(<<>>, FALSE, None, "unknown", {}),
     SupportPage(<<CpuRow("Core i5", OldOne[v])>>, FALSE, None, "cpu_less", {}),
     SupportPage(<<CpuRow("Core i5", OldOne[v])>>, TRUE, None, "unknown", {}),
     SupportPage(<<Refused("Ryzen 5 5600X")>>, FALSE, None, "unknown", {}),
     SupportPage(RowsOf(v), FALSE, None, "cpu_less", {}),
     SupportPage(RowsOf(v), FALSE, OldOne[v], "supported", {<<Required[v], 2>>}),
     SupportPage(RowsOf(v), FALSE, Required[v], "unsupported", {<<Required[v], 1>>})}]
BoardsOnSale ==
    {B("asrock", "A", 1, 7, P1), B("asrock", "A", 2, 8, P2), B("asrock", "A", 1, 9, L3),
     B("gigabyte", "G", 1, 7, F12a), B("gigabyte", "G", 2, 8, F12),
     B("generic", "X", 1, 7, X9), B("generic", "X", 2, 8, X1)}
FactoryRule(vendor, model, kind, key, version) ==
    [vendor |-> vendor, model |-> model, kind |-> kind, key |-> key, version |-> version]
MakersRules ==
    {FactoryRule("asrock", None, "label", None, None),
     FactoryRule("asrock", "A", "serial", 8, P2), FactoryRule("gigabyte", "G", "revision", 2, F12)}

\* The boards of a configuration c.
Boot(c) == INSTANCE BootReadiness WITH
    Boards <- c.boards, Versions <- c.versions, Minimum <- c.minimum, Inside <- c.inside,
    Pages <- c.pages, Names <- c.names, Rules <- c.rules, Cpu <- c.cpu, page <- bootPage

OnSale ==
    [boards |-> BoardsOnSale, versions |-> Firmware, minimum |-> Required, inside |-> NameInName,
     pages |-> SupportPages, names |-> CpuNames, rules |-> MakersRules, cpu |-> "Ryzen 5 5600X"]

-----------------------------------------------------------------------------
(* Builds: two boards and two power supplies; the other slots have one     *)
(* candidate.  A need is 1, and an offer that meets it contains 1.         *)

OneOrTwo == [s \in {"cpu", "board", "ram", "storage", "psu", "cooling", "chassis", "gpu"} |->
    CASE s = "board" -> <<"b1", "b2">> [] s = "psu" -> <<"p1", "p2">> [] OTHER -> <<s>>]
Prices == [p \in {"b1", "b2", "p1", "p2", "cpu", "ram", "storage", "cooling", "chassis"} |->
    CASE p = "b1" -> 100 [] p = "b2" -> 118 [] p = "p1" -> 70 [] p = "p2" -> 80 [] OTHER -> 50]

Needs ==
    {<<"cpu", "socket">>, <<"ram", "memory_type">>, <<"b1", "memory_type">>,
     <<"b2", "memory_type">>, <<"b1", "form_factor">>, <<"b2", "form_factor">>,
     <<"storage", "interface">>, <<"cooling", "height_mm">>}
    \cup {<<"gpu", f>> : f \in {"pcie_slot", "minimum_pcie_lanes", "minimum_pcie_generation",
            "minimum_psu_w", "power_connectors", "gpu_length_mm", "gpu_slots",
            "requires_resizable_bar"}}
Offered ==
    {<<b, f>> : b \in {"b1", "b2"}, f \in {"socket", "memory_types",
        "storage_interfaces", "gpu_slot", "gpu_slot_lanes", "pcie_generation", "resizable_bar"}}
    \cup {<<p, f>> : p \in {"p1", "p2"}, f \in {"wattage_w", "gpu_power_connectors"}}
    \cup {<<"cpu", "memory_types">>, <<"cooling", "supported_sockets">>}
    \cup {<<"chassis", f>> : f \in {"form_factors", "max_gpu_length_mm", "max_gpu_slots",
                                    "max_cpu_cooler_height_mm"}}

\* The first, cheaper board's table is incomplete and has no row of the CPU, the
\* second one's has one of its model, which the listing does not name; the first
\* supply is too weak.
CpuNamed == {<<"cpu", "title">>, <<"cpu", "model">>}
CpuTables == {<<"b1", "cpu_support">>, <<"b2", "cpu_support">>}
CpuTable(names, complete) ==
    [rows |-> [i \in DOMAIN names |-> [cpu |-> names[i], supported |-> TRUE]], complete |-> complete]
TrueFacts == [x \in Needs \cup Offered \cup CpuNamed \cup CpuTables |->
    CASE x \in Needs -> 1
      [] x = <<"cpu", "title">> -> "six-core tray"
      [] x = <<"cpu", "model">> -> "Ryzen 5 5600X"
      [] x = <<"b1", "cpu_support">> -> CpuTable(<<"Core i5">>, FALSE)
      [] x = <<"b2", "cpu_support">> -> CpuTable(<<"Ryzen 5 5600", "Ryzen 5 5600X">>, TRUE)
      [] OTHER -> IF x = <<"p1", "wattage_w">> THEN {0} ELSE {0, 1}]
\* Two facts are wrong in the titles, and five are not told.
Wrong == {<<"p1", "wattage_w">>, <<"chassis", "max_gpu_length_mm">>}
Silent == CpuTables \cup {<<"cpu", "model">>, <<"gpu", "minimum_psu_w">>,
                       <<"p2", "gpu_power_connectors">>}
ToldFacts == Wrong \cup Silent
TitleFacts == [x \in DOMAIN TrueFacts |->
    IF x \in Silent THEN None
    ELSE IF x = <<"p1", "wattage_w">> THEN {0, 1}
    ELSE IF x = <<"chassis", "max_gpu_length_mm">> THEN {0}
    ELSE TrueFacts[x]]

\* The builds of a configuration c.
Builds(c) == INSTANCE Compatibility WITH
    Pool <- c.pool, Cost <- c.cost, MaxPool <- c.maxPool, MaxBuilds <- c.maxBuilds,
    AllowProvisional <- c.allowProvisional, PenaltyPerUnknown <- c.penalty,
    Titled <- c.titled, Actual <- c.actual, Pages <- c.pages, Inside <- c.inside

FourBuilds ==
    [pool |-> OneOrTwo, cost |-> Prices, maxPool |-> 5, maxBuilds |-> 2,
     allowProvisional |-> TRUE, penalty |-> 5, titled |-> TitleFacts, actual |-> TrueFacts,
     pages |-> ToldFacts, inside |-> NameInName]

\* What the properties below need of the configurations (section 4 of the README has what
\* happens without Truthful).
ASSUME PartsOK ==
    /\ Power(ThreeCards)!PowerConstantsOK
    /\ Enriched(Found)!EnrichmentConstantsOK /\ Enriched(CuratedOnly)!EnrichmentConstantsOK
    /\ Boot(OnSale)!BootConstantsOK /\ Boot(OnSale)!Truthful
    /\ Builds(FourBuilds)!BuildConstantsOK /\ Builds(FourBuilds)!Described

-----------------------------------------------------------------------------
NoPower ==
    /\ catalog = Unused /\ pages = Unused /\ runs = Unused /\ evidence = Unused
    /\ copy = Unused /\ stale = Unused /\ edits = Unused
NoSpec ==
    /\ page = Unused /\ cache = Unused /\ facts = Unused /\ proof = Unused /\ seen = Unused
    /\ task = Unused /\ day = Unused
NoBoot ==
    /\ board = Unused /\ said = Unused /\ bootPage = Unused /\ doc = Unused
NoBuilds ==
    /\ read = Unused /\ priced = Unused /\ builds = Unused

PartInit ==
    /\ part \in Parts
    /\ Init
    /\ IF part = "power" THEN Power(ThreeCards)!Init ELSE NoPower
    /\ CASE part = "found" -> Enriched(Found)!Init
         [] part = "curated" -> Enriched(CuratedOnly)!Init
         [] OTHER -> NoSpec
    /\ IF part = "boot" THEN Boot(OnSale)!Init ELSE NoBoot
    /\ IF part = "builds" THEN Builds(FourBuilds)!Init ELSE NoBuilds

OnlyBenchmark == UNCHANGED <<part, powerVars, specVars, bootVars, buildVars>>
OnlyPower == UNCHANGED <<part, vars, specVars, bootVars, buildVars>>
OnlySpec == UNCHANGED <<part, vars, powerVars, bootVars, buildVars>>
OnlyBoot == UNCHANGED <<part, vars, powerVars, specVars, buildVars>>
OnlyBuilds == UNCHANGED <<part, vars, powerVars, specVars, bootVars>>

PartNext ==
    \/ part = "benchmark" /\ Next /\ OnlyBenchmark
    \/ part = "power" /\ Power(ThreeCards)!Next /\ OnlyPower
    \/ part = "found" /\ Enriched(Found)!Next /\ OnlySpec
    \/ part = "curated" /\ Enriched(CuratedOnly)!Next /\ OnlySpec
    \/ part = "boot" /\ Boot(OnSale)!Next /\ OnlyBoot
    \/ part = "builds" /\ Builds(FourBuilds)!Next /\ OnlyBuilds

\* The fairness of BenchmarkRun.
Benchmarking(A) == part = "benchmark" /\ A
PartFairness ==
    /\ WF_vars(Benchmarking(Begin)) /\ WF_vars(Benchmarking(SamplerStarts))
    /\ WF_vars(Benchmarking(Rested))
    /\ WF_vars(Benchmarking(SampleFails \/ \E w \in Watts : Sampled(w)))
    /\ WF_vars(Benchmarking(TimedOut)) /\ WF_vars(Benchmarking(CommandEnds))
    /\ WF_vars(Benchmarking(IdleEnds)) /\ WF_vars(Benchmarking(Collect))
    /\ WF_vars(Benchmarking(Tick))

PartSpec == PartInit /\ [][PartNext]_all /\ PartFairness

-----------------------------------------------------------------------------
(* Properties, next to those of BenchmarkRun *)

\* Power evidence, enrichments, readiness and builds are of their types: among
\* others, no observation is stored twice, readiness is what scores at least
\* 90, and no build is published twice.
PartsTyped ==
    /\ part = "power" => Power(ThreeCards)!TypeOK
    /\ part = "found" => Enriched(Found)!TypeOK
    /\ part = "curated" => Enriched(CuratedOnly)!TypeOK
    /\ part = "boot" => Boot(OnSale)!TypeOK
    /\ part = "builds" => Builds(FourBuilds)!TypeOK

\* With a time limit every benchmark ends, also when its command does not, unless
\* some descendant of the command holds its pipes for ever (communicate waits for
\* the pipes' end, before the kill and after it).
BenchmarksEnd == part = "benchmark" => BenchmarkEnds

\* Unless a source was edited since the refresh that was written last began to
\* read, a further refresh of the evidence would add nothing, whichever of two
\* writers that was (refresh_power_evidence).
Settles == part = "power" => Power(ThreeCards)!Settles

\* An internal rail's power, or that of another configuration, never stands
\* for a device (USABLE_DEVICE_SCOPES).
RailNeverDevice == part = "power" => Power(ThreeCards)!RailNeverDevice

\* What counts matches by the narrowest fact any matching row shares with the
\* part: what is learned of the hardware comes before its family, and that
\* before its category (observation_match_level, aggregate_power_observations).
NarrowestCounts == part = "power" => Power(ThreeCards)!NarrowestCounts

\* What is published, or a baseline, stands for a part only when no row with a
\* load matches it, those apart that a narrower row with idle power alone hides
\* (estimate_device_power: the threshold of 2 lets a category's row come first).
LearnedUnlessHidden == part = "power" => Power(ThreeCards)!LearnedUnlessHidden

\* No weaker part of a page overwrites what a stronger one says, and the title
\* gives way to any of them (_merge, _fill_missing).
StrongestWins ==
    /\ part = "found" => Enriched(Found)!StrongestWins
    /\ part = "curated" => Enriched(CuratedOnly)!StrongestWins

\* A fact has the value its provenance tells, and only the title's have none.
ProofMatches ==
    /\ part = "found" => Enriched(Found)!ProofMatches
    /\ part = "curated" => Enriched(CuratedOnly)!ProofMatches

\* Facts of a product without a curated association are read only while a
\* verified one is young enough.
StandsOnVerified == part = "found" => Enriched(Found)!StandsOnVerified

\* Of a product whose curated association asks for terms that are on no other
\* product's page facts are read only from a page that shows it (verify_terms_any,
\* enrich_candidate). Of others, and of pages that were found, this is not so.
IdentityOnPage ==
    /\ part = "found" => Enriched(Found)!IdentityOnPage
    /\ part = "curated" => Enriched(CuratedOnly)!IdentityOnPage

\* A board said to be ready runs a firmware that knows the CPU.
NoFalseReadiness == part = "boot" => Boot(OnSale)!NoFalseReadiness

\* A board is given up only when its maker's table says so.
RefusedByTable == part = "boot" => Boot(OnSale)!RefusedByTable

\* A seller's words cost a board nothing, and alone never put it beside one
\* its maker vouches for.
SellerStaysBelow == part = "boot" => Boot(OnSale)!SellerStaysBelow

\* With every fact known nothing stays provisional but for a CPU that an incomplete
\* table does not list, and with every fact true a build whose CPU is listed is
\* compatible exactly when its parts fit.
DecidedWhenKnown == part = "builds" => Builds(FourBuilds)!DecidedWhenKnown

\* The evidence that counts is the best there is: of watts, facts and energy.
BestEvidence ==
    /\ TypeOK /\ PartsTyped /\ EnergyWithinSamples
    /\ Settles /\ RailNeverDevice /\ NarrowestCounts /\ LearnedUnlessHidden
    /\ StrongestWins /\ ProofMatches /\ StandsOnVerified /\ IdentityOnPage

\* Boards and builds are judged by what is so.
JudgedRightly == NoFalseReadiness /\ RefusedByTable /\ SellerStaysBelow /\ DecidedWhenKnown

\* Learning more takes nothing back: an observation that was written is lost only
\* to a refresh that had read the store before it was written; a search is not
\* repeated within the cache's time, whatever its verdict; a fact that becomes known
\* clears no combination that was rejected, unless it names a CPU that the board's
\* table supports under that name, and puts no build before a compatible one that is
\* cheaper.
NothingUnlearned ==
    [][/\ part = "power" => Power(ThreeCards)!LostByOverlap
       /\ part = "found" => Enriched(Found)!VerdictKept
       /\ part = "builds" => Builds(FourBuilds)!RejectedStays /\ Builds(FourBuilds)!BestFirst]_<<powerVars, specVars, buildVars>>
=============================================================================
