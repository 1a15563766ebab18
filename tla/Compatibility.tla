---------------------------- MODULE Compatibility ----------------------------
(***************************************************************************)
(* Complete builds out of the sourced parts (compatibility.py,             *)
(* bom_sourcing.py).  A refresh takes the parts' facts from their titles,  *)
(* lets the makers' pages add to them and correct them, and then judges    *)
(* every combination of the cheapest candidates by checks that each relate *)
(* what one part needs to what another offers.  A fact may be unknown; an  *)
(* offer is the set of the needs it meets.  The CPU is looked up in the    *)
(* board's support table by every name that is known of it.                *)
(***************************************************************************)
EXTENDS Integers, Sequences, FiniteSets, Functions

CONSTANTS
    Pool,           \* Pool[slot]: its candidates, cheapest first
    MaxPool,        \* max_candidates_per_component
    MaxBuilds,      \* maximum_builds
    AllowProvisional,
    Cost,           \* Cost[candidate], landed
    Titled,         \* Titled[<<candidate, field>>]: as its title tells it, or None
    Pages,          \* <<candidate, field>> that a maker's page may tell
    Inside,         \* <<a, b>>: CPU name a is a part of name b
    Actual,         \* Actual[<<candidate, field>>]: as it is
    PenaltyPerUnknown,
    None

VARIABLES
    read,           \* the fields read from the makers' pages
    priced,         \* is the accelerator on the market
    builds          \* compatible-builds.json, best first; None before

vars == <<read, priced, builds>>

Slots == DOMAIN Pool
Fields == DOMAIN Titled
Fact(known, p, f) == IF <<p, f>> \in DOMAIN known THEN known[<<p, f>>] ELSE None
Known(some) == [x \in Fields |-> IF x \in some THEN Actual[x] ELSE Titled[x]]

Check(needer, need, offerer, offer, flagged) ==
    [needer |-> needer, need |-> need, offerer |-> offerer, offer |-> offer, flagged |-> flagged]

\* evaluate_build_compatibility's checks: "either" are those that mind a need
\* that is not known
Checks == {
    Check("cpu", "socket", "board", "socket", "either"),
    Check("ram", "memory_type", "board", "memory_types", "either"),
    Check("board", "memory_type", "cpu", "memory_types", "either"),
    Check("cpu", "socket", "cooling", "supported_sockets", "offer"),
    Check("board", "form_factor", "chassis", "form_factors", "either"),
    Check("storage", "interface", "board", "storage_interfaces", "offer"),
    Check("gpu", "pcie_slot", "board", "gpu_slot", "either"),
    Check("gpu", "minimum_pcie_lanes", "board", "gpu_slot_lanes", "offer"),
    Check("gpu", "minimum_pcie_generation", "board", "pcie_generation", "offer"),
    Check("gpu", "minimum_psu_w", "psu", "wattage_w", "offer"),
    Check("gpu", "power_connectors", "psu", "gpu_power_connectors", "offer"),
    Check("gpu", "gpu_length_mm", "chassis", "max_gpu_length_mm", "either"),
    Check("gpu", "gpu_slots", "chassis", "max_gpu_slots", "either"),
    Check("gpu", "requires_resizable_bar", "board", "resizable_bar", "offer"),
    Check("cooling", "height_mm", "chassis", "max_cpu_cooler_height_mm", "either")}

\* the one that is not a need and an offer
CpuCheck == Check("cpu", "model", "board", "cpu_support", "table")

\* _cpu_identity_candidates: what the listing and the facts call the CPU
CpuNames(known, b) == {Fact(known, b.cpu, f) : f \in {"title", "model"}} \ {None}

\* _cpu_row_match_score
MatchScore(names, cpu) ==
    IF cpu \in names THEN 100
    ELSE IF \E n \in names : <<cpu, n>> \in Inside THEN 90
    ELSE IF \E n \in names : <<n, cpu>> \in Inside THEN 80 ELSE 0

\* evaluate_cpu_bios_pair: the first of the table's rows that match best; only a
\* table that is complete says no by its silence
TableSays(table, names) ==
    LET Score(i) == MatchScore(names, table.rows[i].cpu)
        matches == {i \in DOMAIN table.rows : Score(i) > 0}
        best == CHOOSE i \in matches :
                    \A j \in matches : Score(j) < Score(i) \/ (Score(j) = Score(i) /\ i <= j)
    IN  IF matches # {} THEN IF table.rows[best].supported THEN "supported" ELSE "unsupported"
        ELSE IF table.complete THEN "unsupported" ELSE "unresolved"
CpuSupport(known, b) ==
    LET table == Fact(known, b.board, "cpu_support")
        names == CpuNames(known, b)
    IN  IF table = None \/ names = {} THEN "unresolved" ELSE TableSays(table, names)
CpuSaid(known, b, said) == IF CpuSupport(known, b) = said THEN {CpuCheck} ELSE {}

Need(known, b, c) == Fact(known, b[c.needer], c.need)

\* Faulty: what is not known is not offered.
OfferOrNothing(known, b, c) ==
    LET f == Fact(known, b[c.offerer], c.offer) IN IF f = None THEN {} ELSE f

Offer(known, b, c) == Fact(known, b[c.offerer], c.offer)

\* Faulty: only the checks that mind an unknown need can fail.
FailsOfEither(known, b) == {c \in Checks : /\ c.flagged = "either"
                                           /\ Need(known, b, c) # None
                                           /\ Offer(known, b, c) # None
                                           /\ Need(known, b, c) \notin Offer(known, b, c)}
                           \cup CpuSaid(known, b, "unsupported")

Fails(known, b) == {c \in Checks : /\ Need(known, b, c) # None
                                   /\ Offer(known, b, c) # None
                                   /\ Need(known, b, c) \notin Offer(known, b, c)}
                   \cup CpuSaid(known, b, "unsupported")

Unknowns(known, b) == {c \in Checks :
    \/ Need(known, b, c) = None /\ c.flagged = "either"
    \/ Need(known, b, c) # None /\ Offer(known, b, c) = None}
    \cup CpuSaid(known, b, "unresolved")

StatusOf(fails, unknowns) ==
    IF fails # {} THEN "incompatible" ELSE IF unknowns = {} THEN "compatible" ELSE "provisional"

Status(known, b) == StatusOf(Fails(known, b), Unknowns(known, b))

Candidates(slot) == {Pool[slot][i] : i \in 1 .. IF MaxPool < Len(Pool[slot]) THEN MaxPool ELSE Len(Pool[slot])}
AllParts == UNION {Candidates(s) : s \in Slots}
Combinations ==
    {[cpu |-> cpu, board |-> board, ram |-> ram, storage |-> storage, psu |-> psu,
      cooling |-> cooling, chassis |-> chassis, gpu |-> gpu] :
        cpu \in Candidates("cpu"), board \in Candidates("board"), ram \in Candidates("ram"),
        storage \in Candidates("storage"), psu \in Candidates("psu"),
        cooling \in Candidates("cooling"), chassis \in Candidates("chassis"),
        gpu \in Candidates("gpu")}
CostOf(b) == Cost[b.cpu] + Cost[b.board] + Cost[b.ram] + Cost[b.storage] + Cost[b.psu]
             + Cost[b.cooling] + Cost[b.chassis]

Row(known, some, b) ==
    [parts |-> b, status |-> Status(known, b), cost |-> CostOf(b),
     ranking |-> CostOf(b) + PenaltyPerUnknown * Cardinality(Unknowns(known, b)),
     fields |-> Cardinality({x \in some : \E s \in Slots : x[1] = b[s]})]

\* the first of two keys that differ decides
Before(keys) == \E i \in DOMAIN keys : keys[i][1] < keys[i][2] /\ \A j \in 1 .. i - 1 : keys[j][1] = keys[j][2]
Class(r) == IF r.status = "compatible" THEN 0 ELSE 1

\* Faulty: cost before class.
SolverOrderByCost(r, q) == Before(<<<<r.ranking, q.ranking>>, <<Class(r), Class(q)>>>>)

Kept(n) == IF MaxBuilds < n THEN MaxBuilds ELSE n

\* construct_compatible_builds: what contradicts is dropped, the rest cut to size;
\* the order of rows that tie, which the sort leaves as they came, is left open
SolverOrder(r, q) == Before(<<<<Class(r), Class(q)>>, <<r.ranking, q.ranking>>, <<r.cost, q.cost>>>>)
Buildable(known, some) ==
    {r \in {Row(known, some, b) : b \in Combinations} :
        r.status = "compatible" \/ (r.status = "provisional" /\ AllowProvisional)}
Solved(known, some) ==
    LET rows == Buildable(known, some)
    IN  {kept \in SUBSET rows : /\ Cardinality(kept) = Kept(Cardinality(rows))
                                /\ \A r \in kept, q \in rows \ kept : ~SolverOrder(q, r)}

BuildConstantsOK ==
    /\ Slots = {"cpu", "board", "ram", "storage", "psu", "cooling", "chassis", "gpu"}
    /\ \A s \in Slots \ {"gpu"} : \A p \in Candidates(s) : Cost[p] \in Nat
    /\ DOMAIN Actual = Fields
    /\ IsFiniteSet(Combinations) /\ {MaxPool, PenaltyPerUnknown} \subseteq Nat
    /\ MaxBuilds \in Nat \ {0} /\ AllowProvisional \in BOOLEAN

\* _write_compatible_builds: ranked again, by the complete cost where the
\* accelerator has one
PublishedOrder(r, q, market) ==
    IF market
    THEN Before(<<<<Class(r), Class(q)>>, <<r.cost, q.cost>>, <<-r.fields, -q.fields>>, <<r.ranking, q.ranking>>>>)
    ELSE Before(<<<<Class(r), Class(q)>>, <<-r.fields, -q.fields>>, <<r.ranking, q.ranking>>>>)
Published(kept, market) ==
    {rows \in Bijection(1 .. Cardinality(kept), kept) :
        \A i, j \in DOMAIN rows : i < j => ~PublishedOrder(rows[j], rows[i], market)}

-----------------------------------------------------------------------------
Init ==
    /\ read = {}
    /\ priced \in BOOLEAN
    /\ builds = None

\* the next refresh starts from the titles, and from the market of the day
Source ==
    /\ read' = {}
    /\ priced' \in BOOLEAN
    /\ UNCHANGED builds

\* enrich_candidate: the maker's page of a part tells what it shows today; the
\* accelerator's is read only when it has a listing
Enrich(p, shown) ==
    /\ p \in Candidates("gpu") => priced
    /\ read' = read \cup shown
    /\ read' # read
    /\ UNCHANGED <<priced, builds>>

Publish ==
    /\ \E kept \in Solved(Known(read), read) : builds' \in Published(kept, priced)
    /\ UNCHANGED <<read, priced>>

Next ==
    \/ Source
    \/ \E p \in AllParts : \E shown \in SUBSET {x \in Pages : x[1] = p} : Enrich(p, shown)
    \/ Publish

Spec == Init /\ [][Next]_vars

-----------------------------------------------------------------------------
\* The published builds are of their type, each once and no more than asked.
TypeOK ==
    /\ read \subseteq Pages /\ priced \in BOOLEAN
    /\ builds # None =>
         /\ Len(builds) <= MaxBuilds
         /\ \A i \in DOMAIN builds :
              /\ builds[i].parts \in Combinations
              /\ builds[i].status \in {"compatible", "provisional"}
              /\ \A j \in DOMAIN builds : builds[i] = builds[j] => i = j

\* A fact that becomes known never clears a combination that was rejected
\* (docs/EXACT_SKU_ENRICHMENT.md: enrichment is no mechanism for making more
\* builds pass); only a fact that is corrected may, or a name that is learned of a
\* CPU, when the board's table supports the CPU of that name and nothing else was
\* against the combination.
Learns == \A x \in Fields : Known(read)[x] # None => Known(read')[x] = Known(read)[x]
Renamed(b) ==
    /\ Fails(Known(read), b) = {CpuCheck}
    /\ CpuNames(Known(read)', b) # CpuNames(Known(read), b)
    /\ CpuSupport(Known(read)', b) = "supported"
RejectedStays ==
    Learns => \A b \in Combinations :
        Status(Known(read), b) = "incompatible" =>
            Status(Known(read)', b) = "incompatible" \/ Renamed(b)

\* Learning clears no combination at all.
NeverCleared ==
    Learns => \A b \in Combinations :
        Status(Known(read), b) = "incompatible" => Status(Known(read)', b) = "incompatible"

\* The fields of every candidate are there, known or not.
Described ==
    \A b \in Combinations :
        /\ \A c \in Checks :
             {<<b[c.needer], c.need>>, <<b[c.offerer], c.offer>>} \subseteq Fields
        /\ {<<b.cpu, "title">>, <<b.cpu, "model">>, <<b.board, "cpu_support">>} \subseteq Fields

\* The table has one row of the CPU's model, and none of what the listing calls it.
Listed(table, model, title) ==
    /\ DOMAIN table.rows \subseteq Nat
    /\ \E i \in DOMAIN table.rows : table.rows[i].cpu = model
    /\ \A i, j \in DOMAIN table.rows :
         /\ table.rows[i].cpu = model /\ table.rows[j].cpu = model => i = j
         /\ table.rows[i].cpu = title => title = model

\* With every fact known nothing stays provisional but a CPU whose model the
\* board's table does not list and that it need not list. With every fact true a
\* combination whose CPU is listed is compatible exactly when its parts fit.
DecidedWhenKnown ==
    LET known == Known(read)
        table(b) == Fact(known, b.board, "cpu_support")
        fits(b) ==
            /\ \A c \in Checks : Need(Actual, b, c) \in Offer(Actual, b, c)
            /\ \E i \in DOMAIN table(b).rows :
                 table(b).rows[i].cpu = Fact(known, b.cpu, "model") /\ table(b).rows[i].supported
    IN  (\A x \in Fields : known[x] # None) =>
          \A b \in Combinations :
            /\ Status(known, b) = "provisional" =>
                 /\ ~table(b).complete
                 /\ \A i \in DOMAIN table(b).rows :
                      table(b).rows[i].cpu # Fact(known, b.cpu, "model")
            /\ known = Actual /\ Listed(table(b), Fact(known, b.cpu, "model"), Fact(known, b.cpu, "title"))
                 => (Status(known, b) = "compatible" <=> fits(b))

\* The first build published is compatible whenever a combination is, and then
\* none of those costs less, although the list is cut before it is ranked by
\* complete cost.
BestFirst ==
    builds' # builds => \A b \in Combinations :
        Status(Known(read), b) = "compatible" =>
          /\ builds'[1].status = "compatible"
          /\ priced => builds'[1].cost <= CostOf(b)

\* A build called compatible has no check whose facts are unknown.
NothingSilentlyTrue ==
    \A b \in Combinations : Status(Known(read), b) = "compatible" =>
        \A c \in Checks : Need(Known(read), b, c) # None /\ Offer(Known(read), b, c) # None

\* Among the compatible builds the cheaper come first.
RankedByCost ==
    builds # None => \A i, j \in DOMAIN builds :
        i < j /\ builds[j].status = "compatible" => builds[i].cost <= builds[j].cost

\* Among the provisional builds what is not known counts against a build.
PenaltyCounts ==
    builds # None => \A i, j \in DOMAIN builds :
        i < j /\ builds[i].status = "provisional" => builds[i].ranking <= builds[j].ranking
=============================================================================
