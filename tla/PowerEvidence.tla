---------------------------- MODULE PowerEvidence ----------------------------
(***************************************************************************)
(* The evidence store of power observations and the estimate read from it  *)
(* (power_ingestion.py, power_evidence.py, power_identity.py,              *)
(* power_measurements.py, power_model.py).  A refresh reads the file,      *)
(* appends what the catalog, the manufacturers' pages, the benchmarks and  *)
(* the curated measurements say and writes it back; the service and the    *)
(* command line may both be doing so.  An estimate takes the rows at the   *)
(* narrowest identity that matches.  Watts are small numbers, a median is  *)
(* the set of the rows it is taken from, and a hardware identity is five   *)
(* facts that stand for the thirty of the code: an exact one, one that may *)
(* only conflict, and the three a row can match by.                        *)
(***************************************************************************)
EXTENDS Integers, FiniteSets

CONSTANTS
    Parts,          \* hardware in the catalog
    Identity,       \* Identity[p]: the facts known of part p
    CatalogRows,    \* CatalogRows[p]: what the catalog may say of p
    PageRows,       \* PageRows[p]: what its manufacturer's page may say
    RunIds,         \* records of the benchmarks and of the curated file
    RunRows,        \* RunRows[i]: what record i may say
    Writers,        \* processes that refresh the evidence
    MaxEdits,       \* bound on the edits of the sources
    None            \* no row, or an unknown fact

VARIABLES
    catalog,        \* catalog[p]: the catalog's row of p
    pages,          \* pages[p]: the record of p in spec-evidence.json
    runs,           \* runs[i]: record i
    evidence,       \* the observations of the file
    copy,           \* copy[w]: what writer w has read and is about to write
    stale,          \* a source was edited since the refresh that was written last began
    edits           \* number of edits so far

vars == <<catalog, pages, runs, evidence, copy, stale, edits>>

Facts == {"exact", "memory", "model", "family", "category"}

DeviceScopes == {"node", "board"}       \* USABLE_DEVICE_SCOPES
Known(x) == x # None
First(s) == IF \E i \in DOMAIN s : Known(s[i])
            THEN s[CHOOSE i \in DOMAIN s :
                     Known(s[i]) /\ \A j \in 1..(i - 1) : ~Known(s[j])]
            ELSE None

-----------------------------------------------------------------------------
(* The observations the sources yield. *)

OfCatalog(p, row) ==
    LET load == First(<<row.target, row.max>>)
    IN  [id |-> <<"catalog", p, row.scope, load>>, type |-> "spec", identity |-> Identity[p],
         idle |-> None, load |-> load, scope |-> row.scope]
HasLoad(row) == Known(row.target) \/ Known(row.max)

OfPage(p, row) ==
    [id |-> <<"page", p, row.fact>>, type |-> "spec", identity |-> Identity[p],
     idle |-> None, load |-> row.fact, scope |-> row.scope]

\* a record that overrides a fact of its part's configuration
RunIdentity(r) ==
    [Identity[r.part] EXCEPT !["memory"] = IF Known(r.memory) THEN r.memory ELSE @]

\* watts derived from throughput and efficiency have the efficiency's boundary
RunScope(r) == First(<<r.scope, r.speedScope>>)

OfRun(i, row) ==
    [id |-> <<"run", i>>, type |-> "measured", identity |-> RunIdentity(row),
     idle |-> row.idle, load |-> row.load, scope |-> RunScope(row)]
HasPower(row) == Known(row.idle) \/ Known(row.load)

CatalogObservations ==
    {OfCatalog(p, catalog[p]) : p \in {q \in Parts : HasLoad(catalog[q])}}
PageObservations ==
    {OfPage(p, pages[p]) : p \in {q \in Parts : pages[q] # None /\ Known(pages[q].fact)}}
RunObservations ==
    {OfRun(i, runs[i]) : i \in {j \in RunIds : runs[j] # None /\ HasPower(runs[j])}}

Observations == CatalogObservations \cup PageObservations \cup RunObservations

Ids(rows) == {o.id : o \in rows}

\* all that the sources may ever yield
Observable ==
    (UNION {{OfCatalog(p, row) : row \in {r \in CatalogRows[p] : HasLoad(r)}} : p \in Parts})
    \cup (UNION {{OfPage(p, row) : row \in {r \in PageRows[p] : Known(r.fact)}} : p \in Parts})
    \cup (UNION {{OfRun(i, row) : row \in {r \in RunRows[i] : HasPower(r)}} : i \in RunIds})
Copies == [read : SUBSET Observable, rows : SUBSET Observable, stale : BOOLEAN]

PowerConstantsOK ==
    /\ DOMAIN CatalogRows = Parts /\ DOMAIN PageRows = Parts /\ DOMAIN RunRows = RunIds
    /\ \A p \in Parts : DOMAIN Identity[p] = Facts
    /\ \A i \in RunIds : \A r \in RunRows[i] : r.part \in Parts
    /\ None \notin Copies
    /\ MaxEdits \in Nat

\* Faulty: a corrected row takes the place of the older one.
AddedReplacing(rows) == {o \in rows : o.id \notin Ids(Observations)} \cup Observations

Added(rows) == rows \cup {o \in Observations : o.id \notin Ids(rows)}

Eligible(o) == o.scope \in DeviceScopes

-----------------------------------------------------------------------------
(* The match of a part's identity h with an observation's identity g. *)

Same(h, g) == {f \in Facts : Known(h[f]) /\ h[f] = g[f]}
Conflicts(h, g) == Known(h["memory"]) /\ Known(g["memory"]) /\ h["memory"] # g["memory"]

Specificity(h, g) ==
    LET Weight(f, weight) == IF Known(h[f]) /\ Known(g[f]) THEN weight ELSE 0
    IN  Weight("exact", 40) + Weight("model", 12) + Weight("family", 6) + Weight("category", 1)
ExactLevel(h, g) == IF Specificity(h, g) < 59 THEN 40 + Specificity(h, g) ELSE 99

\* Faulty: a family counts as its category.
MatchLevelNoFamily(h, g) ==
    LET same == Same(h, g)
    IN  IF Conflicts(h, g) THEN 0
        ELSE IF "exact" \in same THEN ExactLevel(h, g)
        ELSE IF "model" \in same THEN 30
        ELSE IF "category" \in same THEN 10
        ELSE 0

MatchLevel(h, g) ==
    LET same == Same(h, g)
    IN  IF Conflicts(h, g) THEN 0
        ELSE IF "exact" \in same THEN ExactLevel(h, g)
        ELSE IF "model" \in same THEN 30
        ELSE IF "family" \in same THEN 20
        ELSE IF "category" \in same THEN 10
        ELSE 0

Candidates(p) ==
    {o \in evidence : Eligible(o) /\ MatchLevel(Identity[p], o.identity) > 0}
Levels(p) == {MatchLevel(Identity[p], o.identity) : o \in Candidates(p)}
BestLevel(p) ==
    LET levels == Levels(p)
    IN  IF levels = {} THEN 0 ELSE CHOOSE n \in levels : \A m \in levels : m <= n
Narrowest(p) ==
    LET best == BestLevel(p)
    IN  {o \in Candidates(p) : MatchLevel(Identity[p], o.identity) = best}

\* aggregate_power_observations: no row with a load, no aggregate
Aggregate(p) ==
    LET rows == Narrowest(p) IN IF \E o \in rows : Known(o.load) THEN rows ELSE {}

\* estimate_device_power: the first rung of the code that has evidence
Usable(p) == Aggregate(p) # {} /\ BestLevel(p) >= 2
Basis(p) ==
    IF Known(catalog[p].measured) THEN "measured"
    ELSE IF Usable(p) THEN "learned"
    ELSE IF Known(catalog[p].target) THEN "target"
    ELSE IF Known(catalog[p].max) THEN "maximum"
    ELSE IF Aggregate(p) # {} THEN "learned"
    ELSE "baseline"

\* what estimate_complete_node_power adds to it
NodeScope(p) == IF Known(catalog[p].scope) THEN catalog[p].scope
                ELSE IF Basis(p) = "learned" THEN "profile" ELSE "device"
AddsHost(p) ==
    /\ NodeScope(p) # "node"
    /\ Identity[p].category = "gpu" \/ NodeScope(p) = "board"

-----------------------------------------------------------------------------
Init ==
    /\ catalog \in {c \in [Parts -> UNION {CatalogRows[p] : p \in Parts}] :
                      \A p \in Parts : c[p] \in CatalogRows[p]}
    /\ pages = [p \in Parts |-> None]
    /\ runs = [i \in RunIds |-> None]
    /\ evidence = {}
    /\ copy = [w \in Writers |-> None]
    /\ stale = TRUE
    /\ edits = 0

\* curators and other refreshes change the sources
Edit ==
    /\ edits < MaxEdits
    /\ edits' = edits + 1
    /\ stale' = TRUE
    /\ \/ /\ \E p \in Parts : \E row \in CatalogRows[p] :
               catalog' = [catalog EXCEPT ![p] = row]
          /\ UNCHANGED <<pages, runs>>
       \/ /\ \E p \in Parts : \E row \in PageRows[p] :
               pages' = [pages EXCEPT ![p] = row]
          /\ UNCHANGED <<catalog, runs>>
       \/ /\ \E i \in RunIds : \E row \in RunRows[i] :
               runs' = [runs EXCEPT ![i] = row]
          /\ UNCHANGED <<catalog, pages>>
    /\ copy' = [w \in Writers |-> IF copy[w] = None THEN None ELSE [copy[w] EXCEPT !.stale = TRUE]]
    /\ UNCHANGED evidence

\* refresh_power_evidence reads the file and the sources, unless a curated
\* record names no boundary: normalizing it raises ...
Collect(w) ==
    /\ copy[w] = None
    /\ \A i \in RunIds : runs[i] # None => ~(runs[i].curated /\ runs[i].scope = None)
    /\ copy' = [copy EXCEPT ![w] = [read |-> evidence, rows |-> Added(evidence), stale |-> FALSE]]
    /\ UNCHANGED <<catalog, pages, runs, evidence, stale, edits>>

\* ... and writes what it read with what it added, over what others wrote meanwhile
Save(w) ==
    /\ copy[w] # None
    /\ evidence' = copy[w].rows
    /\ stale' = copy[w].stale
    /\ copy' = [copy EXCEPT ![w] = None]
    /\ UNCHANGED <<catalog, pages, runs, edits>>

Next == Edit \/ \E w \in Writers : Collect(w) \/ Save(w)

Spec == Init /\ [][Next]_vars

-----------------------------------------------------------------------------
Rows(S) == UNION {S[x] : x \in DOMAIN S}
TypeOK ==
    /\ catalog \in [Parts -> Rows(CatalogRows)]
    /\ pages \in [Parts -> Rows(PageRows) \cup {None}]
    /\ runs \in [RunIds -> Rows(RunRows) \cup {None}]
    /\ evidence \subseteq Observable /\ \A o, e \in evidence : o.id = e.id => o = e
    /\ copy \in [Writers -> Copies \cup {None}]
    /\ stale \in BOOLEAN /\ edits \in 0..MaxEdits

(* An observation that was written leaves the store only when a writer     *)
(* that had read it earlier writes over it: a refresh never takes back     *)
(* what it has read, whatever was corrected or is no longer said.          *)
LostByOverlap ==
    \A o \in evidence \ evidence' :
        \E w \in Writers : copy[w] # None /\ copy'[w] = None /\ o \notin copy[w].read

(* When no source was edited since the refresh that was written last began *)
(* to read, a further refresh would add nothing, whoever wrote meanwhile.  *)
Settles == ~stale => Ids(Observations) \subseteq Ids(evidence)

(* An energy measured on an internal rail never stands for a device, also *)
(* when it is derived with the speed of a whole one, and neither does a    *)
(* row of a configuration that conflicts with the part's.                  *)
OfRail(r) == First(<<r.scope, r.speedScope>>) = "rail"
RailNeverDevice ==
    \A p \in Parts : \A o \in Aggregate(p) :
        /\ ~Conflicts(Identity[p], o.identity)
        /\ \A i \in RunIds :
             (\A r \in RunRows[i] : OfRail(r)) => o.id # <<"run", i>>

\* How broad the fact is that an observation matches a part by.
Breadth(p, o) ==
    LET same == Same(Identity[p], o.identity)
    IN  IF "exact" \in same THEN 1 ELSE IF "model" \in same THEN 2
        ELSE IF "family" \in same THEN 3 ELSE 4

(* What counts matches by the narrowest fact that any matching row shares  *)
(* with the part: a category's row is neither averaged with a family's nor *)
(* taken before it (POWER_ESTIMATION.md's order of what is learned).       *)
NarrowestCounts ==
    \A p \in Parts :
        LET counting == {Breadth(p, o) : o \in Aggregate(p)}
        IN  counting # {} => \A e \in Candidates(p) : \A n \in counting : n <= Breadth(p, e)

\* A narrower row that only knows the idle power stands before observation o.
Hidden(p, o) ==
    \E e \in Candidates(p) :
        /\ ~Known(e.load)
        /\ MatchLevel(Identity[p], e.identity) > MatchLevel(Identity[p], o.identity)

(* Published power and the baseline stand for a part only when nothing     *)
(* that matches has a load, except what an idle-only row hides.            *)
LearnedUnlessHidden ==
    \A p \in Parts : Basis(p) \notin {"measured", "learned"} =>
        \A o \in Candidates(p) : Known(o.load) => Hidden(p, o)

-----------------------------------------------------------------------------
(* What the documents say and the code does not keep (README, section 4).  *)

(* The whole ladder of POWER_ESTIMATION.md: published power comes before   *)
(* what is learned for the category.                                       *)
LadderHolds ==
    \A p \in Parts :
        Basis(p) = "learned" =>
            \/ BestLevel(p) > 10
            \/ ~Known(catalog[p].target) /\ ~Known(catalog[p].max)

(* While an eligible row with a load matches a part, the part has learned  *)
(* evidence: a narrower row that only knows the idle power does not hide   *)
(* the family's (HARDWARE_POWER_IDENTITY.md keeps it as a fallback).       *)
FallbackAvailable ==
    \A p \in Parts :
        (\E o \in Candidates(p) : Known(o.load)) => Aggregate(p) # {}

(* The store only grows, whoever refreshes it (POWER_ESTIMATION.md calls   *)
(* it append-style).                                                       *)
AppendOnly == evidence \subseteq evidence'

(* A correction of a record reaches the store with the next refresh: only  *)
(* exact duplicates are ignored.                                           *)
CorrectionsArrive ==
    ~stale =>
        \A o \in RunObservations : \E e \in evidence : e.id = o.id /\ e = o

(* A power field that the enrichment admitted from a manufacturer's page    *)
(* becomes an observation with the next refresh.                           *)
PagesFeedPower ==
    ~stale =>
        \A p \in Parts :
            pages[p] # None => \E o \in evidence : o.id = <<"page", p, pages[p].field>>

(* A host is added to an accelerator only when no complete-node            *)
(* measurement stands behind its estimate.                                 *)
HostAddedOnce ==
    \A p \in Parts :
        (Basis(p) = "learned" /\ \A o \in Aggregate(p) : o.scope = "node") => ~AddsHost(p)
=============================================================================
