---------------------------- MODULE BootReadiness ----------------------------
(***************************************************************************)
(* Will a board start the CPU it is paired with (compatibility.py,         *)
(* firmware_readiness.py, seller_firmware.py, factory_firmware.py,         *)
(* bios_versioning.py, firmware_history.py)?  The CPU's row of the         *)
(* maker's support table names the oldest firmware that knows it; what the *)
(* board runs is told by the maker's page, by the maker's rules about      *)
(* serials, revisions and stickers, or by the seller.  The board's owner   *)
(* may update it, the seller reword the listing and the maker its page     *)
(* between enrichments.                                                    *)
(***************************************************************************)
EXTENDS Integers, Sequences, Functions

CONSTANTS
    Boards,         \* boards: vendor, model, revision, serial, factory version
    Versions,       \* versions: [train, series, number, stable], all letters
                    \* of a beta being one
    Minimum,        \* Minimum[vendor]: the firmware the CPU really needs
    Cpu,            \* the CPU's model
    Names,          \* the names its listing gives it
    Inside,         \* <<a, b>>: name a is a part of name b
    Pages,          \* what the maker's page may say
    Rules,          \* the maker's factory rules
    None

VARIABLES
    board,          \* the board sold, with the version it runs
    said,           \* what the seller states of it, and the version it ran then
    page,           \* the maker's page
    doc             \* the structured document of the last enrichment

vars == <<board, said, page, doc>>

Claims == {"installed", "revision", "label", "serial"}

Vendors == DOMAIN Versions
BootConstantsOK ==
    /\ \A b \in Boards :
         /\ DOMAIN b = {"vendor", "model", "revision", "serial", "factory", "runs"}
         /\ b.vendor \in Vendors /\ b.factory \in Versions[b.vendor]
    /\ \A vendor \in Vendors :
         /\ None \notin Versions[vendor] /\ Minimum[vendor] \in Versions[vendor] \cup {None}
         /\ \A v \in Versions[vendor] : v.number \in Int /\ v.stable \in BOOLEAN
         /\ \A p \in Pages[vendor] :
              /\ p.rows \in Seq(Range(p.rows))
              /\ \A r \in Range(p.rows) : r.minimum \in Versions[vendor] \cup {None}
    /\ \A r \in Rules : r.vendor \in Vendors /\ r.version \in Versions[r.vendor] \cup {None}
    /\ None \notin BOOLEAN

\* Faulty: any two versions of a vendor have an order.
OrderedSeries(vendor, v, w) == vendor # "generic"

\* the versions compare_bios_versions puts in order
Ordered(vendor, v, w) ==
    \/ v = w
    \/ vendor \in {"msi", "asrock"} /\ v.series = w.series
    \/ vendor \in {"asus", "gigabyte"}

AtLeast(vendor, v, w) ==
    \/ v = w
    \/ v.number > w.number
    \/ v.number = w.number /\ vendor = "gigabyte" /\ v.stable

\* shipped_bios_meets_requirement: TRUE, FALSE or, when no order is known, None
MeetsMinimum(vendor, v, minimum) ==
    IF v = None \/ minimum = None \/ ~Ordered(vendor, v, minimum)
    THEN {None} ELSE {AtLeast(vendor, v, minimum)}

\* _cpu_row_match_score
MatchScore(row) ==
    IF row.cpu \in Names THEN 100
    ELSE IF \E n \in Names : <<row.cpu, n>> \in Inside THEN 90
    ELSE IF \E n \in Names : <<n, row.cpu>> \in Inside THEN 80 ELSE 0

StatusOfAbsent(complete) == IF complete THEN "unsupported" ELSE "unresolved"

\* evaluate_cpu_bios_pair: the first of the rows that match best
BestRows(rows) ==
    {i \in DOMAIN rows : /\ MatchScore(rows[i]) > 0
                         /\ \A j \in DOMAIN rows : MatchScore(rows[j]) <= MatchScore(rows[i])}
BestRow(rows) ==
    IF BestRows(rows) = {} THEN 0
    ELSE CHOOSE i \in BestRows(rows) : \A j \in BestRows(rows) : i <= j
Pair(p) ==
    LET i == BestRow(p.rows)
    IN  IF p.rows = <<>> THEN [status |-> "unresolved", minimum |-> None, cpu |-> None]
        ELSE IF i = 0
        THEN [status |-> StatusOfAbsent(p.complete), minimum |-> None, cpu |-> None]
        ELSE [status |-> IF p.rows[i].unsupported THEN "unsupported" ELSE "supported",
              minimum |-> p.rows[i].minimum, cpu |-> p.rows[i].cpu]

\* resolve_factory_firmware: the best rule about what the listing states; the
\* listing it is given names no model, so that a rule's model decides nothing
Stated(seller, what, value) == IF what \in seller THEN value ELSE None
RuleVersion(rule, seller, b) ==
    CASE rule.kind = "label" -> Stated(seller, "label", b.factory)
      [] rule.kind = "serial" /\ "serial" \in seller /\ b.serial = rule.key -> rule.version
      [] rule.kind = "revision" /\ "revision" \in seller /\ b.revision = rule.key -> rule.version
      [] OTHER -> None
RuleScore(rule) == CASE rule.kind = "serial" -> 100 [] rule.kind = "label" -> 98
                     [] rule.kind = "revision" -> 80
Applies(rule, b) == rule.vendor = b.vendor
FactoryRules(seller, b) ==
    LET matching == {r \in Rules : Applies(r, b) /\ RuleVersion(r, seller, b) # None}
    IN  {r \in matching : \A q \in matching : RuleScore(q) <= RuleScore(r)}

\* bios_history_for_revision: only rows of the stated revision corroborate
InHistory(p, v, seller, b) == "revision" \in seller /\ <<v, b.revision>> \in p.history

\* correlate_seller_firmware
FactoryMeets(seller, b, minimum) ==
    UNION {MeetsMinimum(b.vendor, RuleVersion(r, seller, b), minimum) : r \in FactoryRules(seller, b)}
SellerMeets(seller, v, b, minimum) ==
    IF "installed" \in seller THEN MeetsMinimum(b.vendor, v, minimum) ELSE {None}

Verdict(readiness, score, cpu) == [readiness |-> readiness, score |-> score, cpu |-> cpu]

Recovery(p, sellerMeets) ==
    CASE p.flashback = "cpu_less" -> <<"cpu_less_recovery", 88>>
      [] p.flashback = "supported" -> <<"flashback_detected", 78>>
      [] p.flashback = "unsupported" -> <<"high_friction", 48>>
      [] OTHER -> <<"recovery_unknown", 62>>

\* boot_readiness_score
Readiness(p, seller, installed, b) ==
    LET pair == Pair(p)
        sellerMeets == SellerMeets(seller, installed, b, pair.minimum)
        recovery == Recovery(p, sellerMeets)
    IN  CASE pair.status = "unsupported" -> Verdict("not_bootable", 0, pair.cpu)
          [] pair.status = "unresolved" ->
               IF p.flashback = "cpu_less" THEN Verdict("unresolved_recoverable", 54, pair.cpu)
               ELSE Verdict("unresolved", 34, pair.cpu)
          [] OTHER ->
               IF pair.minimum = None THEN Verdict("ready_by_support", 96, pair.cpu)
               ELSE IF MeetsMinimum(b.vendor, p.shipped, pair.minimum) = {TRUE}
               THEN Verdict("ready_verified", 98, pair.cpu)
               ELSE IF TRUE \in FactoryMeets(seller, b, pair.minimum)
               THEN Verdict("ready_factory", 98, pair.cpu)
               ELSE IF sellerMeets = {TRUE}
               THEN IF InHistory(p, installed, seller, b)
                    THEN Verdict("ready_correlated", 94, pair.cpu)
                    ELSE Verdict("ready_claimed", 90, pair.cpu)
               ELSE Verdict(recovery[1], recovery[2], pair.cpu)

-----------------------------------------------------------------------------
\* what makers publish and boards leave the factory with is true
Later(v, w) == v.train = w.train /\ v.number >= w.number /\ (w.stable => v.number > w.number \/ v.stable)
Honest(p, b) == p.shipped \in {None, b.factory}

Init ==
    /\ \E b \in Boards : board = [b EXCEPT !.runs = b.factory]
    /\ said = [claims |-> {}, runs |-> None]
    /\ \E p \in Pages[board.vendor] : Honest(p, board) /\ page = p
    /\ doc = None

\* the owner updates the board
Update(v) ==
    /\ v # board.runs /\ Later(v, board.runs)
    /\ board' = [board EXCEPT !.runs = v]
    /\ UNCHANGED <<said, page, doc>>

\* the seller rewords the listing
Restate(claims) ==
    /\ said' = [claims |-> claims, runs |-> IF "installed" \in claims THEN board.runs ELSE None]
    /\ said' # said
    /\ UNCHANGED <<board, page, doc>>

\* the maker changes its page
Publish(p) ==
    /\ p # page /\ Honest(p, board)
    /\ page' = p
    /\ UNCHANGED <<board, said, doc>>

\* enrich_candidate: the seller's evidence rides with the page's, if it names a
\* revision or a version
Forwarded(claims) == IF claims \cap {"revision", "installed"} # {} THEN claims ELSE {}

Enrich ==
    /\ doc' = [page |-> page, seller |-> Forwarded(said.claims), stated |-> said.claims, runs |-> said.runs]
    /\ UNCHANGED <<board, said, page>>

Next ==
    \/ \E v \in Versions[board.vendor] : Update(v)
    \/ \E claims \in SUBSET Claims : Restate(claims)
    \/ \E p \in Pages[board.vendor] : Publish(p)
    \/ Enrich

Spec == Init /\ [][Next]_vars

-----------------------------------------------------------------------------
\* evaluate_build_compatibility, of the documents as they are
Judged(seller, runs) == Readiness(doc.page, seller, runs, board)
Judgement == Judged(doc.seller, doc.runs)

Ready == {"ready_by_support", "ready_verified", "ready_factory", "ready_correlated", "ready_claimed"}

\* The state is of its type, an enrichment takes along nothing the listing does
\* not state, and readiness is what scores at least 90.
TypeOK ==
    /\ board.runs \in Versions[board.vendor]
    /\ said.claims \subseteq Claims /\ said.runs \in Versions[board.vendor] \cup {None}
    /\ page \in Pages[board.vendor]
    /\ doc # None =>
         /\ doc.seller \subseteq doc.stated
         /\ Judgement.readiness \in Ready <=> Judgement.score >= 90

\* Makers number the versions of a series, or all of theirs, in one train; the row that
\* matches best names a firmware that knows the CPU; and factory rules are true.
Truthful ==
    /\ \A vendor \in Vendors : \A v, w \in Versions[vendor] :
         v.series = w.series \/ vendor \in {"asus", "gigabyte"} => v.train = w.train
    /\ \A vendor \in Vendors : \A p \in Pages[vendor] :
         Pair(p).status = "supported" /\ Minimum[vendor] # None =>
             Pair(p).minimum # None /\ Later(Pair(p).minimum, Minimum[vendor])
    /\ \A b \in Boards, r \in Rules :
         /\ r.vendor = b.vendor
         /\ <<r.kind, r.key>> \in {<<"serial", b.serial>>, <<"revision", b.revision>>}
         => Later(b.factory, r.version)

\* A board said to be ready runs a firmware that knows the CPU: no order of
\* versions is taken for granted (bios_versioning.py), no row of another CPU and
\* no rule of another board (docs/BIOS_VERSIONING.md: "An unresolved comparison
\* never becomes an implicit success").
NoFalseReadiness ==
    doc # None /\ Judgement.readiness \in Ready
        => Minimum[board.vendor] = None \/ Later(board.runs, Minimum[board.vendor])

\* A board is given up only when its maker's table says so (docs/BIOS_PAIR
\* _COMPATIBILITY.md: a CPU may be missing from an incomplete table).
RefusedByTable ==
    doc # None /\ Judgement.score = 0
        => doc.page.complete \/ \E i \in DOMAIN doc.page.rows : doc.page.rows[i].unsupported

\* A seller's words never cost a board what its maker's evidence gives it, and
\* alone they never put it beside one its maker vouches for.
SellerStaysBelow ==
    doc # None =>
        LET without == Judged({}, None).score
            with == Judgement.score
        IN  /\ with >= without
            /\ with > without /\ with = 98 => FactoryRules(doc.seller, board) # {}

\* The firmware required is the one of the CPU's own row.
RowIsTheCpus == doc # None => Judgement.cpu \in {None, Cpu}

\* A rule about one model decides nothing about a board of another.
OwnRulesOnly ==
    doc # None => \A r \in FactoryRules(doc.seller, board) : r.model \in {None, board.model}

\* A sticker a seller reads out counts as the maker documents it.
LabelCounts ==
    doc # None /\ "label" \in doc.stated /\ (\E r \in Rules : r.kind = "label" /\ Applies(r, board))
        => \E r \in FactoryRules(doc.seller, board) : r.kind \in {"label", "serial"}
=============================================================================
