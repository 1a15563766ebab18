------------------------------ MODULE Decision ------------------------------
(***************************************************************************)
(* The recommendation of one product (decision.py, tco.py): which of its   *)
(* listings is the current offer, whether its price is a record, whether   *)
(* the offer is still fresh, and what is recommended, from the price       *)
(* history and the listing states the refreshes leave, and again when the  *)
(* cost of the complete node is taken into account.                        *)
(*                                                                         *)
(* Each listing is of a source of its own and is found by every profile;   *)
(* a profile's queries are a scope.  A unit of time is 12 hours, one poll  *)
(* per unit.  Scores are percentages; fit and confidence are constants of  *)
(* the product.  Trend and volatility are left open once there are the     *)
(* three prices they need.                                                 *)
(***************************************************************************)
EXTENDS Integers, Sequences, FiniteSets, Functions

CONSTANTS
    Listings, Scopes,
    ScopeOrder,         \* the scopes in the order of their keys in listing-state.json
    Foreign,            \* the listings in the foreign currency, the others are in CAD
    Prices, Rates,
    Ttl,                \* [Listings -> Nat]: hours an offer stays fresh, by its source's kind
    Fit, Confidence,    \* of the product
    Research,           \* may the product be a research platform? a set of Booleans
    TcoPercentiles,     \* rank of the complete node's cost among all products
    MaxPolls

DecisionConstantsOK ==
    /\ IsFiniteSet(Listings) /\ Foreign \subseteq Listings /\ Range(ScopeOrder) = Scopes
    /\ Prices \subseteq Nat \ {0} /\ Rates \subseteq Nat \ {0}
    /\ Ttl \in [Listings -> Nat] /\ Fit \in 0 .. 100 /\ Confidence \in 0 .. 100
    /\ Research \subseteq BOOLEAN /\ TcoPercentiles \subseteq 0 .. 100 /\ MaxPolls \in Nat

VARIABLES
    now, rate,
    experimental,
    rows,       \* price history of the product, oldest first
    marks,      \* listing state by scope
    latest,     \* observed: what the last poll that reached a listing found (0: nothing)
    stage,      \* is the published report before or after the cost of the node?
    report

vars == <<now, rate, experimental, rows, marks, latest, stage, report>>

Classes == {"Buy", "Watch", "Ignore", "Experimental"}
None == [current |-> 0, expired |-> FALSE, low |-> FALSE, score |-> 0, class |-> "Ignore"]

TypeOK ==
    /\ now \in 0 .. MaxPolls + 1 /\ rate \in Rates /\ experimental \in Research
    /\ rows \in Seq([listing : Listings, price : Prices, at : 1 .. MaxPolls])
    /\ marks \in [Scopes -> [Listings -> {"none", "active", "gone"}]]
    /\ stage \in {"none", "decided", "costed"}
    /\ report.current \in 0 .. Len(rows) /\ report.score \in 0 .. 100 /\ report.class \in Classes
    /\ {report.expired, report.low} \subseteq BOOLEAN

Init ==
    /\ now = 0 /\ rate \in Rates /\ experimental \in Research /\ rows = <<>>
    /\ marks = [s \in Scopes |-> [l \in Listings |-> "none"]]
    /\ latest = [l \in Listings |-> 0] /\ stage = "none" /\ report = None

-----------------------------------------------------------------------------
(* What the refreshes leave *)

\* append_price_observations and update_listing_presence for the sources that answered
Poll(scope) ==
    /\ now < MaxPolls /\ now' = now + 1
    /\ \E answered \in SUBSET Listings : \E found \in [answered -> Prices \cup {0}] :
         LET offered == {l \in answered : found[l] # 0}
             order == CHOOSE f \in Bijection(1 .. Cardinality(offered), offered) : TRUE IN
         /\ rows' = rows \o [i \in DOMAIN order |-> [listing |-> order[i], price |-> found[order[i]], at |-> now']]
         /\ marks' = [marks EXCEPT ![scope] = [l \in Listings |->
                CASE l \in offered -> "active"
                  [] l \in answered \ offered /\ @[l] = "active" -> "gone"
                  [] OTHER -> @[l]]]
         /\ latest' = [l \in Listings |-> IF l \in answered THEN found[l] ELSE latest[l]]
    /\ stage' = "none" /\ report' = None /\ UNCHANGED <<rate, experimental>>

\* refresh_bank_of_canada_fx
NewRate ==
    /\ now > 0 /\ \E r \in Rates \ {rate} : rate' = r
    /\ stage' = "none" /\ report' = None /\ UNCHANGED <<now, rows, marks, latest, experimental>>

\* Time passes without a poll.
Wait ==
    /\ now <= MaxPolls /\ now' = now + 1
    /\ stage' = "none" /\ report' = None /\ UNCHANGED <<rate, rows, marks, latest, experimental>>

-----------------------------------------------------------------------------
(* price_statistics *)

Cad(row) == row.price * (IF row.listing \in Foreign THEN rate ELSE 1)

\* _state_map: one state for a listing; the later key of the file wins, whatever its age.
State(l) ==
    LET known == {i \in DOMAIN ScopeOrder : marks[ScopeOrder[i]][l] # "none"} IN
    IF known = {} THEN "active"
    ELSE marks[ScopeOrder[CHOOSE i \in known : \A j \in known : j <= i]][l]

LatestRows == {i \in DOMAIN rows : \A j \in DOMAIN rows : j > i => rows[j].listing # rows[i].listing}
ActiveLatest == {i \in LatestRows : State(rows[i].listing) = "active"}

\* Faulty: of every listing, gone ones too.
CurrentOfAll ==
    IF LatestRows = {} THEN 0
    ELSE CHOOSE i \in LatestRows : \A j \in LatestRows :
            Cad(rows[i]) < Cad(rows[j]) \/ (Cad(rows[i]) = Cad(rows[j]) /\ i <= j)

\* the cheapest of them in CAD, the first of several
Current ==
    IF ActiveLatest = {} THEN 0
    ELSE CHOOSE i \in ActiveLatest : \A j \in ActiveLatest :
            Cad(rows[i]) < Cad(rows[j]) \/ (Cad(rows[i]) = Cad(rows[j]) /\ i <= j)

Percentile(i) == (100 * Cardinality({j \in DOMAIN rows : Cad(rows[j]) <= Cad(rows[i])})) \div Len(rows)

SameCurrency(i, j) == rows[i].listing \in Foreign <=> rows[j].listing \in Foreign

\* new_all_time_low: below every earlier price in the listing's own currency
NewLow(i) ==
    LET prior == {j \in DOMAIN rows : SameCurrency(i, j) /\ rows[j].at < rows[i].at} IN
    prior # {} /\ \A j \in prior : rows[i].price < rows[j].price

\* Trend and volatility of the last prices: what they add to the price score, and the stability.
Movements ==
    IF Len(rows) < 3 THEN {[adds |-> 0, stability |-> 55]}
    ELSE {[adds |-> 6, stability |-> 100], [adds |-> -6, stability |-> 70], [adds |-> -10, stability |-> 15]}

-----------------------------------------------------------------------------
(* opportunity_status and evaluate_candidate *)

\* Faulty: freshness counts from now.
ExpiredNever(i) == State(rows[i].listing) # "active" \/ Ttl[rows[i].listing] <= 0

HoursLeft(i) == Ttl[rows[i].listing] - 12 * (now - rows[i].at)
Expired(i) == State(rows[i].listing) # "active" \/ HoursLeft(i) <= 0

Freshness(i) ==
    CASE i = 0 -> 30
      [] i # 0 /\ Expired(i) -> 0
      [] i # 0 /\ ~Expired(i) -> IF HoursLeft(i) <= 6 THEN 45 ELSE IF HoursLeft(i) <= 24 THEN 72 ELSE 100

Clamped(x) == IF x < 0 THEN 0 ELSE IF x > 100 THEN 100 ELSE x

PriceScore(i, movement) ==
    IF i = 0 THEN 15
    ELSE Clamped(100 - Percentile(i) + (IF NewLow(i) THEN 15 ELSE 0) + movement.adds)

Score(i, movement) ==
    LET raw == (35 * PriceScore(i, movement) + 25 * Fit + 20 * Confidence
                    + 10 * Freshness(i) + 10 * movement.stability) \div 100 IN
    IF i = 0 /\ raw > 59 THEN 59 ELSE Clamped(raw)

Favorable(i, score) ==
    /\ score >= 72 /\ i # 0 /\ ~Expired(i) /\ Confidence >= 50 /\ Fit >= 25
    /\ NewLow(i) \/ Percentile(i) <= 35

Class(i, score) ==
    CASE experimental -> "Experimental"
      [] ~experimental /\ Favorable(i, score) -> "Buy"
      [] ~experimental /\ ~Favorable(i, score) ->
            IF score >= 45 \/ (Fit >= 50 /\ Confidence >= 55) THEN "Watch" ELSE "Ignore"

\* generate_daily_recommendations
Decide ==
    /\ stage # "decided" /\ stage' = "decided"
    /\ \E movement \in Movements :
         LET i == Current IN
         report' = [current |-> i, expired |-> i # 0 /\ Expired(i), low |-> i # 0 /\ NewLow(i),
                    score |-> Score(i, movement), class |-> Class(i, Score(i, movement))]
    /\ UNCHANGED <<now, rate, rows, marks, latest, experimental>>

-----------------------------------------------------------------------------
(* apply_tco_to_summary *)

\* the score with the rank of the node's cost; two penalties of 5 for what comes on top of the price
Adjusted(score, percentile, penalty) == Clamped((75 * score + 25 * (100 - percentile)) \div 100 - penalty)

Reclassed(class, score, priced) ==
    CASE class = "Experimental" -> class
      [] class # "Experimental" /\ ~priced -> IF class = "Buy" THEN "Watch" ELSE class
      [] class # "Experimental" /\ priced ->
            IF score >= 72 /\ class \in {"Buy", "Watch"} THEN "Buy"
            ELSE IF score >= 45 THEN "Watch" ELSE "Ignore"

\* A missing component price leaves the node without a total.
ApplyTco ==
    /\ stage = "decided" /\ stage' = "costed"
    /\ \E percentile \in TcoPercentiles, penalty \in {0, 5, 10}, complete \in BOOLEAN :
         LET priced == report.current # 0 /\ complete
             score == IF priced THEN Adjusted(report.score, percentile, penalty)
                      ELSE IF report.score > 59 THEN 59 ELSE report.score IN
         report' = [report EXCEPT !.score = score, !.class = Reclassed(report.class, score, priced)]
    /\ UNCHANGED <<now, rate, rows, marks, latest, experimental>>

Next == (\E s \in Scopes : Poll(s)) \/ NewRate \/ Wait \/ Decide \/ ApplyTco

Spec == Init /\ [][Next]_vars

-----------------------------------------------------------------------------
(* Properties *)

Published == stage # "none" /\ report.current # 0
Offer == rows[report.current]

\* A product is a Buy, before the cost of the node counts, only for an offer that is at its
\* price still, as far as its source was asked, and was seen within its time.
BuyIsLive ==
    stage = "decided" /\ report.class = "Buy" =>
        /\ report.current # 0 /\ latest[Offer.listing] = Offer.price
        /\ 12 * (now - Offer.at) < Ttl[Offer.listing]

\* The same of the report that is kept in the end.
BuyStaysLive ==
    stage = "costed" /\ report.class = "Buy" =>
        /\ report.current # 0 /\ latest[Offer.listing] = Offer.price
        /\ 12 * (now - Offer.at) < Ttl[Offer.listing]

\* A Buy with its cost has a price, and a research platform is never one.
BuyIsPriced == report.class = "Buy" => report.current # 0 /\ ~experimental

\* The rate of exchange makes no record: whatever it is, a record is below what its own
\* sellers' prices were before.
RecordIsSellers ==
    Published /\ report.low =>
        \A j \in DOMAIN rows : j < report.current /\ SameCurrency(j, report.current) /\ rows[j].at < Offer.at
            => Offer.price < rows[j].price

\* No lower price than a record was ever observed in its currency.
RecordIsLowest ==
    Published /\ report.low =>
        \A j \in DOMAIN rows : SameCurrency(j, report.current) => Offer.price <= rows[j].price

\* The offer is of a listing the last poll that reached it found, at the price it found.
CurrentIsOffered == Published => latest[Offer.listing] = Offer.price

=============================================================================
