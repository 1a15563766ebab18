--------------------------- MODULE SpecEnrichment ---------------------------
(***************************************************************************)
(* Compatibility facts of the sourced parts (spec_enrichment.py,           *)
(* manufacturer_discovery.py, structured_specs.py, bom_sourcing.py).  A    *)
(* refresh rebuilds each listing's facts from its title, finds the page of *)
(* its maker - a curated association, a cached one, or a search of the     *)
(* official site - and fills in what the page's parts say, the strongest   *)
(* part first.  A field's value stands for the part it was read from.  A   *)
(* page may become another product's at any time, and name part numbers    *)
(* and terms of others.                                                    *)
(***************************************************************************)
EXTENDS Integers, Sequences, Functions

CONSTANTS
    Listings,       \* listings of one maker, in the order they are enriched
    Product,        \* Product[l]: the part number a listing names, or None
    Curated,        \* products with a curated association
    Asked,          \* Asked[p]: its verify_terms_any
    Titled,         \* Titled[l]: the fields its title already tells
    Fields,         \* compatibility fields
    Pages,          \* the contents a page may have: the product it shows, names on it, facts
    Ttl,            \* cache_ttl_days
    MaxDays,        \* bound on the days
    None

VARIABLES
    page,           \* page[p]: the page of product p
    cache,          \* cache[p]: its row of manufacturer-associations.json
    facts,          \* facts[l]: compatibility_facts, by the part read from
    proof,          \* proof[l]: compatibility_fact_provenance
    seen,           \* seen[l]: the page its facts were read from
    task,           \* the listing being enriched, and how far
    day             \* days since the start

vars == <<page, cache, facts, proof, seen, task, day>>

Task == [listing : Listings, at : {"associate", "fetch", "ingest"}, html : Pages \cup {None}]
Association == [status : {"verified", "not_verified"}, at : 0 .. MaxDays]

EnrichmentConstantsOK ==
    /\ DOMAIN Product = Listings /\ Curated \subseteq DOMAIN Asked /\ Ttl \in Nat /\ MaxDays \in Nat
    /\ None \notin Task \cup Association \cup Pages
    /\ None \notin {"curated", "jsonld", "table", "identity", "support", "pdf", "text", "title"}

Products == {Product[l] : l \in DOMAIN Product} \ {None}
Blank == [f \in Fields |-> None]

\* Faulty: the last part wins.
FillOver(base, tier, offered) ==
    [f \in Fields |-> IF f \in offered THEN tier ELSE base[f]]

\* _merge and _fill_missing: what is there stays
Fill(base, tier, offered) ==
    [f \in Fields |-> IF base[f] = None /\ f \in offered THEN tier ELSE base[f]]

\* the fields a parser finds on a page: the curated rules, one structured
\* part, or the flattened text
CuratedFields(content) == content.offers.curated
StructuredFields(content, tier) == content.offers[tier]
TextFields(content) == content.offers.text

\* the text of an automatic page comes last
StructuredFrom(base, content) ==
    LET Then(b, tier) == Fill(b, tier, StructuredFields(content, tier))
    IN  Then(Then(Then(Then(Then(base, "jsonld"), "table"), "identity"), "support"), "pdf")
Ingested(content, curated) ==
    IF curated
    THEN StructuredFrom(Fill(Blank, "curated", CuratedFields(content)), content)
    ELSE Fill(StructuredFrom(Blank, content), "text", TextFields(content))

\* dict.update: the new facts replace the old ones of the same field
Updated(old, new) == [f \in Fields |-> IF new[f] # None THEN new[f] ELSE old[f]]

Fresh(row) == row # None /\ day - row.at <= Ttl

-----------------------------------------------------------------------------
Init ==
    /\ page \in [Products -> Pages]
    /\ cache = [p \in Products |-> None]
    /\ facts = [l \in Listings |-> Blank]
    /\ proof = [l \in Listings |-> Blank]
    /\ seen = [l \in Listings |-> None]
    /\ task = None
    /\ day = 0

\* rank_bom_listing: a refresh starts from the title's facts
Source(l) ==
    /\ task = None
    /\ facts' = [facts EXCEPT ![l] = Fill(Blank, "title", Titled[l])]
    /\ proof' = [proof EXCEPT ![l] = Blank]
    /\ seen' = [seen EXCEPT ![l] = None]
    /\ task' = [listing |-> l, at |-> "associate", html |-> None]
    /\ UNCHANGED <<page, cache, day>>

Unassociated ==
    /\ task' = None
    /\ UNCHANGED <<page, cache, facts, proof, seen, day>>

\* nothing is known of the product, or a search failed within the cache's time
Skip ==
    /\ task # None /\ task.at = "associate"
    /\ LET p == Product[task.listing]
       IN  \/ p = None
           \/ /\ p \in Products \ Curated
              /\ Fresh(cache[p])
              /\ cache[p].status = "not_verified"
    /\ Unassociated

\* a curated association, or an unexpired verified one, names the page
Associate ==
    /\ task # None /\ task.at = "associate"
    /\ LET p == Product[task.listing]
       IN  /\ p # None
           /\ \/ p \in Curated
              \/ Fresh(cache[p]) /\ cache[p].status = "verified"
    /\ task' = [task EXCEPT !.at = "fetch"]
    /\ UNCHANGED <<page, cache, facts, proof, seen, day>>

\* discover_manufacturer_association: the candidates the official site yields are
\* scored, and the verdict is cached either way. Without the part number none has
\* the score; with it a page may have, whichever product it shows.
Searches(p) == p # None /\ p \notin Curated /\ ~Fresh(cache[p])
Remembered(status) == [status |-> status, at |-> day]

Discover ==
    /\ task # None /\ task.at = "associate"
    /\ LET p == Product[task.listing]
       IN  /\ Searches(p)
           /\ p \in page[p].names
           /\ cache' = [cache EXCEPT ![p] = Remembered("verified")]
           /\ task' = [task EXCEPT !.at = "ingest", !.html = page[p]]
    /\ UNCHANGED <<page, facts, proof, seen, day>>

\* ... unverified, also when the site did not answer
DiscoverNothing ==
    /\ task # None /\ task.at = "associate"
    /\ LET p == Product[task.listing]
       IN  /\ Searches(p)
           /\ cache' = [cache EXCEPT ![p] = Remembered("not_verified")]
    /\ task' = None
    /\ UNCHANGED <<page, facts, proof, seen, day>>

\* Faulty: no page is looked at again.
ShownAnything(p, content) == TRUE

\* enrich_candidate: one of the terms of the curated association is on the page, if
\* it has any; a page that was found is not looked at again
Shown(p, content) ==
    p \in Curated => Asked[p] = {} \/ Asked[p] \cap content.names # {}

Fetch ==
    /\ task # None /\ task.at = "fetch"
    /\ Shown(Product[task.listing], page[Product[task.listing]])
    /\ task' = [task EXCEPT !.at = "ingest", !.html = page[Product[task.listing]]]
    /\ UNCHANGED <<page, cache, facts, proof, seen, day>>

\* it cannot be fetched, or is no longer the curated product's
FetchFails ==
    /\ task # None /\ task.at = "fetch"
    /\ Unassociated

Ingest ==
    /\ task # None /\ task.at = "ingest"
    /\ LET l == task.listing
           new == Ingested(task.html, Product[l] \in Curated)
       IN  /\ facts' = [facts EXCEPT ![l] = Updated(@, new)]
           /\ proof' = [proof EXCEPT ![l] = Updated(@, new)]
           /\ seen' = [seen EXCEPT ![l] = task.html]
    /\ task' = None
    /\ UNCHANGED <<page, cache, day>>

\* the makers change their pages
PageChanges ==
    /\ \E p \in Products : \E content \in Pages : page' = [page EXCEPT ![p] = content]
    /\ UNCHANGED <<cache, facts, proof, seen, task, day>>

Tomorrow ==
    /\ task = None /\ day < MaxDays
    /\ day' = day + 1
    /\ UNCHANGED <<page, cache, facts, proof, seen, task>>

Next ==
    \/ \E l \in Listings : Source(l)
    \/ Skip \/ Associate \/ Discover \/ DiscoverNothing
    \/ Fetch \/ FetchFails \/ Ingest
    \/ PageChanges \/ Tomorrow

Spec == Init /\ [][Next]_vars

-----------------------------------------------------------------------------
Ladder == <<"curated", "jsonld", "table", "identity", "support", "pdf", "text", "title">>
Rank(tier) == CHOOSE i \in 1..Len(Ladder) : Ladder[i] = tier

TypeOK ==
    /\ \A p \in Products :
         cache[p] # None => cache[p] \in Association /\ cache[p].at <= day
    /\ \A l \in Listings : \A f \in Fields :
         /\ facts[l][f] \in Range(Ladder) \cup {None}
         /\ proof[l][f] \in Range(Ladder) \cup {None}
    /\ task \in Task \cup {None}
    /\ day \in 0..MaxDays

(* The evidence priority of STRUCTURED_MANUFACTURER_INGESTION.md, field by *)
(* field: no weaker part overwrites what a stronger one of the same page   *)
(* says, and the title gives way to any of them.                           *)
Offers(l, tier) ==
    CASE tier = "curated" -> IF Product[l] \in Curated THEN CuratedFields(seen[l]) ELSE {}
      [] tier = "text"    -> IF Product[l] \in Curated THEN {} ELSE TextFields(seen[l])
      [] tier = "title"   -> Titled[l]
      [] OTHER            -> StructuredFields(seen[l], tier)
StrongestWins ==
    \A l \in Listings : seen[l] # None =>
        \A f \in Fields : \A i \in 1..Len(Ladder) :
            f \in Offers(l, Ladder[i]) =>
                facts[l][f] # None /\ Rank(facts[l][f]) <= i

(* A fact with a provenance has the value the provenance tells, and only   *)
(* the title's facts have none.                                            *)
ProofMatches ==
    \A l \in Listings : \A f \in Fields :
        proof[l][f] = IF facts[l][f] = "title" THEN None ELSE facts[l][f]

(* Facts are read for a product without a curated association only while a *)
(* verified association of it is at most Ttl days old.                     *)
StandsOnVerified ==
    (task # None /\ task.at # "associate" /\ Product[task.listing] \notin Curated) =>
        LET row == cache[Product[task.listing]]
        IN  row # None /\ row.status = "verified" /\ row.at + Ttl >= day

(* Whoever asks, a search is not repeated within the cache's time: a       *)
(* verdict changes only when it has expired.                               *)
VerdictKept ==
    \A p \in Products :
        cache[p]' # cache[p] => cache[p] = None \/ day - cache[p].at > Ttl

\* The association of p asks for what is on no other product's page.
OwnTerms(p) ==
    Asked[p] # {} /\ \A content \in Pages : Asked[p] \cap content.names # {} => content.shows = p

(* Of a product whose curated association asks for terms of its own, facts *)
(* are read only from a page that shows it.  Generic terms, or none, let   *)
(* other pages pass, and so does a search that meets the part number.      *)
IdentityOnPage ==
    \A l \in Listings :
        seen[l] # None /\ Product[l] \in Curated /\ OwnTerms(Product[l]) =>
            seen[l].shows = Product[l]
=============================================================================
