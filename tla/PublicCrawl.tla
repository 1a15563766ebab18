---------------------------- MODULE PublicCrawl -----------------------------
(***************************************************************************)
(* How a public source finds its product pages (public_discovery.py,       *)
(* discover_urls): index pages, feeds and sitemaps are read breadth first  *)
(* from the seeds, within bounds on the indexes read, on those waiting and *)
(* on the pages found.  What the web links to is chosen at the start.      *)
(***************************************************************************)
EXTENDS Integers, Sequences, FiniteSets, Functions

CONSTANTS
    Indexes, Seeds,     \* Seeds: in the configured order
    Pages,
    Foreign,            \* indexes and pages on another host than the seeds
    Excluded,           \* pages the patterns leave out
    SameHost,
    MaxIndex, MaxPages  \* max_index_pages, max_candidate_pages

SeedSet == Range(Seeds)

CrawlConstantsOK ==
    /\ IsFiniteSet(Indexes) /\ IsFiniteSet(Pages)
    /\ Seeds \in Seq(Indexes \ Foreign) /\ IsInjective(Seeds)
    /\ SameHost \in BOOLEAN /\ MaxIndex \in Nat \ {0} /\ MaxPages \in Nat \ {0}

VARIABLES
    web,            \* the pages and, of a sitemap index, the child sitemaps an index links to
    queue, visited,
    candidates,
    stage           \* crawl, done or failed

vars == <<web, queue, visited, candidates, stage>>

TypeOK ==
    /\ web \in [Indexes -> [pages : SUBSET Pages, children : SUBSET Indexes]]
    /\ queue \in Seq(Indexes) /\ IsInjective(queue)
    /\ Len(queue) <= Len(Seeds) \/ Len(queue) <= 2 * MaxIndex
    /\ visited \subseteq Indexes /\ Cardinality(visited) <= MaxIndex
    /\ candidates \subseteq Pages /\ Cardinality(candidates) <= MaxPages
    /\ stage \in {"crawl", "done", "failed"}

\* extract_xml_links gives a sitemap index's children, or a page list.
Contents == {c \in [pages : SUBSET Pages, children : SUBSET Indexes] :
                c.pages = {} \/ c.children = {}}

Init ==
    /\ web \in [Indexes -> Contents]
    /\ queue = Seeds /\ visited = {} /\ candidates = {} /\ stage = "crawl"

Wanted(url) == ~SameHost \/ url \notin Foreign

\* _allowed.
Allowed(page) == Wanted(page) /\ page \notin Excluded

\* Faulty: the sitemaps a sitemap links to are not followed further.
NewChildrenOfSeeds(index) ==
    IF index \in SeedSet
    THEN {c \in web[index].children : Wanted(c)} \ (visited \cup {index} \cup Range(Tail(queue)))
    ELSE {}

\* Children that are neither visited nor waiting.
NewChildren(index) ==
    {c \in web[index].children : Wanted(c)} \ (visited \cup {index} \cup Range(Tail(queue)))

\* As much of a set, in the order of its document, as there is room for.
Fitting(set, room) ==
    LET most == IF Cardinality(set) < room THEN Cardinality(set) ELSE room
    IN  {s \in SUBSET set : Cardinality(s) = most}

Orders(set) == {s \in [1 .. Cardinality(set) -> set] : IsInjective(s)}

\* How many more children may wait.
Room == IF 2 * MaxIndex > Len(queue) - 1 THEN 2 * MaxIndex - (Len(queue) - 1) ELSE 0

Queued(children) == Tail(queue) \o children

Going == queue # <<>> /\ Cardinality(visited) < MaxIndex /\ Cardinality(candidates) < MaxPages

\* The next index answers.
Visit ==
    /\ stage = "crawl" /\ Going
    /\ LET index == Head(queue)
           new == {p \in web[index].pages : Allowed(p)} \ candidates
       IN  /\ visited' = visited \cup {index}
           /\ \E taken \in Fitting(NewChildren(index), Room) : \E children \in Orders(taken) :
                 queue' = Queued(children)
           /\ \E found \in Fitting(new, MaxPages - Cardinality(candidates)) :
                 candidates' = candidates \cup found
    /\ UNCHANGED <<web, stage>>

\* A request or the parsing of its answer fails: so does the source.
Fail ==
    /\ stage = "crawl" /\ Going
    /\ stage' = "failed"
    /\ UNCHANGED <<web, queue, visited, candidates>>

Done ==
    /\ stage = "crawl" /\ ~Going
    /\ stage' = "done"
    /\ UNCHANGED <<web, queue, visited, candidates>>

Next == Visit \/ Fail \/ Done

Spec == Init /\ [][Next]_vars

-----------------------------------------------------------------------------
(* Properties *)

ChildrenOf(i) == {c \in web[i].children : Wanted(c)}

\* The indexes that can be reached from the seeds.
Closed(ixs) == SeedSet \subseteq ixs /\ \A i \in ixs : ChildrenOf(i) \subseteq ixs
Reachable == {i \in Indexes : \A ixs \in SUBSET Indexes : Closed(ixs) => i \in ixs}

\* A crawl that ends within its bounds has found every page the source may
\* have: no child is lost to the bound on waiting indexes.
NothingMissed ==
    stage = "done" /\ Cardinality(visited) < MaxIndex /\ Cardinality(candidates) < MaxPages =>
        candidates = {p \in UNION {web[i].pages : i \in Reachable} : Allowed(p)}

\* No child sitemap is read before every seed, so that one large sitemap does
\* not take the indexes of the other seeds.
SeedsFirst == visited \subseteq SeedSet \/ SeedSet \subseteq visited

\* The crawl stays on the seeds' hosts, and within the patterns.
StaysInScope ==
    /\ SameHost => (visited \cup candidates) \cap Foreign = {}
    /\ candidates \cap Excluded = {}

-----------------------------------------------------------------------------
(* What holds of every state of a crawl *)

Met == visited \cup Range(queue)

\* What the crawl has met can be reached and is in scope, and no index waits
\* that was visited.
Scope ==
    /\ IsFiniteSet(visited) /\ IsFiniteSet(candidates)
    /\ visited \cap Range(queue) = {}
    /\ Met \subseteq Reachable /\ \A i \in Met : Wanted(i)
    /\ \A p \in candidates : Allowed(p) /\ \E i \in visited : p \in web[i].pages

\* Nothing is lost before the bounds are reached.
Kept ==
    /\ \/ \A i \in visited : ChildrenOf(i) \subseteq Met
       \/ Cardinality(visited) + Len(queue) >= 2 * MaxIndex
    /\ \/ \A i \in visited : \A p \in web[i].pages : Allowed(p) => p \in candidates
       \/ Cardinality(candidates) >= MaxPages
    /\ stage = "done" => ~Going

\* The seeds that are not yet visited come first.
SeedsAhead ==
    \/ SeedSet \subseteq visited
    \/ /\ visited \subseteq SeedSet
       /\ \E k \in 1 .. Len(queue) : /\ \A i \in 1 .. k : queue[i] \in SeedSet
                                      /\ SeedSet \subseteq visited \cup {queue[j] : j \in 1 .. k}

CrawlInv == TypeOK /\ Scope /\ Kept /\ SeedSet \subseteq Met /\ SeedsAhead
=============================================================================
