-------------------------- MODULE ConditionalCache -------------------------
(***************************************************************************)
(* The persistent conditional cache (http_runtime.py, DiscoveryCache) and  *)
(* the polls of the adapters that use it: an adapter sends the validators  *)
(* of its URL's entry, and on a 304 answer takes the listings from the     *)
(* entry; otherwise it parses the answer and stores the listings under the *)
(* answer's ETag.  Entries expire, and are pruned least recently used.     *)
(*                                                                         *)
(* One event loop: a step is what happens between two awaits.  The cache   *)
(* is changed by every poll between another poll's request and its answer. *)
(***************************************************************************)
EXTENDS Integers, FiniteSets

CONSTANTS
    Polls,         \* the adapters' requests that may be under way together
    Urls,
    UrlOf,         \* the page a poll asks for
    Feeds,         \* polls of CachedJsonFeedAdapter; the others are product pages
    Versions,      \* contents of a page, each with its own ETag
    Bare,          \* versions without any listing
    Oversized,     \* versions with more listings than an entry may hold
    MaxEntries, Ttl

ASSUME CacheConstantsOK ==
    /\ UrlOf \in [Polls -> Urls] /\ Feeds \subseteq Polls
    /\ Versions \subseteq Nat \ {0}
    /\ Bare \subseteq Versions /\ Oversized \subseteq Versions
    /\ MaxEntries \in Nat \ {0} /\ Ttl \in Nat \ {0}

VARIABLES
    page,    \* what the server holds under each URL
    cache,   \* the entries in memory
    disk,    \* the entries of the last flush
    poll

vars == <<page, cache, disk, poll>>

\* The listings of a version stand for themselves; 0 is none.
Listings == {0} \cup (Versions \ Bare)
Found(body) == IF body \in Versions \ Bare THEN body ELSE 0

NoEntry == [etag |-> 0, listings |-> 0, age |-> 0]
Entry == [etag : Versions, listings : Listings, age : 0 .. Ttl + 1]

\* before: which entry was accessed before which (last_accessed).
\* An age is the time since stored_at, kept up to the first expired one.
Cache == [entry : [Urls -> Entry \cup {NoEntry}], before : SUBSET (Urls \X Urls)]
Cached(c) == {u \in Urls : c.entry[u] # NoEntry}

\* sent: the request is under way; unchanged: it was answered 304; fetched:
\* its answer is being parsed; idle: it ended with the listings `result` for
\* an answer of version `answer` (0: it failed).
Poll == [at : {"idle", "sent", "unchanged", "fetched"},
         tag : {0} \cup Versions, answer : {0} \cup Versions,
         body : {0} \cup Versions, result : Listings]
IdlePoll == [at |-> "idle", tag |-> 0, answer |-> 0, body |-> 0, result |-> 0]

TypeOK ==
    /\ page \in [Urls -> Versions]
    /\ \A c \in {cache, disk} :
          /\ c.entry \in [Urls -> Entry \cup {NoEntry}]
          /\ c.before \subseteq Cached(c) \X Cached(c)
          /\ \A u, v \in Cached(c) :
                <<u, v>> \in c.before <=> u # v /\ <<v, u>> \notin c.before
          /\ \A u, v, w \in Cached(c) :
                <<u, v>> \in c.before /\ <<v, w>> \in c.before => <<u, w>> \in c.before
    /\ poll \in [Polls -> Poll]

EmptyCache == [entry |-> [u \in Urls |-> NoEntry], before |-> {}]

Init ==
    /\ page \in [Urls -> Versions]
    /\ cache = EmptyCache
    /\ disk = EmptyCache
    /\ poll = [p \in Polls |-> IdlePoll]

----------------------------------------------------------------------------
Without(c, gone) ==
    [entry  |-> [u \in Urls |-> IF u \in gone THEN NoEntry ELSE c.entry[u]],
     before |-> {p \in c.before : p[1] \notin gone /\ p[2] \notin gone}]

With(c, u, e) ==
    [entry  |-> [c.entry EXCEPT ![u] = e],
     before |-> Without(c, {u}).before \cup (Cached(c) \ {u}) \X {u}]

Expired(c) == {u \in Cached(c) : c.entry[u].age > Ttl}

\* A lookup drops the entry when it has expired and touches it otherwise.
Fresh(c, u) ==
    IF u \in Expired(c) THEN Without(c, {u})
    ELSE IF u \in Cached(c) THEN With(c, u, c.entry[u])
    ELSE c

\* The expired entries go, then the least recently accessed ones over the limit.
Prune(c) ==
    LET kept == Without(c, Expired(c))
        over == Cardinality(Cached(kept)) - MaxEntries
        Earlier(u) == {v \in Urls : <<v, u>> \in kept.before}
    IN  Without(kept, {u \in Cached(kept) : Cardinality(Earlier(u)) < over})

\* Faulty: listings that are too many leave those of the earlier version.
StoreKeepingOld(c, u, etag, listings) ==
    LET kept   == IF listings \in Oversized THEN c.entry[u].listings ELSE listings
        stored == With(c, u, [etag |-> etag, listings |-> kept, age |-> 0])
    IN  IF Cardinality(Cached(stored)) > MaxEntries THEN Prune(stored) ELSE stored

\* Faulty: the entry just stored is not counted against the limit.
StoreOneMore(c, u, etag, listings) ==
    LET kept   == IF listings \in Oversized THEN 0 ELSE listings
        stored == With(c, u, [etag |-> etag, listings |-> kept, age |-> 0])
    IN  IF Cardinality(Cached(c)) > MaxEntries THEN Prune(stored) ELSE stored

\* More listings than an entry may hold are not kept, their ETag is.
Store(c, u, etag, listings) ==
    LET kept   == IF listings \in Oversized THEN 0 ELSE listings
        stored == With(c, u, [etag |-> etag, listings |-> kept, age |-> 0])
    IN  IF Cardinality(Cached(stored)) > MaxEntries THEN Prune(stored) ELSE stored

\* No conditional request when there are no listings to fall back on.
Validators(c, u) ==
    IF c.entry[u].listings = 0 THEN 0 ELSE c.entry[u].etag

----------------------------------------------------------------------------
StartPoll(p) ==
    LET c == Fresh(cache, UrlOf[p])
    IN  /\ poll[p].at = "idle"
        /\ cache' = c
        /\ poll' = [poll EXCEPT ![p] =
                      [IdlePoll EXCEPT !.at = "sent", !.tag = Validators(c, UrlOf[p])]]
        /\ UNCHANGED <<page, disk>>

\* The server answers 304 to the ETag of what it holds, else the page.
Answer(p) ==
    LET v == page[UrlOf[p]]
    IN  /\ poll[p].at = "sent"
        /\ poll' = [poll EXCEPT ![p] =
                      IF @.tag = v THEN [@ EXCEPT !.at = "unchanged", !.answer = v]
                      ELSE [@ EXCEPT !.at = "fetched", !.answer = v, !.body = v]]
        /\ UNCHANGED <<page, cache, disk>>

Ended(p, listings) ==
    [at |-> "idle", tag |-> 0, answer |-> poll[p].answer, body |-> 0, result |-> listings]

\* 304, and the entry is there: its listings are the poll's.
ReuseEntry(p) ==
    LET c == Fresh(cache, UrlOf[p])
    IN  /\ poll[p].at = "unchanged"
        /\ UrlOf[p] \in Cached(c)
        /\ cache' = c
        /\ poll' = [poll EXCEPT ![p] = Ended(p, c.entry[UrlOf[p]].listings)]
        /\ UNCHANGED <<page, disk>>

\* 304, but the entry has gone meanwhile: a feed ends without listings, a
\* product page is parsed from the empty body of the 304.
EntryLost(p) ==
    LET c == Fresh(cache, UrlOf[p])
    IN  /\ poll[p].at = "unchanged"
        /\ UrlOf[p] \notin Cached(c)
        /\ cache' = c
        /\ poll' = [poll EXCEPT ![p] =
                      IF p \in Feeds THEN Ended(p, 0) ELSE [@ EXCEPT !.at = "fetched"]]
        /\ UNCHANGED <<page, disk>>

\* The answer has been parsed: its listings are passed on and stored.
Parsed(p) ==
    LET listings == Found(poll[p].body)
    IN  /\ poll[p].at = "fetched"
        /\ cache' = Store(cache, UrlOf[p], poll[p].answer, listings)
        /\ poll' = [poll EXCEPT ![p] = Ended(p, listings)]
        /\ UNCHANGED <<page, disk>>

\* The request fails, its answer cannot be parsed, or the poll is cancelled.
Fail(p) ==
    /\ poll[p].at # "idle"
    /\ poll' = [poll EXCEPT ![p] = IdlePoll]
    /\ UNCHANGED <<page, cache, disk>>

\* At the end of a refresh or a worker's life, when no adapter runs.
Flush ==
    /\ \A p \in Polls : poll[p].at = "idle"
    /\ cache' = Prune(cache)
    /\ disk' = cache'
    /\ UNCHANGED <<page, poll>>

\* The process dies or ends, and its successor opens the file.
Restart ==
    /\ cache' = Prune(disk)
    /\ poll' = [p \in Polls |-> IdlePoll]
    /\ UNCHANGED <<page, disk>>

----------------------------------------------------------------------------
PageChanges(u) ==
    /\ \E v \in Versions \ {page[u]} : page' = [page EXCEPT ![u] = v]
    /\ UNCHANGED <<cache, disk, poll>>

Older(c) ==
    [c EXCEPT !.entry = [u \in Urls |->
        IF u \in Cached(c) /\ c.entry[u].age <= Ttl THEN [c.entry[u] EXCEPT !.age = @ + 1]
        ELSE c.entry[u]]]

Tick ==
    /\ Expired(cache) # Cached(cache) \/ Expired(disk) # Cached(disk)
    /\ cache' = Older(cache)
    /\ disk' = Older(disk)
    /\ UNCHANGED <<page, poll>>

Next ==
    \/ \E p \in Polls :
          StartPoll(p) \/ Answer(p) \/ ReuseEntry(p) \/ EntryLost(p) \/ Parsed(p) \/ Fail(p)
    \/ Flush \/ Restart
    \/ \E u \in Urls : PageChanges(u)
    \/ Tick

Spec == Init /\ [][Next]_vars

----------------------------------------------------------------------------
\* The cache and its file never hold more than max_entries entries, however
\* many polls store between two prunes, and a reopened file keeps to it too.
CacheBounded == \A c \in {cache, disk} : Cardinality(Cached(c)) <= MaxEntries

\* While a conditional request is under way, the entry its answer may refer
\* to is, as long as it exists, the one whose ETag was sent, with listings.
\* What other polls store, evict or let expire meanwhile never puts another
\* one in its place.
EntryMatchesRequest ==
    \A p \in Polls :
        LET e == cache.entry[UrlOf[p]]
        IN  /\ \/ poll[p].at = "sent" /\ poll[p].tag # 0
               \/ poll[p].at = "unchanged"
            /\ e # NoEntry
            => e.etag = poll[p].tag /\ e.listings # 0

\* Listings passed on are those of the version the server answered with:
\* never older ones out of the cache, also after a crash has brought back
\* the entries of an earlier flush.
NeverStale ==
    \A p \in Polls :
        poll[p].at = "idle" /\ poll[p].result # 0 => poll[p].result = poll[p].answer

\* The test of conditional requests (tests/test_efficiency_next.py:51, "assert
\* first[0].sku == "C1" and second[0].sku == "C1"") says a 304 is answered
\* from the cache: a poll of a page that has listings returns them.
NoEmptySuccess ==
    \A p \in Polls :
        poll[p].at = "idle" /\ Found(poll[p].answer) # 0 => poll[p].result # 0

=============================================================================
