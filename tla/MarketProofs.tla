------------------------------ MODULE MarketProofs ------------------------------
(* Proofs about ConditionalCache, MarketRefresh and Decision, and what they *)
(* give of MarketMC, whose parts are instances of the three.  A theorem     *)
(* about a part assumes what the configuration states of its constants and, *)
(* where the property needs it, the one condition that section 4 of the     *)
(* README names.                                                            *)
EXTENDS MarketMC, Sequences, FiniteSetTheorems, WellFoundedInduction, TLAPS

-----------------------------------------------------------------------------
(* The conditional cache, for any pages, versions, sizes and ages: what its *)
(* operations keep of the entries and of their order *)

\* The entries are in the order of their last accesses.
Ordered(c) ==
    /\ IsFiniteSet(Cached(c)) /\ c.before \subseteq Cached(c) \X Cached(c)
    /\ \A x, y \in Cached(c) : <<x, y>> \in c.before <=> x # y /\ <<y, x>> \notin c.before
    /\ \A x, y, z \in Cached(c) : <<x, y>> \in c.before /\ <<y, z>> \in c.before => <<x, z>> \in c.before

\* An entry with listings has those of its ETag's version.
IsCache(c) == c = [entry |-> c.entry, before |-> c.before]
Sound(c) ==
    /\ IsCache(c) /\ c.entry \in [Urls -> Entry \cup {NoEntry}]
    /\ \A x \in Urls : c.entry[x].listings # 0 => c.entry[x].listings = c.entry[x].etag
    /\ Ordered(c)

WithinLimit(c) == Cardinality(Cached(c)) <= MaxEntries

LEMMA CacheConstants ==
    /\ 0 \notin Versions /\ Versions \subseteq Nat /\ 0 \in Listings /\ Listings \subseteq Nat
    /\ UrlOf \in [Polls -> Urls] /\ Ttl \in Nat /\ MaxEntries \in Nat
    /\ \A e \in Entry : e # NoEntry
BY CacheConstantsOK DEF Listings, Entry, NoEntry

LEMMA FewerEntries ==
    ASSUME NEW c, NEW d, Sound(c), Cached(d) \subseteq Cached(c)
    PROVE  IsFiniteSet(Cached(d)) /\ (WithinLimit(c) => WithinLimit(d))
<1>1. IsFiniteSet(Cached(c)) BY DEF Sound, Ordered
<1>2. IsFiniteSet(Cached(d)) /\ Cardinality(Cached(d)) <= Cardinality(Cached(c)) BY <1>1, FS_Subset
<1>3. Cardinality(Cached(c)) \in Nat /\ Cardinality(Cached(d)) \in Nat
  BY <1>1, <1>2, FS_CardinalityType
<1> QED BY <1>2, <1>3, CacheConstants DEF WithinLimit

LEMMA WithoutKeeps ==
    ASSUME NEW c, Sound(c), NEW gone
    PROVE  /\ Sound(Without(c, gone)) /\ Cached(Without(c, gone)) = Cached(c) \ gone
           /\ \A x \in Urls : Without(c, gone).entry[x] \in {c.entry[x], NoEntry}
<1> DEFINE entry == [x \in Urls |-> IF x \in gone THEN NoEntry ELSE c.entry[x]]
           order == {p \in c.before : p[1] \notin gone /\ p[2] \notin gone}
           d == Without(c, gone)
<1>1. d = [entry |-> entry, before |-> order] BY DEF Without
<1>2. NoEntry.listings = 0 BY DEF NoEntry
<1>3. ASSUME NEW x \in Urls
      PROVE  /\ entry[x] \in {c.entry[x], NoEntry} /\ entry[x] \in Entry \cup {NoEntry}
             /\ entry[x].listings # 0 => entry[x].listings = entry[x].etag
             /\ entry[x] # NoEntry <=> c.entry[x] # NoEntry /\ x \notin gone
  <2>1. CASE x \in gone BY <1>2, <2>1
  <2>2. CASE x \notin gone BY <2>2 DEF Sound
  <2> QED BY <2>1, <2>2
<1>4. entry \in [Urls -> Entry \cup {NoEntry}] BY <1>3
<1>5. \A x, y : <<x, y>> \in order <=> <<x, y>> \in c.before /\ x \notin gone /\ y \notin gone
  OBVIOUS
<1>6. order \subseteq c.before OBVIOUS
<1> HIDE DEF entry, order, d
<1>7. IsCache(d) /\ d.entry = entry /\ d.before = order BY <1>1 DEF IsCache
<1>8. Cached(d) = Cached(c) \ gone BY <1>3, <1>7 DEF Cached
<1>9. IsFiniteSet(Cached(d)) BY <1>8, FewerEntries
<1>10. d.before \subseteq Cached(d) \X Cached(d)
  <2>1. ASSUME NEW p \in order PROVE p \in Cached(d) \X Cached(d)
    <3>1. p \in Cached(c) \X Cached(c) BY <1>6, <2>1 DEF Sound, Ordered
    <3>2. PICK x \in Cached(c), y \in Cached(c) : p = <<x, y>> BY <3>1
    <3>3. x \notin gone /\ y \notin gone BY <1>5, <2>1, <3>2
    <3> QED BY <1>8, <3>2, <3>3
  <2> QED BY <1>7, <2>1
<1>11. Ordered(d)
  <2>1. \A x, y \in Cached(d) : <<x, y>> \in d.before <=> <<x, y>> \in c.before BY <1>5, <1>7, <1>8
  <2>2. \A x \in Cached(d) : x \in Cached(c) BY <1>8
  <2> QED BY <1>9, <1>10, <2>1, <2>2 DEF Sound, Ordered
<1>12. Sound(d) BY <1>3, <1>4, <1>7, <1>11 DEF Sound
<1> QED BY <1>3, <1>7, <1>8, <1>12 DEF d

LEMMA WithKeeps ==
    ASSUME NEW c, Sound(c), NEW x \in Urls, NEW e \in Entry, e.listings # 0 => e.listings = e.etag
    PROVE  /\ Sound(With(c, x, e)) /\ Cached(With(c, x, e)) = Cached(c) \cup {x}
           /\ With(c, x, e).entry = [c.entry EXCEPT ![x] = e]
<1> DEFINE entry == [c.entry EXCEPT ![x] = e]
           others == Without(c, {x}).before
           order == others \cup (Cached(c) \ {x}) \X {x}
           d == With(c, x, e)
<1>1. d = [entry |-> entry, before |-> order] BY DEF With
<1>2. c.entry \in [Urls -> Entry \cup {NoEntry}] /\ e # NoEntry BY CacheConstants DEF Sound
<1>3. /\ entry \in [Urls -> Entry \cup {NoEntry}] /\ entry[x] = e
      /\ \A y \in Urls : y # x => entry[y] = c.entry[y]
  BY <1>2
<1>4. /\ Sound(Without(c, {x})) /\ Cached(Without(c, {x})) = Cached(c) \ {x} BY WithoutKeeps
<1>5. /\ others \subseteq (Cached(c) \ {x}) \X (Cached(c) \ {x})
      /\ \A y, z \in Cached(c) \ {x} : <<y, z>> \in others <=> y # z /\ <<z, y>> \notin others
      /\ \A v, y, z \in Cached(c) \ {x} : <<v, y>> \in others /\ <<y, z>> \in others => <<v, z>> \in others
      /\ IsFiniteSet(Cached(c) \ {x})
  BY <1>4 DEF Sound, Ordered
<1> HIDE DEF others
<1>6. \A y, z : <<y, z>> \in order <=> <<y, z>> \in others \/ (y \in Cached(c) \ {x} /\ z = x)
  OBVIOUS
<1>7. order \subseteq (Cached(c) \cup {x}) \X (Cached(c) \cup {x}) BY <1>5
<1> HIDE DEF entry, order, d
<1>8. IsCache(d) /\ d.entry = entry /\ d.before = order BY <1>1 DEF IsCache
<1>9. Cached(d) = Cached(c) \cup {x} BY <1>2, <1>3, <1>8 DEF Cached
<1>10. Ordered(d)
  <2>1. IsFiniteSet(Cached(d))
    <3>1. Cached(d) = (Cached(c) \ {x}) \cup {x} BY <1>9
    <3> QED BY <1>5, <3>1, FS_AddElement
  <2>2. \A y, z : <<y, z>> \in others => y \in Cached(c) /\ y # x /\ z \in Cached(c) /\ z # x
    BY <1>5
  <2>3. ASSUME NEW y \in Cached(d), NEW z \in Cached(d)
        PROVE  <<y, z>> \in d.before <=> y # z /\ <<z, y>> \notin d.before
    <3>1. CASE y # x /\ z # x
      <4>1. <<y, z>> \in order <=> <<y, z>> \in others BY <1>6, <3>1
      <4>2. <<z, y>> \in order <=> <<z, y>> \in others BY <1>6, <3>1
      <4>3. y \in Cached(c) \ {x} /\ z \in Cached(c) \ {x} BY <1>9, <2>3, <3>1
      <4> QED BY <1>5, <1>8, <4>1, <4>2, <4>3
    <3>2. CASE y = x
      <4>1. <<y, z>> \notin order BY <1>6, <2>2, <3>2
      <4>2. z # x => <<z, y>> \in order BY <1>6, <1>9, <2>3, <3>2
      <4> QED BY <1>8, <3>2, <4>1, <4>2
    <3>3. CASE y # x /\ z = x
      <4>1. <<y, z>> \in order BY <1>6, <1>9, <2>3, <3>3
      <4>2. <<z, y>> \notin order BY <1>6, <2>2, <3>3
      <4> QED BY <1>8, <3>3, <4>1, <4>2
    <3> QED BY <3>1, <3>2, <3>3
  <2>4. ASSUME NEW v \in Cached(d), NEW y \in Cached(d), NEW z \in Cached(d),
               <<v, y>> \in d.before, <<y, z>> \in d.before
        PROVE  <<v, z>> \in d.before
    <3>1. y # x /\ y \in Cached(c) BY <1>6, <1>8, <2>2, <2>4
    <3>2. <<v, y>> \in others /\ v \in Cached(c) \ {x} BY <1>6, <1>8, <2>2, <2>4, <3>1
    <3>3. CASE z = x BY <1>6, <1>8, <3>2, <3>3
    <3>4. CASE z # x
      <4>1. <<y, z>> \in others BY <1>6, <1>8, <2>4, <3>4
      <4>2. y \in Cached(c) \ {x} /\ z \in Cached(c) \ {x} BY <2>2, <4>1
      <4>3. <<v, z>> \in others BY <1>5, <3>2, <4>1, <4>2
      <4> QED BY <1>6, <1>8, <4>3
    <3> QED BY <3>3, <3>4
  <2>5. d.before \subseteq Cached(d) \X Cached(d) BY <1>7, <1>8, <1>9
  <2> QED BY <2>1, <2>3, <2>4, <2>5 DEF Ordered
<1>11. \A y \in Urls : d.entry[y].listings # 0 => d.entry[y].listings = d.entry[y].etag
  BY <1>3, <1>8 DEF Sound
<1>12. Sound(d) BY <1>3, <1>8, <1>10, <1>11 DEF Sound
<1> QED BY <1>8, <1>9, <1>12 DEF d, entry

\* What one entry has before it: the most recently accessed ones have the most.
LEMMA RanksDiffer ==
    ASSUME NEW c, Sound(c)
    PROVE  LET Earlier(x) == {y \in Urls : <<y, x>> \in c.before} IN
           /\ \A x \in Cached(c) : /\ Cardinality(Earlier(x)) \in Nat
                                   /\ Cardinality(Earlier(x)) < Cardinality(Cached(c))
           /\ \A x, y \in Cached(c) : Cardinality(Earlier(x)) = Cardinality(Earlier(y)) => x = y
<1> DEFINE Earlier(x) == {y \in Urls : <<y, x>> \in c.before}
<1>1. IsFiniteSet(Cached(c)) /\ c.before \subseteq Cached(c) \X Cached(c) BY DEF Sound, Ordered
<1>2. \A x, y : <<y, x>> \in c.before => y \in Cached(c) /\ x \in Cached(c) BY <1>1
<1>3. \A x, y : y \in Earlier(x) <=> <<y, x>> \in c.before
  <2>1. \A y \in Cached(c) : y \in Urls BY DEF Cached
  <2> QED BY <1>2, <2>1
<1> HIDE DEF Earlier
<1>4. \A x : Earlier(x) \subseteq Cached(c) BY <1>2, <1>3
<1>5. \A x : IsFiniteSet(Earlier(x)) BY <1>1, <1>4, FS_Subset
<1>6. Cardinality(Cached(c)) \in Nat /\ \A x : Cardinality(Earlier(x)) \in Nat
  BY <1>1, <1>5, FS_CardinalityType
<1>7. ASSUME NEW x \in Cached(c) PROVE Cardinality(Earlier(x)) < Cardinality(Cached(c))
  <2>1. <<x, x>> \notin c.before BY DEF Sound, Ordered
  <2>2. Earlier(x) # Cached(c) BY <1>3, <2>1
  <2>3. Cardinality(Earlier(x)) <= Cardinality(Cached(c))
        /\ (Cardinality(Cached(c)) = Cardinality(Earlier(x)) => Cached(c) = Earlier(x))
    BY <1>1, <1>4, FS_Subset
  <2> QED BY <1>6, <2>2, <2>3
<1>8. ASSUME NEW x \in Cached(c), NEW y \in Cached(c), <<x, y>> \in c.before
      PROVE  Cardinality(Earlier(x)) # Cardinality(Earlier(y))
  <2>1. Earlier(x) \subseteq Earlier(y)
    <3>1. ASSUME NEW z \in Earlier(x) PROVE z \in Earlier(y)
      <4>1. <<z, x>> \in c.before /\ z \in Cached(c) BY <1>2, <1>3, <3>1
      <4>2. <<z, y>> \in c.before BY <1>8, <4>1 DEF Sound, Ordered
      <4> QED BY <1>3, <4>2
    <3> QED BY <3>1
  <2>2. x \in Earlier(y) /\ x \notin Earlier(x)
    <3>1. <<x, x>> \notin c.before BY DEF Sound, Ordered
    <3> QED BY <1>3, <1>8, <3>1
  <2>3. IsFiniteSet(Earlier(y)) BY <1>5
  <2>4. Cardinality(Earlier(y)) = Cardinality(Earlier(x)) => Earlier(y) = Earlier(x)
    BY <2>1, <2>3, FS_Subset
  <2> QED BY <2>2, <2>4
<1>9. ASSUME NEW x \in Cached(c), NEW y \in Cached(c), Cardinality(Earlier(x)) = Cardinality(Earlier(y))
      PROVE  x = y
  <2>1. x # y => <<x, y>> \in c.before \/ <<y, x>> \in c.before BY DEF Sound, Ordered
  <2>2. <<x, y>> \notin c.before /\ <<y, x>> \notin c.before BY <1>8, <1>9
  <2> QED BY <2>1, <2>2
<1> QED BY <1>6, <1>7, <1>9 DEF Earlier

\* What prune leaves is within the limit.
LEMMA PruneKeeps ==
    ASSUME NEW c, Sound(c)
    PROVE  /\ Sound(Prune(c)) /\ WithinLimit(Prune(c)) /\ Cached(Prune(c)) \subseteq Cached(c)
           /\ \A x \in Urls : Prune(c).entry[x] \in {c.entry[x], NoEntry}
<1> DEFINE kept == Without(c, Expired(c))
           count == Cardinality(Cached(kept))
           Earlier(x) == {y \in Urls : <<y, x>> \in kept.before}
           gone == {x \in Cached(kept) : Cardinality(Earlier(x)) < count - MaxEntries}
<1>1. /\ Sound(kept) /\ Cached(kept) = Cached(c) \ Expired(c)
      /\ \A x \in Urls : kept.entry[x] \in {c.entry[x], NoEntry}
  BY WithoutKeeps
<1>2. Prune(c) = Without(kept, gone) BY DEF Prune
<1> HIDE DEF kept
<1>3. /\ \A x \in Cached(kept) : Cardinality(Earlier(x)) \in Nat /\ Cardinality(Earlier(x)) < count
      /\ \A x, y \in Cached(kept) : Cardinality(Earlier(x)) = Cardinality(Earlier(y)) => x = y
  BY <1>1, RanksDiffer
<1>4. IsFiniteSet(Cached(kept)) /\ count \in Nat BY <1>1, FS_CardinalityType DEF Sound, Ordered
<1> DEFINE left == Cached(kept) \ gone
           rank == [x \in left |-> Cardinality(Earlier(x))]
<1>5. \A x \in left : x \in Cached(kept) /\ ~(Cardinality(Earlier(x)) < count - MaxEntries) OBVIOUS
<1>6. IsFiniteSet(left) /\ Cardinality(left) \in Nat /\ Cardinality(left) <= count
  <2>1. left \subseteq Cached(kept) OBVIOUS
  <2> QED BY <1>4, <2>1, FS_Subset, FS_CardinalityType
<1>8. left \subseteq Cached(kept) OBVIOUS
<1> HIDE DEF gone, Earlier, count
<1>7. /\ Sound(Prune(c)) /\ Cached(Prune(c)) = left
      /\ \A x \in Urls : Prune(c).entry[x] \in {kept.entry[x], NoEntry}
  BY <1>1, <1>2, WithoutKeeps
<1> HIDE DEF left
<1>9. Cardinality(left) <= MaxEntries
  <2>1. CASE count <= MaxEntries BY <1>4, <1>6, <2>1, CacheConstants
  <2>2. CASE count > MaxEntries
    <3>1. PICK low \in Nat : low = count - MaxEntries BY <1>4, <2>2, CacheConstants
    <3>2. PICK high \in Nat : high = count - 1 /\ low <= high + 1
      <4>1. MaxEntries \in Nat /\ MaxEntries # 0 BY CacheConstantsOK
      <4>2. count - 1 \in Nat /\ low <= count BY <1>4, <2>2, <3>1, <4>1
      <4> QED BY <1>4, <4>2
    <3>3. IsFiniteSet(low .. high) /\ Cardinality(low .. high) = IF low > high THEN 0 ELSE high - low + 1
      BY FS_Interval
    <3>4. Cardinality(low .. high) = MaxEntries
      <4>1. MaxEntries \in Nat /\ count \in Nat BY <1>4, CacheConstants
      <4>2. high - low + 1 = MaxEntries BY <3>1, <3>2, <4>1
      <4>3. low > high => MaxEntries = 0 BY <3>1, <3>2, <4>1
      <4> QED BY <3>3, <4>2, <4>3
    <3>5. ASSUME NEW x \in left PROVE Cardinality(Earlier(x)) \in low .. high
      <4>1. PICK n \in Nat : n = Cardinality(Earlier(x)) BY <1>3, <1>5
      <4>2. n < count /\ ~(n < low) BY <1>3, <1>5, <3>1, <4>1
      <4>3. n <= high BY <1>4, <3>2, <4>2
      <4> QED BY <4>1, <4>2, <4>3
    <3>6. rank \in [left -> low .. high] BY <3>5
    <3>7. \A x, y \in left : rank[x] = rank[y] => x = y BY <1>3, <1>5
    <3>8. rank \in Injection(left, low .. high)
      <4> HIDE DEF rank
      <4> QED BY <3>6, <3>7 DEF Injection, IsInjective
    <3> HIDE DEF rank
    <3>9. Cardinality(left) <= Cardinality(low .. high)
      BY <3>3, <3>8, FS_Injection DEF ExistsInjection
    <3> QED BY <3>4, <3>9
  <2> QED BY <1>4, <2>1, <2>2, CacheConstants
<1>10. WithinLimit(Prune(c)) BY <1>7, <1>9 DEF WithinLimit
<1>11. \A x \in Urls : Prune(c).entry[x] \in {c.entry[x], NoEntry} BY <1>1, <1>7
<1> QED BY <1>1, <1>7, <1>8, <1>10, <1>11

LEMMA FreshKeeps ==
    ASSUME NEW c, Sound(c), NEW x \in Urls
    PROVE  /\ Sound(Fresh(c, x)) /\ Cached(Fresh(c, x)) \subseteq Cached(c)
           /\ \A y \in Urls : Fresh(c, x).entry[y] \in {c.entry[y], NoEntry}
<1>1. CASE x \in Expired(c) BY <1>1, WithoutKeeps DEF Fresh
<1>2. CASE x \notin Expired(c) /\ x \in Cached(c)
  <2>1. Fresh(c, x) = With(c, x, c.entry[x]) BY <1>2 DEF Fresh
  <2>2. c.entry[x] \in Entry /\ (c.entry[x].listings # 0 => c.entry[x].listings = c.entry[x].etag)
    BY <1>2 DEF Sound, Cached
  <2> DEFINE e == c.entry[x]
  <2>3. e \in Entry /\ (e.listings # 0 => e.listings = e.etag) BY <2>2
  <2> HIDE DEF e
  <2>4. /\ Sound(With(c, x, e)) /\ Cached(With(c, x, e)) = Cached(c) \cup {x}
        /\ With(c, x, e).entry = [c.entry EXCEPT ![x] = e]
    BY <2>3, WithKeeps
  <2>5. [c.entry EXCEPT ![x] = e] = c.entry BY DEF Sound, e
  <2>6. Fresh(c, x) = With(c, x, e) BY <2>1 DEF e
  <2>7. Cached(c) \cup {x} = Cached(c) BY <1>2
  <2> QED BY <2>4, <2>5, <2>6, <2>7
<1>3. CASE x \notin Expired(c) /\ x \notin Cached(c)
  <2>1. Fresh(c, x) = c BY <1>3 DEF Fresh
  <2> QED BY <2>1
<1> QED BY <1>1, <1>2, <1>3

LEMMA StoreKeeps ==
    ASSUME NEW c, Sound(c), NEW x \in Urls, NEW v \in Versions, NEW l \in {0, v}, l \in Listings
    PROVE  /\ Sound(Store(c, x, v, l)) /\ (WithinLimit(c) => WithinLimit(Store(c, x, v, l)))
           /\ \A y \in Urls : y # x => Store(c, x, v, l).entry[y] \in {c.entry[y], NoEntry}
<1> DEFINE kept == IF l \in Oversized THEN 0 ELSE l
           e == [etag |-> v, listings |-> kept, age |-> 0]
           stored == With(c, x, e)
<1>1. kept \in Listings /\ (kept # 0 => kept = v) BY CacheConstants
<1> HIDE DEF kept
<1>2. e \in Entry /\ (e.listings # 0 => e.listings = e.etag)
  <2>1. 0 \in 0 .. Ttl + 1 BY CacheConstants
  <2> QED BY <1>1, <2>1 DEF Entry
<1> HIDE DEF e
<1>3. Sound(stored) /\ stored.entry = [c.entry EXCEPT ![x] = e] BY <1>2, WithKeeps
<1>4. Store(c, x, v, l) = IF Cardinality(Cached(stored)) > MaxEntries THEN Prune(stored) ELSE stored
  BY DEF Store, e, kept
<1> HIDE DEF stored
<1>5. \A y \in Urls : y # x => stored.entry[y] = c.entry[y] BY <1>3 DEF Sound
<1>6. /\ Sound(Prune(stored)) /\ WithinLimit(Prune(stored))
      /\ \A y \in Urls : Prune(stored).entry[y] \in {stored.entry[y], NoEntry}
  BY <1>3, PruneKeeps
<1>7. ~(Cardinality(Cached(stored)) > MaxEntries) => WithinLimit(stored)
  <2>1. Cardinality(Cached(stored)) \in Nat BY <1>3, FS_CardinalityType DEF Sound, Ordered
  <2> QED BY <2>1, CacheConstants DEF WithinLimit
<1> QED BY <1>3, <1>4, <1>5, <1>6, <1>7

LEMMA OlderKeeps ==
    ASSUME NEW c, Sound(c)
    PROVE  /\ Sound(Older(c)) /\ Cached(Older(c)) = Cached(c)
           /\ \A x \in Urls : /\ Older(c).entry[x] = NoEntry <=> c.entry[x] = NoEntry
                              /\ Older(c).entry[x].etag = c.entry[x].etag
                              /\ Older(c).entry[x].listings = c.entry[x].listings
<1> DEFINE f == [x \in Urls |-> IF x \in Cached(c) /\ c.entry[x].age <= Ttl
                                THEN [c.entry[x] EXCEPT !.age = @ + 1] ELSE c.entry[x]]
<1>1. ASSUME NEW x \in Urls
      PROVE  /\ f[x] \in Entry \cup {NoEntry} /\ (f[x] = NoEntry <=> c.entry[x] = NoEntry)
             /\ f[x].etag = c.entry[x].etag /\ f[x].listings = c.entry[x].listings
  <2>1. c.entry[x] \in Entry \cup {NoEntry} BY DEF Sound
  <2>2. CASE c.entry[x] \in Entry
    <3>1. ASSUME NEW e \in Entry, e.age <= Ttl
          PROVE  LET d == [e EXCEPT !.age = @ + 1]
                 IN  d \in Entry /\ d.etag = e.etag /\ d.listings = e.listings
      BY <3>1, CacheConstants DEF Entry
    <3> QED BY <2>2, <3>1, CacheConstants
  <2>3. CASE c.entry[x] = NoEntry
    <3>1. x \notin Cached(c) BY <2>3 DEF Cached
    <3> QED BY <2>3, <3>1
  <2> QED BY <2>1, <2>2, <2>3
<1>2. Older(c) = [c EXCEPT !.entry = f] BY DEF Older
<1> HIDE DEF f
<1>3. Older(c) = [entry |-> f, before |-> c.before] BY <1>2 DEF Sound, IsCache
<1>4. f \in [Urls -> Entry \cup {NoEntry}] BY <1>1 DEF f
<1>5. Older(c).entry = f /\ Older(c).before = c.before /\ IsCache(Older(c)) BY <1>3 DEF IsCache
<1>6. \A x \in Urls : f[x].listings # 0 => f[x].listings = f[x].etag BY <1>1 DEF Sound
<1>7. Cached(Older(c)) = Cached(c) BY <1>1, <1>5 DEF Cached
<1>8. Ordered(Older(c)) BY <1>5, <1>7 DEF Sound, Ordered
<1>9. Sound(Older(c)) BY <1>4, <1>5, <1>6, <1>8 DEF Sound
<1> QED BY <1>1, <1>5, <1>7, <1>9

-----------------------------------------------------------------------------
(* The conditional cache: every poll, and the whole *)

\* Every poll has a page of its own.
OwnPage == \A p, q \in Polls : UrlOf[p] = UrlOf[q] => p = q

Typed ==
    /\ page \in [Urls -> Versions] /\ poll \in [Polls -> Poll]
    /\ Sound(cache) /\ Sound(disk) /\ WithinLimit(cache) /\ WithinLimit(disk)

\* What a poll that waits for an answer may be told to use is what it asked about.
Matched(p) ==
    LET e == cache.entry[UrlOf[p]]
    IN  /\ \/ poll[p].at = "sent" /\ poll[p].tag # 0
           \/ poll[p].at = "unchanged"
        /\ e # NoEntry
        => e.etag = poll[p].tag /\ e.listings # 0

Answered(p) ==
    /\ poll[p].at = "unchanged" => poll[p].tag = poll[p].answer /\ poll[p].answer \in Versions
                                   /\ poll[p].body = 0
    /\ poll[p].at = "fetched" => poll[p].answer \in Versions /\ poll[p].body \in {0, poll[p].answer}
    /\ poll[p].at = "sent" => poll[p].body = 0

Passed(p) == poll[p].at = "idle" /\ poll[p].result # 0 => poll[p].result = poll[p].answer

CacheInv ==
    /\ Typed /\ \A p \in Polls : Answered(p)
    /\ OwnPage => \A p \in Polls : Matched(p) /\ Passed(p)

LEMMA CacheTyped == CacheInv => TypeOK /\ CacheBounded
BY DEF CacheInv, Typed, Sound, Ordered, WithinLimit, TypeOK, CacheBounded

LEMMA CacheInit == Init => CacheInv
<1> SUFFICES ASSUME Init PROVE CacheInv OBVIOUS
<1>1. IdlePoll \in Poll /\ IdlePoll.at = "idle" /\ IdlePoll.result = 0
  BY CacheConstants DEF IdlePoll, Poll
<1>2. EmptyCache.entry = [x \in Urls |-> NoEntry] /\ EmptyCache.before = {} /\ IsCache(EmptyCache)
  BY DEF EmptyCache, IsCache
<1>3. Cached(EmptyCache) = {} BY <1>2 DEF Cached
<1>4. IsFiniteSet({}) /\ Cardinality({}) = 0 BY FS_EmptySet
<1>5. Sound(EmptyCache) BY <1>2, <1>3, <1>4 DEF Sound, Ordered, NoEntry
<1>6. WithinLimit(EmptyCache) BY <1>3, <1>4, CacheConstants DEF WithinLimit
<1>7. Typed BY <1>1, <1>5, <1>6 DEF Init, Typed
<1>8. ASSUME NEW p \in Polls PROVE Matched(p) /\ Answered(p) /\ Passed(p)
  <2>1. poll[p] = IdlePoll BY DEF Init
  <2> QED BY <1>1, <2>1 DEF Matched, Answered, Passed
<1> QED BY <1>7, <1>8 DEF CacheInv

\* A step of one poll: it leaves the others' entries alone, or drops them.
LEMMA PollKeeps ==
    ASSUME CacheInv, NEW p \in Polls, NEW v \in Poll, UNCHANGED <<page, disk>>,
           Sound(cache'), WithinLimit(cache'),
           \A x \in Urls : x # UrlOf[p] => cache'.entry[x] \in {cache.entry[x], NoEntry},
           poll' = [poll EXCEPT ![p] = v], Answered(p)', OwnPage => Matched(p)' /\ Passed(p)'
    PROVE  CacheInv'
<1>1. Typed' BY DEF CacheInv, Typed
<1>2. ASSUME NEW q \in Polls, q # p PROVE Answered(q)' /\ (OwnPage => Matched(q)' /\ Passed(q)')
  <2>1. poll'[q] = poll[q] BY <1>2 DEF CacheInv, Typed
  <2>2. Answered(q)' BY <2>1 DEF CacheInv, Answered
  <2>3. ASSUME OwnPage PROVE Matched(q)' /\ Passed(q)'
    <3>1. UrlOf[q] \in Urls /\ UrlOf[q] # UrlOf[p] BY <1>2, <2>3, CacheConstants DEF OwnPage
    <3>2. cache'.entry[UrlOf[q]] \in {cache.entry[UrlOf[q]], NoEntry} BY <3>1
    <3> QED BY <2>1, <2>3, <3>2 DEF CacheInv, Matched, Passed
  <2> QED BY <2>2, <2>3
<1>3. \A q \in Polls : Answered(q)' BY <1>2
<1>4. ASSUME OwnPage PROVE \A q \in Polls : Matched(q)' /\ Passed(q)' BY <1>2, <1>4
<1> QED BY <1>1, <1>3, <1>4 DEF CacheInv, OwnPage

LEMMA SentRow ==
    ASSUME NEW r \in Poll, NEW a \in {0} \cup Versions
    PROVE  LET e == [r EXCEPT !.at = "sent", !.tag = a]
           IN  e \in Poll /\ e.at = "sent" /\ e.tag = a /\ e.body = r.body
BY DEF Poll

LEMMA IdleFacts ==
    /\ IdlePoll \in Poll /\ IdlePoll.at = "idle" /\ IdlePoll.result = 0
    /\ \A p \in Polls, l \in Listings : poll[p] \in Poll =>
          /\ Ended(p, l) \in Poll /\ Ended(p, l).at = "idle"
          /\ Ended(p, l).answer = poll[p].answer /\ Ended(p, l).result = l
<1>1. IdlePoll \in Poll /\ IdlePoll.at = "idle" /\ IdlePoll.result = 0
  BY CacheConstants DEF IdlePoll, Poll
<1>2. ASSUME NEW p \in Polls, NEW l \in Listings, poll[p] \in Poll
      PROVE  /\ Ended(p, l) \in Poll /\ Ended(p, l).at = "idle"
             /\ Ended(p, l).answer = poll[p].answer /\ Ended(p, l).result = l
  <2>1. poll[p].answer \in {0} \cup Versions BY <1>2 DEF Poll
  <2> QED BY <2>1, CacheConstants DEF Ended, Poll
<1> QED BY <1>1, <1>2

LEMMA StartKeeps == ASSUME CacheInv, NEW p \in Polls, StartPoll(p) PROVE CacheInv'
<1> DEFINE x == UrlOf[p]
           c == Fresh(cache, x)
           tag == Validators(c, x)
           v == [IdlePoll EXCEPT !.at = "sent", !.tag = tag]
<1>1. cache' = c /\ poll' = [poll EXCEPT ![p] = v] /\ UNCHANGED <<page, disk>> BY DEF StartPoll
<1>2. x \in Urls BY CacheConstants
<1>3. Sound(c) /\ WithinLimit(c)
  BY <1>2, FreshKeeps, FewerEntries DEF CacheInv, Typed
<1>4. \A y \in Urls : c.entry[y] \in {cache.entry[y], NoEntry}
  BY <1>2, FreshKeeps DEF CacheInv, Typed
<1> HIDE DEF c
<1>5. c.entry[x] \in Entry \cup {NoEntry} BY <1>2, <1>3 DEF Sound
<1>6. c.entry[x].etag \in {0} \cup Versions BY <1>5 DEF Entry, NoEntry
<1>7. tag \in {0} \cup Versions /\ (tag # 0 => c.entry[x].listings # 0 /\ c.entry[x].etag = tag)
  BY <1>6 DEF Validators
<1> HIDE DEF tag
<1>8. v \in Poll /\ v.at = "sent" /\ v.tag = tag /\ v.body = 0
  <2>1. IdlePoll.body = 0 BY DEF IdlePoll
  <2>2. v \in Poll /\ v.at = "sent" /\ v.tag = tag /\ v.body = IdlePoll.body
    BY <1>7, IdleFacts, SentRow
  <2> HIDE DEF v
  <2> QED BY <2>1, <2>2
<1> HIDE DEF v
<1>9. poll'[p] = v BY <1>1 DEF CacheInv, Typed
<1>10. Matched(p)' /\ Answered(p)' /\ Passed(p)'
  BY <1>1, <1>7, <1>8, <1>9 DEF Matched, Answered, Passed
<1> QED BY <1>1, <1>3, <1>4, <1>8, <1>10, PollKeeps

LEMMA AnswerKeeps == ASSUME CacheInv, NEW p \in Polls, Answer(p) PROVE CacheInv'
<1> DEFINE x == page[UrlOf[p]]
           v == IF poll[p].tag = x
                THEN [poll[p] EXCEPT !.at = "unchanged", !.answer = x]
                ELSE [poll[p] EXCEPT !.at = "fetched", !.answer = x, !.body = x]
<1>1. /\ poll[p].at = "sent" /\ poll[p] \in Poll /\ x \in Versions
      /\ UNCHANGED <<page, cache, disk>> /\ poll' = [poll EXCEPT ![p] = v]
  BY CacheConstants DEF Answer, CacheInv, Typed
<1>2. poll[p].body = 0 /\ Sound(cache) /\ WithinLimit(cache) BY <1>1 DEF CacheInv, Typed, Answered
<1> HIDE DEF x
<1>3. /\ v \in Poll
      /\ \/ v.at = "unchanged" /\ v.tag = poll[p].tag /\ v.tag = x /\ v.answer = x /\ v.body = 0
         \/ v.at = "fetched" /\ v.answer = x /\ v.body = x
  BY <1>1, <1>2 DEF Poll
<1> HIDE DEF v
<1>4. poll'[p] = v BY <1>1 DEF CacheInv, Typed
<1>5. x # 0 BY <1>1, CacheConstants
<1>6. OwnPage => Matched(p)' /\ Passed(p)' BY <1>1, <1>3, <1>4, <1>5 DEF CacheInv, Matched, Passed
<1>7. Answered(p)' BY <1>1, <1>3, <1>4 DEF Answered
<1>8. Sound(cache') /\ WithinLimit(cache') /\ \A y \in Urls : cache'.entry[y] = cache.entry[y]
  BY <1>1, <1>2
<1> QED BY <1>1, <1>3, <1>6, <1>7, <1>8, PollKeeps

\* The entry a 304 refers to has the listings of the version answered with.
LEMMA ReuseKeeps == ASSUME CacheInv, NEW p \in Polls, ReuseEntry(p) PROVE CacheInv'
<1> DEFINE x == UrlOf[p]
           c == Fresh(cache, x)
           l == c.entry[x].listings
<1>1. /\ poll[p].at = "unchanged" /\ poll[p] \in Poll /\ x \in Cached(c) /\ cache' = c
      /\ poll' = [poll EXCEPT ![p] = Ended(p, l)] /\ UNCHANGED <<page, disk>>
  BY DEF ReuseEntry, CacheInv, Typed
<1>2. x \in Urls /\ c.entry[x] # NoEntry BY <1>1, CacheConstants DEF Cached
<1>3. Sound(c) /\ WithinLimit(c)
  BY <1>2, FreshKeeps, FewerEntries DEF CacheInv, Typed
<1>4. \A y \in Urls : c.entry[y] \in {cache.entry[y], NoEntry}
  BY <1>2, FreshKeeps DEF CacheInv, Typed
<1> HIDE DEF c
<1>5. c.entry[x] = cache.entry[x] /\ c.entry[x] \in Entry BY <1>2, <1>3, <1>4 DEF Sound
<1>6. l \in Listings BY <1>5 DEF Entry
<1>7. OwnPage => l = poll[p].answer
  <2>1. ASSUME OwnPage PROVE l = poll[p].answer
    <3>1. c.entry[x].etag = poll[p].tag /\ l # 0 BY <1>1, <1>2, <1>5, <2>1 DEF CacheInv, Matched
    <3>2. l = c.entry[x].etag BY <1>2, <1>3, <3>1 DEF Sound
    <3> QED BY <1>1, <3>1, <3>2 DEF CacheInv, Answered
  <2> QED BY <2>1
<1> HIDE DEF l
<1>8. /\ Ended(p, l) \in Poll /\ Ended(p, l).at = "idle"
      /\ Ended(p, l).answer = poll[p].answer /\ Ended(p, l).result = l
  BY <1>1, <1>6, IdleFacts
<1>9. poll'[p] = Ended(p, l) BY <1>1 DEF CacheInv, Typed
<1>10. Answered(p)' /\ (OwnPage => Matched(p)' /\ Passed(p)')
  BY <1>7, <1>8, <1>9 DEF Matched, Answered, Passed
<1> QED BY <1>1, <1>3, <1>4, <1>8, <1>10, PollKeeps

LEMMA LostKeeps == ASSUME CacheInv, NEW p \in Polls, EntryLost(p) PROVE CacheInv'
<1> DEFINE x == UrlOf[p]
           c == Fresh(cache, x)
           on == [poll[p] EXCEPT !.at = "fetched"]
           v == IF p \in Feeds THEN Ended(p, 0) ELSE on
<1>1. /\ poll[p].at = "unchanged" /\ poll[p] \in Poll /\ cache' = c
      /\ poll' = [poll EXCEPT ![p] = v] /\ UNCHANGED <<page, disk>>
  BY DEF EntryLost, CacheInv, Typed
<1>2. x \in Urls BY CacheConstants
<1>3. Sound(c) /\ WithinLimit(c)
  BY <1>2, FreshKeeps, FewerEntries DEF CacheInv, Typed
<1>4. \A y \in Urls : c.entry[y] \in {cache.entry[y], NoEntry}
  BY <1>2, FreshKeeps DEF CacheInv, Typed
<1> HIDE DEF c
<1>5. on \in Poll /\ on.at = "fetched" /\ on.answer = poll[p].answer /\ on.body = poll[p].body
  BY <1>1 DEF Poll
<1> HIDE DEF on
<1>6. /\ Ended(p, 0) \in Poll /\ Ended(p, 0).at = "idle" /\ Ended(p, 0).result = 0
  BY <1>1, IdleFacts, CacheConstants
<1>7. v \in Poll /\ (v = on \/ v = Ended(p, 0)) BY <1>5, <1>6
<1> HIDE DEF v
<1>8. poll'[p] = v BY <1>1 DEF CacheInv, Typed
<1>9. poll[p].answer \in Versions /\ poll[p].body = 0 BY <1>1 DEF CacheInv, Answered
<1>10. Matched(p)' /\ Answered(p)' /\ Passed(p)'
  BY <1>5, <1>6, <1>7, <1>8, <1>9 DEF Matched, Answered, Passed
<1> QED BY <1>1, <1>3, <1>4, <1>7, <1>10, PollKeeps

LEMMA ParsedKeeps == ASSUME CacheInv, NEW p \in Polls, Parsed(p) PROVE CacheInv'
<1> DEFINE x == UrlOf[p]
           l == Found(poll[p].body)
           c == Store(cache, x, poll[p].answer, l)
<1>1. /\ poll[p].at = "fetched" /\ poll[p] \in Poll /\ cache' = c /\ Sound(cache) /\ WithinLimit(cache)
      /\ poll' = [poll EXCEPT ![p] = Ended(p, l)] /\ UNCHANGED <<page, disk>>
  BY DEF Parsed, CacheInv, Typed
<1>2. x \in Urls /\ poll[p].answer \in Versions /\ poll[p].body \in {0, poll[p].answer}
  BY <1>1, CacheConstants DEF CacheInv, Answered
<1>3. l \in {0, poll[p].answer} /\ l \in Listings BY <1>2 DEF Found, Listings
<1> HIDE DEF l
<1>4. /\ Sound(c) /\ WithinLimit(c)
      /\ \A y \in Urls : y # x => c.entry[y] \in {cache.entry[y], NoEntry}
  BY <1>1, <1>2, <1>3, StoreKeeps
<1> HIDE DEF c
<1>5. /\ Ended(p, l) \in Poll /\ Ended(p, l).at = "idle"
      /\ Ended(p, l).answer = poll[p].answer /\ Ended(p, l).result = l
  BY <1>1, <1>3, IdleFacts
<1>6. poll'[p] = Ended(p, l) BY <1>1 DEF CacheInv, Typed
<1>7. Matched(p)' /\ Answered(p)' /\ Passed(p)' BY <1>3, <1>5, <1>6 DEF Matched, Answered, Passed
<1> QED BY <1>1, <1>4, <1>5, <1>7, PollKeeps

LEMMA FailKeeps == ASSUME CacheInv, NEW p \in Polls, Fail(p) PROVE CacheInv'
<1>1. poll' = [poll EXCEPT ![p] = IdlePoll] /\ UNCHANGED <<page, cache, disk>> BY DEF Fail
<1>2. poll'[p] = IdlePoll BY <1>1 DEF CacheInv, Typed
<1>3. Matched(p)' /\ Answered(p)' /\ Passed(p)' BY <1>2, IdleFacts DEF Matched, Answered, Passed
<1>4. Sound(cache') /\ WithinLimit(cache') /\ \A x \in Urls : cache'.entry[x] = cache.entry[x]
  BY <1>1 DEF CacheInv, Typed
<1> QED BY <1>1, <1>3, <1>4, IdleFacts, PollKeeps

LEMMA FlushKeeps == ASSUME CacheInv, Flush PROVE CacheInv'
<1>1. /\ \A p \in Polls : poll[p].at = "idle"
      /\ cache' = Prune(cache) /\ disk' = cache' /\ UNCHANGED <<page, poll>>
  BY DEF Flush
<1>2. /\ Sound(cache') /\ Sound(disk') /\ WithinLimit(cache') /\ WithinLimit(disk')
  BY <1>1, PruneKeeps DEF CacheInv, Typed
<1>3. Typed' BY <1>1, <1>2 DEF CacheInv, Typed
<1> QED BY <1>1, <1>3 DEF CacheInv, Matched, Answered, Passed, OwnPage

LEMMA RestartKeeps == ASSUME CacheInv, Restart PROVE CacheInv'
<1>1. cache' = Prune(disk) /\ poll' = [p \in Polls |-> IdlePoll] /\ UNCHANGED <<page, disk>>
  BY DEF Restart
<1>2. /\ Sound(cache') /\ Sound(disk') /\ WithinLimit(cache') /\ WithinLimit(disk')
  BY <1>1, PruneKeeps DEF CacheInv, Typed
<1>3. Typed' BY <1>1, <1>2, IdleFacts DEF CacheInv, Typed
<1>4. \A p \in Polls : poll'[p] = IdlePoll BY <1>1
<1> QED BY <1>3, <1>4, IdleFacts DEF CacheInv, Matched, Answered, Passed

LEMMA TickKeeps == ASSUME CacheInv, Tick PROVE CacheInv'
<1>1. cache' = Older(cache) /\ disk' = Older(disk) /\ UNCHANGED <<page, poll>> BY DEF Tick
<1>2. /\ Sound(cache') /\ Cached(cache') = Cached(cache)
      /\ Sound(disk') /\ Cached(disk') = Cached(disk)
  BY <1>1, OlderKeeps DEF CacheInv, Typed
<1>3. WithinLimit(cache') /\ WithinLimit(disk') BY <1>2 DEF CacheInv, Typed, WithinLimit
<1>4. Typed' BY <1>1, <1>2, <1>3 DEF CacheInv, Typed
<1>5. \A p \in Polls : Answered(p)' BY <1>1 DEF CacheInv, Answered
<1>6. ASSUME OwnPage, NEW p \in Polls PROVE Matched(p)' /\ Passed(p)'
  <2> DEFINE e == cache.entry[UrlOf[p]]
  <2>1. /\ cache'.entry[UrlOf[p]] = NoEntry <=> e = NoEntry
        /\ cache'.entry[UrlOf[p]].etag = e.etag /\ cache'.entry[UrlOf[p]].listings = e.listings
    BY <1>1, CacheConstants, OlderKeeps DEF CacheInv, Typed
  <2>2. Matched(p) /\ Passed(p) BY <1>6 DEF CacheInv
  <2> QED BY <1>1, <2>1, <2>2 DEF Matched, Passed
<1> QED BY <1>4, <1>5, <1>6 DEF CacheInv, OwnPage

LEMMA PageKeeps == ASSUME CacheInv, NEW x \in Urls, PageChanges(x) PROVE CacheInv'
<1>1. page' \in [Urls -> Versions] /\ UNCHANGED <<cache, disk, poll>>
  BY DEF PageChanges, CacheInv, Typed
<1> QED BY <1>1 DEF CacheInv, Typed, Matched, Answered, Passed, OwnPage

LEMMA CacheStep == CacheInv /\ [Next]_vars => CacheInv'
<1> SUFFICES ASSUME CacheInv, [Next]_vars PROVE CacheInv' OBVIOUS
<1>1. CASE UNCHANGED vars BY <1>1 DEF vars, CacheInv, Typed, Matched, Answered, Passed, OwnPage
<1>2. ASSUME NEW p \in Polls,
             StartPoll(p) \/ Answer(p) \/ ReuseEntry(p) \/ EntryLost(p) \/ Parsed(p) \/ Fail(p)
      PROVE  CacheInv'
  BY <1>2, StartKeeps, AnswerKeeps, ReuseKeeps, LostKeeps, ParsedKeeps, FailKeeps
<1> QED BY <1>1, <1>2, FlushKeeps, RestartKeeps, TickKeeps, PageKeeps DEF Next

LEMMA CacheInvariant == Spec => []CacheInv
<1>1. CacheInv /\ [Next]_vars => CacheInv' BY CacheStep
<1> QED BY <1>1, CacheInit, PTL DEF Spec

\* The cache and its file never hold more entries than the limit, however many polls
\* store between two prunes: those with the latest accesses stay (DiscoveryCache.prune).
THEOREM CacheWithinLimit == Spec => [](TypeOK /\ CacheBounded)
<1>1. CacheInv => TypeOK /\ CacheBounded BY CacheTyped
<1> QED BY <1>1, CacheInvariant, PTL

\* Polls of pages of their own: a 304 refers to the entry whose ETag was sent, if that is
\* still there (DiscoveryCache.validators, AsyncHttpClient.get_response).
THEOREM EntryKept == ASSUME OwnPage PROVE Spec => []EntryMatchesRequest
<1>1. CacheInv => EntryMatchesRequest BY DEF CacheInv, Matched, EntryMatchesRequest
<1> QED BY <1>1, CacheInvariant, PTL

\* And no poll passes on listings of an earlier version (CachedJsonFeedAdapter).
THEOREM ListingsAreCurrent == ASSUME OwnPage PROVE Spec => []NeverStale
<1>1. CacheInv => NeverStale BY DEF CacheInv, Passed, NeverStale
<1> QED BY <1>1, CacheInvariant, PTL
(* The refresh: its files are of their types *)

LEMMA LeastOfThree ==
    ASSUME NEW c, NEW x \in Int, NEW y \in Int, NEW z \in Int
    PROVE  /\ Refresh(c)!Least({x, y, z}) \in {x, y, z}
           /\ Refresh(c)!Least({x, y, z}) <= x /\ Refresh(c)!Least({x, y, z}) <= y /\ Refresh(c)!Least({x, y, z}) <= z
<1>1. \E n \in {x, y, z} : \A m \in {x, y, z} : n <= m OBVIOUS
<1>2. /\ Refresh(c)!Least({x, y, z}) \in {x, y, z}
      /\ \A m \in {x, y, z} : Refresh(c)!Least({x, y, z}) <= m
  BY <1>1 DEF Refresh!Least
<1> QED BY <1>2

LEMMA RefreshConstants ==
    ASSUME NEW c, Refresh(c)!MarketConstantsOK
    PROVE  /\ IsFiniteSet(c.listings)
           /\ c.ceiling \in [c.listings -> Nat] /\ c.source \in [c.listings -> c.sources]
           /\ c.query \in [c.listings -> 1 .. c.queries]
           /\ c.queries \in Nat /\ c.perRun \in Nat /\ c.daily \in Nat /\ c.attempts \in Nat
           /\ c.maxFingerprints \in Nat /\ c.maxRuns \in Nat /\ c.maxMoves \in Nat
           /\ c.dropPct \in Nat /\ c.landedPct \in Nat
           /\ c.prices \subseteq Nat \ {0} /\ c.rates \subseteq Nat \ {0} /\ c.mayStop \in BOOLEAN
<1>1. Refresh(c)!IsFiniteSet(c.listings) <=> IsFiniteSet(c.listings)
  BY DEF Refresh!IsFiniteSet, IsFiniteSet
<1> QED BY <1>1 DEF Refresh!MarketConstantsOK

\* What a run holds in memory.
RefreshRun(c) ==
    [allowed : [c.sources -> 0 .. c.queries], ok : SUBSET c.sources, found : SUBSET c.listings,
     fresh : SUBSET Refresh(c)!Alerts]

Observations(c) == [price : c.prices, at : 0 .. c.maxRuns]

Happenings(c) ==
    [event : {"discovered", "reappeared", "disappeared"}, listing : c.listings, at : 1 .. c.maxRuns]

\* The files of a refresh with the times: a run is later than the last state that was
\* written, and a source has not failed more often than runs have asked it.
RefreshTypes(c) ==
    /\ offers \in [c.listings -> c.prices \cup {0}] /\ rate \in c.rates /\ moves \in 0 .. c.maxMoves
    /\ pc \in {"idle", "poll", "prices", "presence", "health", "fx", "output", "state"}
    /\ run \in RefreshRun(c) /\ (pc = "idle" => run = Refresh(c)!NoRun) /\ (pc # "state" => run.fresh = {})
    /\ \A l \in run.found : offers[l] # 0
    /\ now \in 0 .. c.maxRuns /\ (pc # "idle" => now > 0)
    /\ budget \in [c.sources -> 0 .. c.daily] /\ asked \in [c.sources -> Nat]
    /\ history \in [c.listings -> Seq(Observations(c))]
    /\ state \in [c.listings -> {"none", "active", "gone"}]
    /\ events \subseteq Happenings(c)
    /\ failures \in [c.sources -> 0 .. c.maxRuns]
    /\ \A x \in c.sources :
          failures[x] <= now /\ (pc \in {"poll", "prices", "presence", "health"} => failures[x] < now)
    /\ fx \in c.rates
    /\ since \in 0 .. c.maxRuns /\ since <= now /\ (pc # "idle" => since < now)
    /\ emitted \subseteq Refresh(c)!Alerts /\ outputs \in Seq(SUBSET Refresh(c)!Alerts)
    /\ world \in Seq(SUBSET c.listings) /\ Len(world) = now

LEMMA RefreshTyped == ASSUME NEW c, RefreshTypes(c) PROVE Refresh(c)!TypeOK
BY DEF RefreshTypes, RefreshRun, Observations, Happenings, Refresh!TypeOK

LEMMA NoRunTyped ==
    ASSUME NEW c, Refresh(c)!MarketConstantsOK
    PROVE  /\ Refresh(c)!NoRun \in RefreshRun(c)
           /\ Refresh(c)!NoRun.allowed = [x \in c.sources |-> 0] /\ Refresh(c)!NoRun.ok = {}
           /\ Refresh(c)!NoRun.found = {} /\ Refresh(c)!NoRun.fresh = {}
BY RefreshConstants DEF Refresh!NoRun, RefreshRun

LEMMA RefreshTypesInit == ASSUME NEW c, Refresh(c)!MarketConstantsOK, Refresh(c)!Init PROVE RefreshTypes(c)
<1> USE RefreshConstants
<1>1. Refresh(c)!NoRun \in RefreshRun(c) /\ Refresh(c)!NoRun.found = {} /\ Refresh(c)!NoRun.fresh = {}
  BY NoRunTyped
<1>2. /\ [l \in c.listings |-> <<>>] \in [c.listings -> Seq(Observations(c))]
      /\ <<>> \in Seq(SUBSET Refresh(c)!Alerts) /\ <<>> \in Seq(SUBSET c.listings) /\ Len(<<>>) = 0
  OBVIOUS
<1> QED BY <1>1, <1>2 DEF Refresh!Init, RefreshTypes

LEMMA AllowedTyped ==
    ASSUME NEW c, Refresh(c)!MarketConstantsOK, NEW used \in [c.sources -> 0 .. c.daily]
    PROVE  /\ Refresh(c)!Allowed(used) \in [c.sources -> 0 .. c.queries]
           /\ \A x \in c.sources : used[x] + Refresh(c)!Allowed(used)[x] \in 0 .. c.daily
<1> USE RefreshConstants
<1> SUFFICES ASSUME NEW x \in c.sources
             PROVE  /\ Refresh(c)!Allowed(used)[x] \in 0 .. c.queries
                    /\ used[x] + Refresh(c)!Allowed(used)[x] \in 0 .. c.daily
  BY DEF Refresh!Allowed
<1> DEFINE left == IF c.daily > used[x] THEN c.daily - used[x] ELSE 0
<1>1. left \in Nat /\ used[x] + left = c.daily OBVIOUS
<1>2. Refresh(c)!Allowed(used)[x] = Refresh(c)!Least({c.queries, c.perRun, left})
  BY DEF Refresh!Allowed
<1> HIDE DEF left
<1>0. left \in Int /\ c.queries \in Int /\ c.perRun \in Int BY <1>1
<1>3. /\ Refresh(c)!Least({c.queries, c.perRun, left}) \in {c.queries, c.perRun, left}
      /\ Refresh(c)!Least({c.queries, c.perRun, left}) <= c.queries
      /\ Refresh(c)!Least({c.queries, c.perRun, left}) <= c.perRun
      /\ Refresh(c)!Least({c.queries, c.perRun, left}) <= left
  BY <1>0, LeastOfThree
<1>4. c.queries \in Nat /\ c.perRun \in Nat /\ used[x] \in Nat OBVIOUS
<1>5. Refresh(c)!Least({c.queries, c.perRun, left}) \in Nat BY <1>1, <1>3, <1>4
<1> QED BY <1>1, <1>2, <1>3, <1>4, <1>5

LEMMA RefreshAppended ==
    ASSUME NEW S, NEW q \in Seq(S), NEW x \in S, NEW r, r = Append(q, x)
    PROVE  /\ r \in Seq(S) /\ Len(r) = Len(q) + 1 /\ Len(q) \in Nat
           /\ DOMAIN q = 1 .. Len(q) /\ DOMAIN r = 1 .. Len(q) + 1
           /\ \A i \in 1 .. Len(q) : r[i] = q[i] /\ q[i] \in S
           /\ r[Len(q) + 1] = x
OBVIOUS
LEMMA StartTypes ==
    ASSUME NEW c, Refresh(c)!MarketConstantsOK, RefreshTypes(c), Refresh(c)!Start
    PROVE  RefreshTypes(c)'
<1> USE RefreshConstants
<1>1. /\ pc = "idle" /\ pc' = "poll" /\ now < c.maxRuns /\ now' = now + 1 /\ now \in Nat
      /\ UNCHANGED <<offers, rate, moves, history, state, events, failures, fx, since, emitted, outputs>>
  BY DEF Refresh!Start, Refresh!Then, Refresh!market, Refresh!alertFiles, RefreshTypes
<1>2. PICK midnight \in BOOLEAN :
         LET used == IF midnight THEN [x \in c.sources |-> 0] ELSE budget IN
         /\ run' = [Refresh(c)!NoRun EXCEPT !.allowed = Refresh(c)!Allowed(used)]
         /\ budget' = [x \in c.sources |-> used[x] + Refresh(c)!Allowed(used)[x]]
         /\ asked' = IF midnight THEN [x \in c.sources |-> 0] ELSE asked
  BY DEF Refresh!Start
<1> DEFINE used == IF midnight THEN [x \in c.sources |-> 0] ELSE budget
<1>3. used \in [c.sources -> 0 .. c.daily] BY DEF RefreshTypes
<1>4. /\ run' = [Refresh(c)!NoRun EXCEPT !.allowed = Refresh(c)!Allowed(used)]
      /\ budget' = [x \in c.sources |-> used[x] + Refresh(c)!Allowed(used)[x]]
      /\ asked' = IF midnight THEN [x \in c.sources |-> 0] ELSE asked
  BY <1>2
<1>5. PICK u : u = used OBVIOUS
<1> HIDE DEF used
<1>6. /\ Refresh(c)!Allowed(u) \in [c.sources -> 0 .. c.queries]
      /\ \A x \in c.sources : u[x] + Refresh(c)!Allowed(u)[x] \in 0 .. c.daily
  BY <1>3, <1>5, AllowedTyped
<1>7. run' \in RefreshRun(c) /\ run'.found = {} /\ run'.fresh = {}
  <2>1. run' = [Refresh(c)!NoRun EXCEPT !.allowed = Refresh(c)!Allowed(u)] BY <1>4, <1>5
  <2> QED BY <1>6, <2>1, NoRunTyped DEF RefreshRun
<1>8. budget' \in [c.sources -> 0 .. c.daily] /\ asked' \in [c.sources -> Nat]
  <2>1. budget' = [x \in c.sources |-> u[x] + Refresh(c)!Allowed(u)[x]] BY <1>4, <1>5
  <2>2. asked' = IF midnight THEN [x \in c.sources |-> 0] ELSE asked BY <1>4
  <2>3. budget' \in [c.sources -> 0 .. c.daily] BY <1>6, <2>1
  <2> QED BY <2>2, <2>3 DEF RefreshTypes
<1>9. world' \in Seq(SUBSET c.listings) /\ Len(world') = now'
  <2>1. world' = Append(world, {l \in c.listings : offers[l] # 0}) BY DEF Refresh!Start
  <2>2. world \in Seq(SUBSET c.listings) /\ Len(world) = now BY DEF RefreshTypes
  <2>3. {l \in c.listings : offers[l] # 0} \in SUBSET c.listings OBVIOUS
  <2> QED BY <1>1, <2>1, <2>2, <2>3, RefreshAppended
<1>10. \A x \in c.sources : failures'[x] <= now' /\ failures'[x] < now' BY <1>1 DEF RefreshTypes
<1> QED BY <1>1, <1>7, <1>8, <1>9, <1>10 DEF RefreshTypes

LEMMA PollTypes ==
    ASSUME NEW c, Refresh(c)!MarketConstantsOK, RefreshTypes(c), Refresh(c)!Poll
    PROVE  RefreshTypes(c)'
<1> USE RefreshConstants
<1>1. /\ pc = "poll" /\ pc' = "prices"
      /\ UNCHANGED <<offers, rate, moves, now, budget, history, state, events, failures, fx, since, emitted, outputs, world>>
  BY DEF Refresh!Poll, Refresh!Then, Refresh!market, Refresh!alertFiles
<1>2. PICK ok \in SUBSET Refresh(c)!Polled, tries \in [c.sources -> 1 .. c.attempts] :
         /\ run' = [run EXCEPT !.ok = ok,
                !.found = {l \in c.listings : /\ offers[l] # 0 /\ c.source[l] \in ok
                                              /\ c.query[l] <= run.allowed[c.source[l]]}]
         /\ asked' = [x \in c.sources |-> asked[x] + run.allowed[x] * tries[x]]
  BY DEF Refresh!Poll, Refresh!Tries
<1>3. ok \subseteq c.sources BY DEF Refresh!Polled
<1>4. /\ run' \in RefreshRun(c) /\ run'.fresh = {}
      /\ \A l \in run'.found : offers[l] # 0
  BY <1>1, <1>2, <1>3 DEF RefreshTypes, RefreshRun
<1>5. ASSUME NEW x \in c.sources PROVE asked[x] + run.allowed[x] * tries[x] \in Nat
  <2>1. asked[x] \in Nat /\ run.allowed[x] \in Nat /\ tries[x] \in Nat BY DEF RefreshTypes, RefreshRun
  <2>2. run.allowed[x] * tries[x] \in Nat BY <2>1
  <2> QED BY <2>1, <2>2
<1>6. asked' \in [c.sources -> Nat] BY <1>2, <1>5
<1> QED BY <1>1, <1>4, <1>6 DEF RefreshTypes

LEMMA FilesTypes ==
    ASSUME NEW c, Refresh(c)!MarketConstantsOK, RefreshTypes(c),
           Refresh(c)!Move \/ Refresh(c)!AppendPrices \/ Refresh(c)!UpdatePresence \/ Refresh(c)!RecordHealth \/ Refresh(c)!RefreshFx
    PROVE  RefreshTypes(c)'
<1> USE RefreshConstants
<1>1. CASE Refresh(c)!Move
  <2>1. /\ pc = "idle" /\ moves < c.maxMoves /\ moves' = moves + 1
        /\ UNCHANGED <<pc, run, now, budget, history, state, events, failures, fx, since, emitted, outputs, world, asked>>
    BY <1>1 DEF Refresh!Move, Refresh!alertFiles
  <2>2. \/ \E l \in c.listings : \E p \in (c.prices \cup {0}) \ {offers[l]} :
               offers' = [offers EXCEPT ![l] = p] /\ UNCHANGED rate
        \/ \E r \in c.rates \ {rate} : rate' = r /\ UNCHANGED offers
    BY <1>1 DEF Refresh!Move
  <2>3. offers \in [c.listings -> c.prices \cup {0}] /\ rate \in c.rates BY DEF RefreshTypes
  <2>4. offers' \in [c.listings -> c.prices \cup {0}] /\ rate' \in c.rates
    <3>1. CASE \E r \in c.rates \ {rate} : rate' = r /\ UNCHANGED offers BY <2>3, <3>1
    <3>2. ASSUME NEW l \in c.listings, NEW p \in (c.prices \cup {0}) \ {offers[l]},
                 offers' = [offers EXCEPT ![l] = p], UNCHANGED rate
          PROVE  offers' \in [c.listings -> c.prices \cup {0}] /\ rate' \in c.rates
      BY <2>3, <3>2
    <3> QED BY <2>2, <3>1, <3>2
  <2>5. run.found = {} BY <2>1, NoRunTyped DEF RefreshTypes
  <2> QED BY <2>1, <2>4, <2>5 DEF RefreshTypes
<1>2. CASE Refresh(c)!AppendPrices
  <2>1. /\ pc = "prices" /\ pc' = "presence"
        /\ UNCHANGED <<offers, rate, moves, run, now, budget, state, events, failures, fx, since, emitted, outputs, world, asked>>
    BY <1>2 DEF Refresh!AppendPrices, Refresh!Then, Refresh!market, Refresh!alertFiles
  <2>2. history' = [l \in c.listings |-> IF l \in run.found
              THEN Append(history[l], [price |-> offers[l], at |-> now]) ELSE history[l]]
    BY <1>2 DEF Refresh!AppendPrices
  <2>3. history' \in [c.listings -> Seq(Observations(c))]
    <3>1. history \in [c.listings -> Seq(Observations(c))] /\ now \in 0 .. c.maxRuns
      BY DEF RefreshTypes
    <3>2. \A l \in run.found : l \in c.listings => offers[l] \in c.prices BY DEF RefreshTypes
    <3>3. ASSUME NEW l \in c.listings, l \in run.found
          PROVE Append(history[l], [price |-> offers[l], at |-> now]) \in Seq(Observations(c))
      <4>1. [price |-> offers[l], at |-> now] \in Observations(c)
        BY <3>1, <3>2, <3>3 DEF Observations
      <4>2. history[l] \in Seq(Observations(c)) BY <3>1
      <4> QED BY <4>1, <4>2, RefreshAppended
    <3> QED BY <2>2, <3>1, <3>3
  <2> QED BY <2>1, <2>3 DEF RefreshTypes
<1>3. CASE Refresh(c)!UpdatePresence
  <2>1. /\ pc = "presence" /\ pc' = "health"
        /\ UNCHANGED <<offers, rate, moves, run, now, budget, history, failures, fx, since, emitted, outputs, world, asked>>
    BY <1>3 DEF Refresh!UpdatePresence, Refresh!Then, Refresh!market, Refresh!alertFiles
  <2>2. state' \in [c.listings -> {"none", "active", "gone"}]
    BY <1>3 DEF Refresh!UpdatePresence, RefreshTypes
  <2>3. events' \subseteq Happenings(c)
    <3>1. run.found \subseteq c.listings /\ now \in 1 .. c.maxRuns
      BY <2>1 DEF RefreshTypes, RefreshRun
    <3>2. Refresh(c)!Missing \subseteq c.listings BY DEF Refresh!Missing
    <3>3. ASSUME NEW kind \in {"discovered", "reappeared", "disappeared"}, NEW those \in SUBSET c.listings
          PROVE Refresh(c)!Happened(kind, those) \subseteq Happenings(c)
      BY <3>1 DEF Refresh!Happened, Happenings
    <3> DEFINE new == {l \in run.found : state[l] = "none"}
               back == {l \in run.found : state[l] = "gone"}
    <3>4. new \in SUBSET c.listings /\ back \in SUBSET c.listings BY <3>1
    <3>5. events' = events \cup Refresh(c)!Happened("discovered", new) \cup Refresh(c)!Happened("reappeared", back)
                     \cup Refresh(c)!Happened("disappeared", Refresh(c)!Missing)
      BY <1>3 DEF Refresh!UpdatePresence
    <3> HIDE DEF new, back
    <3>6. /\ Refresh(c)!Happened("discovered", new) \subseteq Happenings(c)
          /\ Refresh(c)!Happened("reappeared", back) \subseteq Happenings(c)
          /\ Refresh(c)!Happened("disappeared", Refresh(c)!Missing) \subseteq Happenings(c)
      BY <3>2, <3>3, <3>4
    <3>7. events \subseteq Happenings(c) BY DEF RefreshTypes
    <3> QED BY <3>5, <3>6, <3>7
  <2> QED BY <2>1, <2>2, <2>3 DEF RefreshTypes
<1>4. CASE Refresh(c)!RecordHealth
  <2>1. /\ pc = "health" /\ pc' = "fx"
        /\ UNCHANGED <<offers, rate, moves, run, now, budget, history, state, events, fx, since, emitted, outputs, world, asked>>
    BY <1>4 DEF Refresh!RecordHealth, Refresh!Then, Refresh!market, Refresh!alertFiles
  <2>2. failures' = [x \in c.sources |-> IF x \notin Refresh(c)!Polled THEN failures[x]
                                         ELSE IF x \in run.ok THEN 0 ELSE failures[x] + 1]
    BY <1>4 DEF Refresh!RecordHealth
  <2>3. \A x \in c.sources : failures[x] \in Nat /\ failures[x] < now /\ now \in 0 .. c.maxRuns
    BY <2>1 DEF RefreshTypes
  <2>4. /\ failures' \in [c.sources -> 0 .. c.maxRuns] /\ \A x \in c.sources : failures'[x] <= now
    BY <2>2, <2>3
  <2> QED BY <2>1, <2>4 DEF RefreshTypes
<1>5. CASE Refresh(c)!RefreshFx
  <2>1. /\ pc = "fx" /\ pc' = "output" /\ fx' = rate
        /\ UNCHANGED <<offers, rate, moves, run, now, budget, history, state, events, failures, since, emitted, outputs, world, asked>>
    BY <1>5 DEF Refresh!RefreshFx, Refresh!Then, Refresh!market, Refresh!alertFiles
  <2> QED BY <2>1 DEF RefreshTypes
<1> QED BY <1>1, <1>2, <1>3, <1>4, <1>5
LEMMA AlertTyped ==
    ASSUME NEW c, NEW type \in {"price_drop", "landed_cost_change", "deal_threshold",
           "new_product", "stock_return"},
           NEW l \in c.listings, NEW at \in 0 .. c.maxRuns, NEW old \in Nat, NEW new \in Nat, NEW landed \in Nat
    PROVE  /\ Refresh(c)!Alert(type, l, at, old, new, landed) \in Refresh(c)!Alerts
           /\ Refresh(c)!Alert(type, l, at, old, new, landed)
                = [type |-> type, listing |-> l, at |-> at, old |-> old, new |-> new, landed |-> landed]
BY DEF Refresh!Alert, Refresh!Alerts

LEMMA RowTyped ==
    ASSUME NEW c, Refresh(c)!MarketConstantsOK, RefreshTypes(c), NEW l \in c.listings,
           NEW k \in 1 .. Len(history[l])
    PROVE  /\ history[l] \in Seq(Observations(c)) /\ Len(history[l]) \in Nat
           /\ history[l][k] \in Observations(c)
           /\ history[l][k].price \in Nat /\ history[l][k].at \in 0 .. c.maxRuns
           /\ Refresh(c)!Landed(history[l][k]) \in Nat /\ Refresh(c)!Landed(history[l][k]) = history[l][k].price * fx
<1>1. history[l] \in Seq(Observations(c)) BY DEF RefreshTypes
<1>2. history[l][k] \in Observations(c) BY <1>1
<1>3. history[l][k].price \in Nat /\ history[l][k].at \in 0 .. c.maxRuns
  BY <1>2, RefreshConstants DEF Observations
<1>4. fx \in Nat BY RefreshConstants DEF RefreshTypes
<1>5. history[l][k].price * fx \in Nat BY <1>3, <1>4
<1> QED BY <1>1, <1>2, <1>3, <1>5 DEF Refresh!Landed

\* The rows _price_alerts and _deal_threshold_alerts look at.
LEMMA LastRows ==
    ASSUME NEW c, Refresh(c)!MarketConstantsOK, RefreshTypes(c), NEW l \in c.listings
    PROVE  /\ Len(history[l]) \in Nat
           /\ Len(history[l]) > 0 =>
                 Len(history[l]) \in 1 .. Len(history[l]) /\ Refresh(c)!Newest(l) = history[l][Len(history[l])]
           /\ Len(history[l]) > 1 =>
                 Len(history[l]) - 1 \in 1 .. Len(history[l]) /\ Refresh(c)!Before(l) = history[l][Len(history[l]) - 1]
<1>1. history[l] \in Seq(Observations(c)) BY DEF RefreshTypes
<1>2. Len(history[l]) \in Nat BY <1>1
<1> QED BY <1>2 DEF Refresh!Newest, Refresh!Before

\* What a new alert is about: the newest row of a listing, or an event since the last
\* generation.
OfRow(c, a, l, k) ==
    /\ a.listing = l /\ a.at = history[l][k].at
    /\ \/ /\ a.type = "price_drop" /\ k > 1
          /\ a.old = history[l][k - 1].price /\ a.new = history[l][k].price /\ a.landed = 0
          /\ Refresh(c)!Fell(a.old, a.new, c.dropPct)
       \/ /\ a.type = "landed_cost_change" /\ a.old = 0 /\ a.new = 0
          /\ a.landed = Refresh(c)!Landed(history[l][k])
       \/ /\ a.type = "deal_threshold" /\ a.old = 0 /\ a.new = 0
          /\ a.landed = Refresh(c)!Landed(history[l][k]) /\ a.landed <= c.ceiling[l]
          /\ k > 1 => Refresh(c)!Landed(history[l][k - 1]) > c.ceiling[l]

LifecycleType(e) == IF e.event = "reappeared" THEN "stock_return" ELSE "new_product"

OfEvent(c, a, e) ==
    /\ e \in events /\ e.event # "disappeared"
    /\ a = [type |-> LifecycleType(e), listing |-> e.listing, at |-> e.at, old |-> 0, new |-> 0, landed |-> 0]

LEMMA FreshAlert ==
    ASSUME NEW c, Refresh(c)!MarketConstantsOK, RefreshTypes(c), NEW a \in Refresh(c)!Fresh
    PROVE  /\ a \in Refresh(c)!Alerts /\ a \notin emitted
           /\ \/ \E l \in c.listings : Len(history[l]) > 0 /\ OfRow(c, a, l, Len(history[l]))
              \/ \E e \in events : e.at > since /\ OfEvent(c, a, e)
<1> DEFINE Drops == {l \in c.listings : Len(history[l]) > 1 /\ Refresh(c)!Fell(Refresh(c)!Before(l).price, Refresh(c)!Newest(l).price, c.dropPct)}
           Changes == {l \in c.listings : /\ Len(history[l]) > 1
                                /\ \/ Refresh(c)!Fell(Refresh(c)!Landed(Refresh(c)!Before(l)), Refresh(c)!Landed(Refresh(c)!Newest(l)), c.landedPct)
                                   \/ Refresh(c)!Grew(Refresh(c)!Landed(Refresh(c)!Before(l)), Refresh(c)!Landed(Refresh(c)!Newest(l)), c.landedPct)}
           Dealt == {l \in c.listings : /\ Len(history[l]) > 0 /\ Refresh(c)!Landed(Refresh(c)!Newest(l)) <= c.ceiling[l]
                                        /\ Len(history[l]) > 1 => Refresh(c)!Landed(Refresh(c)!Before(l)) > c.ceiling[l]}
           Since == {e \in events : e.at > since /\ e.event # "disappeared"}
<1>1. /\ a \notin emitted
      /\ \/ \E l \in Drops : a = Refresh(c)!Alert("price_drop", l, Refresh(c)!Newest(l).at, Refresh(c)!Before(l).price, Refresh(c)!Newest(l).price, 0)
         \/ \E l \in Changes : a = Refresh(c)!Alert("landed_cost_change", l, Refresh(c)!Newest(l).at, 0, 0, Refresh(c)!Landed(Refresh(c)!Newest(l)))
         \/ \E l \in Dealt : a = Refresh(c)!Alert("deal_threshold", l, Refresh(c)!Newest(l).at, 0, 0, Refresh(c)!Landed(Refresh(c)!Newest(l)))
         \/ \E e \in Since : a = Refresh(c)!Alert(IF e.event = "reappeared" THEN "stock_return" ELSE "new_product", e.listing, e.at, 0, 0, 0)
  BY DEF Refresh!Fresh, Refresh!PriceAlerts, Refresh!Deals, Refresh!Lifecycle
<1>2. ASSUME NEW l \in Drops, a = Refresh(c)!Alert("price_drop", l, Refresh(c)!Newest(l).at, Refresh(c)!Before(l).price, Refresh(c)!Newest(l).price, 0)
      PROVE  a \in Refresh(c)!Alerts /\ \E m \in c.listings : Len(history[m]) > 0 /\ OfRow(c, a, m, Len(history[m]))
  <2>1. /\ l \in c.listings /\ Len(history[l]) > 1 /\ Len(history[l]) \in Nat
        /\ Refresh(c)!Newest(l) = history[l][Len(history[l])] /\ Refresh(c)!Before(l) = history[l][Len(history[l]) - 1]
        /\ Refresh(c)!Fell(Refresh(c)!Before(l).price, Refresh(c)!Newest(l).price, c.dropPct)
        /\ Len(history[l]) \in 1 .. Len(history[l]) /\ Len(history[l]) - 1 \in 1 .. Len(history[l])
    BY LastRows
  <2>2. Refresh(c)!Newest(l).price \in Nat /\ Refresh(c)!Newest(l).at \in 0 .. c.maxRuns /\ Refresh(c)!Before(l).price \in Nat
    BY <2>1, RowTyped
  <2>3. /\ a \in Refresh(c)!Alerts
        /\ a = [type |-> "price_drop", listing |-> l, at |-> Refresh(c)!Newest(l).at, old |-> Refresh(c)!Before(l).price,
                new |-> Refresh(c)!Newest(l).price, landed |-> 0]
    BY <1>2, <2>1, <2>2 DEF Refresh!Alert, Refresh!Alerts
  <2>4. OfRow(c, a, l, Len(history[l])) BY <2>1, <2>3 DEF OfRow
  <2> QED BY <2>1, <2>3, <2>4
<1>3. ASSUME NEW l \in Changes, a = Refresh(c)!Alert("landed_cost_change", l, Refresh(c)!Newest(l).at, 0, 0, Refresh(c)!Landed(Refresh(c)!Newest(l)))
      PROVE  a \in Refresh(c)!Alerts /\ \E m \in c.listings : Len(history[m]) > 0 /\ OfRow(c, a, m, Len(history[m]))
  <2>1. /\ l \in c.listings /\ Len(history[l]) > 1 /\ Len(history[l]) \in Nat
        /\ Refresh(c)!Newest(l) = history[l][Len(history[l])]
        /\ Len(history[l]) \in 1 .. Len(history[l])
    BY LastRows
  <2>2. Refresh(c)!Newest(l).at \in 0 .. c.maxRuns /\ Refresh(c)!Landed(Refresh(c)!Newest(l)) \in Nat
    BY <2>1, RowTyped
  <2>3. /\ a \in Refresh(c)!Alerts
        /\ a = [type |-> "landed_cost_change", listing |-> l, at |-> Refresh(c)!Newest(l).at, old |-> 0,
                new |-> 0, landed |-> Refresh(c)!Landed(Refresh(c)!Newest(l))]
    BY <1>3, <2>1, <2>2 DEF Refresh!Alert, Refresh!Alerts
  <2>4. OfRow(c, a, l, Len(history[l])) BY <2>1, <2>3 DEF OfRow
  <2> QED BY <2>1, <2>3, <2>4
<1>4. ASSUME NEW l \in Dealt, a = Refresh(c)!Alert("deal_threshold", l, Refresh(c)!Newest(l).at, 0, 0, Refresh(c)!Landed(Refresh(c)!Newest(l)))
      PROVE  a \in Refresh(c)!Alerts /\ \E m \in c.listings : Len(history[m]) > 0 /\ OfRow(c, a, m, Len(history[m]))
  <2>1. /\ l \in c.listings /\ Len(history[l]) > 0 /\ Len(history[l]) \in Nat
        /\ Refresh(c)!Newest(l) = history[l][Len(history[l])] /\ Refresh(c)!Landed(Refresh(c)!Newest(l)) <= c.ceiling[l]
        /\ Len(history[l]) > 1 =>
              Refresh(c)!Before(l) = history[l][Len(history[l]) - 1] /\ Refresh(c)!Landed(Refresh(c)!Before(l)) > c.ceiling[l]
        /\ Len(history[l]) \in 1 .. Len(history[l])
    BY LastRows
  <2>2. Refresh(c)!Newest(l).at \in 0 .. c.maxRuns /\ Refresh(c)!Landed(Refresh(c)!Newest(l)) \in Nat
    BY <2>1, RowTyped
  <2>3. /\ a \in Refresh(c)!Alerts
        /\ a = [type |-> "deal_threshold", listing |-> l, at |-> Refresh(c)!Newest(l).at, old |-> 0,
                new |-> 0, landed |-> Refresh(c)!Landed(Refresh(c)!Newest(l))]
    BY <1>4, <2>1, <2>2 DEF Refresh!Alert, Refresh!Alerts
  <2>4. OfRow(c, a, l, Len(history[l])) BY <2>1, <2>3 DEF OfRow
  <2> QED BY <2>1, <2>3, <2>4
<1>5. ASSUME NEW e \in Since, a = Refresh(c)!Alert(IF e.event = "reappeared" THEN "stock_return" ELSE "new_product", e.listing, e.at, 0, 0, 0)
      PROVE  a \in Refresh(c)!Alerts /\ e \in events /\ e.at > since /\ OfEvent(c, a, e)
  <2>1. e \in events /\ e.at > since /\ e.event # "disappeared" OBVIOUS
  <2>2. e.listing \in c.listings /\ e.at \in 0 .. c.maxRuns
    BY <2>1, RefreshConstants DEF RefreshTypes, Happenings
  <2>3. LifecycleType(e) \in {"new_product", "stock_return"} BY DEF LifecycleType
  <2>4. a = Refresh(c)!Alert(LifecycleType(e), e.listing, e.at, 0, 0, 0) BY <1>5 DEF LifecycleType
  <2>5. /\ a \in Refresh(c)!Alerts
        /\ a = [type |-> LifecycleType(e), listing |-> e.listing, at |-> e.at, old |-> 0, new |-> 0, landed |-> 0]
    BY <2>2, <2>3, <2>4, AlertTyped
  <2> QED BY <2>1, <2>5 DEF OfEvent
<1> HIDE DEF Drops, Changes, Dealt, Since
<1> QED BY <1>1, <1>2, <1>3, <1>4, <1>5

LEMMA FreshTyped ==
    ASSUME NEW c, Refresh(c)!MarketConstantsOK, RefreshTypes(c)
    PROVE  Refresh(c)!Fresh \subseteq Refresh(c)!Alerts
BY FreshAlert

LEMMA AlertsTypes ==
    ASSUME NEW c, Refresh(c)!MarketConstantsOK, RefreshTypes(c),
           Refresh(c)!WriteOutput \/ Refresh(c)!WriteState \/ Refresh(c)!AlertsCommand \/ Refresh(c)!Stop
    PROVE  RefreshTypes(c)'
<1> USE RefreshConstants
<1>1. CASE Refresh(c)!WriteOutput
  <2>1. /\ pc = "output" /\ pc' = "state" /\ run' = [run EXCEPT !.fresh = Refresh(c)!Fresh]
        /\ outputs' = Append(outputs, Refresh(c)!Fresh)
        /\ UNCHANGED <<offers, rate, moves, now, budget, history, state, events, failures, fx, since, emitted, world, asked>>
    BY <1>1 DEF Refresh!WriteOutput, Refresh!Then, Refresh!market
  <2>2. Refresh(c)!Fresh \in SUBSET Refresh(c)!Alerts BY FreshTyped
  <2>3. outputs' \in Seq(SUBSET Refresh(c)!Alerts) BY <2>1, <2>2, RefreshAppended DEF RefreshTypes
  <2>4. run' \in RefreshRun(c) /\ run'.found = run.found BY <2>1, <2>2 DEF RefreshTypes, RefreshRun
  <2> QED BY <2>1, <2>3, <2>4 DEF RefreshTypes
<1>2. CASE Refresh(c)!WriteState
  <2>1. /\ pc = "state" /\ pc' = "idle" /\ run' = Refresh(c)!NoRun /\ since' = now
        /\ emitted' \in SUBSET (emitted \cup run.fresh)
        /\ UNCHANGED <<offers, rate, moves, now, budget, history, state, events, failures, fx, outputs, world, asked>>
    BY <1>2 DEF Refresh!WriteState, Refresh!Then, Refresh!market, Refresh!Kept
  <2>2. emitted' \subseteq Refresh(c)!Alerts BY <2>1 DEF RefreshTypes, RefreshRun
  <2>3. run' \in RefreshRun(c) /\ run'.found = {} /\ run'.fresh = {} BY <2>1, NoRunTyped
  <2>4. now \in 0 .. c.maxRuns /\ since' \in 0 .. c.maxRuns /\ since' <= now
    BY <2>1 DEF RefreshTypes
  <2> QED BY <2>1, <2>2, <2>3, <2>4 DEF RefreshTypes
<1>3. CASE Refresh(c)!AlertsCommand
  <2>1. /\ pc = "idle" /\ pc' = "output" /\ now < c.maxRuns /\ now' = now + 1
        /\ UNCHANGED <<offers, rate, moves, run, budget, history, state, events, failures, fx, since, emitted, outputs, asked>>
    BY <1>3 DEF Refresh!AlertsCommand, Refresh!Then, Refresh!market, Refresh!alertFiles
  <2>2. world' \in Seq(SUBSET c.listings) /\ Len(world') = now'
    <3>1. world' = Append(world, {l \in c.listings : offers[l] # 0})
      BY <1>3 DEF Refresh!AlertsCommand
    <3>2. world \in Seq(SUBSET c.listings) /\ Len(world) = now BY DEF RefreshTypes
    <3>3. {l \in c.listings : offers[l] # 0} \in SUBSET c.listings OBVIOUS
    <3> QED BY <2>1, <3>1, <3>2, <3>3, RefreshAppended
  <2>3. run = Refresh(c)!NoRun /\ run.fresh = {} BY <2>1, NoRunTyped DEF RefreshTypes
  <2> QED BY <2>1, <2>2, <2>3 DEF RefreshTypes
<1>4. CASE Refresh(c)!Stop
  <2>1. /\ pc # "idle" /\ pc' = "idle" /\ run' = Refresh(c)!NoRun
        /\ UNCHANGED <<offers, rate, moves, now, budget, history, state, events, failures, fx, since, emitted, outputs, world, asked>>
    BY <1>4 DEF Refresh!Stop, Refresh!market, Refresh!alertFiles
  <2> QED BY <2>1, NoRunTyped DEF RefreshTypes
<1> QED BY <1>1, <1>2, <1>3, <1>4

LEMMA RefreshSame ==
    ASSUME NEW c, RefreshTypes(c), UNCHANGED marketVars PROVE RefreshTypes(c)'
BY DEF RefreshTypes, marketVars, Refresh!NoRun

LEMMA RefreshTypesNext ==
    ASSUME NEW c, Refresh(c)!MarketConstantsOK, RefreshTypes(c), [Refresh(c)!Next]_marketVars
    PROVE  RefreshTypes(c)'
BY StartTypes, PollTypes, FilesTypes, AlertsTypes, RefreshSame DEF Refresh!Next
-----------------------------------------------------------------------------
(* The refresh: which files a step changes *)

LEMMA QuietSteps ==
    ASSUME NEW c, Refresh(c)!RecordHealth \/ Refresh(c)!RefreshFx
    PROVE  /\ \/ pc = "health" /\ pc' = "fx"
              \/ pc = "fx" /\ pc' = "output"
           /\ UNCHANGED <<offers, run, now, budget, history, state, events, since, emitted, outputs, world, asked>>
BY DEF Refresh!RecordHealth, Refresh!RefreshFx, Refresh!Then, Refresh!market, Refresh!alertFiles

LEMMA MoveStep ==
    ASSUME NEW c, Refresh(c)!Move
    PROVE  /\ pc = "idle" /\ pc' = "idle"
           /\ UNCHANGED <<run, now, budget, history, state, events, fx, since, emitted, outputs, world, asked>>
BY DEF Refresh!Move, Refresh!alertFiles

LEMMA BeginStep ==
    ASSUME NEW c, RefreshTypes(c), Refresh(c)!Start \/ Refresh(c)!AlertsCommand
    PROVE  /\ pc = "idle" /\ pc' \in {"poll", "output"} /\ now' = now + 1 /\ now \in Nat /\ run'.fresh = {}
           /\ world' = Append(world, {l \in c.listings : offers[l] # 0})
           /\ Len(world') = now' /\ world'[now'] = {l \in c.listings : offers[l] # 0}
           /\ \A i \in 1 .. now : world'[i] = world[i]
           /\ UNCHANGED <<offers, history, state, events, fx, since, emitted, outputs>>
<1>1. /\ pc = "idle" /\ pc' \in {"poll", "output"} /\ now' = now + 1
      /\ world' = Append(world, {l \in c.listings : offers[l] # 0})
      /\ UNCHANGED <<offers, history, state, events, fx, since, emitted, outputs>>
  BY DEF Refresh!Start, Refresh!AlertsCommand, Refresh!Then, Refresh!market, Refresh!alertFiles
<1>2. run'.fresh = {}
  <2>1. CASE Refresh(c)!AlertsCommand
    <3>1. run' = run BY <2>1 DEF Refresh!AlertsCommand
    <3> QED BY <1>1, <3>1 DEF RefreshTypes
  <2>2. CASE Refresh(c)!Start
    <3>1. \E f : run' = [Refresh(c)!NoRun EXCEPT !.allowed = f] BY <2>2 DEF Refresh!Start
    <3> QED BY <3>1 DEF Refresh!NoRun
  <2> QED BY <2>1, <2>2
<1>3. world \in Seq(SUBSET c.listings) /\ Len(world) = now /\ now \in Nat BY DEF RefreshTypes
<1>4. {l \in c.listings : offers[l] # 0} \in SUBSET c.listings OBVIOUS
<1>5. /\ Len(world') = now + 1 /\ world'[now + 1] = {l \in c.listings : offers[l] # 0}
      /\ \A i \in 1 .. now : world'[i] = world[i]
  BY <1>1, <1>3, <1>4, RefreshAppended
<1> QED BY <1>1, <1>2, <1>3, <1>5

LEMMA PollStep ==
    ASSUME NEW c, Refresh(c)!MarketConstantsOK, RefreshTypes(c), Refresh(c)!Poll
    PROVE  /\ pc = "poll" /\ pc' = "prices" /\ run'.ok \subseteq Refresh(c)!Polled /\ run'.allowed = run.allowed
           /\ run'.fresh = run.fresh
           /\ run'.found = {l \in c.listings : /\ offers[l] # 0 /\ c.source[l] \in run'.ok
                                               /\ c.query[l] <= run.allowed[c.source[l]]}
           /\ \E tries \in [c.sources -> 1 .. c.attempts] :
                 asked' = [x \in c.sources |-> asked[x] + run.allowed[x] * tries[x]]
           /\ UNCHANGED <<offers, now, budget, history, state, events, fx, since, emitted, outputs, world>>
<1>1. /\ pc = "poll" /\ pc' = "prices"
      /\ UNCHANGED <<offers, now, budget, history, state, events, fx, since, emitted, outputs, world>>
  BY DEF Refresh!Poll, Refresh!Then, Refresh!market, Refresh!alertFiles
<1>2. PICK ok \in SUBSET Refresh(c)!Polled, tries \in [c.sources -> 1 .. c.attempts] :
         /\ run' = [run EXCEPT !.ok = ok,
                !.found = {l \in c.listings : /\ offers[l] # 0 /\ c.source[l] \in ok
                                              /\ c.query[l] <= run.allowed[c.source[l]]}]
         /\ asked' = [x \in c.sources |-> asked[x] + run.allowed[x] * tries[x]]
  BY DEF Refresh!Poll, Refresh!Tries
<1>3. /\ run'.ok = ok /\ run'.allowed = run.allowed /\ run'.fresh = run.fresh
      /\ run'.found = {l \in c.listings : /\ offers[l] # 0 /\ c.source[l] \in ok
                                          /\ c.query[l] <= run.allowed[c.source[l]]}
  BY <1>2 DEF RefreshTypes, RefreshRun
<1> QED BY <1>1, <1>2, <1>3

LEMMA PricesStep ==
    ASSUME NEW c, Refresh(c)!AppendPrices
    PROVE  /\ pc = "prices" /\ pc' = "presence"
           /\ history' = [l \in c.listings |-> IF l \in run.found
                 THEN Append(history[l], [price |-> offers[l], at |-> now]) ELSE history[l]]
           /\ UNCHANGED <<offers, run, now, budget, state, events, fx, since, emitted, outputs, world, asked>>
BY DEF Refresh!AppendPrices, Refresh!Then, Refresh!market, Refresh!alertFiles

LEMMA PresenceStep ==
    ASSUME NEW c, Refresh(c)!UpdatePresence
    PROVE  /\ pc = "presence" /\ pc' = "health"
           /\ events \subseteq events'
           /\ \A e \in events' \ events :
                 /\ e.at = now
                 /\ e.event = "disappeared" =>
                       e.listing \in c.listings /\ c.source[e.listing] \in run.ok /\ e.listing \notin run.found
           /\ UNCHANGED <<offers, run, now, budget, history, fx, since, emitted, outputs, world, asked>>
BY DEF Refresh!UpdatePresence, Refresh!Then, Refresh!Happened, Refresh!Missing, Refresh!market, Refresh!alertFiles

LEMMA OutputStep ==
    ASSUME NEW c, Refresh(c)!MarketConstantsOK, RefreshTypes(c), Refresh(c)!WriteOutput
    PROVE  /\ pc = "output" /\ pc' = "state" /\ run'.fresh = Refresh(c)!Fresh
           /\ DOMAIN outputs = 1 .. Len(outputs) /\ Len(outputs) \in Nat
           /\ DOMAIN outputs' = 1 .. Len(outputs) + 1 /\ Len(outputs') = Len(outputs) + 1
           /\ outputs'[Len(outputs) + 1] = Refresh(c)!Fresh
           /\ \A i \in 1 .. Len(outputs) : outputs'[i] = outputs[i]
           /\ UNCHANGED <<offers, now, budget, history, state, events, fx, since, emitted, world, asked>>
<1>1. /\ pc = "output" /\ pc' = "state" /\ run' = [run EXCEPT !.fresh = Refresh(c)!Fresh]
      /\ outputs' = Append(outputs, Refresh(c)!Fresh)
      /\ UNCHANGED <<offers, now, budget, history, state, events, fx, since, emitted, world, asked>>
  BY DEF Refresh!WriteOutput, Refresh!Then, Refresh!market
<1>2. Refresh(c)!Fresh \in SUBSET Refresh(c)!Alerts BY FreshTyped
<1>3. /\ DOMAIN outputs = 1 .. Len(outputs) /\ Len(outputs) \in Nat
      /\ DOMAIN outputs' = 1 .. Len(outputs) + 1 /\ Len(outputs') = Len(outputs) + 1
      /\ outputs'[Len(outputs) + 1] = Refresh(c)!Fresh
      /\ \A i \in 1 .. Len(outputs) : outputs'[i] = outputs[i]
  BY <1>1, <1>2, RefreshAppended DEF RefreshTypes
<1>4. run'.fresh = Refresh(c)!Fresh BY <1>1 DEF RefreshTypes, RefreshRun
<1> QED BY <1>1, <1>3, <1>4

LEMMA StateStep ==
    ASSUME NEW c, Refresh(c)!WriteState
    PROVE  /\ pc = "state" /\ pc' = "idle" /\ run' = Refresh(c)!NoRun /\ run'.fresh = {} /\ since' = now
           /\ emitted' \in Refresh(c)!Kept(emitted \cup run.fresh) /\ emitted' \subseteq emitted \cup run.fresh
           /\ UNCHANGED <<offers, now, budget, history, state, events, fx, outputs, world, asked>>
BY DEF Refresh!WriteState, Refresh!Then, Refresh!market, Refresh!Kept, Refresh!NoRun

LEMMA StopStep ==
    ASSUME NEW c, Refresh(c)!Stop
    PROVE  /\ c.mayStop /\ pc # "idle" /\ pc' = "idle" /\ run' = Refresh(c)!NoRun /\ run'.fresh = {}
           /\ UNCHANGED <<offers, now, budget, history, state, events, fx, since, emitted, outputs, world, asked>>
BY DEF Refresh!Stop, Refresh!market, Refresh!alertFiles, Refresh!NoRun

LEMMA RefreshSteps ==
    ASSUME NEW c, Refresh(c)!Next
    PROVE  \/ Refresh(c)!Move \/ (Refresh(c)!Start \/ Refresh(c)!AlertsCommand) \/ Refresh(c)!Poll \/ Refresh(c)!AppendPrices \/ Refresh(c)!UpdatePresence
           \/ (Refresh(c)!RecordHealth \/ Refresh(c)!RefreshFx) \/ Refresh(c)!WriteOutput \/ Refresh(c)!WriteState \/ Refresh(c)!Stop
BY DEF Refresh!Next

-----------------------------------------------------------------------------
(* The refresh: a listing that is recorded as disappeared was not on offer *)

\* While a run is under way the market is as its start found it, and the poll
\* of a source that answered has all it offers: the budget of a source with one query
\* is enough for that query.
Absences(c) ==
    /\ pc # "idle" => world[now] = {l \in c.listings : offers[l] # 0}
    /\ pc \in {"prices", "presence"} =>
          \A l \in c.listings : offers[l] # 0 /\ c.source[l] \in run.ok => l \in run.found
    /\ Refresh(c)!NoFalseDisappearance

LEMMA EventTyped ==
    ASSUME NEW c, Refresh(c)!MarketConstantsOK, RefreshTypes(c), NEW e \in events
    PROVE  e.listing \in c.listings /\ e.at \in 1 .. c.maxRuns
BY DEF RefreshTypes, Happenings

\* No event is of a later run.
EventsPast(c) == \A e \in events : e.at <= now /\ (pc \in {"poll", "prices", "presence"} => e.at < now)

LEMMA EventsPastNext ==
    ASSUME NEW c, Refresh(c)!MarketConstantsOK, RefreshTypes(c), EventsPast(c),
           [Refresh(c)!Next]_marketVars
    PROVE  EventsPast(c)'
<1> USE DEF EventsPast
<1>1. \A e \in events : e.at \in Int BY EventTyped, RefreshConstants
<1>2. now \in Nat BY DEF RefreshTypes
<1>3. CASE Refresh(c)!Next
  <2>1. CASE Refresh(c)!Move BY <2>1, MoveStep
  <2>2. CASE Refresh(c)!Start \/ Refresh(c)!AlertsCommand
    <3>1. now' = now + 1 /\ UNCHANGED events BY <2>2, BeginStep
    <3> QED BY <1>1, <1>2, <3>1
  <2>3. CASE Refresh(c)!Poll BY <2>3, PollStep
  <2>4. CASE Refresh(c)!AppendPrices BY <2>4, PricesStep
  <2>5. CASE Refresh(c)!UpdatePresence
    <3>1. pc' = "health" /\ UNCHANGED now /\ \A e \in events' \ events : e.at = now
      BY <2>5, PresenceStep
    <3>2. \A e \in events' : e.at <= now BY <1>2, <3>1
    <3> QED BY <3>1, <3>2
  <2>6. CASE Refresh(c)!RecordHealth \/ Refresh(c)!RefreshFx BY <2>6, QuietSteps
  <2>7. CASE Refresh(c)!WriteOutput BY <2>7, OutputStep
  <2>8. CASE Refresh(c)!WriteState BY <2>8, StateStep
  <2>9. CASE Refresh(c)!Stop BY <2>9, StopStep
  <2> QED BY <1>3, <2>1, <2>2, <2>3, <2>4, <2>5, <2>6, <2>7, <2>8, <2>9, RefreshSteps
<1>4. CASE UNCHANGED marketVars BY <1>4 DEF marketVars
<1> QED BY <1>3, <1>4

LEMMA AbsencesNext ==
    ASSUME NEW c, Refresh(c)!MarketConstantsOK, c.queries = 1, RefreshTypes(c),
           EventsPast(c), Absences(c),
           [Refresh(c)!Next]_marketVars
    PROVE  Absences(c)'
<1> USE RefreshConstants
<1>0. /\ pc # "idle" => world[now] = {l \in c.listings : offers[l] # 0}
      /\ pc \in {"prices", "presence"} =>
            \A l \in c.listings : offers[l] # 0 /\ c.source[l] \in run.ok => l \in run.found
      /\ \A e \in events : e.event = "disappeared" => e.listing \notin world[e.at]
  BY DEF Absences, Refresh!NoFalseDisappearance
<1> SUFFICES /\ pc' # "idle" => world'[now'] = {l \in c.listings : offers'[l] # 0}
             /\ pc' \in {"prices", "presence"} =>
                   \A l \in c.listings : offers'[l] # 0 /\ c.source[l] \in run'.ok => l \in run'.found
             /\ \A e \in events' : e.event = "disappeared" => e.listing \notin world'[e.at]
  BY DEF Absences, Refresh!NoFalseDisappearance
<1>1. CASE Refresh(c)!Next
  <2>1. CASE Refresh(c)!Move BY <1>0, <2>1, MoveStep
  <2>2. CASE Refresh(c)!Start \/ Refresh(c)!AlertsCommand
    <3>1. /\ now' = now + 1 /\ pc' \in {"poll", "output"} /\ UNCHANGED <<events, offers>>
          /\ world'[now'] = {l \in c.listings : offers[l] # 0} /\ now \in Nat
          /\ \A i \in 1 .. now : world'[i] = world[i]
      BY <2>2, BeginStep
    <3>2. \A e \in events : e.at \in 1 .. now BY <3>1, EventTyped DEF EventsPast
    <3> QED BY <1>0, <3>1, <3>2
  <2>3. CASE Refresh(c)!Poll
    <3>1. /\ pc = "poll" /\ pc' = "prices" /\ run'.ok \subseteq Refresh(c)!Polled
          /\ run'.found = {l \in c.listings : /\ offers[l] # 0 /\ c.source[l] \in run'.ok
                                              /\ c.query[l] <= run.allowed[c.source[l]]}
          /\ UNCHANGED <<offers, now, events, world>>
      BY <2>3, PollStep
    <3>2. ASSUME NEW l \in c.listings, offers[l] # 0, c.source[l] \in run'.ok
          PROVE  l \in run'.found
      <4>1. c.query[l] \in 1 .. c.queries BY RefreshConstants
      <4>1a. c.query[l] = 1 BY <4>1
      <4>2. run.allowed[c.source[l]] > 0 /\ run.allowed[c.source[l]] \in Nat
        <5>1. c.source[l] \in Refresh(c)!Polled BY <3>1, <3>2
        <5>2. c.source[l] \in c.sources /\ run.allowed[c.source[l]] > 0 BY <5>1 DEF Refresh!Polled
        <5>3. run.allowed \in [c.sources -> 0 .. c.queries] BY DEF RefreshTypes, RefreshRun
        <5> QED BY <5>2, <5>3
      <4> QED BY <3>1, <3>2, <4>1a, <4>2
    <3> QED BY <1>0, <3>1, <3>2
  <2>4. CASE Refresh(c)!AppendPrices BY <1>0, <2>4, PricesStep
  <2>5. CASE Refresh(c)!UpdatePresence
    <3>1. /\ pc = "presence" /\ pc' = "health" /\ UNCHANGED <<offers, run, now, world>>
          /\ \A e \in events' \ events :
                /\ e.at = now
                /\ e.event = "disappeared" =>
                      e.listing \in c.listings /\ c.source[e.listing] \in run.ok /\ e.listing \notin run.found
      BY <2>5, PresenceStep
    <3>2. world[now] = {l \in c.listings : offers[l] # 0} BY <1>0, <3>1
    <3>3. ASSUME NEW e \in events' \ events, e.event = "disappeared" PROVE e.listing \notin world[e.at]
      BY <1>0, <3>1, <3>2, <3>3
    <3> QED BY <1>0, <3>1, <3>2, <3>3
  <2>6. CASE Refresh(c)!RecordHealth \/ Refresh(c)!RefreshFx BY <1>0, <2>6, QuietSteps
  <2>7. CASE Refresh(c)!WriteOutput BY <1>0, <2>7, OutputStep
  <2>8. CASE Refresh(c)!WriteState BY <1>0, <2>8, StateStep
  <2>9. CASE Refresh(c)!Stop BY <1>0, <2>9, StopStep
  <2> QED BY <1>1, <2>1, <2>2, <2>3, <2>4, <2>5, <2>6, <2>7, <2>8, <2>9, RefreshSteps
<1>2. CASE UNCHANGED marketVars BY <1>0, <1>2 DEF marketVars
<1> QED BY <1>1, <1>2

LEMMA AbsencesInit ==
    ASSUME NEW c, Refresh(c)!Init PROVE Absences(c) /\ EventsPast(c)
BY DEF Refresh!Init, Absences, EventsPast, Refresh!NoFalseDisappearance
-----------------------------------------------------------------------------
(* The refresh: requests keep to the budget *)

\* What is reserved, counted with all repetitions, covers what was asked, and what a run that
\* is about to poll may ask.
Reserved(c) ==
    \A x \in c.sources :
        asked[x] + c.attempts * (IF pc = "poll" THEN run.allowed[x] ELSE 0) <= c.attempts * budget[x]

LEMMA Repeated ==
    ASSUME NEW n \in Nat, NEW m \in Nat, NEW k \in 1 .. m
    PROVE  n * k <= m * n
<1>1. PICK d \in Nat : m = k + d
  <2>1. m - k \in Nat /\ m = k + (m - k) OBVIOUS
  <2> QED BY <2>1
<1>2. m * n = n * k + n * d BY <1>1
<1>3. n * d \in Nat /\ n * k \in Nat OBVIOUS
<1> QED BY <1>2, <1>3

LEMMA ReservedInit == ASSUME NEW c, Refresh(c)!MarketConstantsOK, Refresh(c)!Init PROVE Reserved(c)
<1>1. c.attempts \in Nat BY RefreshConstants
<1> QED BY <1>1 DEF Refresh!Init, Reserved

LEMMA ReservedNext ==
    ASSUME NEW c, Refresh(c)!MarketConstantsOK, RefreshTypes(c), Reserved(c),
           [Refresh(c)!Next]_marketVars
    PROVE  Reserved(c)'
<1> USE RefreshConstants
<1>0. /\ asked \in [c.sources -> Nat] /\ budget \in [c.sources -> 0 .. c.daily]
      /\ run.allowed \in [c.sources -> 0 .. c.queries]
      /\ \A x \in c.sources : asked[x] \in Nat /\ budget[x] \in Nat /\ run.allowed[x] \in Nat
  BY DEF RefreshTypes, RefreshRun
<1>a. ASSUME UNCHANGED <<asked, budget, run>>, pc # "poll", pc' # "poll"
      PROVE  Reserved(c)'
  BY <1>a DEF Reserved
<1>b. ASSUME UNCHANGED <<asked, budget>>, pc' # "poll"
      PROVE  Reserved(c)'
  BY <1>b, <1>0 DEF Reserved
<1>1. CASE Refresh(c)!Next
  <2>1. CASE Refresh(c)!Move BY <1>b, <2>1, MoveStep
  <2>2. CASE Refresh(c)!Start
    <3>1. pc = "idle" /\ pc' = "poll" BY <2>2 DEF Refresh!Start, Refresh!Then
    <3>2. PICK midnight \in BOOLEAN :
             LET used == IF midnight THEN [x \in c.sources |-> 0] ELSE budget IN
             /\ run' = [Refresh(c)!NoRun EXCEPT !.allowed = Refresh(c)!Allowed(used)]
             /\ budget' = [x \in c.sources |-> used[x] + Refresh(c)!Allowed(used)[x]]
             /\ asked' = IF midnight THEN [x \in c.sources |-> 0] ELSE asked
      BY <2>2 DEF Refresh!Start
    <3>3. PICK used : used = IF midnight THEN [x \in c.sources |-> 0] ELSE budget OBVIOUS
    <3>4. /\ run'.allowed = Refresh(c)!Allowed(used)
          /\ budget' = [x \in c.sources |-> used[x] + Refresh(c)!Allowed(used)[x]]
          /\ asked' = IF midnight THEN [x \in c.sources |-> 0] ELSE asked
      BY <3>2, <3>3 DEF Refresh!NoRun
    <3>5. used \in [c.sources -> 0 .. c.daily] BY <1>0, <3>3
    <3>6. Refresh(c)!Allowed(used) \in [c.sources -> 0 .. c.queries] BY <3>5, AllowedTyped
    <3>7. ASSUME NEW x \in c.sources PROVE asked'[x] + c.attempts * run'.allowed[x] <= c.attempts * budget'[x]
      <4>1. used[x] \in Nat /\ Refresh(c)!Allowed(used)[x] \in Nat BY <3>5, <3>6
      <4>2. asked'[x] \in Nat /\ asked'[x] <= c.attempts * used[x]
        <5>1. CASE used = [y \in c.sources |-> 0] /\ asked' = [y \in c.sources |-> 0] BY <5>1
        <5>2. CASE used = budget /\ asked' = asked
          <6>1. asked[x] + c.attempts * 0 <= c.attempts * budget[x] BY <3>1 DEF Reserved
          <6> QED BY <5>2, <6>1, <1>0
        <5> QED BY <3>3, <3>4, <5>1, <5>2
      <4>3. budget'[x] = used[x] + Refresh(c)!Allowed(used)[x] BY <3>4
      <4>4. c.attempts * budget'[x] = c.attempts * used[x] + c.attempts * Refresh(c)!Allowed(used)[x]
        BY <4>1, <4>3
      <4>5. /\ c.attempts * used[x] \in Nat /\ c.attempts * Refresh(c)!Allowed(used)[x] \in Nat
        BY <4>1
      <4> QED BY <3>4, <4>2, <4>4, <4>5
    <3> QED BY <3>1, <3>7 DEF Reserved
  <2>3. CASE Refresh(c)!AlertsCommand
    <3>1. UNCHANGED <<asked, budget>> /\ pc' = "output"
      BY <2>3 DEF Refresh!AlertsCommand, Refresh!Then
    <3> QED BY <1>b, <3>1
  <2>4. CASE Refresh(c)!Poll
    <3>1. pc = "poll" /\ pc' = "prices" /\ UNCHANGED budget BY <2>4, PollStep
    <3>2. PICK tries \in [c.sources -> 1 .. c.attempts] :
             asked' = [x \in c.sources |-> asked[x] + run.allowed[x] * tries[x]]
      BY <2>4, PollStep
    <3>3. ASSUME NEW x \in c.sources PROVE asked'[x] + c.attempts * 0 <= c.attempts * budget'[x]
      <4>1. asked[x] \in Nat /\ run.allowed[x] \in Nat /\ budget[x] \in Nat /\ tries[x] \in 1 .. c.attempts
        BY <1>0
      <4>2. run.allowed[x] * tries[x] <= c.attempts * run.allowed[x] BY <4>1, Repeated
      <4>3. asked[x] + c.attempts * run.allowed[x] <= c.attempts * budget[x] BY <3>1 DEF Reserved
      <4>4. /\ run.allowed[x] * tries[x] \in Nat /\ c.attempts * run.allowed[x] \in Nat
            /\ c.attempts * budget[x] \in Nat
        BY <4>1
      <4>5. asked'[x] = asked[x] + run.allowed[x] * tries[x] BY <3>2
      <4> QED BY <3>1, <4>1, <4>2, <4>3, <4>4, <4>5
    <3> QED BY <3>1, <3>3 DEF Reserved
  <2>5. CASE Refresh(c)!AppendPrices BY <1>b, <2>5, PricesStep
  <2>6. CASE Refresh(c)!UpdatePresence BY <1>b, <2>6, PresenceStep
  <2>7. CASE Refresh(c)!RecordHealth \/ Refresh(c)!RefreshFx BY <1>b, <2>7, QuietSteps
  <2>8. CASE Refresh(c)!WriteOutput BY <1>b, <2>8, OutputStep
  <2>9. CASE Refresh(c)!WriteState BY <1>b, <2>9, StateStep
  <2>10. CASE Refresh(c)!Stop BY <1>b, <2>10, StopStep
  <2> QED BY <1>1, <2>1, <2>2, <2>3, <2>4, <2>5, <2>6, <2>7, <2>8, <2>9, <2>10, RefreshSteps
<1>2. CASE UNCHANGED marketVars BY <1>2 DEF marketVars, Reserved
<1> QED BY <1>1, <1>2

LEMMA ReservedIsWithin ==
    ASSUME NEW c, Refresh(c)!MarketConstantsOK, RefreshTypes(c), Reserved(c)
    PROVE  Refresh(c)!RequestsWithinBudget
<1> SUFFICES ASSUME NEW x \in c.sources PROVE asked[x] <= c.attempts * c.daily
  BY DEF Refresh!RequestsWithinBudget
<1>1. /\ asked[x] \in Nat /\ budget[x] \in 0 .. c.daily /\ run.allowed[x] \in 0 .. c.queries
      /\ c.queries \in Nat /\ c.daily \in Nat /\ c.attempts \in Nat
  BY RefreshConstants DEF RefreshTypes, RefreshRun
<1>2. PICK n \in Nat : n = IF pc = "poll" THEN run.allowed[x] ELSE 0 BY <1>1
<1>3. asked[x] + c.attempts * n <= c.attempts * budget[x] BY <1>2 DEF Reserved
<1>4. c.attempts * n \in Nat BY <1>1
<1>5. c.attempts * budget[x] <= c.attempts * c.daily
  <2>1. PICK d \in Nat : c.daily = budget[x] + d
    <3>1. c.daily - budget[x] \in Nat /\ c.daily = budget[x] + (c.daily - budget[x]) BY <1>1
    <3> QED BY <3>1
  <2>2. c.attempts * c.daily = c.attempts * budget[x] + c.attempts * d BY <1>1, <2>1
  <2>3. c.attempts * d \in Nat /\ c.attempts * budget[x] \in Nat BY <1>1
  <2> QED BY <2>2, <2>3
<1>6. c.attempts * budget[x] \in Nat /\ c.attempts * c.daily \in Nat BY <1>1
<1> QED BY <1>1, <1>3, <1>4, <1>5, <1>6

-----------------------------------------------------------------------------
(* The refresh: what appeared or returned is reported *)

\* What counts as given is in the output, and all that happened up to the last generation is.
\* A generation that has written its output has reported everything there is.
Reports(c) ==
    /\ \A a \in emitted \cup run.fresh : \E i \in 1 .. Len(outputs) : a \in outputs[i]
    /\ \A e \in events : e.event # "disappeared" /\ (e.at <= since \/ pc = "state") =>
          \E i \in 1 .. Len(outputs) : \E a \in outputs[i] :
              a.listing = e.listing /\ a.at = e.at /\ a.type \in {"new_product", "stock_return"}

LEMMA ReportsInit == ASSUME NEW c, Refresh(c)!Init PROVE Reports(c)
BY NoRunTyped DEF Refresh!Init, Reports, Refresh!NoRun

LEMMA ReportsNext ==
    ASSUME NEW c, Refresh(c)!MarketConstantsOK, RefreshTypes(c), EventsPast(c), Reports(c),
           [Refresh(c)!Next]_marketVars
    PROVE  Reports(c)'
<1> USE RefreshConstants
<1> DEFINE In(a) == \E i \in 1 .. Len(outputs) : a \in outputs[i]
           Told(e) == \E i \in 1 .. Len(outputs) : \E a \in outputs[i] :
                          a.listing = e.listing /\ a.at = e.at /\ a.type \in {"new_product", "stock_return"}
<1>0. /\ \A a \in emitted \cup run.fresh : In(a)
      /\ \A e \in events : e.event # "disappeared" /\ (e.at <= since \/ pc = "state") => Told(e)
  BY DEF Reports
<1>a. ASSUME UNCHANGED <<emitted, events, since, outputs>>, pc # "state", pc' # "state",
             run'.fresh \subseteq run.fresh
      PROVE  Reports(c)'
  BY <1>a DEF Reports
<1>1. CASE Refresh(c)!Next
  <2>0. pc # "state" => run.fresh = {} BY DEF RefreshTypes
  <2>1. CASE Refresh(c)!Move BY <1>a, <2>1, MoveStep
  <2>2. CASE Refresh(c)!Start \/ Refresh(c)!AlertsCommand BY <1>a, <2>2, BeginStep
  <2>3. CASE Refresh(c)!Poll BY <1>a, <2>3, PollStep
  <2>4. CASE Refresh(c)!AppendPrices BY <1>a, <2>4, PricesStep
  <2>5. CASE Refresh(c)!UpdatePresence
    <3>1. /\ pc = "presence" /\ pc' = "health" /\ UNCHANGED <<run, since, emitted, outputs, now>>
          /\ \A e \in events' \ events : e.at = now
      BY <2>5, PresenceStep
    <3>2. since < now /\ since \in Nat /\ now \in Nat BY <3>1 DEF RefreshTypes
    <3>3. \A e \in events' : e.event # "disappeared" /\ e.at <= since => e \in events BY <3>1, <3>2
    <3> QED BY <1>0, <3>1, <3>3 DEF Reports
  <2>6. CASE Refresh(c)!RecordHealth \/ Refresh(c)!RefreshFx BY <1>a, <2>6, QuietSteps
  <2>7. CASE Refresh(c)!WriteOutput
    <3>1. /\ pc = "output" /\ pc' = "state" /\ run'.fresh = Refresh(c)!Fresh
          /\ Len(outputs) \in Nat /\ Len(outputs') = Len(outputs) + 1
          /\ outputs'[Len(outputs) + 1] = Refresh(c)!Fresh
          /\ \A i \in 1 .. Len(outputs) : outputs'[i] = outputs[i]
          /\ UNCHANGED <<now, events, since, emitted>>
      BY <2>7, OutputStep
    <3>2. ASSUME NEW a, In(a) PROVE \E i \in 1 .. Len(outputs') : a \in outputs'[i]
      BY <3>1, <3>2
    <3>3. ASSUME NEW a \in Refresh(c)!Fresh PROVE \E i \in 1 .. Len(outputs') : a \in outputs'[i]
      <4>1. Len(outputs) + 1 \in 1 .. Len(outputs') BY <3>1
      <4> QED BY <3>1, <4>1
    <3>4. \A a \in emitted' \cup run'.fresh : \E i \in 1 .. Len(outputs') : a \in outputs'[i]
      BY <1>0, <3>1, <3>2, <3>3
    <3>5. ASSUME NEW e \in events, e.event # "disappeared"
          PROVE  \E i \in 1 .. Len(outputs') : \E a \in outputs'[i] :
                    a.listing = e.listing /\ a.at = e.at /\ a.type \in {"new_product", "stock_return"}
      <4>1. CASE e.at <= since BY <1>0, <3>1, <3>5, <4>1
      <4>2. CASE ~(e.at <= since)
        <5> DEFINE a == Refresh(c)!Alert(IF e.event = "reappeared" THEN "stock_return" ELSE "new_product", e.listing, e.at, 0, 0, 0)
        <5>1. e.at > since
          <6>1. e.at \in 1 .. c.maxRuns BY EventTyped
          <6>2. since \in 0 .. c.maxRuns BY DEF RefreshTypes
          <6> QED BY <4>2, <6>1, <6>2
        <5>2. a \in Refresh(c)!Lifecycle BY <3>5, <5>1 DEF Refresh!Lifecycle
        <5>3. a.listing = e.listing /\ a.at = e.at /\ a.type \in {"new_product", "stock_return"}
          BY DEF Refresh!Alert
        <5>4. a \in Refresh(c)!Fresh \/ a \in emitted BY <5>2 DEF Refresh!Fresh
        <5> HIDE DEF a
        <5>5. \E i \in 1 .. Len(outputs') : a \in outputs'[i] BY <1>0, <3>1, <3>4, <5>4
        <5> QED BY <5>3, <5>5
      <4> QED BY <4>1, <4>2
    <3> QED BY <3>1, <3>4, <3>5 DEF Reports
  <2>8. CASE Refresh(c)!WriteState
    <3>1. /\ pc = "state" /\ pc' = "idle" /\ run'.fresh = {} /\ since' = now
          /\ emitted' \subseteq emitted \cup run.fresh
          /\ UNCHANGED <<events, outputs>>
      BY <2>8, StateStep
    <3> QED BY <1>0, <3>1 DEF Reports
  <2>9. CASE Refresh(c)!Stop
    <3>1. pc' = "idle" /\ run'.fresh = {} /\ UNCHANGED <<events, since, emitted, outputs>>
      BY <2>9, StopStep
    <3> QED BY <1>0, <3>1 DEF Reports
  <2> QED BY <1>1, <2>1, <2>2, <2>3, <2>4, <2>5, <2>6, <2>7, <2>8, <2>9, RefreshSteps
<1>2. CASE UNCHANGED marketVars BY <1>2 DEF marketVars, Reports
<1> QED BY <1>1, <1>2

LEMMA ReportedToo ==
    ASSUME NEW c, RefreshTypes(c), Reports(c) PROVE Refresh(c)!LifecycleReported
<1>1. DOMAIN outputs = 1 .. Len(outputs) BY DEF RefreshTypes
<1> QED BY <1>1 DEF Reports, Refresh!LifecycleReported
-----------------------------------------------------------------------------
(* The refresh: the rows of a listing, when every run ends regularly *)

\* Observations of a listing are of different runs, the later ones behind; without
\* interruptions each generation is of the run before it.
Observed(c) ==
    /\ \A l \in c.listings : \A j \in 1 .. Len(history[l]) :
          /\ history[l][j].at <= now
          /\ pc \in {"poll", "prices"} => history[l][j].at < now
          /\ \A i \in 1 .. j - 1 : history[l][i].at < history[l][j].at
    /\ since = (IF pc = "idle" THEN now ELSE now - 1)

RowsSame(c) ==
    /\ UNCHANGED <<now, history, since>>
    /\ pc' \in {"poll", "prices"} => pc \in {"poll", "prices"}
    /\ pc = "idle" <=> pc' = "idle"

LEMMA ObservedInit == ASSUME NEW c, Refresh(c)!Init PROVE Observed(c)
<1>1. \A l \in c.listings : Len(history[l]) = 0 BY DEF Refresh!Init
<1>2. since = 0 /\ now = 0 /\ pc = "idle" BY DEF Refresh!Init
<1> QED BY <1>1, <1>2 DEF Observed

LEMMA ObservedSame == ASSUME NEW c, Observed(c), RowsSame(c) PROVE Observed(c)'
BY DEF Observed, RowsSame

LEMMA ObservedNext ==
    ASSUME NEW c, Refresh(c)!MarketConstantsOK, c.mayStop = FALSE, RefreshTypes(c),
           Observed(c), [Refresh(c)!Next]_marketVars
    PROVE  Observed(c)'
<1> USE RefreshConstants
<1>1. CASE Refresh(c)!Next
  <2>0. /\ now \in Nat /\ since = (IF pc = "idle" THEN now ELSE now - 1)
        /\ \A l \in c.listings : \A j \in 1 .. Len(history[l]) :
              /\ history[l][j].at \in Nat /\ history[l][j].at <= now
              /\ pc \in {"poll", "prices"} => history[l][j].at < now
              /\ \A i \in 1 .. j - 1 : history[l][i].at < history[l][j].at
    <3>1. ASSUME NEW l \in c.listings, NEW j \in 1 .. Len(history[l]) PROVE history[l][j].at \in Nat
      <4>1. history[l][j].at \in 0 .. c.maxRuns BY RowTyped
      <4> QED BY <4>1
    <3>2. now \in Nat BY DEF RefreshTypes
    <3> QED BY <3>1, <3>2 DEF Observed
  <2>1. CASE Refresh(c)!Move BY <2>1, MoveStep, ObservedSame DEF RowsSame
  <2>2. CASE Refresh(c)!Start \/ Refresh(c)!AlertsCommand
    <3>1. /\ pc = "idle" /\ pc' # "idle" /\ now' = now + 1 /\ UNCHANGED <<history, since>>
      BY <2>2, BeginStep
    <3>2. \A l \in c.listings : \A j \in 1 .. Len(history[l]) : history[l][j].at < now + 1 BY <2>0
    <3>3. now' - 1 = now /\ since = now BY <2>0, <3>1
    <3> QED BY <2>0, <3>1, <3>2, <3>3 DEF Observed
  <2>3. CASE Refresh(c)!Poll BY <2>3, PollStep, ObservedSame DEF RowsSame
  <2>4. CASE Refresh(c)!AppendPrices
    <3>1. /\ pc = "prices" /\ pc' = "presence" /\ UNCHANGED <<now, since>>
          /\ history' = [l \in c.listings |-> IF l \in run.found
                 THEN Append(history[l], [price |-> offers[l], at |-> now]) ELSE history[l]]
      BY <2>4, PricesStep
    <3>2. ASSUME NEW l \in c.listings, NEW j \in 1 .. Len(history'[l])
          PROVE  /\ history'[l][j].at <= now
                 /\ \A i \in 1 .. j - 1 : history'[l][i].at < history'[l][j].at
      <4>1. CASE l \notin run.found
        <5>1. history'[l] = history[l] BY <3>1, <4>1
        <5> QED BY <2>0, <5>1
      <4>2. CASE l \in run.found
        <5>1. history'[l] = Append(history[l], [price |-> offers[l], at |-> now]) BY <3>1, <4>2
        <5>2. history[l] \in Seq(Observations(c)) BY DEF RefreshTypes
        <5>3. [price |-> offers[l], at |-> now] \in Observations(c)
          <6>1. l \in run.found => offers[l] \in c.prices BY DEF RefreshTypes
          <6>2. now \in 0 .. c.maxRuns BY DEF RefreshTypes
          <6> QED BY <4>2, <6>1, <6>2 DEF Observations
        <5>4. /\ Len(history'[l]) = Len(history[l]) + 1 /\ Len(history[l]) \in Nat
              /\ \A i \in 1 .. Len(history[l]) : history'[l][i] = history[l][i]
              /\ history'[l][Len(history[l]) + 1] = [price |-> offers[l], at |-> now]
          BY <5>1, <5>2, <5>3, RefreshAppended
        <5>5. \A i \in 1 .. Len(history[l]) : history[l][i].at < now BY <2>0, <3>1
        <5>6. CASE j = Len(history[l]) + 1 BY <2>0, <5>4, <5>5, <5>6
        <5>7. CASE j # Len(history[l]) + 1
          <6>1. j \in 1 .. Len(history[l]) BY <5>4, <5>7
          <6>2. \A i \in 1 .. j - 1 : i \in 1 .. Len(history[l]) BY <5>4, <6>1
          <6> QED BY <2>0, <5>4, <6>1, <6>2
        <5> QED BY <5>6, <5>7
      <4> QED BY <4>1, <4>2
    <3> QED BY <2>0, <3>1, <3>2 DEF Observed
  <2>5. CASE Refresh(c)!UpdatePresence BY <2>5, PresenceStep, ObservedSame DEF RowsSame
  <2>6. CASE Refresh(c)!RecordHealth \/ Refresh(c)!RefreshFx
    BY <2>6, QuietSteps, ObservedSame DEF RowsSame
  <2>7. CASE Refresh(c)!WriteOutput BY <2>7, OutputStep, ObservedSame DEF RowsSame
  <2>8. CASE Refresh(c)!WriteState
    <3>1. pc = "state" /\ pc' = "idle" /\ since' = now /\ UNCHANGED <<now, history>>
      BY <2>8, StateStep
    <3> QED BY <2>0, <3>1 DEF Observed
  <2>9. CASE Refresh(c)!Stop BY <2>9, StopStep
  <2> QED BY <1>1, <2>1, <2>2, <2>3, <2>4, <2>5, <2>6, <2>7, <2>8, <2>9, RefreshSteps
<1>2. CASE UNCHANGED marketVars BY <1>2, ObservedSame DEF marketVars, RowsSame
<1> QED BY <1>1, <1>2

\* Rows stay where they are, whatever is appended.
LEMMA RowsStay ==
    ASSUME NEW c, Refresh(c)!MarketConstantsOK, RefreshTypes(c),
           [Refresh(c)!Next]_marketVars, NEW l \in c.listings
    PROVE  /\ Len(history[l]) \in Nat /\ Len(history'[l]) \in Nat /\ Len(history'[l]) >= Len(history[l])
           /\ \A i \in 1 .. Len(history[l]) : history'[l][i] = history[l][i]
           /\ ~Refresh(c)!AppendPrices => history' = history
<1> USE RefreshConstants
<1>0. history[l] \in Seq(Observations(c)) /\ Len(history[l]) \in Nat BY DEF RefreshTypes
<1>1. CASE Refresh(c)!AppendPrices
  <2>1. history'[l] = IF l \in run.found
             THEN Append(history[l], [price |-> offers[l], at |-> now]) ELSE history[l]
    BY <1>1, PricesStep
  <2>2. CASE l \in run.found
    <3>1. [price |-> offers[l], at |-> now] \in Observations(c)
      <4>1. l \in run.found => offers[l] \in c.prices BY DEF RefreshTypes
      <4>2. now \in 0 .. c.maxRuns BY DEF RefreshTypes
      <4> QED BY <2>2, <4>1, <4>2 DEF Observations
    <3>2. /\ Len(history'[l]) = Len(history[l]) + 1
          /\ \A i \in 1 .. Len(history[l]) : history'[l][i] = history[l][i]
      BY <1>0, <2>1, <2>2, <3>1, RefreshAppended
    <3> QED BY <1>0, <1>1, <3>2
  <2> QED BY <1>0, <1>1, <2>1, <2>2
<1>2. CASE ~Refresh(c)!AppendPrices
  <2>1. history' = history
    <3>1. CASE Refresh(c)!Next
      BY <1>2, <3>1, RefreshSteps, MoveStep, BeginStep, PollStep, PresenceStep, QuietSteps,
         OutputStep, StateStep, StopStep
    <3>2. CASE UNCHANGED marketVars BY <3>2 DEF marketVars
    <3> QED BY <3>1, <3>2
  <2> QED BY <1>0, <2>1
<1> QED BY <1>1, <1>2
-----------------------------------------------------------------------------
(* The refresh: price drops are reported *)

\* A drop that is not of this run, or any once the output is written, is in the output.
Dropped(c) ==
    \A l \in c.listings : \A i \in 1 .. Len(history[l]) - 1 :
        /\ Refresh(c)!Fell(history[l][i].price, history[l][i + 1].price, c.dropPct)
        /\ history[l][i + 1].at <= since \/ pc = "state"
        => \E k \in 1 .. Len(outputs) : \E a \in outputs[k] :
              a.type = "price_drop" /\ a.listing = l /\ a.at = history[l][i + 1].at

LEMMA DroppedAfter ==
    ASSUME NEW c,
           \A l \in c.listings : \A i \in 1 .. Len(history'[l]) - 1 :
               /\ Refresh(c)!Fell(history'[l][i].price, history'[l][i + 1].price, c.dropPct)
               /\ history'[l][i + 1].at <= since' \/ pc' = "state"
               => \E k \in 1 .. Len(outputs') : \E a \in outputs'[k] :
                     a.type = "price_drop" /\ a.listing = l /\ a.at = history'[l][i + 1].at
    PROVE  Dropped(c)'
BY DEF Dropped

LEMMA DroppedInit == ASSUME NEW c, Refresh(c)!Init PROVE Dropped(c)
<1>1. \A l \in c.listings : Len(history[l]) = 0 BY DEF Refresh!Init
<1> QED BY <1>1 DEF Dropped

LEMMA DroppedSame ==
    ASSUME NEW c, Dropped(c), UNCHANGED <<history, since, outputs>>, pc' # "state"
    PROVE  Dropped(c)'
BY DEF Dropped

LEMMA DroppedNext ==
    ASSUME NEW c, Refresh(c)!MarketConstantsOK, c.mayStop = FALSE, RefreshTypes(c),
           Observed(c), Reports(c), Dropped(c),
           [Refresh(c)!Next]_marketVars
    PROVE  Dropped(c)'
<1> USE RefreshConstants
<1>1. CASE Refresh(c)!Next
  <2>1. CASE Refresh(c)!Move BY <2>1, MoveStep, DroppedSame
  <2>2. CASE Refresh(c)!Start \/ Refresh(c)!AlertsCommand BY <2>2, BeginStep, DroppedSame
  <2>3. CASE Refresh(c)!Poll BY <2>3, PollStep, DroppedSame
  <2>4. CASE Refresh(c)!AppendPrices
    <3>1. /\ pc = "prices" /\ pc' = "presence" /\ UNCHANGED <<since, now, outputs>>
          /\ history' = [l \in c.listings |-> IF l \in run.found
                 THEN Append(history[l], [price |-> offers[l], at |-> now]) ELSE history[l]]
      BY <2>4, PricesStep
    <3>2. since = now - 1 /\ now \in Nat BY <3>1 DEF Observed, RefreshTypes
    <3>3. ASSUME NEW l \in c.listings, NEW i \in 1 .. Len(history'[l]) - 1,
                 Refresh(c)!Fell(history'[l][i].price, history'[l][i + 1].price, c.dropPct),
                 history'[l][i + 1].at <= since
          PROVE  \E k \in 1 .. Len(outputs) : \E a \in outputs[k] :
                     a.type = "price_drop" /\ a.listing = l /\ a.at = history'[l][i + 1].at
      <4>3. /\ Len(history[l]) \in Nat /\ Len(history'[l]) \in Nat
            /\ \A j \in 1 .. Len(history[l]) : history'[l][j] = history[l][j]
        BY <1>1, RowsStay
      <4>4. i + 1 \in 1 .. Len(history[l])
        <5>1. CASE l \notin run.found
          <6>1. history'[l] = history[l] BY <3>1, <5>1
          <6> QED BY <4>3, <6>1
        <5>2. CASE l \in run.found
          <6>1. history'[l] = Append(history[l], [price |-> offers[l], at |-> now]) BY <3>1, <5>2
          <6>2. history[l] \in Seq(Observations(c)) BY DEF RefreshTypes
          <6>3. Len(history'[l]) = Len(history[l]) + 1
                /\ history'[l][Len(history[l]) + 1] = [price |-> offers[l], at |-> now]
            BY <6>1, <6>2
          <6>4. i + 1 # Len(history[l]) + 1 BY <3>2, <3>3, <6>3
          <6> QED BY <4>3, <6>3, <6>4
        <5> QED BY <5>1, <5>2
      <4>5. i \in 1 .. Len(history[l]) - 1 /\ history'[l][i] = history[l][i] /\ history'[l][i + 1] = history[l][i + 1]
        BY <4>3, <4>4
      <4> QED BY <3>3, <4>5 DEF Dropped
    <3>4. pc' # "state" /\ since' = since /\ outputs' = outputs BY <3>1
    <3> QED BY <3>3, <3>4, DroppedAfter
  <2>5. CASE Refresh(c)!UpdatePresence BY <2>5, PresenceStep, DroppedSame
  <2>6. CASE Refresh(c)!RecordHealth \/ Refresh(c)!RefreshFx BY <2>6, QuietSteps, DroppedSame
  <2>7. CASE Refresh(c)!WriteOutput
    <3>1. /\ pc = "output" /\ pc' = "state" /\ run'.fresh = Refresh(c)!Fresh
          /\ Len(outputs) \in Nat /\ Len(outputs') = Len(outputs) + 1
          /\ outputs'[Len(outputs) + 1] = Refresh(c)!Fresh
          /\ \A i \in 1 .. Len(outputs) : outputs'[i] = outputs[i]
          /\ UNCHANGED <<now, events, since, emitted, history>>
      BY <2>7, OutputStep
    <3>2. since = now - 1 /\ now \in Nat BY <3>1 DEF Observed, RefreshTypes
    <3>3. \A a \in emitted \cup Refresh(c)!Fresh : \E k \in 1 .. Len(outputs') : a \in outputs'[k]
      <4>1. Len(outputs) + 1 \in 1 .. Len(outputs') BY <3>1
      <4>2. \A a \in emitted : \E k \in 1 .. Len(outputs) : a \in outputs[k] BY DEF Reports
      <4> QED BY <3>1, <4>1, <4>2
    <3>4. ASSUME NEW l \in c.listings, NEW i \in 1 .. Len(history[l]) - 1,
                 Refresh(c)!Fell(history[l][i].price, history[l][i + 1].price, c.dropPct)
          PROVE  \E k \in 1 .. Len(outputs') : \E a \in outputs'[k] :
                     a.type = "price_drop" /\ a.listing = l /\ a.at = history[l][i + 1].at
      <4>4. /\ Len(history[l]) \in Nat /\ i + 1 \in 1 .. Len(history[l])
            /\ history[l][i + 1].at \in 0 .. c.maxRuns /\ history[l][i + 1].at <= now
        <5>1. Len(history[l]) \in Nat BY LastRows
        <5>2. i + 1 \in 1 .. Len(history[l]) BY <5>1
        <5>3. history[l][i + 1].at \in 0 .. c.maxRuns BY <5>2, RowTyped
        <5> QED BY <5>1, <5>2, <5>3 DEF Observed
      <4>5. CASE history[l][i + 1].at <= since
        <5>1. PICK k \in 1 .. Len(outputs) : \E a \in outputs[k] :
                              a.type = "price_drop" /\ a.listing = l /\ a.at = history[l][i + 1].at
          BY <3>4, <4>5 DEF Dropped
        <5>2. k \in 1 .. Len(outputs') /\ outputs'[k] = outputs[k] BY <3>1
        <5> QED BY <5>1, <5>2
      <4>6. CASE ~(history[l][i + 1].at <= since)
        <5>1. history[l][i + 1].at = now BY <3>2, <4>4, <4>6
        <5>2. i + 1 = Len(history[l])
          <6> SUFFICES ASSUME i + 1 < Len(history[l]) PROVE FALSE BY <4>4
          <6>1. Len(history[l]) \in 1 .. Len(history[l]) /\ i + 1 \in 1 .. Len(history[l]) - 1
            BY <4>4
          <6>2. history[l][i + 1].at < history[l][Len(history[l])].at /\ history[l][Len(history[l])].at <= now
            BY <6>1 DEF Observed
          <6>3. history[l][Len(history[l])].at \in 0 .. c.maxRuns BY <6>1, RowTyped
          <6> QED BY <3>2, <5>1, <6>2, <6>3
        <5>3. /\ Refresh(c)!Newest(l) = history[l][i + 1] /\ Refresh(c)!Before(l) = history[l][i] /\ Len(history[l]) > 1
          <6>1. Len(history[l]) > 1 /\ Len(history[l]) - 1 = i BY <4>4, <5>2
          <6> QED BY <5>2, <6>1, LastRows
        <5> DEFINE a == Refresh(c)!Alert("price_drop", l, Refresh(c)!Newest(l).at, Refresh(c)!Before(l).price, Refresh(c)!Newest(l).price, 0)
        <5>4. a \in Refresh(c)!PriceAlerts BY <3>4, <5>3 DEF Refresh!PriceAlerts
        <5>5. a.type = "price_drop" /\ a.listing = l /\ a.at = history[l][i + 1].at
          BY <5>3 DEF Refresh!Alert
        <5>6. a \in emitted \cup Refresh(c)!Fresh BY <5>4 DEF Refresh!Fresh
        <5> HIDE DEF a
        <5> QED BY <3>3, <5>5, <5>6
      <4> QED BY <4>5, <4>6
    <3>5. history' = history BY <3>1
    <3> QED BY <3>4, <3>5, DroppedAfter
  <2>8. CASE Refresh(c)!WriteState
    <3>1. pc = "state" /\ pc' = "idle" /\ since' = now /\ UNCHANGED <<history, outputs>>
      BY <2>8, StateStep
    <3>2. \A l \in c.listings : \A i \in 1 .. Len(history[l]) - 1 :
              Refresh(c)!Fell(history[l][i].price, history[l][i + 1].price, c.dropPct)
              => \E k \in 1 .. Len(outputs) : \E a \in outputs[k] :
                    a.type = "price_drop" /\ a.listing = l /\ a.at = history[l][i + 1].at
      BY <3>1 DEF Dropped
    <3> QED BY <3>1, <3>2, DroppedAfter
  <2>9. CASE Refresh(c)!Stop BY <2>9, StopStep
  <2> QED BY <1>1, <2>1, <2>2, <2>3, <2>4, <2>5, <2>6, <2>7, <2>8, <2>9, RefreshSteps
<1>2. CASE UNCHANGED marketVars BY <1>2 DEF marketVars, Dropped
<1> QED BY <1>1, <1>2

LEMMA DropsAreReported ==
    ASSUME NEW c, Refresh(c)!MarketConstantsOK, RefreshTypes(c), Dropped(c)
    PROVE  Refresh(c)!DropsReported
<1>1. DOMAIN outputs = 1 .. Len(outputs) BY DEF RefreshTypes
<1> QED BY <1>1 DEF Dropped, Refresh!DropsReported
-----------------------------------------------------------------------------
(* The refresh: nothing is reported twice *)

LEMMA SameInRefresh ==
    ASSUME NEW c, NEW S
    PROVE  /\ Refresh(c)!IsFiniteSet(S) <=> IsFiniteSet(S)
           /\ Refresh(c)!Cardinality(S) = Cardinality(S)
<1>1. Refresh(c)!IsFiniteSet(S) <=> IsFiniteSet(S) BY DEF IsFiniteSet, Refresh!IsFiniteSet
<1>2. Refresh(c)!Cardinality(S) = Cardinality(S) BY DEF Cardinality, Refresh!Cardinality
<1> QED BY <1>1, <1>2

\* As many alerts as one generation may have.
PerGeneration(c) == 5 * Cardinality(c.listings)

\* The fingerprints of all alerts there may ever be are kept.
NoForgetting(c) == \A n \in 0 .. c.maxRuns : PerGeneration(c) * n <= c.maxFingerprints

\* The exchange rate stays.
Steady(c) == \E r \in c.rates : c.rates = {r}

LEMMA PerGenerationTyped ==
    ASSUME NEW c, Refresh(c)!MarketConstantsOK
    PROVE  /\ Cardinality(c.listings) \in Nat /\ PerGeneration(c) \in Nat
           /\ \A n \in Nat : /\ PerGeneration(c) * n \in Nat
                             /\ PerGeneration(c) * (n + 1) = PerGeneration(c) * n + PerGeneration(c)
<1>1. Cardinality(c.listings) \in Nat BY RefreshConstants, FS_CardinalityType
<1>2. PerGeneration(c) \in Nat BY <1>1 DEF PerGeneration
<1>3. PICK w \in Nat : w = PerGeneration(c) BY <1>2
<1>4. \A n \in Nat : w * n \in Nat /\ w * (n + 1) = w * n + w OBVIOUS
<1> QED BY <1>1, <1>3, <1>4

TypeNo(a) ==
    CASE a.type = "price_drop" -> 1 [] a.type = "landed_cost_change" -> 2
      [] a.type = "deal_threshold" -> 3 [] a.type = "new_product" -> 4 [] OTHER -> 5

\* Two alerts of one kind on one row, or on one listing's events of one time, are the same.
LEMMA RowDetermines ==
    ASSUME NEW c, NEW l, NEW k, NEW a \in Refresh(c)!Alerts, NEW b \in Refresh(c)!Alerts,
           OfRow(c, a, l, k), OfRow(c, b, l, k), a.type = b.type
    PROVE  a = b
<1>1. a.listing = b.listing /\ a.at = b.at BY DEF OfRow
<1>2. a.old = b.old /\ a.new = b.new /\ a.landed = b.landed BY DEF OfRow
<1> QED BY <1>1, <1>2 DEF Refresh!Alerts

LEMMA RowType ==
    ASSUME NEW c, NEW l, NEW k, NEW a, OfRow(c, a, l, k)
    PROVE  a.listing = l /\ a.type \in {"price_drop", "landed_cost_change", "deal_threshold"}
BY DEF OfRow

LEMMA EventAlert ==
    ASSUME NEW c, NEW a, NEW e, OfEvent(c, a, e)
    PROVE  /\ a.type \in {"new_product", "stock_return"} /\ a.listing = e.listing /\ a.at = e.at
           /\ a.old = 0 /\ a.new = 0 /\ a.landed = 0
BY DEF OfEvent, LifecycleType

LEMMA FreshIsFew ==
    ASSUME NEW c, Refresh(c)!MarketConstantsOK, RefreshTypes(c), Observed(c),
           EventsPast(c), pc = "output"
    PROVE  IsFiniteSet(Refresh(c)!Fresh) /\ Cardinality(Refresh(c)!Fresh) <= PerGeneration(c)
<1> DEFINE Kinds == (1 .. 5) \X c.listings
           Key == [a \in Refresh(c)!Fresh |-> <<TypeNo(a), a.listing>>]
<1>1. /\ IsFiniteSet(Kinds) /\ Cardinality(Kinds) = PerGeneration(c)
  <2>1. IsFiniteSet(1 .. 5) /\ Cardinality(1 .. 5) = 5
    <3>1. PICK n \in Nat : n = 5 OBVIOUS
    <3>2. 1 \in Int /\ n \in Int /\ ~(1 > n) /\ n - 1 + 1 = n BY <3>1
    <3> HIDE <3>1
    <3>3. IsFiniteSet(1 .. n) /\ Cardinality(1 .. n) = (IF 1 > n THEN 0 ELSE n - 1 + 1)
      BY <3>2, FS_Interval
    <3>4. IsFiniteSet(1 .. n) /\ Cardinality(1 .. n) = n BY <3>2, <3>3
    <3> QED BY <3>1, <3>4
  <2>2. IsFiniteSet(c.listings) BY RefreshConstants
  <2>3. IsFiniteSet(Kinds) /\ Cardinality(Kinds) = Cardinality(1 .. 5) * Cardinality(c.listings)
    BY <2>1, <2>2, FS_Product
  <2> QED BY <2>1, <2>3 DEF PerGeneration
<1>2. \A a \in Refresh(c)!Fresh : a \in Refresh(c)!Alerts /\ TypeNo(a) \in 1 .. 5 /\ a.listing \in c.listings
  BY FreshAlert DEF TypeNo, Refresh!Alerts
<1>3. Key \in [Refresh(c)!Fresh -> Kinds] BY <1>2
<1>4. ASSUME NEW a \in Refresh(c)!Fresh, NEW b \in Refresh(c)!Fresh, Key[a] = Key[b] PROVE a = b
  <2>1. a \in Refresh(c)!Alerts /\ b \in Refresh(c)!Alerts BY <1>2
  <2>2. a.listing = b.listing /\ a.type = b.type
    BY <1>4, <2>1 DEF TypeNo, Refresh!Alerts
  <2>3. \/ \E l \in c.listings : Len(history[l]) > 0 /\ OfRow(c, a, l, Len(history[l]))
        \/ \E e \in events : e.at > since /\ OfEvent(c, a, e)
    BY FreshAlert
  <2>4. \/ \E l \in c.listings : Len(history[l]) > 0 /\ OfRow(c, b, l, Len(history[l]))
        \/ \E e \in events : e.at > since /\ OfEvent(c, b, e)
    BY FreshAlert
  <2>5. since = now - 1 /\ now \in Nat BY DEF Observed, RefreshTypes
  <2>6. ASSUME NEW e \in events, e.at > since PROVE e.at = now
    <3>1. e.at \in 1 .. c.maxRuns BY EventTyped
    <3>2. e.at <= now BY DEF EventsPast
    <3>3. c.maxRuns \in Nat BY RefreshConstants
    <3> QED BY <2>5, <2>6, <3>1, <3>2, <3>3
  <2>7. CASE a.type \in {"price_drop", "landed_cost_change", "deal_threshold"}
    <3>1. PICK l \in c.listings : OfRow(c, a, l, Len(history[l])) BY <2>3, <2>7, EventAlert
    <3>2. PICK m \in c.listings : OfRow(c, b, m, Len(history[m])) BY <2>2, <2>4, <2>7, EventAlert
    <3>3. l = m BY <2>2, <3>1, <3>2, RowType
    <3> QED BY <2>1, <2>2, <3>1, <3>2, <3>3, RowDetermines
  <2>8. CASE a.type \notin {"price_drop", "landed_cost_change", "deal_threshold"}
    <3>1. PICK d \in events : d.at > since /\ OfEvent(c, a, d) BY <2>3, <2>8, RowType
    <3>2. PICK e \in events : e.at > since /\ OfEvent(c, b, e) BY <2>2, <2>4, <2>8, RowType
    <3>3. a.at = b.at /\ a.old = b.old /\ a.new = b.new /\ a.landed = b.landed
      BY <2>6, <3>1, <3>2, EventAlert
    <3> QED BY <2>1, <2>2, <3>3 DEF Refresh!Alerts
  <2> QED BY <2>7, <2>8
<1> HIDE DEF Kinds, Key
<1>5. Key \in Injection(Refresh(c)!Fresh, Kinds) BY <1>3, <1>4 DEF Injection, IsInjective
<1>6. IsFiniteSet(Refresh(c)!Fresh) /\ Cardinality(Refresh(c)!Fresh) <= Cardinality(Kinds)
  BY <1>1, <1>5, FS_Injection
<1> QED BY <1>1, <1>6

\* Every alert that was given is remembered, and is in one generation.
Emission(c) ==
    /\ \A k \in 1 .. Len(outputs) : outputs[k] \subseteq emitted \cup run.fresh
    /\ IsFiniteSet(emitted \cup run.fresh)
    /\ Cardinality(emitted \cup run.fresh) <= PerGeneration(c) * Len(outputs)
    /\ Len(outputs) <= now /\ (pc \notin {"idle", "state"} => Len(outputs) < now)
    /\ \A k, m \in 1 .. Len(outputs) : k < m => outputs[k] \cap outputs[m] = {}

LEMMA EmissionInit == ASSUME NEW c, Refresh(c)!MarketConstantsOK, Refresh(c)!Init PROVE Emission(c)
<1>1. /\ Len(outputs) = 0 /\ emitted \cup run.fresh = {} /\ now = 0 /\ pc = "idle"
  BY NoRunTyped DEF Refresh!Init
<1>2. IsFiniteSet({}) /\ Cardinality({}) = 0 BY FS_EmptySet
<1>3. PerGeneration(c) * 0 \in Nat BY PerGenerationTyped
<1>4. IsFiniteSet(emitted \cup run.fresh) /\ Cardinality(emitted \cup run.fresh) = 0 BY <1>1, <1>2
<1>5. Cardinality(emitted \cup run.fresh) <= PerGeneration(c) * Len(outputs) BY <1>1, <1>3, <1>4
<1>6. 1 .. Len(outputs) = {} BY <1>1
<1> QED BY <1>1, <1>4, <1>5, <1>6 DEF Emission

LEMMA EmissionNext ==
    ASSUME NEW c, Refresh(c)!MarketConstantsOK, c.mayStop = FALSE, NoForgetting(c),
           RefreshTypes(c), Observed(c),
           EventsPast(c), Emission(c), [Refresh(c)!Next]_marketVars
    PROVE  Emission(c)'
<1> USE RefreshConstants
<1>a. ASSUME UNCHANGED <<emitted, outputs, now>>, run'.fresh = run.fresh, pc' \notin {"idle", "state"} => pc \notin {"idle", "state"}
      PROVE  Emission(c)'
  BY <1>a DEF Emission, PerGeneration
<1>0. now \in Nat /\ Len(outputs) \in Nat BY DEF RefreshTypes
<1>1. CASE Refresh(c)!Next
  <2>1. CASE Refresh(c)!Move BY <1>a, <2>1, MoveStep
  <2>2. CASE Refresh(c)!Start \/ Refresh(c)!AlertsCommand
    <3>1. pc = "idle" /\ now' = now + 1 /\ run'.fresh = {} /\ UNCHANGED <<emitted, outputs>>
      BY <2>2, BeginStep
    <3>2. run.fresh = {} BY <3>1 DEF RefreshTypes
    <3> QED BY <1>0, <3>1, <3>2 DEF Emission, PerGeneration
  <2>3. CASE Refresh(c)!Poll BY <1>a, <2>3, PollStep
  <2>4. CASE Refresh(c)!AppendPrices BY <1>a, <2>4, PricesStep
  <2>5. CASE Refresh(c)!UpdatePresence BY <1>a, <2>5, PresenceStep
  <2>6. CASE Refresh(c)!RecordHealth \/ Refresh(c)!RefreshFx BY <1>a, <2>6, QuietSteps
  <2>7. CASE Refresh(c)!WriteOutput
    <3>1. /\ pc = "output" /\ pc' = "state" /\ run'.fresh = Refresh(c)!Fresh
          /\ Len(outputs') = Len(outputs) + 1
          /\ outputs'[Len(outputs) + 1] = Refresh(c)!Fresh
          /\ \A i \in 1 .. Len(outputs) : outputs'[i] = outputs[i]
          /\ UNCHANGED <<now, emitted>>
      BY <2>7, OutputStep
    <3>2. run.fresh = {} BY <3>1 DEF RefreshTypes
    <3>3. /\ \A k \in 1 .. Len(outputs) : outputs[k] \subseteq emitted
          /\ IsFiniteSet(emitted) /\ Cardinality(emitted) <= PerGeneration(c) * Len(outputs)
      <4>1. emitted \cup run.fresh = emitted BY <3>2
      <4> QED BY <4>1 DEF Emission
    <3>4. \A k \in 1 .. Len(outputs') : outputs'[k] \subseteq emitted' \cup run'.fresh
      BY <1>0, <3>1, <3>3
    <3>5. IsFiniteSet(emitted' \cup run'.fresh)
          /\ Cardinality(emitted' \cup run'.fresh) <= PerGeneration(c) * Len(outputs')
      <4>1. IsFiniteSet(Refresh(c)!Fresh) /\ Cardinality(Refresh(c)!Fresh) <= PerGeneration(c)
        BY <3>1, FreshIsFew
      <4>2. /\ IsFiniteSet(emitted \cup Refresh(c)!Fresh)
            /\ Cardinality(emitted \cup Refresh(c)!Fresh) = Cardinality(emitted) + Cardinality(Refresh(c)!Fresh) - Cardinality(emitted \cap Refresh(c)!Fresh)
        BY <3>3, <4>1, FS_Union
      <4>3. emitted \cap Refresh(c)!Fresh = {} BY DEF Refresh!Fresh
      <4>4. Cardinality(emitted \cap Refresh(c)!Fresh) = 0 BY <4>3, FS_EmptySet
      <4>5. Cardinality(emitted) \in Nat /\ Cardinality(Refresh(c)!Fresh) \in Nat
        BY <3>3, <4>1, FS_CardinalityType
      <4>6. /\ PerGeneration(c) \in Nat /\ PerGeneration(c) * Len(outputs) \in Nat
            /\ PerGeneration(c) * (Len(outputs) + 1) = PerGeneration(c) * Len(outputs) + PerGeneration(c)
        BY <1>0, PerGenerationTyped
      <4>7. Cardinality(emitted \cup Refresh(c)!Fresh) <= PerGeneration(c) * (Len(outputs) + 1)
        BY <3>3, <4>1, <4>2, <4>4, <4>5, <4>6
      <4> QED BY <3>1, <4>2, <4>7
    <3>6. \A k, m \in 1 .. Len(outputs') : k < m => outputs'[k] \cap outputs'[m] = {}
      <4> SUFFICES ASSUME NEW k \in 1 .. Len(outputs'), NEW m \in 1 .. Len(outputs'), k < m
                   PROVE  outputs'[k] \cap outputs'[m] = {}
        OBVIOUS
      <4>1. k \in 1 .. Len(outputs) /\ outputs'[k] = outputs[k] BY <1>0, <3>1
      <4>2. CASE m = Len(outputs) + 1
        <5>1. outputs'[m] = Refresh(c)!Fresh /\ outputs[k] \subseteq emitted
          BY <3>1, <3>3, <4>1, <4>2
        <5> QED BY <4>1, <5>1 DEF Refresh!Fresh
      <4>3. CASE m # Len(outputs) + 1
        <5>1. m \in 1 .. Len(outputs) /\ outputs'[m] = outputs[m] BY <1>0, <3>1, <4>3
        <5> QED BY <4>1, <5>1 DEF Emission
      <4> QED BY <4>2, <4>3
    <3>7. Len(outputs') <= now' BY <1>0, <3>1 DEF Emission
    <3> QED BY <3>1, <3>4, <3>5, <3>6, <3>7 DEF Emission, PerGeneration
  <2>8. CASE Refresh(c)!WriteState
    <3>1. /\ pc = "state" /\ pc' = "idle" /\ run'.fresh = {}
          /\ emitted' \in Refresh(c)!Kept(emitted \cup run.fresh)
          /\ UNCHANGED <<now, outputs>>
      BY <2>8, StateStep
    <3>2. PICK given : given = emitted \cup run.fresh OBVIOUS
    <3>3. /\ IsFiniteSet(given) /\ Cardinality(given) <= PerGeneration(c) * Len(outputs)
          /\ Len(outputs) <= now
      BY <3>2 DEF Emission
    <3>4. Cardinality(given) \in Nat /\ Cardinality(given) <= c.maxFingerprints
      <4>1. Len(outputs) \in 0 .. c.maxRuns BY <1>0, <3>3 DEF RefreshTypes
      <4>2. PerGeneration(c) * Len(outputs) <= c.maxFingerprints BY <4>1 DEF NoForgetting
      <4>3. PerGeneration(c) * Len(outputs) \in Nat BY <1>0, PerGenerationTyped
      <4>4. Cardinality(given) \in Nat BY <3>3, FS_CardinalityType
      <4> QED BY <3>3, <4>2, <4>3, <4>4
    <3>5. Refresh(c)!Least({c.maxFingerprints, Cardinality(given)}) = Cardinality(given)
      <4>1. PICK n \in Nat : n = Cardinality(given) BY <3>4
      <4>2. c.maxFingerprints \in Nat /\ n <= c.maxFingerprints BY <3>4, <4>1
      <4>3. n \in {c.maxFingerprints, n} /\ \A m \in {c.maxFingerprints, n} : n <= m BY <4>2
      <4>4. /\ Refresh(c)!Least({c.maxFingerprints, n}) \in {c.maxFingerprints, n}
            /\ \A m \in {c.maxFingerprints, n} : Refresh(c)!Least({c.maxFingerprints, n}) <= m
        BY <4>3 DEF Refresh!Least
      <4>5. Refresh(c)!Least({c.maxFingerprints, n}) = n BY <4>2, <4>4
      <4> QED BY <4>1, <4>5
    <3>6. emitted' \in SUBSET given /\ Cardinality(emitted') = Cardinality(given)
      <4>1. emitted' \in Refresh(c)!Kept(given) BY <3>1, <3>2
      <4>2. emitted' \in SUBSET given /\ Refresh(c)!Cardinality(emitted') = Refresh(c)!Least({c.maxFingerprints, Refresh(c)!Cardinality(given)})
        BY <4>1 DEF Refresh!Kept
      <4>3. Refresh(c)!Cardinality(given) = Cardinality(given) /\ Refresh(c)!Cardinality(emitted') = Cardinality(emitted')
        BY SameInRefresh
      <4> QED BY <3>5, <4>2, <4>3
    <3>7. emitted' = given BY <3>3, <3>6, FS_Subset
    <3>8. emitted' \cup run'.fresh = emitted \cup run.fresh BY <3>1, <3>2, <3>7
    <3> QED BY <3>1, <3>8 DEF Emission, PerGeneration
  <2>9. CASE Refresh(c)!Stop BY <2>9, StopStep
  <2> QED BY <1>1, <2>1, <2>2, <2>3, <2>4, <2>5, <2>6, <2>7, <2>8, <2>9, RefreshSteps
<1>2. CASE UNCHANGED marketVars BY <1>a, <1>2 DEF marketVars
<1> QED BY <1>1, <1>2
\* What each alert is about is in the history: a price drop always, the amounts in CAD
\* as long as the exchange rate stays.
Grounded(c) ==
    \A k \in 1 .. Len(outputs) : \A a \in outputs[k] :
        \/ a.type \in {"new_product", "stock_return"} /\ a.old = 0 /\ a.new = 0 /\ a.landed = 0
        \/ \E l \in c.listings : \E i \in 1 .. Len(history[l]) : OfRow(c, a, l, i)
        \/ ~Steady(c) /\ a.type \in {"landed_cost_change", "deal_threshold"}

\* Later deal alerts of a listing are of later observations.
DealsInOrder(c) ==
    Steady(c) =>
        \A k, m \in 1 .. Len(outputs) : k < m =>
            \A a \in outputs[k], b \in outputs[m] :
                a.type = "deal_threshold" /\ b.type = a.type /\ a.listing = b.listing => a.at <= b.at

LEMMA GroundedInit == ASSUME NEW c, Refresh(c)!Init PROVE Grounded(c) /\ DealsInOrder(c)
<1>1. Len(outputs) = 0 BY DEF Refresh!Init
<1>2. 1 .. Len(outputs) = {} BY <1>1
<1> QED BY <1>2 DEF Grounded, DealsInOrder

LEMMA SteadyRate ==
    ASSUME NEW c, Refresh(c)!MarketConstantsOK, RefreshTypes(c),
           [Refresh(c)!Next]_marketVars, Steady(c)
    PROVE  fx' = fx
<1>1. RefreshTypes(c)' BY RefreshTypesNext
<1>2. fx \in c.rates /\ fx' \in c.rates BY <1>1 DEF RefreshTypes
<1> QED BY <1>2 DEF Steady

\* A row that was observed stays what an alert says of it.
LEMMA RowRemains ==
    ASSUME NEW c, Refresh(c)!MarketConstantsOK, RefreshTypes(c), [Refresh(c)!Next]_marketVars,
           NEW l \in c.listings, NEW i \in 1 .. Len(history[l]), NEW a, OfRow(c, a, l, i)
    PROVE  /\ i \in 1 .. Len(history'[l])
           /\ Steady(c) \/ a.type = "price_drop" => OfRow(c, a, l, i)'
<1>1. /\ Len(history[l]) \in Nat /\ Len(history'[l]) \in Nat /\ Len(history'[l]) >= Len(history[l])
      /\ \A j \in 1 .. Len(history[l]) : history'[l][j] = history[l][j]
  BY RowsStay
<1>2. i \in 1 .. Len(history'[l]) /\ history'[l][i] = history[l][i] BY <1>1
<1>3. i > 1 => history'[l][i - 1] = history[l][i - 1]
  <2>1. i > 1 => i - 1 \in 1 .. Len(history[l]) BY <1>1
  <2> QED BY <1>1, <2>1
<1>4. Steady(c) => fx' = fx BY SteadyRate
<1>5. CASE a.type = "price_drop"
  BY <1>2, <1>3, <1>5 DEF OfRow
<1>6. CASE Steady(c) /\ a.type # "price_drop"
  <2>1. fx' = fx BY <1>4, <1>6
  <2>2. /\ Refresh(c)!Landed(history[l][i])' = Refresh(c)!Landed(history[l][i])
        /\ i > 1 => Refresh(c)!Landed(history[l][i - 1])' = Refresh(c)!Landed(history[l][i - 1])
    BY <1>2, <1>3, <2>1 DEF Refresh!Landed
  <2>3. a.listing' = a.listing OBVIOUS
  <2> QED BY <1>2, <1>3, <1>6, <2>2 DEF OfRow
<1> QED BY <1>2, <1>5, <1>6

LEMMA GroundedNext ==
    ASSUME NEW c, Refresh(c)!MarketConstantsOK, c.mayStop = FALSE, RefreshTypes(c),
           Observed(c), Grounded(c),
           [Refresh(c)!Next]_marketVars
    PROVE  Grounded(c)'
<1> DEFINE Ground(a) ==
               \/ a.type \in {"new_product", "stock_return"} /\ a.old = 0 /\ a.new = 0 /\ a.landed = 0
               \/ \E l \in c.listings : \E i \in 1 .. Len(history[l]) : OfRow(c, a, l, i)
               \/ ~Steady(c) /\ a.type \in {"landed_cost_change", "deal_threshold"}
           GroundNext(a) ==
               \/ a.type \in {"new_product", "stock_return"} /\ a.old = 0 /\ a.new = 0 /\ a.landed = 0
               \/ \E l \in c.listings : \E i \in 1 .. Len(history'[l]) : OfRow(c, a, l, i)'
               \/ ~Steady(c) /\ a.type \in {"landed_cost_change", "deal_threshold"}
<1>1. ASSUME NEW a, Ground(a) PROVE GroundNext(a)
  <2>1. ASSUME NEW l \in c.listings, NEW i \in 1 .. Len(history[l]), OfRow(c, a, l, i)
        PROVE  GroundNext(a)
    <3>1. /\ i \in 1 .. Len(history'[l])
          /\ Steady(c) \/ a.type = "price_drop" => OfRow(c, a, l, i)'
      BY <2>1, RowRemains
    <3>2. a.type \in {"price_drop", "landed_cost_change", "deal_threshold"} BY <2>1, RowType
    <3> QED BY <3>1, <3>2
  <2> QED BY <1>1, <2>1
<1>2. ASSUME NEW a \in Refresh(c)!Fresh PROVE Ground(a)
  <2>1. CASE \E l \in c.listings : Len(history[l]) > 0 /\ OfRow(c, a, l, Len(history[l]))
    <3>1. PICK l \in c.listings : Len(history[l]) > 0 /\ OfRow(c, a, l, Len(history[l])) BY <2>1
    <3>2. Len(history[l]) \in 1 .. Len(history[l]) BY <3>1, LastRows
    <3> QED BY <3>1, <3>2
  <2>2. CASE \E e \in events : e.at > since /\ OfEvent(c, a, e) BY <2>2, EventAlert
  <2> QED BY <2>1, <2>2, FreshAlert
<1>3. \A k \in 1 .. Len(outputs) : \A a \in outputs[k] : Ground(a) BY DEF Grounded
<1> HIDE DEF Ground
<1>4. \A k \in 1 .. Len(outputs') : \A a \in outputs'[k] : Ground(a)
  <2>1. CASE Refresh(c)!WriteOutput
    <3>1. /\ Len(outputs) \in Nat /\ Len(outputs') = Len(outputs) + 1
          /\ outputs'[Len(outputs) + 1] = Refresh(c)!Fresh
          /\ \A i \in 1 .. Len(outputs) : outputs'[i] = outputs[i]
      BY <2>1, OutputStep
    <3> SUFFICES ASSUME NEW k \in 1 .. Len(outputs'), NEW a \in outputs'[k] PROVE Ground(a) OBVIOUS
    <3>2. CASE k = Len(outputs) + 1 BY <1>2, <3>1, <3>2
    <3>3. CASE k # Len(outputs) + 1
      <4>1. k \in 1 .. Len(outputs) /\ outputs'[k] = outputs[k] BY <3>1, <3>3
      <4> QED BY <1>3, <4>1
    <3> QED BY <3>2, <3>3
  <2>2. CASE ~Refresh(c)!WriteOutput
    <3>1. outputs' = outputs
      <4>1. CASE Refresh(c)!Next
        BY <2>2, <4>1, RefreshSteps, MoveStep, BeginStep, PollStep, PricesStep, PresenceStep, QuietSteps,
           StateStep, StopStep
      <4>2. CASE UNCHANGED marketVars BY <4>2 DEF marketVars
      <4> QED BY <4>1, <4>2
    <3> QED BY <1>3, <3>1
  <2> QED BY <2>1, <2>2
<1>5. \A k \in 1 .. Len(outputs') : \A a \in outputs'[k] : GroundNext(a) BY <1>1, <1>4
<1> QED BY <1>5 DEF Grounded

LEMMA DealsInOrderNext ==
    ASSUME NEW c, Refresh(c)!MarketConstantsOK, c.mayStop = FALSE, RefreshTypes(c),
           Observed(c), Grounded(c),
           DealsInOrder(c), [Refresh(c)!Next]_marketVars
    PROVE  DealsInOrder(c)'
<1> SUFFICES ASSUME Steady(c), NEW k \in 1 .. Len(outputs'), NEW m \in 1 .. Len(outputs'), k < m,
                    NEW a \in outputs'[k], NEW b \in outputs'[m],
                    a.type = "deal_threshold", b.type = a.type, a.listing = b.listing
             PROVE  a.at <= b.at
  BY DEF DealsInOrder
<1>1. CASE Refresh(c)!WriteOutput
  <2>1. /\ Len(outputs) \in Nat /\ Len(outputs') = Len(outputs) + 1
        /\ outputs'[Len(outputs) + 1] = Refresh(c)!Fresh
        /\ \A i \in 1 .. Len(outputs) : outputs'[i] = outputs[i]
    BY <1>1, OutputStep
  <2>2. k \in 1 .. Len(outputs) /\ outputs'[k] = outputs[k] BY <2>1
  <2>3. CASE m # Len(outputs) + 1
    <3>1. m \in 1 .. Len(outputs) /\ outputs'[m] = outputs[m] BY <2>1, <2>3
    <3> QED BY <2>2, <3>1 DEF DealsInOrder
  <2>4. CASE m = Len(outputs) + 1
    <3>1. b \in Refresh(c)!Fresh BY <2>1, <2>4
    <3>2. PICK l \in c.listings : Len(history[l]) > 0 /\ OfRow(c, b, l, Len(history[l]))
      BY <3>1, FreshAlert, EventAlert
    <3>3. PICK j \in c.listings : \E i \in 1 .. Len(history[j]) : OfRow(c, a, j, i)
      BY <2>2 DEF Grounded
    <3>4. PICK i \in 1 .. Len(history[j]) : OfRow(c, a, j, i) BY <3>3
    <3>5. j = l BY <3>2, <3>4, RowType
    <3>6. a.at = history[l][i].at /\ b.at = history[l][Len(history[l])].at
      BY <3>2, <3>4, <3>5 DEF OfRow
    <3>7. Len(history[l]) \in Nat /\ Len(history[l]) \in 1 .. Len(history[l]) BY <3>2, LastRows
    <3>8. i = Len(history[l]) \/ i \in 1 .. Len(history[l]) - 1 BY <3>5, <3>7
    <3>9. i \in 1 .. Len(history[l]) - 1 => history[l][i].at < history[l][Len(history[l])].at
      BY <3>7 DEF Observed
    <3>10. history[l][i].at \in Nat /\ history[l][Len(history[l])].at \in Nat
      <4>1. /\ history[l][i].at \in 0 .. c.maxRuns
            /\ history[l][Len(history[l])].at \in 0 .. c.maxRuns
        BY <3>5, <3>7, RowTyped
      <4> QED BY <4>1
    <3> QED BY <3>6, <3>8, <3>9, <3>10
  <2> QED BY <2>3, <2>4
<1>2. CASE ~Refresh(c)!WriteOutput
  <2>1. outputs' = outputs
    <3>1. CASE Refresh(c)!Next
      BY <1>2, <3>1, RefreshSteps, MoveStep, BeginStep, PollStep, PricesStep, PresenceStep, QuietSteps,
         StateStep, StopStep
    <3>2. CASE UNCHANGED marketVars BY <3>2 DEF marketVars
    <3> QED BY <3>1, <3>2
  <2> QED BY <2>1 DEF DealsInOrder
<1> QED BY <1>1, <1>2

\* Rows of one time are one row.
LEMMA OneRow ==
    ASSUME NEW c, Refresh(c)!MarketConstantsOK, RefreshTypes(c), Observed(c), NEW l \in c.listings,
           NEW i \in 1 .. Len(history[l]), NEW j \in 1 .. Len(history[l])
    PROVE  /\ history[l][i].at = history[l][j].at => i = j
           /\ i < j => history[l][i].at < history[l][j].at
           /\ history[l][i].at <= history[l][j].at => i <= j
<1>1. history[l][i].at \in Nat /\ history[l][j].at \in Nat /\ Len(history[l]) \in Nat
  <2>1. history[l][i].at \in 0 .. c.maxRuns /\ history[l][j].at \in 0 .. c.maxRuns BY RowTyped
  <2> QED BY <2>1, LastRows
<1>2. i < j => i \in 1 .. j - 1 BY <1>1
<1>3. j < i => j \in 1 .. i - 1 BY <1>1
<1>4. i < j => history[l][i].at < history[l][j].at BY <1>2 DEF Observed
<1>5. j < i => history[l][j].at < history[l][i].at BY <1>3 DEF Observed
<1> QED BY <1>1, <1>4, <1>5

LEMMA AlertRow ==
    ASSUME NEW c, Grounded(c), NEW k \in 1 .. Len(outputs), NEW a \in outputs[k],
           \/ a.type = "price_drop"
           \/ Steady(c) /\ a.type \notin {"new_product", "stock_return"}
    PROVE  \E l \in c.listings : \E i \in 1 .. Len(history[l]) : OfRow(c, a, l, i)
BY DEF Grounded

LEMMA OccurrenceDetermines ==
    ASSUME NEW c, Refresh(c)!MarketConstantsOK, RefreshTypes(c), Observed(c), Grounded(c),
           NEW k \in 1 .. Len(outputs), NEW m \in 1 .. Len(outputs),
           NEW a \in outputs[k], NEW b \in outputs[m], Refresh(c)!SameOccurrence(a, b),
           Steady(c) \/ a.type = "price_drop"
    PROVE  a = b
<1>1. a \in Refresh(c)!Alerts /\ b \in Refresh(c)!Alerts BY DEF RefreshTypes
<1>2. a.type = b.type /\ a.listing = b.listing /\ a.at = b.at BY DEF Refresh!SameOccurrence
<1>3. CASE a.type \in {"new_product", "stock_return"}
  <2>1. a.old = 0 /\ a.new = 0 /\ a.landed = 0 BY <1>3, RowType DEF Grounded
  <2>2. b.old = 0 /\ b.new = 0 /\ b.landed = 0 BY <1>2, <1>3, RowType DEF Grounded
  <2> QED BY <1>1, <1>2, <2>1, <2>2 DEF Refresh!Alerts
<1>4. CASE a.type \notin {"new_product", "stock_return"}
  <2>1. PICK l \in c.listings : \E i \in 1 .. Len(history[l]) : OfRow(c, a, l, i) BY <1>4, AlertRow
  <2>2. PICK i \in 1 .. Len(history[l]) : OfRow(c, a, l, i) BY <2>1
  <2>3. PICK n \in c.listings : \E j \in 1 .. Len(history[n]) : OfRow(c, b, n, j)
    BY <1>2, <1>4, AlertRow
  <2>4. PICK j \in 1 .. Len(history[n]) : OfRow(c, b, n, j) BY <2>3
  <2>5. n = l BY <1>2, <2>2, <2>4, RowType
  <2>6. history[l][i].at = history[l][j].at BY <1>2, <2>2, <2>4, <2>5 DEF OfRow
  <2>7. i = j BY <2>5, <2>6, OneRow
  <2> QED BY <1>1, <1>2, <2>2, <2>4, <2>5, <2>7, RowDetermines
<1> QED BY <1>3, <1>4

LEMMA DropsAreOnce ==
    ASSUME NEW c, Refresh(c)!MarketConstantsOK, RefreshTypes(c), Observed(c), Emission(c),
           Grounded(c)
    PROVE  Refresh(c)!DropsOnce /\ (Steady(c) => Refresh(c)!EmittedOnce)
<1>1. DOMAIN outputs = 1 .. Len(outputs) BY DEF RefreshTypes
<1>2. ASSUME NEW k \in 1 .. Len(outputs), NEW m \in 1 .. Len(outputs), k < m,
             NEW a \in outputs[k], NEW b \in outputs[m], Steady(c) \/ a.type = "price_drop"
      PROVE  ~Refresh(c)!SameOccurrence(a, b)
  <2> SUFFICES ASSUME Refresh(c)!SameOccurrence(a, b) PROVE FALSE OBVIOUS
  <2>1. a = b BY <1>2, OccurrenceDetermines
  <2>2. outputs[k] \cap outputs[m] = {} BY <1>2 DEF Emission
  <2> QED BY <2>1, <2>2
<1> QED BY <1>1, <1>2 DEF Refresh!DropsOnce, Refresh!EmittedOnce

LEMMA DealsCross ==
    ASSUME NEW c, Refresh(c)!MarketConstantsOK, RefreshTypes(c), Observed(c), Emission(c),
           Grounded(c),
           DealsInOrder(c), Steady(c)
    PROVE  Refresh(c)!DealPerCrossing
<1>1. DOMAIN outputs = 1 .. Len(outputs) BY DEF RefreshTypes
<1> SUFFICES ASSUME NEW k \in 1 .. Len(outputs), NEW m \in 1 .. Len(outputs), k < m,
                    NEW a \in outputs[k], NEW b \in outputs[m],
                    a.type = "deal_threshold", b.type = a.type, a.listing = b.listing
             PROVE  \E r \in DOMAIN history[a.listing] :
                        /\ a.at < history[a.listing][r].at /\ history[a.listing][r].at < b.at
                        /\ Refresh(c)!Landed(history[a.listing][r]) > c.ceiling[a.listing]
  BY <1>1 DEF Refresh!DealPerCrossing
<1>2. PICK l \in c.listings : \E i \in 1 .. Len(history[l]) : OfRow(c, a, l, i) BY AlertRow
<1>3. PICK i \in 1 .. Len(history[l]) : OfRow(c, a, l, i) BY <1>2
<1>4. PICK n \in c.listings : \E j \in 1 .. Len(history[n]) : OfRow(c, b, n, j) BY AlertRow
<1>5. PICK j \in 1 .. Len(history[n]) : OfRow(c, b, n, j) BY <1>4
<1>6. n = l /\ a.listing = l BY <1>3, <1>5, RowType
<1>7. a.at = history[l][i].at /\ b.at = history[l][j].at BY <1>3, <1>5, <1>6 DEF OfRow
<1>8. a.at <= b.at BY DEF DealsInOrder
<1>9. a.at # b.at
  <2>1. ~Refresh(c)!SameOccurrence(a, b) BY <1>1, DropsAreOnce DEF Refresh!EmittedOnce
  <2> QED BY <2>1 DEF Refresh!SameOccurrence
<1>10. i <= j /\ i # j BY <1>6, <1>7, <1>8, <1>9, OneRow
<1>11. Len(history[l]) \in Nat /\ DOMAIN history[l] = 1 .. Len(history[l])
  BY LastRows DEF RefreshTypes
<1>12. i \in Int /\ j \in Int /\ i < j /\ j - 1 \in 1 .. Len(history[l]) /\ j - 1 < j /\ i <= j - 1
  BY <1>6, <1>10, <1>11
<1>13. Refresh(c)!Landed(history[l][j - 1]) > c.ceiling[l]
  BY <1>5, <1>6, <1>12 DEF OfRow
<1>14. Refresh(c)!Landed(history[l][i]) <= c.ceiling[l] BY <1>3 DEF OfRow
<1>15. i # j - 1
  <2>1. Refresh(c)!Landed(history[l][i]) \in Nat /\ c.ceiling[l] \in Nat
    BY RowTyped, RefreshConstants
  <2> QED BY <1>13, <1>14, <2>1
<1>16. history[l][i].at < history[l][j - 1].at /\ history[l][j - 1].at < history[l][j].at
  <2>1. i < j - 1 BY <1>12, <1>15
  <2>2. history[l][i].at < history[l][j - 1].at BY <1>12, <2>1, OneRow
  <2>3. history[l][j - 1].at < history[l][j].at BY <1>6, <1>12, OneRow
  <2> QED BY <2>2, <2>3
<1> QED BY <1>6, <1>7, <1>11, <1>12, <1>13, <1>16

-----------------------------------------------------------------------------
(* The refresh: theorems for every configuration c *)

RefreshInv(c) ==
    /\ RefreshTypes(c) /\ EventsPast(c) /\ Reports(c)
    /\ c.queries = 1 => Absences(c)
    /\ Reserved(c)
    /\ c.mayStop = FALSE => Observed(c) /\ Dropped(c) /\ Grounded(c) /\ DealsInOrder(c)
    /\ c.mayStop = FALSE /\ NoForgetting(c) => Emission(c)

LEMMA RefreshStarts == ASSUME NEW c, Refresh(c)!MarketConstantsOK, Refresh(c)!Init PROVE RefreshInv(c)
BY RefreshTypesInit, AbsencesInit, ReservedInit, ReportsInit, ObservedInit, DroppedInit, EmissionInit, GroundedInit
DEF RefreshInv

LEMMA RefreshStep ==
    ASSUME NEW c, Refresh(c)!MarketConstantsOK, RefreshInv(c), [Refresh(c)!Next]_marketVars
    PROVE  RefreshInv(c)'
<1>1. RefreshTypes(c) /\ EventsPast(c) /\ Reports(c) BY DEF RefreshInv
<1>2. RefreshTypes(c)' /\ EventsPast(c)' /\ Reports(c)'
  BY <1>1, RefreshTypesNext, EventsPastNext, ReportsNext
<1>3. ASSUME c.queries = 1 PROVE Absences(c)' BY <1>1, <1>3, AbsencesNext DEF RefreshInv
<1>4. Reserved(c)' BY <1>1, ReservedNext DEF RefreshInv
<1>5. ASSUME c.mayStop = FALSE PROVE Observed(c)' /\ Dropped(c)' /\ Grounded(c)' /\ DealsInOrder(c)'
  <2>1. Observed(c) /\ Dropped(c) /\ Grounded(c) /\ DealsInOrder(c) BY <1>5 DEF RefreshInv
  <2> QED BY <1>1, <1>5, <2>1, ObservedNext, DroppedNext, GroundedNext, DealsInOrderNext
<1>6. ASSUME c.mayStop = FALSE, NoForgetting(c) PROVE Emission(c)'
  <2>1. Observed(c) /\ Emission(c) BY <1>6 DEF RefreshInv
  <2> QED BY <1>1, <1>6, <2>1, EmissionNext
<1> HIDE DEF RefreshInv
<1>7. NoForgetting(c)' <=> NoForgetting(c) BY DEF NoForgetting, PerGeneration
<1> QED BY <1>2, <1>3, <1>4, <1>5, <1>6, <1>7 DEF RefreshInv

LEMMA RefreshKept ==
    ASSUME NEW c, Refresh(c)!MarketConstantsOK, RefreshInv(c)
    PROVE  /\ Refresh(c)!TypeOK /\ Refresh(c)!LifecycleReported
           /\ c.queries = 1 => Refresh(c)!NoFalseDisappearance
           /\ Refresh(c)!RequestsWithinBudget
           /\ c.mayStop = FALSE => Refresh(c)!DropsReported
           /\ c.mayStop = FALSE /\ NoForgetting(c) => Refresh(c)!DropsOnce
           /\ c.mayStop = FALSE /\ NoForgetting(c) /\ Steady(c) => Refresh(c)!EmittedOnce /\ Refresh(c)!DealPerCrossing
<1>1. RefreshTypes(c) /\ Reports(c) BY DEF RefreshInv
<1>2. Refresh(c)!TypeOK /\ Refresh(c)!LifecycleReported BY <1>1, RefreshTyped, ReportedToo
<1>3. ASSUME c.queries = 1 PROVE Refresh(c)!NoFalseDisappearance BY <1>3 DEF RefreshInv, Absences
<1>4. Refresh(c)!RequestsWithinBudget
  BY <1>1, ReservedIsWithin DEF RefreshInv
<1>5. ASSUME c.mayStop = FALSE PROVE Refresh(c)!DropsReported
  BY <1>1, <1>5, DropsAreReported DEF RefreshInv
<1>6. ASSUME c.mayStop = FALSE, NoForgetting(c)
      PROVE  Refresh(c)!DropsOnce /\ (Steady(c) => Refresh(c)!EmittedOnce /\ Refresh(c)!DealPerCrossing)
  <2>1. Observed(c) /\ Grounded(c) /\ DealsInOrder(c) /\ Emission(c) BY <1>6 DEF RefreshInv
  <2>2. Refresh(c)!DropsOnce /\ (Steady(c) => Refresh(c)!EmittedOnce) BY <1>1, <2>1, DropsAreOnce
  <2>3. Steady(c) => Refresh(c)!DealPerCrossing BY <1>1, <2>1, DealsCross
  <2> QED BY <2>2, <2>3
<1> QED BY <1>2, <1>3, <1>4, <1>5, <1>6

LEMMA RefreshAlways == ASSUME NEW CONSTANT c, Refresh(c)!MarketConstantsOK PROVE Refresh(c)!Spec => []RefreshInv(c)
<1>1. Refresh(c)!Init => RefreshInv(c) BY RefreshStarts
<1>2. UNCHANGED Refresh(c)!vars => UNCHANGED marketVars
  BY DEF Refresh!vars, Refresh!market, Refresh!alertFiles, marketVars
<1>3. [Refresh(c)!Next]_(Refresh(c)!vars) => [Refresh(c)!Next]_marketVars BY <1>2
<1>4. RefreshInv(c) /\ [Refresh(c)!Next]_(Refresh(c)!vars) => RefreshInv(c)' BY <1>3, RefreshStep
<1> QED BY <1>1, <1>4, PTL DEF Refresh!Spec

\* Whatever runs end early, what appeared or returned before a state was written has been
\* in the alerts (_lifecycle_alerts), and the files are of their types.
THEOREM NewsIsReported ==
    ASSUME NEW CONSTANT c, Refresh(c)!MarketConstantsOK
    PROVE  Refresh(c)!Spec => [](Refresh(c)!TypeOK /\ Refresh(c)!LifecycleReported)
<1>1. RefreshInv(c) => Refresh(c)!TypeOK /\ Refresh(c)!LifecycleReported BY RefreshKept
<1> QED BY <1>1, RefreshAlways, PTL

\* With one query of a source, only what is not on offer disappears: no failure, no budget
\* and no interruption makes a listing disappear (update_listing_presence).
THEOREM OnlyGoneDisappear ==
    ASSUME NEW CONSTANT c, Refresh(c)!MarketConstantsOK, c.queries = 1
    PROVE  Refresh(c)!Spec => []Refresh(c)!NoFalseDisappearance
<1>1. RefreshInv(c) => Refresh(c)!NoFalseDisappearance BY RefreshKept
<1> QED BY <1>1, RefreshAlways, PTL

\* However often runs are started and wherever they end, a source is asked no more often in a
\* day than its budget says, each request counted with all its attempts: with one attempt each
\* that is the budget itself (reserve_source_budget, which charges no repetition).
THEOREM BudgetIsKept ==
    ASSUME NEW CONSTANT c, Refresh(c)!MarketConstantsOK
    PROVE  Refresh(c)!Spec => []Refresh(c)!RequestsWithinBudget
<1>1. RefreshInv(c) => Refresh(c)!RequestsWithinBudget BY RefreshKept
<1> QED BY <1>1, RefreshAlways, PTL

\* When runs end regularly, every drop between two observations is reported (_price_alerts).
THEOREM NoDropIsMissed ==
    ASSUME NEW CONSTANT c, Refresh(c)!MarketConstantsOK, c.mayStop = FALSE
    PROVE  Refresh(c)!Spec => []Refresh(c)!DropsReported
<1>1. RefreshInv(c) => Refresh(c)!DropsReported BY RefreshKept
<1> QED BY <1>1, RefreshAlways, PTL

\* And none is reported again, while no fingerprint is forgotten
\* (generate_change_intelligence).
THEOREM NoDropIsRepeated ==
    ASSUME NEW CONSTANT c, Refresh(c)!MarketConstantsOK, c.mayStop = FALSE, NoForgetting(c)
    PROVE  Refresh(c)!Spec => []Refresh(c)!DropsOnce
<1>1. RefreshInv(c) => Refresh(c)!DropsOnce BY RefreshKept
<1> QED BY <1>1, RefreshAlways, PTL

\* At one exchange rate that holds of every alert, and between two deal alerts of a listing
\* it was above its ceiling (_deal_threshold_alerts).
THEOREM NothingIsRepeated ==
    ASSUME NEW CONSTANT c, Refresh(c)!MarketConstantsOK, c.mayStop = FALSE,
           NoForgetting(c), Steady(c)
    PROVE  Refresh(c)!Spec => [](Refresh(c)!EmittedOnce /\ Refresh(c)!DealPerCrossing)
<1>1. RefreshInv(c) => Refresh(c)!EmittedOnce /\ Refresh(c)!DealPerCrossing BY RefreshKept
<1> QED BY <1>1, RefreshAlways, PTL

-----------------------------------------------------------------------------
(* The decision: the current offer is of the rows *)

LEMMA LeastNatural ==
    ASSUME NEW S \in SUBSET Nat, S # {}
    PROVE  \E n \in S : \A m \in S : n <= m
<1> DEFINE R == {p \in Nat \X Nat : p[1] < p[2]}
<1>1. IsWellFoundedOn(OpToRel(<, Nat), Nat) BY NatLessThanWellFounded, Zenon
<1>2. OpToRel(<, Nat) = R BY Zenon DEF OpToRel
<1>3. IsWellFoundedOn(R, Nat) BY <1>1, <1>2, Zenon
<1>4. \A x \in Nat, y \in Nat : y < x => <<y, x>> \in R OBVIOUS
<1> HIDE DEF R
<1>5. PICK x \in S : \A y \in S : ~ (<<y, x>> \in R) BY <1>3, WFMin
<1>6. \A y \in S : ~(y < x) BY <1>4, <1>5
<1> QED BY <1>6

LEMMA DecisionConstants ==
    ASSUME NEW c, Recommend(c)!DecisionConstantsOK
    PROVE  /\ c.prices \subseteq Nat \ {0} /\ c.rates \subseteq Nat \ {0}
           /\ c.ttl \in [c.listings -> Nat] /\ c.fit \in 0 .. 100 /\ c.confidence \in 0 .. 100
           /\ c.research \subseteq BOOLEAN /\ c.percentiles \subseteq 0 .. 100 /\ c.maxPolls \in Nat
           /\ IsFiniteSet(c.listings)
<1>1. Recommend(c)!IsFiniteSet(c.listings) <=> IsFiniteSet(c.listings)
  BY DEF Recommend!IsFiniteSet, IsFiniteSet
<1> QED BY <1>1 DEF Recommend!DecisionConstantsOK

PollRow(c) == [listing : c.listings, price : c.prices, at : 1 .. c.maxPolls]

DecisionReport ==
    [current : Nat, expired : BOOLEAN, low : BOOLEAN, score : 0 .. 100,
     class : {"Buy", "Watch", "Ignore", "Experimental"}]

\* The types, with those of the observation and the fields of the report.
DecisionTypes(c) ==
    /\ decisionNow \in 0 .. c.maxPolls + 1 /\ decisionRate \in c.rates /\ experimental \in c.research
    /\ rows \in Seq(PollRow(c))
    /\ marks \in [c.scopes -> [c.listings -> {"none", "active", "gone"}]]
    /\ latest \in [c.listings -> c.prices \cup {0}]
    /\ stage \in {"none", "decided", "costed"}
    /\ report \in DecisionReport /\ report.current \in 0 .. Len(rows)
    /\ stage = "none" => report = Recommend(c)!None

LEMMA DecisionTyped == ASSUME NEW c, DecisionTypes(c) PROVE Recommend(c)!TypeOK
<1>1. /\ report.current \in 0 .. Len(rows) /\ report.score \in 0 .. 100
      /\ report.class \in {"Buy", "Watch", "Ignore", "Experimental"}
      /\ {report.expired, report.low} \subseteq BOOLEAN
  BY DEF DecisionTypes, DecisionReport
<1> QED BY <1>1 DEF DecisionTypes, PollRow, Recommend!TypeOK, Recommend!Classes

LEMMA NoneTyped == ASSUME NEW c PROVE Recommend(c)!None \in DecisionReport /\ Recommend(c)!None.current = 0 /\ Recommend(c)!None.class = "Ignore"
BY DEF Recommend!None, DecisionReport

LEMMA DecisionTypesInit == ASSUME NEW c, Recommend(c)!DecisionConstantsOK, Recommend(c)!Init PROVE DecisionTypes(c)
<1>1. <<>> \in Seq(PollRow(c)) /\ Len(<<>>) = 0 OBVIOUS
<1>2. /\ [x \in c.scopes |-> [l \in c.listings |-> "none"]]
           \in [c.scopes -> [c.listings -> {"none", "active", "gone"}]]
      /\ [l \in c.listings |-> 0] \in [c.listings -> c.prices \cup {0}]
  OBVIOUS
<1>3. decisionNow \in 0 .. c.maxPolls + 1
  <2>1. c.maxPolls \in Nat /\ decisionNow = 0 BY DecisionConstants DEF Recommend!Init
  <2> QED BY <2>1
<1> QED BY <1>1, <1>2, <1>3, NoneTyped DEF Recommend!Init, DecisionTypes

LEMMA RowOfPoll ==
    ASSUME NEW c, Recommend(c)!DecisionConstantsOK, DecisionTypes(c), NEW i \in DOMAIN rows
    PROVE  /\ rows[i] \in PollRow(c) /\ i \in 1 .. Len(rows) /\ i \in Nat /\ Len(rows) \in Nat
           /\ DOMAIN rows = 1 .. Len(rows)
           /\ rows[i].listing \in c.listings /\ rows[i].price \in Nat /\ rows[i].at \in Int
           /\ Recommend(c)!Cad(rows[i]) \in Nat
<1>1. rows \in Seq(PollRow(c)) BY DEF DecisionTypes
<1>2. rows[i] \in PollRow(c) /\ i \in 1 .. Len(rows) /\ Len(rows) \in Nat /\ DOMAIN rows = 1 .. Len(rows)
  BY <1>1
<1>3. rows[i].listing \in c.listings /\ rows[i].price \in Nat /\ rows[i].at \in Int
  BY <1>2, DecisionConstants DEF PollRow
<1>4. decisionRate \in Nat BY DecisionConstants DEF DecisionTypes
<1>5. rows[i].price * decisionRate \in Nat /\ rows[i].price * 1 \in Nat BY <1>3, <1>4
<1> QED BY <1>2, <1>3, <1>5 DEF Recommend!Cad

LEMMA CurrentRow ==
    ASSUME NEW c, Recommend(c)!DecisionConstantsOK, DecisionTypes(c)
    PROVE  /\ Recommend(c)!Current \in 0 .. Len(rows) /\ Len(rows) \in Nat
           /\ Recommend(c)!Current # 0 => Recommend(c)!Current \in Recommend(c)!ActiveLatest /\ Recommend(c)!Current \in DOMAIN rows
<1>0. Len(rows) \in Nat /\ DOMAIN rows = 1 .. Len(rows) BY DEF DecisionTypes
<1>1. \A i \in Recommend(c)!ActiveLatest : i \in DOMAIN rows
  BY DEF Recommend!ActiveLatest, Recommend!LatestRows
<1>2. CASE Recommend(c)!ActiveLatest = {} BY <1>0, <1>2 DEF Recommend!Current
<1>3. CASE Recommend(c)!ActiveLatest # {}
  <2> DEFINE Costs == {Recommend(c)!Cad(rows[i]) : i \in Recommend(c)!ActiveLatest}
  <2>1. Costs \in SUBSET Nat /\ Costs # {} BY <1>1, <1>3, RowOfPoll
  <2>2. PICK low \in Costs : \A m \in Costs : low <= m BY <2>1, LeastNatural
  <2> DEFINE Cheapest == {i \in Recommend(c)!ActiveLatest : Recommend(c)!Cad(rows[i]) = low}
  <2>3. Cheapest \in SUBSET Nat /\ Cheapest # {} BY <1>1, <2>2, RowOfPoll
  <2>4. PICK first \in Cheapest : \A j \in Cheapest : first <= j BY <2>3, LeastNatural
  <2>5. \A j \in Recommend(c)!ActiveLatest :
           \/ Recommend(c)!Cad(rows[first]) < Recommend(c)!Cad(rows[j])
           \/ Recommend(c)!Cad(rows[first]) = Recommend(c)!Cad(rows[j]) /\ first <= j
    <3>1. ASSUME NEW j \in Recommend(c)!ActiveLatest
          PROVE  \/ Recommend(c)!Cad(rows[first]) < Recommend(c)!Cad(rows[j])
                 \/ Recommend(c)!Cad(rows[first]) = Recommend(c)!Cad(rows[j]) /\ first <= j
      <4>1. Recommend(c)!Cad(rows[first]) = low /\ low <= Recommend(c)!Cad(rows[j]) BY <2>2, <2>4
      <4>2. low \in Nat /\ Recommend(c)!Cad(rows[j]) \in Nat BY <1>1, <2>1, <2>2, RowOfPoll
      <4>3. Recommend(c)!Cad(rows[j]) = low => first <= j BY <2>4
      <4> QED BY <4>1, <4>2, <4>3
    <3> QED BY <3>1
  <2>6. first \in Recommend(c)!ActiveLatest BY <2>4
  <2> HIDE DEF Costs, Cheapest
  <2>7. Recommend(c)!Current \in Recommend(c)!ActiveLatest BY <1>3, <2>5, <2>6 DEF Recommend!Current
  <2> QED BY <1>0, <1>1, <2>7
<1> QED BY <1>2, <1>3

(* The report of a decision, and a poll *)

LEMMA ScoreTyped ==
    ASSUME NEW c, Recommend(c)!DecisionConstantsOK, DecisionTypes(c),
           NEW movement \in Recommend(c)!Movements,
           NEW i \in 0 .. Len(rows)
    PROVE  Recommend(c)!Score(i, movement) \in 0 .. 100
<1>1. Len(rows) \in Nat /\ i \in Nat /\ DOMAIN rows = 1 .. Len(rows) BY DEF DecisionTypes
<1>2. movement.adds \in Int /\ movement.stability \in Int
  <2>1. \/ movement = [adds |-> 0, stability |-> 55]
        \/ movement = [adds |-> 6, stability |-> 100]
        \/ movement = [adds |-> -6, stability |-> 70]
        \/ movement = [adds |-> -10, stability |-> 15]
    BY DEF Recommend!Movements
  <2> QED BY <2>1
<1>3. \A x \in Int : Recommend(c)!Clamped(x) \in 0 .. 100 BY DEF Recommend!Clamped
<1>4. Recommend(c)!PriceScore(i, movement) \in Int
  <2>1. CASE i = 0 BY <2>1 DEF Recommend!PriceScore
  <2>2. CASE i # 0
    <3> DEFINE Below == {j \in DOMAIN rows : Recommend(c)!Cad(rows[j]) <= Recommend(c)!Cad(rows[i])}
    <3>1. Below \subseteq 1 .. Len(rows) BY <1>1
    <3>2. IsFiniteSet(1 .. Len(rows)) BY <1>1, FS_Interval
    <3>3. IsFiniteSet(Below) BY <3>1, <3>2, FS_Subset
    <3>4. Cardinality(Below) \in Nat BY <3>3, FS_CardinalityType
    <3>5. Recommend(c)!Cardinality(Below) = Cardinality(Below)
      BY DEF Recommend!Cardinality, Cardinality
    <3> HIDE DEF Below
    <3>6. Len(rows) > 0 /\ Len(rows) \in Nat BY <1>1, <2>2
    <3>7. (100 * Cardinality(Below)) \div Len(rows) \in Int
      <4>1. PICK n \in Nat : n = Cardinality(Below) BY <3>4
      <4>2. PICK m \in Nat : m = Len(rows) /\ m > 0 BY <3>6
      <4>3. (100 * n) \div m \in Int BY <4>2
      <4> QED BY <4>1, <4>2, <4>3
    <3>8. Recommend(c)!Percentile(i) = (100 * Recommend(c)!Cardinality(Below)) \div Len(rows)
      BY DEF Recommend!Percentile, Below
    <3>9. Recommend(c)!Percentile(i) \in Int BY <3>5, <3>7, <3>8
    <3>10. 100 - Recommend(c)!Percentile(i) + (IF Recommend(c)!NewLow(i) THEN 15 ELSE 0) + movement.adds \in Int
      BY <1>2, <3>9
    <3>11. Recommend(c)!Clamped(100 - Recommend(c)!Percentile(i) + (IF Recommend(c)!NewLow(i) THEN 15 ELSE 0) + movement.adds) \in 0 .. 100
      BY <1>3, <3>10
    <3>12. \A y \in 0 .. 100 : y \in Int OBVIOUS
    <3>13. Recommend(c)!PriceScore(i, movement) = Recommend(c)!Clamped(100 - Recommend(c)!Percentile(i) + (IF Recommend(c)!NewLow(i) THEN 15 ELSE 0) + movement.adds)
      BY <2>2 DEF Recommend!PriceScore
    <3> QED BY <3>11, <3>12, <3>13
  <2> QED BY <2>1, <2>2
<1>5. Recommend(c)!Freshness(i) \in Int
  <2>1. i = 0 \/ (i # 0 /\ Recommend(c)!Expired(i)) \/ (i # 0 /\ ~Recommend(c)!Expired(i)) OBVIOUS
  <2> QED BY <2>1 DEF Recommend!Freshness
<1>8. c.fit \in Int /\ c.confidence \in Int
  <2>1. c.fit \in 0 .. 100 /\ c.confidence \in 0 .. 100 BY DecisionConstants
  <2>2. \A y \in 0 .. 100 : y \in Int OBVIOUS
  <2> QED BY <2>1, <2>2, Zenon
<1> DEFINE raw == (35 * Recommend(c)!PriceScore(i, movement) + 25 * c.fit + 20 * c.confidence
                    + 10 * Recommend(c)!Freshness(i) + 10 * movement.stability) \div 100
<1>6. raw \in Int
  <2>1. /\ 35 * Recommend(c)!PriceScore(i, movement) \in Int /\ 25 * c.fit \in Int /\ 20 * c.confidence \in Int
        /\ 10 * Recommend(c)!Freshness(i) \in Int /\ 10 * movement.stability \in Int
    <3>1. \A y \in Int : 35 * y \in Int /\ 25 * y \in Int /\ 20 * y \in Int /\ 10 * y \in Int OBVIOUS
    <3> QED BY <1>2, <1>4, <1>5, <1>8, <3>1, Zenon
  <2>2. \A p \in Int, q \in Int, w \in Int, x \in Int, y \in Int : (p + q + w + x + y) \div 100 \in Int
    OBVIOUS
  <2> QED BY <2>1, <2>2
<1>7. Recommend(c)!Score(i, movement) = IF i = 0 /\ raw > 59 THEN 59 ELSE Recommend(c)!Clamped(raw)
  BY DEF Recommend!Score
<1> HIDE DEF raw
<1> QED BY <1>3, <1>6, <1>7

\* What generate_daily_recommendations leaves.
LEMMA DecideStep ==
    ASSUME NEW c, Recommend(c)!DecisionConstantsOK, DecisionTypes(c), Recommend(c)!Decide
    PROVE  /\ stage' = "decided" /\ report' \in DecisionReport
           /\ report'.current = Recommend(c)!Current
           /\ report'.low = (Recommend(c)!Current # 0 /\ Recommend(c)!NewLow(Recommend(c)!Current))
           /\ experimental => report'.class = "Experimental"
           /\ report'.class = "Buy" => /\ ~experimental /\ Recommend(c)!Current # 0
                                       /\ ~Recommend(c)!Expired(Recommend(c)!Current)
           /\ UNCHANGED <<decisionNow, decisionRate, rows, marks, latest, experimental>>
<1>1. PICK movement \in Recommend(c)!Movements :
         report' = [current |-> Recommend(c)!Current, expired |-> Recommend(c)!Current # 0 /\ Recommend(c)!Expired(Recommend(c)!Current),
                    low |-> Recommend(c)!Current # 0 /\ Recommend(c)!NewLow(Recommend(c)!Current),
                    score |-> Recommend(c)!Score(Recommend(c)!Current, movement),
                    class |-> Recommend(c)!Class(Recommend(c)!Current, Recommend(c)!Score(Recommend(c)!Current, movement))]
  BY DEF Recommend!Decide
<1>2. stage' = "decided" /\ UNCHANGED <<decisionNow, decisionRate, rows, marks, latest, experimental>>
  BY DEF Recommend!Decide
<1>3. Recommend(c)!Score(Recommend(c)!Current, movement) \in 0 .. 100 BY CurrentRow, ScoreTyped
<1>4. Recommend(c)!Current \in Nat BY CurrentRow
<1>5. experimental \in BOOLEAN BY DecisionConstants DEF DecisionTypes
<1> DEFINE class == Recommend(c)!Class(Recommend(c)!Current, Recommend(c)!Score(Recommend(c)!Current, movement))
<1>6. /\ class \in {"Buy", "Watch", "Ignore", "Experimental"}
      /\ experimental => class = "Experimental"
      /\ class = "Buy" => ~experimental /\ Recommend(c)!Favorable(Recommend(c)!Current, Recommend(c)!Score(Recommend(c)!Current, movement))
  <2>1. CASE experimental BY <2>1 DEF Recommend!Class
  <2>2. CASE ~experimental
    <3>1. CASE Recommend(c)!Favorable(Recommend(c)!Current, Recommend(c)!Score(Recommend(c)!Current, movement))
      BY <2>2, <3>1 DEF Recommend!Class
    <3>2. CASE ~Recommend(c)!Favorable(Recommend(c)!Current, Recommend(c)!Score(Recommend(c)!Current, movement))
      <4>1. class \in {"Watch", "Ignore"} BY <2>2, <3>2 DEF Recommend!Class
      <4> QED BY <2>2, <4>1
    <3> QED BY <3>1, <3>2
  <2> QED BY <1>5, <2>1, <2>2
<1>7. Recommend(c)!Favorable(Recommend(c)!Current, Recommend(c)!Score(Recommend(c)!Current, movement)) => Recommend(c)!Current # 0 /\ ~Recommend(c)!Expired(Recommend(c)!Current)
  BY DEF Recommend!Favorable
<1>8. (Recommend(c)!Current # 0 /\ Recommend(c)!Expired(Recommend(c)!Current)) \in BOOLEAN /\ (Recommend(c)!Current # 0 /\ Recommend(c)!NewLow(Recommend(c)!Current)) \in BOOLEAN
  OBVIOUS
<1> HIDE DEF class
<1>9. report' = [current |-> Recommend(c)!Current, expired |-> Recommend(c)!Current # 0 /\ Recommend(c)!Expired(Recommend(c)!Current),
                 low |-> Recommend(c)!Current # 0 /\ Recommend(c)!NewLow(Recommend(c)!Current),
                 score |-> Recommend(c)!Score(Recommend(c)!Current, movement), class |-> class]
  BY <1>1 DEF class
<1> QED BY <1>2, <1>3, <1>4, <1>6, <1>7, <1>8, <1>9 DEF DecisionReport

\* What apply_tco_to_summary leaves.
LEMMA TcoStep ==
    ASSUME NEW c, Recommend(c)!DecisionConstantsOK, DecisionTypes(c), Recommend(c)!ApplyTco
    PROVE  /\ stage = "decided" /\ stage' = "costed" /\ report' \in DecisionReport
           /\ report'.current = report.current /\ report'.low = report.low
           /\ report.class = "Experimental" => report'.class = "Experimental"
           /\ report'.class = "Buy" => report.current # 0
           /\ UNCHANGED <<decisionNow, decisionRate, rows, marks, latest, experimental>>
<1>1. /\ stage = "decided" /\ stage' = "costed"
      /\ UNCHANGED <<decisionNow, decisionRate, rows, marks, latest, experimental>>
  BY DEF Recommend!ApplyTco
<1>2. PICK percentile \in c.percentiles, penalty \in {0, 5, 10}, complete \in BOOLEAN :
         LET priced == report.current # 0 /\ complete
             score == IF priced THEN Recommend(c)!Adjusted(report.score, percentile, penalty)
                      ELSE IF report.score > 59 THEN 59 ELSE report.score IN
         report' = [report EXCEPT !.score = score, !.class = Recommend(c)!Reclassed(report.class, score, priced)]
  BY DEF Recommend!ApplyTco
<1> DEFINE priced == report.current # 0 /\ complete
           score == IF priced THEN Recommend(c)!Adjusted(report.score, percentile, penalty)
                    ELSE IF report.score > 59 THEN 59 ELSE report.score
           class == Recommend(c)!Reclassed(report.class, score, priced)
<1>3. report' = [report EXCEPT !.score = score, !.class = class] BY <1>2
<1>4. /\ report \in DecisionReport /\ report.score \in 0 .. 100
      /\ report.class \in {"Buy", "Watch", "Ignore", "Experimental"}
  BY DEF DecisionTypes, DecisionReport
<1>5. score \in 0 .. 100
  <2>1. \A x \in Int : Recommend(c)!Clamped(x) \in 0 .. 100 BY DEF Recommend!Clamped
  <2>2. percentile \in Int /\ penalty \in Int /\ report.score \in Int BY <1>4, DecisionConstants
  <2>3. (75 * report.score + 25 * (100 - percentile)) \div 100 - penalty \in Int BY <2>2
  <2>4. Recommend(c)!Adjusted(report.score, percentile, penalty) \in 0 .. 100
    BY <2>1, <2>3 DEF Recommend!Adjusted
  <2> QED BY <1>4, <2>4
<1>6. /\ class \in {"Buy", "Watch", "Ignore", "Experimental"}
      /\ report.class = "Experimental" => class = "Experimental"
      /\ class = "Buy" => priced
  <2> HIDE DEF score
  <2>1. CASE report.class = "Experimental" BY <2>1 DEF Recommend!Reclassed
  <2>2. CASE report.class # "Experimental" /\ ~priced
    <3>1. class = IF report.class = "Buy" THEN "Watch" ELSE report.class
      <4> HIDE DEF priced
      <4> QED BY <2>2 DEF Recommend!Reclassed
    <3> QED BY <1>4, <2>2, <3>1
  <2>3. CASE report.class # "Experimental" /\ priced
    <3>1. class = IF score >= 72 /\ report.class \in {"Buy", "Watch"} THEN "Buy"
                  ELSE IF score >= 45 THEN "Watch" ELSE "Ignore"
      <4> HIDE DEF priced
      <4> QED BY <2>3 DEF Recommend!Reclassed
    <3> QED BY <2>3, <3>1
  <2> QED BY <2>1, <2>2, <2>3
<1> HIDE DEF score, class
<1>7. report' \in DecisionReport /\ report'.current = report.current /\ report'.low = report.low
      /\ report'.class = class
  BY <1>3, <1>4, <1>5, <1>6 DEF DecisionReport
<1> QED BY <1>1, <1>6, <1>7

LEMMA Concatenated ==
    ASSUME NEW S, NEW q \in Seq(S), NEW m \in Seq(S), NEW r, r = q \o m
    PROVE  /\ r \in Seq(S) /\ Len(q) \in Nat /\ Len(m) \in Nat /\ Len(r) = Len(q) + Len(m)
           /\ DOMAIN q = 1 .. Len(q) /\ DOMAIN m = 1 .. Len(m) /\ DOMAIN r = 1 .. Len(q) + Len(m)
           /\ \A i \in 1 .. Len(q) : r[i] = q[i]
           /\ \A i \in 1 .. Len(m) : r[Len(q) + i] = m[i]
OBVIOUS

\* The rows a poll appends: one of each listing that is on offer there.
PolledRows(c, more, answered, found) ==
    /\ more \in Seq(PollRow(c)) /\ rows' = rows \o more
    /\ \A i \in 1 .. Len(more) :
          more[i].listing \in answered /\ found[more[i].listing] # 0 /\ more[i].price = found[more[i].listing]
    /\ \A l \in answered : found[l] # 0 => \E i \in 1 .. Len(more) : more[i].listing = l

MarksAfter(c, x, answered, found) ==
    [marks EXCEPT ![x] = [l \in c.listings |->
        CASE l \in {k \in answered : found[k] # 0} -> "active"
          [] l \in answered \ {k \in answered : found[k] # 0} /\ @[l] = "active" -> "gone"
          [] OTHER -> @[l]]]

LEMMA PolledStep ==
    ASSUME NEW c, Recommend(c)!DecisionConstantsOK, DecisionTypes(c), NEW x \in c.scopes,
           Recommend(c)!Poll(x)
    PROVE  /\ decisionNow < c.maxPolls /\ decisionNow' = decisionNow + 1
           /\ stage' = "none" /\ report' = Recommend(c)!None /\ UNCHANGED <<decisionRate, experimental>>
           /\ \E answered \in SUBSET c.listings : \E found \in [answered -> c.prices \cup {0}], more \in Seq(PollRow(c)) :
                 /\ PolledRows(c, more, answered, found)
                 /\ marks' = MarksAfter(c, x, answered, found)
                 /\ latest' = [l \in c.listings |-> IF l \in answered THEN found[l] ELSE latest[l]]
<1>1. /\ decisionNow < c.maxPolls /\ decisionNow' = decisionNow + 1
      /\ stage' = "none" /\ report' = Recommend(c)!None /\ UNCHANGED <<decisionRate, experimental>>
  BY DEF Recommend!Poll
<1>2. PICK answered \in SUBSET c.listings : \E f \in [answered -> c.prices \cup {0}] :
         LET offered == {l \in answered : f[l] # 0}
             order == CHOOSE o \in Recommend(c)!Bijection(1 .. Recommend(c)!Cardinality(offered), offered) : TRUE IN
         /\ rows' = rows \o [i \in DOMAIN order |-> [listing |-> order[i], price |-> f[order[i]], at |-> decisionNow']]
         /\ marks' = [marks EXCEPT ![x] = [l \in c.listings |->
                CASE l \in offered -> "active"
                  [] l \in answered \ offered /\ @[l] = "active" -> "gone"
                  [] OTHER -> @[l]]]
         /\ latest' = [l \in c.listings |-> IF l \in answered THEN f[l] ELSE latest[l]]
  BY Zenon DEF Recommend!Poll
<1>3. PICK found \in [answered -> c.prices \cup {0}] :
         LET offered == {l \in answered : found[l] # 0}
             order == CHOOSE o \in Recommend(c)!Bijection(1 .. Recommend(c)!Cardinality(offered), offered) : TRUE IN
         /\ rows' = rows \o [i \in DOMAIN order |-> [listing |-> order[i], price |-> found[order[i]], at |-> decisionNow']]
         /\ marks' = [marks EXCEPT ![x] = [l \in c.listings |->
                CASE l \in offered -> "active"
                  [] l \in answered \ offered /\ @[l] = "active" -> "gone"
                  [] OTHER -> @[l]]]
         /\ latest' = [l \in c.listings |-> IF l \in answered THEN found[l] ELSE latest[l]]
  BY <1>2, Zenon
<1> DEFINE offered == {l \in answered : found[l] # 0}
<1>4. marks' = MarksAfter(c, x, answered, found) BY <1>3, Zenon DEF MarksAfter
<1>5. latest' = [l \in c.listings |-> IF l \in answered THEN found[l] ELSE latest[l]] BY <1>3, Zenon
<1>6. PICK order :
         /\ order = CHOOSE o \in Recommend(c)!Bijection(1 .. Recommend(c)!Cardinality(offered), offered) : TRUE
         /\ rows' = rows \o [i \in DOMAIN order |-> [listing |-> order[i], price |-> found[order[i]], at |-> decisionNow']]
  BY <1>3, Zenon
<1>7. /\ offered \subseteq answered /\ offered \subseteq c.listings
      /\ \A l \in answered : found[l] # 0 <=> l \in offered
      /\ \A l \in offered : found[l] \in c.prices
  BY <1>2
<1> HIDE DEF offered
<1>8. order \in Recommend(c)!Bijection(1 .. Recommend(c)!Cardinality(offered), offered) /\ Cardinality(offered) \in Nat
      /\ Recommend(c)!Cardinality(offered) = Cardinality(offered)
  <2>1. IsFiniteSet(offered) BY <1>7, DecisionConstants, FS_Subset
  <2>2. Cardinality(offered) \in Nat /\ ExistsBijection(1 .. Cardinality(offered), offered)
    BY <2>1, FS_CardinalityType
  <2>3. Recommend(c)!Cardinality(offered) = Cardinality(offered)
    BY DEF Recommend!Cardinality, Cardinality
  <2>4. Recommend(c)!Bijection(1 .. Cardinality(offered), offered) = Bijection(1 .. Cardinality(offered), offered)
    BY Zenon DEF Recommend!Bijection, Recommend!Injection, Recommend!Surjection, Recommend!IsInjective, Bijection, Injection, Surjection, IsInjective
  <2>5. \E o : o \in Recommend(c)!Bijection(1 .. Recommend(c)!Cardinality(offered), offered)
    BY <2>2, <2>3, <2>4, Zenon DEF ExistsBijection
  <2> QED BY <1>6, <2>2, <2>3, <2>5
<1>9. PICK n \in Nat : n = Cardinality(offered) BY <1>8
<1>10. order \in [1 .. n -> offered] /\ \A l \in offered : \E i \in 1 .. n : order[i] = l
  BY <1>8, <1>9, Zenon DEF Recommend!Bijection, Recommend!Surjection, Recommend!Injection
<1> DEFINE more == [i \in 1 .. n |-> [listing |-> order[i], price |-> found[order[i]], at |-> decisionNow']]
<1>11. decisionNow' \in 1 .. c.maxPolls
  <2>1. decisionNow \in 0 .. c.maxPolls + 1 /\ c.maxPolls \in Nat
    BY DecisionConstants DEF DecisionTypes
  <2> QED BY <1>1, <2>1
<1>12. \A i \in 1 .. n : /\ more[i] = [listing |-> order[i], price |-> found[order[i]], at |-> decisionNow']
                         /\ more[i].listing = order[i] /\ more[i].price = found[order[i]]
                         /\ order[i] \in offered
  BY <1>10
<1>13. \A i \in 1 .. n : more[i] \in PollRow(c)
  <2>1. ASSUME NEW i \in 1 .. n PROVE more[i] \in PollRow(c)
    <3>1. order[i] \in c.listings /\ found[order[i]] \in c.prices BY <1>7, <1>12
    <3> QED BY <1>11, <1>12, <3>1 DEF PollRow
  <2> QED BY <2>1
<1>14. more \in Seq(PollRow(c)) /\ Len(more) = n
  <2>1. more \in [1 .. n -> PollRow(c)] BY <1>13
  <2> QED BY <2>1
<1>15. rows' = rows \o more
  <2>1. DOMAIN order = 1 .. n BY <1>10
  <2> QED BY <1>6, <2>1, Zenon
<1> HIDE DEF more
<1>16. PolledRows(c, more, answered, found)
  <2>1. \A i \in 1 .. Len(more) :
           more[i].listing \in answered /\ found[more[i].listing] # 0 /\ more[i].price = found[more[i].listing]
    BY <1>7, <1>12, <1>14
  <2>2. \A l \in answered : found[l] # 0 => \E i \in 1 .. Len(more) : more[i].listing = l
    BY <1>7, <1>10, <1>12, <1>14
  <2> QED BY <1>14, <1>15, <2>1, <2>2 DEF PolledRows
<1> QED BY <1>1, <1>4, <1>5, <1>14, <1>16

LEMMA QuietDecision ==
    ASSUME NEW c, Recommend(c)!NewRate \/ Recommend(c)!Wait
    PROVE  /\ stage' = "none" /\ report' = Recommend(c)!None
           /\ UNCHANGED <<rows, marks, latest, experimental>>
           /\ \/ decisionNow' = decisionNow /\ decisionRate' \in c.rates
              \/ decisionNow <= c.maxPolls /\ decisionNow' = decisionNow + 1 /\ decisionRate' = decisionRate
BY DEF Recommend!NewRate, Recommend!Wait

LEMMA DecisionSame == ASSUME NEW c, DecisionTypes(c), UNCHANGED decisionVars PROVE DecisionTypes(c)'
BY DEF DecisionTypes, decisionVars

LEMMA MarksTyped ==
    ASSUME NEW c, DecisionTypes(c), NEW x \in c.scopes, NEW answered, NEW found
    PROVE  MarksAfter(c, x, answered, found) \in [c.scopes -> [c.listings -> {"none", "active", "gone"}]]
<1> DEFINE offered == {k \in answered : found[k] # 0}
           after == [l \in c.listings |->
                        CASE l \in offered -> "active"
                          [] l \in answered \ offered /\ marks[x][l] = "active" -> "gone"
                          [] OTHER -> marks[x][l]]
<1>1. marks \in [c.scopes -> [c.listings -> {"none", "active", "gone"}]] BY DEF DecisionTypes
<1>2. MarksAfter(c, x, answered, found) = [marks EXCEPT ![x] = after] BY <1>1 DEF MarksAfter
<1>3. after \in [c.listings -> {"none", "active", "gone"}]
  <2>1. \A l \in c.listings : marks[x][l] \in {"none", "active", "gone"} BY <1>1
  <2> HIDE DEF offered
  <2>2. ASSUME NEW l \in c.listings PROVE after[l] \in {"none", "active", "gone"}
    <3>1. CASE l \in offered BY <3>1
    <3>2. CASE l \notin offered /\ l \in answered \ offered /\ marks[x][l] = "active" BY <3>2
    <3>3. CASE l \notin offered /\ ~(l \in answered \ offered /\ marks[x][l] = "active")
      <4>1. after[l] = marks[x][l] BY <3>3
      <4> QED BY <2>1, <4>1
    <3> QED BY <3>1, <3>2, <3>3
  <2> QED BY <2>2
<1> HIDE DEF after
<1> QED BY <1>1, <1>2, <1>3

LEMMA DecisionTypesNext ==
    ASSUME NEW c, Recommend(c)!DecisionConstantsOK, DecisionTypes(c), Recommend(c)!Next
    PROVE  DecisionTypes(c)'
<1>0. decisionNow \in 0 .. c.maxPolls + 1 /\ c.maxPolls \in Nat /\ decisionRate \in c.rates
  BY DecisionConstants DEF DecisionTypes
<1>1. ASSUME NEW x \in c.scopes, Recommend(c)!Poll(x) PROVE DecisionTypes(c)'
  <2>1. /\ decisionNow < c.maxPolls /\ decisionNow' = decisionNow + 1
        /\ stage' = "none" /\ report' = Recommend(c)!None /\ UNCHANGED <<decisionRate, experimental>>
        /\ \E answered \in SUBSET c.listings : \E found \in [answered -> c.prices \cup {0}], more \in Seq(PollRow(c)) :
              /\ PolledRows(c, more, answered, found)
              /\ marks' = MarksAfter(c, x, answered, found)
              /\ latest' = [l \in c.listings |-> IF l \in answered THEN found[l] ELSE latest[l]]
    BY <1>1, PolledStep
  <2>11. PICK answered \in SUBSET c.listings : \E found \in [answered -> c.prices \cup {0}], more \in Seq(PollRow(c)) :
              /\ PolledRows(c, more, answered, found)
              /\ marks' = MarksAfter(c, x, answered, found)
              /\ latest' = [l \in c.listings |-> IF l \in answered THEN found[l] ELSE latest[l]]
    BY <2>1
  <2>2. PICK found \in [answered -> c.prices \cup {0}], more \in Seq(PollRow(c)) :
              /\ PolledRows(c, more, answered, found)
              /\ marks' = MarksAfter(c, x, answered, found)
              /\ latest' = [l \in c.listings |-> IF l \in answered THEN found[l] ELSE latest[l]]
    BY <2>11
  <2>3. rows \in Seq(PollRow(c)) /\ more \in Seq(PollRow(c)) /\ rows' = rows \o more
    BY <2>2 DEF PolledRows, DecisionTypes
  <2>4. rows' \in Seq(PollRow(c)) /\ Len(rows') \in Nat BY <2>3, Concatenated
  <2>5. marks' \in [c.scopes -> [c.listings -> {"none", "active", "gone"}]] BY <2>2, MarksTyped
  <2>6. latest' \in [c.listings -> c.prices \cup {0}]
    <3>1. latest \in [c.listings -> c.prices \cup {0}] BY DEF DecisionTypes
    <3> QED BY <2>2, <3>1
  <2>7. decisionNow' \in 0 .. c.maxPolls + 1 BY <1>0, <2>1
  <2>8. report' \in DecisionReport /\ report'.current \in 0 .. Len(rows') BY <2>1, <2>4, NoneTyped
  <2>9. experimental \in c.research BY DEF DecisionTypes
  <2>10. report' = Recommend(c)!None' BY <2>1 DEF Recommend!None
  <2> QED BY <1>0, <2>1, <2>4, <2>5, <2>6, <2>7, <2>8, <2>9, <2>10 DEF DecisionTypes
<1>2. CASE Recommend(c)!NewRate \/ Recommend(c)!Wait
  <2>1. /\ stage' = "none" /\ report' = Recommend(c)!None
        /\ UNCHANGED <<rows, marks, latest, experimental>>
        /\ \/ decisionNow' = decisionNow /\ decisionRate' \in c.rates
           \/ decisionNow <= c.maxPolls /\ decisionNow' = decisionNow + 1 /\ decisionRate' = decisionRate
    BY <1>2, QuietDecision
  <2>2. decisionNow' \in 0 .. c.maxPolls + 1 /\ decisionRate' \in c.rates BY <1>0, <2>1
  <2>3. rows \in Seq(PollRow(c)) /\ Len(rows) \in Nat BY DEF DecisionTypes
  <2>4. report' \in DecisionReport /\ report'.current \in 0 .. Len(rows') BY <2>1, <2>3, NoneTyped
  <2>5. report' = Recommend(c)!None' BY <2>1 DEF Recommend!None
  <2> QED BY <2>1, <2>2, <2>4, <2>5 DEF DecisionTypes
<1>3. CASE Recommend(c)!Decide
  <2>1. /\ stage' = "decided" /\ report' \in DecisionReport /\ report'.current = Recommend(c)!Current
        /\ UNCHANGED <<decisionNow, decisionRate, rows, marks, latest, experimental>>
    BY <1>3, DecideStep
  <2>2. Recommend(c)!Current \in 0 .. Len(rows) BY CurrentRow
  <2> QED BY <2>1, <2>2 DEF DecisionTypes
<1>4. CASE Recommend(c)!ApplyTco
  <2>1. /\ stage' = "costed" /\ report' \in DecisionReport /\ report'.current = report.current
        /\ UNCHANGED <<decisionNow, decisionRate, rows, marks, latest, experimental>>
    BY <1>4, TcoStep
  <2> QED BY <2>1 DEF DecisionTypes
<1> QED BY <1>1, <1>2, <1>3, <1>4 DEF Recommend!Next

-----------------------------------------------------------------------------
(* The decision: a Buy has a price, and a record is below its own sellers' prices *)

\* Only an offer is bought or is a record, and a research platform is neither class of them.
BoughtOffers(c) ==
    /\ report.class = "Buy" => report.current # 0 /\ ~experimental
    /\ stage # "none" /\ experimental => report.class = "Experimental"

RecordHolds(c, i) ==
    \A j \in DOMAIN rows :
        /\ rows[j].listing \in c.foreign <=> rows[i].listing \in c.foreign
        /\ rows[j].at < rows[i].at
        => rows[i].price < rows[j].price

Records(c) == stage # "none" /\ report.current # 0 /\ report.low => RecordHolds(c, report.current)

LEMMA DecisionReports ==
    ASSUME NEW c, Recommend(c)!DecisionConstantsOK, DecisionTypes(c)
    PROVE  /\ BoughtOffers(c) => Recommend(c)!BuyIsPriced
           /\ Records(c) => Recommend(c)!RecordIsSellers
           /\ \A i : Recommend(c)!NewLow(i) => RecordHolds(c, i)
<1>1. BoughtOffers(c) => Recommend(c)!BuyIsPriced BY DEF BoughtOffers, Recommend!BuyIsPriced
<1>2. Records(c) => Recommend(c)!RecordIsSellers
  BY DEF Records, RecordHolds, Recommend!RecordIsSellers, Recommend!Published, Recommend!Offer, Recommend!SameCurrency
<1>3. ASSUME NEW i, Recommend(c)!NewLow(i) PROVE RecordHolds(c, i)
  BY <1>3 DEF Recommend!NewLow, Recommend!SameCurrency, RecordHolds
<1> QED BY <1>1, <1>2, <1>3

LEMMA BoughtInit == ASSUME NEW c, Recommend(c)!Init PROVE BoughtOffers(c) /\ Records(c)
BY NoneTyped DEF Recommend!Init, BoughtOffers, Records

LEMMA BoughtNext ==
    ASSUME NEW c, Recommend(c)!DecisionConstantsOK, DecisionTypes(c), BoughtOffers(c),
           Records(c), Recommend(c)!Next
    PROVE  BoughtOffers(c)' /\ Records(c)'
<1>1. ASSUME stage' = "none", report' = Recommend(c)!None PROVE BoughtOffers(c)' /\ Records(c)'
  BY <1>1, NoneTyped DEF BoughtOffers, Records
<1>2. ASSUME NEW x \in c.scopes, Recommend(c)!Poll(x) PROVE BoughtOffers(c)' /\ Records(c)'
  BY <1>1, <1>2, PolledStep
<1>3. CASE Recommend(c)!NewRate \/ Recommend(c)!Wait BY <1>1, <1>3, QuietDecision
<1>4. CASE Recommend(c)!Decide
  <2>1. /\ report'.current = Recommend(c)!Current
        /\ report'.low = (Recommend(c)!Current # 0 /\ Recommend(c)!NewLow(Recommend(c)!Current))
        /\ experimental => report'.class = "Experimental"
        /\ report'.class = "Buy" => ~experimental /\ Recommend(c)!Current # 0
        /\ UNCHANGED <<rows, experimental>>
    BY <1>4, DecideStep
  <2>2. BoughtOffers(c)' BY <2>1 DEF BoughtOffers
  <2>3. report'.low => RecordHolds(c, report'.current) BY <2>1, DecisionReports
  <2>4. Records(c)' BY <2>1, <2>3 DEF Records, RecordHolds
  <2> QED BY <2>2, <2>4
<1>5. CASE Recommend(c)!ApplyTco
  <2>1. /\ stage = "decided" /\ report'.current = report.current /\ report'.low = report.low
        /\ report.class = "Experimental" => report'.class = "Experimental"
        /\ report'.class = "Buy" => report.current # 0
        /\ UNCHANGED <<rows, experimental>>
    BY <1>5, TcoStep
  <2>2. BoughtOffers(c)' BY <2>1 DEF BoughtOffers
  <2>3. Records(c)' BY <2>1 DEF Records, RecordHolds
  <2> QED BY <2>2, <2>3
<1> QED BY <1>2, <1>3, <1>4, <1>5 DEF Recommend!Next

-----------------------------------------------------------------------------
(* The decision: with one scope, the offer is what its source has last *)

OneScope(c) == \E x \in c.scopes : c.scopes = {x} /\ c.order = <<x>>

NewestRow(i) == i \in DOMAIN rows /\ \A j \in DOMAIN rows : j > i => rows[j].listing # rows[i].listing

\* A listing without a state has no price, and one that is active has its last price still.
Marked(c) ==
    \A x \in c.scopes, l \in c.listings :
        /\ marks[x][l] = "none" => \A i \in DOMAIN rows : rows[i].listing # l
        /\ marks[x][l] = "active" =>
              \A i \in DOMAIN rows : NewestRow(i) /\ rows[i].listing = l => rows[i].price = latest[l]

\* The offer of a report is at the price its source has, and was fresh if it is to be bought.
OfferStands(c) ==
    /\ stage # "none" /\ report.current # 0 =>
          latest[rows[report.current].listing] = rows[report.current].price
    /\ stage = "decided" /\ report.class = "Buy" =>
          /\ report.current # 0
          /\ 12 * (decisionNow - rows[report.current].at) < c.ttl[rows[report.current].listing]

LEMMA OfferIsLive ==
    ASSUME NEW c, OfferStands(c) PROVE Recommend(c)!CurrentIsOffered /\ Recommend(c)!BuyIsLive
BY DEF OfferStands, Recommend!CurrentIsOffered, Recommend!BuyIsLive, Recommend!Published, Recommend!Offer

LEMMA MarkedInit == ASSUME NEW c, Recommend(c)!Init PROVE Marked(c) /\ OfferStands(c)
<1>1. /\ rows = <<>> /\ stage = "none"
      /\ marks = [x \in c.scopes |-> [l \in c.listings |-> "none"]]
  BY DEF Recommend!Init
<1>2. \A x \in c.scopes, l \in c.listings : marks[x][l] = "none" BY <1>1
<1>3. DOMAIN rows = {} BY <1>1
<1>4. Marked(c) BY <1>2, <1>3 DEF Marked
<1> QED BY <1>1, <1>4 DEF OfferStands

LEMMA MarkOfPoll ==
    ASSUME NEW c, DecisionTypes(c), NEW x \in c.scopes, NEW answered, NEW found,
           marks' = MarksAfter(c, x, answered, found), NEW l \in c.listings
    PROVE  /\ l \in answered /\ found[l] # 0 => marks'[x][l] = "active"
           /\ l \in answered /\ found[l] = 0 => marks'[x][l] = IF marks[x][l] = "active" THEN "gone" ELSE marks[x][l]
           /\ l \notin answered => marks'[x][l] = marks[x][l]
<1> DEFINE offered == {k \in answered : found[k] # 0}
<1>1. marks \in [c.scopes -> [c.listings -> {"none", "active", "gone"}]] BY DEF DecisionTypes
<1>2. marks'[x][l] = CASE l \in offered -> "active"
                       [] l \in answered \ offered /\ marks[x][l] = "active" -> "gone"
                       [] OTHER -> marks[x][l]
  BY <1>1 DEF MarksAfter
<1>3. l \in offered <=> l \in answered /\ found[l] # 0 OBVIOUS
<1> HIDE DEF offered
<1>4. CASE l \in offered
  <2>1. marks'[x][l] = "active" BY <1>2, <1>4
  <2> QED BY <1>3, <1>4, <2>1
<1>5. CASE l \notin offered /\ l \in answered /\ marks[x][l] = "active"
  <2>1. marks'[x][l] = "gone" BY <1>2, <1>5
  <2> QED BY <1>3, <1>5, <2>1
<1>6. CASE l \notin offered /\ ~(l \in answered /\ marks[x][l] = "active")
  <2>1. marks'[x][l] = marks[x][l] BY <1>2, <1>6
  <2> QED BY <1>3, <1>6, <2>1
<1> QED BY <1>4, <1>5, <1>6

LEMMA MarkedPoll ==
    ASSUME NEW c, Recommend(c)!DecisionConstantsOK, DecisionTypes(c), OneScope(c), Marked(c),
           NEW x \in c.scopes, Recommend(c)!Poll(x)
    PROVE  Marked(c)'
<1>1. \E answered \in SUBSET c.listings : \E found \in [answered -> c.prices \cup {0}], more \in Seq(PollRow(c)) :
         /\ PolledRows(c, more, answered, found)
         /\ marks' = MarksAfter(c, x, answered, found)
         /\ latest' = [l \in c.listings |-> IF l \in answered THEN found[l] ELSE latest[l]]
  BY PolledStep
<1>2. PICK answered \in SUBSET c.listings : \E found \in [answered -> c.prices \cup {0}], more \in Seq(PollRow(c)) :
         /\ PolledRows(c, more, answered, found)
         /\ marks' = MarksAfter(c, x, answered, found)
         /\ latest' = [l \in c.listings |-> IF l \in answered THEN found[l] ELSE latest[l]]
  BY <1>1
<1>3. PICK found \in [answered -> c.prices \cup {0}], more \in Seq(PollRow(c)) :
         /\ PolledRows(c, more, answered, found)
         /\ marks' = MarksAfter(c, x, answered, found)
         /\ latest' = [l \in c.listings |-> IF l \in answered THEN found[l] ELSE latest[l]]
  BY <1>2
<1>4. /\ rows \in Seq(PollRow(c)) /\ more \in Seq(PollRow(c)) /\ rows' = rows \o more
      /\ \A i \in 1 .. Len(more) :
            more[i].listing \in answered /\ found[more[i].listing] # 0 /\ more[i].price = found[more[i].listing]
      /\ \A l \in answered : found[l] # 0 => \E i \in 1 .. Len(more) : more[i].listing = l
  BY <1>3 DEF PolledRows, DecisionTypes
<1>5. /\ Len(rows) \in Nat /\ Len(more) \in Nat
      /\ DOMAIN rows = 1 .. Len(rows) /\ DOMAIN rows' = 1 .. Len(rows) + Len(more)
      /\ \A i \in 1 .. Len(rows) : rows'[i] = rows[i]
      /\ \A i \in 1 .. Len(more) : rows'[Len(rows) + i] = more[i]
  BY <1>4, Concatenated
<1>6. \A i \in DOMAIN rows' : i \in DOMAIN rows \/ \E k \in 1 .. Len(more) : i = Len(rows) + k
  <2>1. ASSUME NEW i \in DOMAIN rows', i \notin DOMAIN rows
        PROVE  \E k \in 1 .. Len(more) : i = Len(rows) + k
    <3>1. i - Len(rows) \in 1 .. Len(more) /\ i = Len(rows) + (i - Len(rows)) BY <1>5, <2>1
    <3> QED BY <3>1
  <2> QED BY <2>1
<1>7. \A y \in c.scopes : y = x BY DEF OneScope
<1>8. ASSUME NEW l \in c.listings, marks'[x][l] = "none", NEW i \in DOMAIN rows'
      PROVE  rows'[i].listing # l
  <2>1. ~(l \in answered /\ found[l] # 0) /\ marks[x][l] = "none" BY <1>3, <1>8, MarkOfPoll
  <2>2. CASE i \in DOMAIN rows BY <1>5, <2>1, <2>2 DEF Marked
  <2>3. CASE \E k \in 1 .. Len(more) : i = Len(rows) + k
    <3>1. PICK k \in 1 .. Len(more) : i = Len(rows) + k BY <2>3
    <3>2. rows'[i] = more[k] BY <1>5, <3>1
    <3> QED BY <1>4, <2>1, <3>1, <3>2
  <2> QED BY <1>6, <1>8, <2>2, <2>3
<1>9. ASSUME NEW l \in c.listings, marks'[x][l] = "active", NEW i \in DOMAIN rows',
             rows'[i].listing = l, \A j \in DOMAIN rows' : j > i => rows'[j].listing # rows'[i].listing
      PROVE  rows'[i].price = latest'[l]
  <2>1. CASE l \in answered /\ found[l] # 0
    <3>1. PICK k \in 1 .. Len(more) : more[k].listing = l BY <1>4, <2>1
    <3>2. Len(rows) + k \in DOMAIN rows' /\ rows'[Len(rows) + k].listing = l BY <1>5, <3>1
    <3>3. i \notin DOMAIN rows
      <4>1. i \in DOMAIN rows => Len(rows) + k > i BY <1>5, <3>1
      <4> QED BY <1>9, <3>2, <4>1
    <3>4. PICK m \in 1 .. Len(more) : i = Len(rows) + m BY <1>6, <1>9, <3>3
    <3>5. rows'[i] = more[m] BY <1>5, <3>4
    <3>6. rows'[i].price = found[l] BY <1>4, <1>9, <3>4, <3>5
    <3>7. latest'[l] = found[l] BY <1>3, <2>1
    <3> QED BY <3>6, <3>7
  <2>2. CASE ~(l \in answered /\ found[l] # 0)
    <3>1. l \notin answered /\ marks[x][l] = "active"
      <4>1. marks[x][l] \in {"none", "active", "gone"} BY DEF DecisionTypes
      <4>2. l \in answered => marks'[x][l] # "active" BY <1>3, <2>2, <4>1, MarkOfPoll
      <4>3. l \notin answered => marks'[x][l] = marks[x][l] BY <1>3, MarkOfPoll
      <4> QED BY <1>9, <4>2, <4>3
    <3>2. latest'[l] = latest[l] BY <1>3, <3>1
    <3>3. i \in DOMAIN rows
      <4>1. ASSUME NEW k \in 1 .. Len(more), i = Len(rows) + k PROVE FALSE
        <5>1. rows'[i] = more[k] BY <1>5, <4>1
        <5> QED BY <1>4, <1>9, <3>1, <4>1, <5>1
      <4> QED BY <1>6, <1>9, <4>1
    <3>4. rows'[i] = rows[i] BY <1>5, <3>3
    <3>5. \A j \in DOMAIN rows : j \in DOMAIN rows' /\ rows'[j] = rows[j] BY <1>5
    <3>6. \A j \in DOMAIN rows : j > i => rows[j].listing # rows[i].listing BY <1>9, <3>4, <3>5
    <3>7. rows[i].price = latest[l] BY <1>9, <3>1, <3>3, <3>4, <3>6 DEF Marked, NewestRow
    <3> QED BY <3>2, <3>4, <3>7
  <2> QED BY <2>1, <2>2
<1> QED BY <1>7, <1>8, <1>9 DEF Marked, NewestRow

LEMMA ActiveIsMarked ==
    ASSUME NEW c, OneScope(c), NEW x \in c.scopes, NEW l, Recommend(c)!State(l) = "active"
    PROVE  marks[x][l] \in {"none", "active"}
<1>1. c.scopes = {x} /\ c.order = <<x>> /\ DOMAIN c.order = {1} /\ c.order[1] = x BY DEF OneScope
<1> DEFINE known == {i \in DOMAIN c.order : marks[c.order[i]][l] # "none"}
<1>2. CASE marks[x][l] = "none" BY <1>2
<1>3. CASE marks[x][l] # "none"
  <2>1. known = {1} BY <1>1, <1>3
  <2>2. (CHOOSE i \in known : \A j \in known : j <= i) = 1
    <3> HIDE DEF known
    <3>1. \A i \in known : i = 1 BY <2>1
    <3>2. 1 \in known /\ \A j \in known : j <= 1 BY <2>1
    <3> QED BY <3>1, <3>2
  <2>3. Recommend(c)!State(l) = marks[c.order[1]][l]
    <3>1. Recommend(c)!State(l) = IF known = {} THEN "active"
                      ELSE marks[c.order[CHOOSE i \in known : \A j \in known : j <= i]][l]
      BY DEF Recommend!State
    <3> HIDE DEF known
    <3> QED BY <2>1, <2>2, <3>1
  <2> QED BY <1>1, <2>3
<1> QED BY <1>2, <1>3

LEMMA OfferedNext ==
    ASSUME NEW c, Recommend(c)!DecisionConstantsOK, DecisionTypes(c), OneScope(c),
           Marked(c), OfferStands(c), Recommend(c)!Next
    PROVE  Marked(c)' /\ OfferStands(c)'
<1>1. ASSUME stage' = "none" PROVE OfferStands(c)' BY <1>1 DEF OfferStands
<1>2. ASSUME UNCHANGED <<rows, marks, latest>> PROVE Marked(c)' BY <1>2 DEF Marked, NewestRow
<1>3. ASSUME NEW x \in c.scopes, Recommend(c)!Poll(x) PROVE Marked(c)' /\ OfferStands(c)'
  BY <1>1, <1>3, MarkedPoll, PolledStep
<1>4. CASE Recommend(c)!NewRate \/ Recommend(c)!Wait BY <1>1, <1>2, <1>4, QuietDecision
<1>5. CASE Recommend(c)!Decide
  <2>1. /\ stage' = "decided" /\ report'.current = Recommend(c)!Current
        /\ report'.class = "Buy" => Recommend(c)!Current # 0 /\ ~Recommend(c)!Expired(Recommend(c)!Current)
        /\ UNCHANGED <<decisionNow, rows, marks, latest>>
    BY <1>5, DecideStep
  <2>2. ASSUME Recommend(c)!Current # 0
        PROVE  latest[rows[Recommend(c)!Current].listing] = rows[Recommend(c)!Current].price
    <3>1. Recommend(c)!Current \in Recommend(c)!ActiveLatest /\ Recommend(c)!Current \in DOMAIN rows
      BY <2>2, CurrentRow
    <3>2. NewestRow(Recommend(c)!Current) /\ Recommend(c)!State(rows[Recommend(c)!Current].listing) = "active"
      BY <3>1 DEF Recommend!ActiveLatest, Recommend!LatestRows, NewestRow
    <3>3. PICK x \in c.scopes : c.scopes = {x} BY DEF OneScope
    <3>4. marks[x][rows[Recommend(c)!Current].listing] \in {"none", "active"}
      BY <3>2, ActiveIsMarked
    <3>5. rows[Recommend(c)!Current].listing \in c.listings BY <3>1, RowOfPoll
    <3> QED BY <3>1, <3>2, <3>4, <3>5 DEF Marked
  <2>3. ASSUME Recommend(c)!Current # 0, ~Recommend(c)!Expired(Recommend(c)!Current)
        PROVE  12 * (decisionNow - rows[Recommend(c)!Current].at) < c.ttl[rows[Recommend(c)!Current].listing]
    <3>1. Recommend(c)!Current \in DOMAIN rows BY <2>3, CurrentRow
    <3>2. ~(Recommend(c)!HoursLeft(Recommend(c)!Current) <= 0) BY <2>3 DEF Recommend!Expired
    <3>3. rows[Recommend(c)!Current].at \in Int /\ rows[Recommend(c)!Current].listing \in c.listings
      BY <3>1, RowOfPoll
    <3>4. c.ttl[rows[Recommend(c)!Current].listing] \in Int /\ decisionNow \in Int
      <4>1. decisionNow \in 0 .. c.maxPolls + 1 /\ c.ttl \in [c.listings -> Nat]
        BY DecisionConstants DEF DecisionTypes
      <4> QED BY <3>3, <4>1
    <3>5. Recommend(c)!HoursLeft(Recommend(c)!Current) = c.ttl[rows[Recommend(c)!Current].listing] - 12 * (decisionNow - rows[Recommend(c)!Current].at)
      BY DEF Recommend!HoursLeft
    <3> QED BY <3>2, <3>3, <3>4, <3>5
  <2>4. OfferStands(c)' BY <2>1, <2>2, <2>3 DEF OfferStands
  <2> QED BY <1>2, <2>1, <2>4
<1>6. CASE Recommend(c)!ApplyTco
  <2>1. /\ stage = "decided" /\ stage' = "costed" /\ report'.current = report.current
        /\ UNCHANGED <<rows, marks, latest>>
    BY <1>6, TcoStep
  <2>2. OfferStands(c)' BY <2>1 DEF OfferStands
  <2> QED BY <1>2, <2>1, <2>2
<1> QED BY <1>3, <1>4, <1>5, <1>6 DEF Recommend!Next

-----------------------------------------------------------------------------
(* The decision: theorems for every configuration c *)

DecisionInv(c) ==
    /\ DecisionTypes(c) /\ BoughtOffers(c) /\ Records(c)
    /\ OneScope(c) => Marked(c) /\ OfferStands(c)

LEMMA DecisionStarts == ASSUME NEW c, Recommend(c)!DecisionConstantsOK, Recommend(c)!Init PROVE DecisionInv(c)
BY DecisionTypesInit, BoughtInit, MarkedInit DEF DecisionInv

LEMMA DecisionStep ==
    ASSUME NEW c, Recommend(c)!DecisionConstantsOK, DecisionInv(c), [Recommend(c)!Next]_decisionVars
    PROVE  DecisionInv(c)'
<1>1. CASE UNCHANGED decisionVars
  <2>1. DecisionTypes(c)' BY <1>1, DecisionSame DEF DecisionInv
  <2>2. BoughtOffers(c)' /\ Records(c)'
    BY <1>1 DEF DecisionInv, decisionVars, BoughtOffers, Records, RecordHolds
  <2>3. OneScope(c) => Marked(c)' /\ OfferStands(c)'
    BY <1>1 DEF DecisionInv, decisionVars, Marked, NewestRow, OfferStands
  <2> QED BY <2>1, <2>2, <2>3 DEF DecisionInv, OneScope
<1>2. CASE Recommend(c)!Next
  <2>1. DecisionTypes(c) /\ BoughtOffers(c) /\ Records(c) BY DEF DecisionInv
  <2>2. DecisionTypes(c)' /\ BoughtOffers(c)' /\ Records(c)'
    BY <1>2, <2>1, DecisionTypesNext, BoughtNext
  <2>3. ASSUME OneScope(c) PROVE Marked(c)' /\ OfferStands(c)'
    <3>1. Marked(c) /\ OfferStands(c) BY <2>3 DEF DecisionInv
    <3> QED BY <1>2, <2>1, <2>3, <3>1, OfferedNext
  <2> QED BY <2>2, <2>3 DEF DecisionInv, OneScope
<1> QED BY <1>1, <1>2

LEMMA DecisionKept ==
    ASSUME NEW c, Recommend(c)!DecisionConstantsOK, DecisionInv(c)
    PROVE  /\ Recommend(c)!TypeOK /\ Recommend(c)!BuyIsPriced /\ Recommend(c)!RecordIsSellers
           /\ OneScope(c) => Recommend(c)!BuyIsLive /\ Recommend(c)!CurrentIsOffered
<1>1. DecisionTypes(c) /\ BoughtOffers(c) /\ Records(c) BY DEF DecisionInv
<1>2. Recommend(c)!TypeOK /\ Recommend(c)!BuyIsPriced /\ Recommend(c)!RecordIsSellers
  BY <1>1, DecisionTyped, DecisionReports
<1>3. OneScope(c) => Recommend(c)!BuyIsLive /\ Recommend(c)!CurrentIsOffered
  BY OfferIsLive DEF DecisionInv
<1> QED BY <1>2, <1>3

LEMMA DecisionAlways == ASSUME NEW CONSTANT c, Recommend(c)!DecisionConstantsOK PROVE Recommend(c)!Spec => []DecisionInv(c)
<1>1. Recommend(c)!Init => DecisionInv(c) BY DecisionStarts
<1>2. UNCHANGED Recommend(c)!vars => UNCHANGED decisionVars BY DEF Recommend!vars, decisionVars
<1>3. [Recommend(c)!Next]_(Recommend(c)!vars) => [Recommend(c)!Next]_decisionVars BY <1>2
<1>4. DecisionInv(c) /\ [Recommend(c)!Next]_(Recommend(c)!vars) => DecisionInv(c)'
  BY <1>3, DecisionStep
<1> QED BY <1>1, <1>4, PTL DEF Recommend!Spec

\* A Buy has a price and is no research platform, whatever the node costs (apply_tco_to_summary),
\* and the rate of exchange makes no record of a price (price_statistics).
THEOREM BuysArePriced ==
    ASSUME NEW CONSTANT c, Recommend(c)!DecisionConstantsOK
    PROVE  Recommend(c)!Spec => [](Recommend(c)!BuyIsPriced /\ Recommend(c)!RecordIsSellers)
<1>1. DecisionInv(c) => Recommend(c)!BuyIsPriced /\ Recommend(c)!RecordIsSellers BY DecisionKept
<1> QED BY <1>1, DecisionAlways, PTL

\* With one scope, the offer of a report is at the price its source has, and a Buy is fresh
\* (build_decision_support).
THEOREM OffersAreLive ==
    ASSUME NEW CONSTANT c, Recommend(c)!DecisionConstantsOK, OneScope(c)
    PROVE  Recommend(c)!Spec => [](Recommend(c)!BuyIsLive /\ Recommend(c)!CurrentIsOffered)
<1>1. DecisionInv(c) => Recommend(c)!BuyIsLive /\ Recommend(c)!CurrentIsOffered BY DecisionKept
<1> QED BY <1>1, DecisionAlways, PTL

-----------------------------------------------------------------------------
(* The parts *)

LEMMA Configurations ==
    /\ Refresh(Stopping)!MarketConstantsOK /\ Refresh(Queried)!MarketConstantsOK
    /\ Refresh(Priced)!MarketConstantsOK /\ Refresh(Rated)!MarketConstantsOK
    /\ Recommend(Decided)!DecisionConstantsOK /\ Recommend(Researched)!DecisionConstantsOK
    /\ Stopping.queries = 1 /\ Priced.mayStop = FALSE /\ Rated.mayStop = FALSE
    /\ NoForgetting(Priced) /\ NoForgetting(Rated) /\ Steady(Priced) /\ OneScope(Decided)
<1>1. /\ Stopping.queries = 1
      /\ Priced.mayStop = FALSE /\ Priced.listings = One /\ Priced.maxRuns = 4
      /\ Priced.maxFingerprints = 20 /\ Priced.rates = {1}
  BY DEF Stopping, Priced
<1>2. /\ Rated.mayStop = FALSE /\ Rated.listings = One /\ Rated.maxRuns = 4
      /\ Rated.maxFingerprints = 20
  BY DEF Rated, Priced
<1>3. OneScope(Decided)
  <2>1. Decided.scopes = {daily} /\ Decided.order = <<daily>> BY DEF Decided
  <2> QED BY <2>1 DEF OneScope
<1>4. Cardinality(One) = 1 BY FS_Singleton DEF One
<1>5. \A n \in 0 .. 4 : 5 * 1 * n <= 20 OBVIOUS
<1>6. NoForgetting(Priced) /\ NoForgetting(Rated)
  BY <1>1, <1>2, <1>4, <1>5 DEF NoForgetting, PerGeneration
<1>7. Steady(Priced) BY <1>1 DEF Steady
<1> QED BY <1>1, <1>2, <1>3, <1>6, <1>7, PartsOK

PartsInv ==
    /\ CacheInv
    /\ part = "stopping" => RefreshInv(Stopping)
    /\ part = "queried" => RefreshInv(Queried)
    /\ part = "priced" => RefreshInv(Priced)
    /\ part = "rated" => RefreshInv(Rated)
    /\ part = "decided" => DecisionInv(Decided)
    /\ part = "researched" => DecisionInv(Researched)

LEMMA PartsInit == PartInit => PartsInv
<1> SUFFICES ASSUME PartInit PROVE PartsInv OBVIOUS
<1>1. CacheInv BY CacheInit DEF PartInit
<1>2. ASSUME part = "stopping" PROVE RefreshInv(Stopping)
  BY <1>2, RefreshStarts, Configurations DEF PartInit
<1>3. ASSUME part = "queried" PROVE RefreshInv(Queried)
  BY <1>3, RefreshStarts, Configurations DEF PartInit
<1>4. ASSUME part = "priced" PROVE RefreshInv(Priced)
  BY <1>4, RefreshStarts, Configurations DEF PartInit
<1>5. ASSUME part = "rated" PROVE RefreshInv(Rated)
  BY <1>5, RefreshStarts, Configurations DEF PartInit
<1>6. ASSUME part = "decided" PROVE DecisionInv(Decided)
  BY <1>6, DecisionStarts, Configurations DEF PartInit
<1>7. ASSUME part = "researched" PROVE DecisionInv(Researched)
  BY <1>7, DecisionStarts, Configurations DEF PartInit
<1> QED BY <1>1, <1>2, <1>3, <1>4, <1>5, <1>6, <1>7 DEF PartsInv

\* A step is one of the part.
LEMMA PartSteps ==
    ASSUME [PartNext]_all
    PROVE  /\ part' = part /\ [Next]_vars
           /\ part = "stopping" => [Refresh(Stopping)!Next]_marketVars
           /\ part = "queried" => [Refresh(Queried)!Next]_marketVars
           /\ part = "priced" => [Refresh(Priced)!Next]_marketVars
           /\ part = "rated" => [Refresh(Rated)!Next]_marketVars
           /\ part = "decided" => [Recommend(Decided)!Next]_decisionVars
           /\ part = "researched" => [Recommend(Researched)!Next]_decisionVars
<1>1. CASE UNCHANGED all
  <2>1. part' = part /\ vars' = vars /\ marketVars' = marketVars /\ decisionVars' = decisionVars
    BY <1>1 DEF all
  <2> QED BY <2>1
<1>2. CASE PartNext BY <1>2 DEF PartNext, OnlyMarket, OnlyDecision, OnlyCache
<1> QED BY <1>1, <1>2

LEMMA PartsStep == PartsInv /\ [PartNext]_all => PartsInv'
<1> SUFFICES ASSUME PartsInv, [PartNext]_all PROVE PartsInv' OBVIOUS
<1>1. /\ part' = part /\ [Next]_vars
      /\ part = "stopping" => [Refresh(Stopping)!Next]_marketVars
      /\ part = "queried" => [Refresh(Queried)!Next]_marketVars
      /\ part = "priced" => [Refresh(Priced)!Next]_marketVars
      /\ part = "rated" => [Refresh(Rated)!Next]_marketVars
      /\ part = "decided" => [Recommend(Decided)!Next]_decisionVars
      /\ part = "researched" => [Recommend(Researched)!Next]_decisionVars
  BY PartSteps
<1>2. CacheInv' BY <1>1, CacheStep DEF PartsInv
<1>3. ASSUME part = "stopping" PROVE RefreshInv(Stopping)'
  BY <1>1, <1>3, RefreshStep, Configurations DEF PartsInv
<1>4. ASSUME part = "queried" PROVE RefreshInv(Queried)'
  BY <1>1, <1>4, RefreshStep, Configurations DEF PartsInv
<1>5. ASSUME part = "priced" PROVE RefreshInv(Priced)'
  BY <1>1, <1>5, RefreshStep, Configurations DEF PartsInv
<1>6. ASSUME part = "rated" PROVE RefreshInv(Rated)'
  BY <1>1, <1>6, RefreshStep, Configurations DEF PartsInv
<1>7. ASSUME part = "decided" PROVE DecisionInv(Decided)'
  BY <1>1, <1>7, DecisionStep, Configurations DEF PartsInv
<1>8. ASSUME part = "researched" PROVE DecisionInv(Researched)'
  BY <1>1, <1>8, DecisionStep, Configurations DEF PartsInv
<1> QED BY <1>1, <1>2, <1>3, <1>4, <1>5, <1>6, <1>7, <1>8 DEF PartsInv

LEMMA PartsAlways == PartSpec => []PartsInv
BY PartsInit, PartsStep, PTL DEF PartSpec

\* Caches and scores stay within their bounds, and a source is asked no more often in a day
\* than its budget says, each request counted with all its attempts.
THEOREM BoundsHold == PartSpec => []MarketBounded
<1>1. ASSUME PartsInv PROVE MarketBounded
  <2>1. TypeOK /\ CacheBounded BY <1>1, CacheTyped DEF PartsInv
  <2>2. /\ part = "stopping" => Refresh(Stopping)!TypeOK /\ Refresh(Stopping)!RequestsWithinBudget
        /\ part = "queried" => Refresh(Queried)!TypeOK /\ Refresh(Queried)!RequestsWithinBudget
        /\ part = "priced" => Refresh(Priced)!TypeOK
        /\ part = "rated" => Refresh(Rated)!TypeOK
        /\ part = "decided" => Recommend(Decided)!TypeOK
        /\ part = "researched" => Recommend(Researched)!TypeOK
    BY <1>1, RefreshKept, DecisionKept, Configurations DEF PartsInv
  <2>3. PartsTyped BY <2>2 DEF PartsTyped
  <2>4. RequestsWithinBudget BY <2>2 DEF RequestsWithinBudget
  <2> QED BY <2>1, <2>3, <2>4 DEF MarketBounded
<1> QED BY <1>1, PartsAlways, PTL

\* What happens to a listing is recorded when it does and reported once.
THEOREM ListingsAreReported == PartSpec => []ListingsReported
<1>1. ASSUME PartsInv PROVE ListingsReported
  <2>1. /\ part = "stopping" => Refresh(Stopping)!NoFalseDisappearance /\ Refresh(Stopping)!LifecycleReported
        /\ part = "priced" => /\ Refresh(Priced)!EmittedOnce /\ Refresh(Priced)!DropsReported
                              /\ Refresh(Priced)!DealPerCrossing
        /\ part = "rated" => Refresh(Rated)!DropsOnce
    BY <1>1, RefreshKept, Configurations DEF PartsInv
  <2> QED BY <2>1 DEF ListingsReported, NoFalseDisappearance, LifecycleReported, EmittedOnce,
                      DropsOnce, DropsReported, DealPerCrossing
<1> QED BY <1>1, PartsAlways, PTL

\* A recommendation stands on what is on offer.
THEOREM DecisionsAreGrounded == PartSpec => []DecidedOnOffers
<1>1. ASSUME PartsInv PROVE DecidedOnOffers
  <2>1. /\ part = "decided" => /\ Recommend(Decided)!BuyIsLive /\ Recommend(Decided)!BuyIsPriced
                               /\ Recommend(Decided)!RecordIsSellers /\ Recommend(Decided)!CurrentIsOffered
        /\ part = "researched" => Recommend(Researched)!BuyIsPriced
    BY <1>1, DecisionKept, Configurations DEF PartsInv
  <2> QED BY <2>1 DEF DecidedOnOffers, BuyIsLive, BuyIsPriced, RecordIsSellers, CurrentIsOffered
<1> QED BY <1>1, PartsAlways, PTL

\* No part passes on listings of an earlier version, when every poll has a page of its own.
THEOREM PartsAreCurrent == ASSUME OwnPage PROVE PartSpec => []NeverStale
<1>1. PartsInv => NeverStale BY DEF PartsInv, CacheInv, Passed, NeverStale
<1> QED BY <1>1, PartsAlways, PTL
=============================================================================
