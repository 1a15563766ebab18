------------------------ MODULE SourceReadingProofs ------------------------
(***************************************************************************)
(* Proofs about how sources are read: the requests of a client, and the    *)
(* pipeline, the pool of a source, the crawl and the feed, each for every  *)
(* configuration, and then for the parts of SourceReadingMC.               *)
(***************************************************************************)
EXTENDS SourceReadingMC, FiniteSetTheorems, TLAPS

-----------------------------------------------------------------------------
(* Queues *)

LEMMA Appended ==
    ASSUME NEW S, NEW q \in Seq(S), NEW x \in S
    PROVE  /\ Append(q, x) \in Seq(S) /\ Len(Append(q, x)) = Len(q) + 1 /\ Len(q) \in Nat
           /\ DOMAIN q = 1 .. Len(q) /\ DOMAIN Append(q, x) = 1 .. Len(q) + 1
           /\ \A i \in 1 .. Len(q) : Append(q, x)[i] = q[i] /\ q[i] \in S
           /\ Append(q, x)[Len(q) + 1] = x
OBVIOUS

LEMMA Tailed ==
    ASSUME NEW S, NEW q \in Seq(S), q # <<>>
    PROVE  /\ Tail(q) \in Seq(S) /\ Len(Tail(q)) = Len(q) - 1 /\ Len(q) \in Nat \ {0}
           /\ DOMAIN q = 1 .. Len(q) /\ DOMAIN Tail(q) = 1 .. Len(q) - 1
           /\ Head(q) = q[1] /\ q[1] \in S
           /\ \A i \in 1 .. Len(q) - 1 : Tail(q)[i] = q[i + 1] /\ q[i + 1] \in S
OBVIOUS

LEMMA Joined ==
    ASSUME NEW S, NEW q \in Seq(S), NEW m \in Nat, NEW T \in SUBSET S, NEW r \in [1 .. m -> T]
    PROVE  /\ q \o r \in Seq(S) /\ Len(q \o r) = Len(q) + m /\ DOMAIN (q \o r) = 1 .. Len(q) + m
           /\ \A i \in 1 .. Len(q) : (q \o r)[i] = q[i]
           /\ \A i \in 1 .. m : (q \o r)[Len(q) + i] = r[i]
<1>1. r \in Seq(S) /\ Len(r) = m OBVIOUS
<1> QED BY <1>1

-----------------------------------------------------------------------------
(* How many entries of a queue are of a kind *)

\* A set of numbers, all of them one lower.
LEMMA Shifted ==
    ASSUME NEW X \in SUBSET Nat, NEW Y, IsFiniteSet(Y),
           \A i \in X : i + 1 \in Y, \A j \in Y : j - 1 \in X /\ j \in Nat
    PROVE  IsFiniteSet(X) /\ Cardinality(X) = Cardinality(Y)
<1> DEFINE f == [j \in Y |-> j - 1]
<1>1. f \in [Y -> X] OBVIOUS
<1>2. \A i, j \in Y : f[i] = f[j] => i = j OBVIOUS
<1>3. \A i \in X : \E j \in Y : f[j] = i
  <2> TAKE i \in X
  <2>1. i + 1 \in Y /\ f[i + 1] = i OBVIOUS
  <2> QED BY <2>1
<1> HIDE DEF f
<1>4. f \in Injection(Y, X) BY <1>1, <1>2 DEF Injection, IsInjective
<1>5. f \in Surjection(Y, X) BY <1>1, <1>3 DEF Surjection
<1>6. ExistsBijection(Y, X) BY <1>4, <1>5 DEF ExistsBijection, Bijection
<1> QED BY <1>6, FS_Bijection

LEMMA CountOf ==
    ASSUME NEW S, NEW q \in Seq(S), NEW K
    PROVE  /\ IsFiniteSet({i \in 1 .. Len(q) : q[i] \in K})
           /\ Cardinality({i \in 1 .. Len(q) : q[i] \in K}) \in Nat
           /\ Cardinality({i \in 1 .. Len(q) : q[i] \in K}) = 0
                 <=> \A i \in 1 .. Len(q) : q[i] \notin K
<1> DEFINE X == {i \in 1 .. Len(q) : q[i] \in K}
<1>1. X \subseteq 1 .. Len(q) /\ Len(q) \in Int OBVIOUS
<1>2. X = {} <=> \A i \in 1 .. Len(q) : q[i] \notin K OBVIOUS
<1> HIDE DEF X
<1>3. IsFiniteSet(X)
  <2>1. IsFiniteSet(1 .. Len(q)) BY <1>1, FS_Interval
  <2> QED BY <1>1, <2>1, FS_Subset
<1>4. Cardinality(X) \in Nat /\ (Cardinality(X) = 0 <=> X = {})
  BY <1>3, FS_CardinalityType, FS_EmptySet
<1> QED BY <1>2, <1>3, <1>4 DEF X

LEMMA CountAppended ==
    ASSUME NEW S, NEW q \in Seq(S), NEW x \in S, NEW t, t = Append(q, x), NEW K
    PROVE  /\ x \in K => Cardinality({i \in 1 .. Len(t) : t[i] \in K})
                           = Cardinality({i \in 1 .. Len(q) : q[i] \in K}) + 1
           /\ x \notin K => Cardinality({i \in 1 .. Len(t) : t[i] \in K})
                              = Cardinality({i \in 1 .. Len(q) : q[i] \in K})
<1> DEFINE X == {i \in 1 .. Len(q) : q[i] \in K}
           Y == {i \in 1 .. Len(t) : t[i] \in K}
           n == Len(q)
<1>1. IsFiniteSet(X) BY CountOf
<1>2. /\ n \in Nat /\ Len(t) = n + 1 /\ t[n + 1] = x
      /\ \A i \in 1 .. n : t[i] = q[i]
  BY Appended
<1>3. 1 .. n + 1 = 1 .. n \cup {n + 1} /\ n + 1 \notin 1 .. n BY <1>2
<1>4. n + 1 \notin X BY <1>3
<1>5. x \in K => Y = X \cup {n + 1} BY <1>2, <1>3
<1>6. x \notin K => Y = X BY <1>2, <1>3
<1> HIDE DEF X, Y, n
<1>7. Cardinality(X \cup {n + 1}) = Cardinality(X) + 1 BY <1>1, <1>4, FS_AddElement
<1>8. /\ x \in K => Cardinality(Y) = Cardinality(X) + 1
      /\ x \notin K => Cardinality(Y) = Cardinality(X)
  BY <1>5, <1>6, <1>7
<1> QED BY <1>8 DEF X, Y

LEMMA CountTailed ==
    ASSUME NEW S, NEW q \in Seq(S), q # <<>>, NEW t, t = Tail(q), NEW K
    PROVE  /\ q[1] \in K => Cardinality({i \in 1 .. Len(q) : q[i] \in K})
                              = Cardinality({i \in 1 .. Len(t) : t[i] \in K}) + 1
           /\ q[1] \notin K => Cardinality({i \in 1 .. Len(q) : q[i] \in K})
                                 = Cardinality({i \in 1 .. Len(t) : t[i] \in K})
<1> DEFINE X == {i \in 1 .. Len(q) : q[i] \in K}
           Y == {i \in 1 .. Len(t) : t[i] \in K}
           Z == X \ {1}
           n == Len(q)
<1>1. IsFiniteSet(X) /\ Cardinality(X) \in Nat BY CountOf
<1>2. /\ n \in Nat \ {0} /\ Len(t) = n - 1
      /\ \A i \in 1 .. n - 1 : t[i] = q[i + 1]
  BY Tailed
<1>3. ASSUME NEW i \in Y PROVE i + 1 \in Z
  <2>1. i \in 1 .. n - 1 /\ i + 1 \in 1 .. n /\ i + 1 # 1 BY <1>2
  <2> QED BY <1>2, <2>1
<1>4. ASSUME NEW j \in Z PROVE j - 1 \in Y /\ j \in Nat
  <2>1. j - 1 \in 1 .. n - 1 /\ j - 1 + 1 = j /\ j \in Nat BY <1>2
  <2> QED BY <1>2, <2>1
<1>5. Y \in SUBSET Nat BY <1>2
<1>6. (q[1] \in K => 1 \in X) /\ (q[1] \notin K => X = Z) BY <1>2
<1>7. IsFiniteSet(Z) BY <1>1, FS_RemoveElement
<1> HIDE DEF X, Y, n
<1>8. IsFiniteSet(Y) /\ Cardinality(Y) = Cardinality(Z)
  <2> HIDE DEF Z
  <2> QED BY <1>3, <1>4, <1>5, <1>7, Shifted
<1>9. 1 \in X => Cardinality(Z) = Cardinality(X) - 1 BY <1>1, FS_RemoveElement
<1>10. Cardinality(Y) \in Nat BY <1>8, FS_CardinalityType
<1> HIDE DEF Z
<1>11. /\ q[1] \in K => Cardinality(X) = Cardinality(Y) + 1
       /\ q[1] \notin K => Cardinality(X) = Cardinality(Y)
  BY <1>1, <1>6, <1>8, <1>9, <1>10
<1> QED BY <1>11 DEF X, Y
-----------------------------------------------------------------------------
(* The feed: it is yielded and kept whole *)

LEMMA FeedNumbers ==
    ASSUME NEW c, Feed(c)!FeedConstantsOK
    PROVE  c.items \in Nat /\ c.room \in Nat \ {0} /\ c.limit \in Nat \ {0} /\ c.targets \subseteq Nat \ {0}
BY DEF Feed!FeedConstantsOK

LEMMA FeedInit ==
    ASSUME NEW c, Feed(c)!FeedConstantsOK, Feed(c)!Init PROVE Feed(c)!FeedInv
<1>1. /\ thread = "parsing" /\ item = [kind |-> "end", size |-> 0] /\ parsed = 0 /\ batch = 0
      /\ kept = [size |-> 0, cacheable |-> TRUE]
      /\ feedQueue = <<>> /\ feedConsumer = "waiting" /\ feedOutcome = "none"
      /\ feedReceived = 0 /\ stored = 0
  BY DEF Feed!Init, Feed!EndMark
<1>2. Len(feedQueue) = 0 /\ DOMAIN feedQueue = {} /\ feedQueue \in Seq(Feed(c)!Items) BY <1>1
<1>3. Feed(c)!TypeOK /\ Feed(c)!FeedIsWhole
  BY <1>1, <1>2, FeedNumbers DEF Feed!TypeOK, Feed!FeedIsWhole, Feed!Items
<1>4. Feed(c)!Counted
  <2> DEFINE sums == [i \in 0 .. Len(feedQueue) |-> 0]
  <2>1. sums \in [0 .. Len(feedQueue) -> 0 .. c.items] BY FeedNumbers
  <2>2. Feed(c)!Counts(sums) BY <1>1, <1>2 DEF Feed!Counts
  <2> QED BY <2>1, <2>2 DEF Feed!Counted
<1>5. Feed(c)!MarkedLast /\ Feed(c)!KeptWhole
  BY <1>1, <1>2 DEF Feed!MarkedLast, Feed!KeptWhole
<1> QED BY <1>1, <1>3, <1>4, <1>5 DEF Feed!FeedInv

LEMMA FeedTyped ==
    ASSUME NEW c, Feed(c)!FeedInv, Feed(c)!FeedConstantsOK
    PROVE  /\ thread \in {"parsing", "putting", "ended"} /\ item \in Feed(c)!Items
           /\ item.kind \in {"batch", "error", "end"} /\ item.size \in 0 .. c.items
           /\ parsed \in 0 .. c.items /\ batch \in 0 .. parsed
           /\ kept \in [size : 0 .. c.limit, cacheable : BOOLEAN]
           /\ feedQueue \in Seq(Feed(c)!Items) /\ Len(feedQueue) \in 0 .. c.room
           /\ \A i \in 1 .. Len(feedQueue) : feedQueue[i].kind \in {"batch", "error", "end"}
           /\ \A i \in 1 .. Len(feedQueue) : feedQueue[i].size \in 0 .. c.items
           /\ feedConsumer \in {"waiting", "yield", "ended"}
           /\ feedOutcome \in {"none", "ok", "error", "left"}
           /\ feedReceived \in 0 .. parsed /\ stored \in 0 .. c.items
<1>1. Feed(c)!TypeOK BY DEF Feed!FeedInv
<1>2. feedQueue \in Seq(Feed(c)!Items) BY <1>1 DEF Feed!TypeOK
<1>3. \A i \in 1 .. Len(feedQueue) : feedQueue[i] \in Feed(c)!Items BY <1>2
<1>4. Len(feedQueue) \in 0 .. c.room BY <1>1, <1>2, FeedNumbers DEF Feed!TypeOK
<1> QED BY <1>1, <1>2, <1>3, <1>4 DEF Feed!TypeOK, Feed!Items

LEMMA FeedItem ==
    ASSUME NEW c, NEW n \in 0 .. c.items, NEW k \in {"batch", "error", "end"}
    PROVE  /\ [kind |-> k, size |-> n] \in Feed(c)!Items
           /\ [kind |-> k, size |-> n].kind = k /\ [kind |-> k, size |-> n].size = n
BY DEF Feed!Items

\* The thread's own steps leave the queue alone.
LEMMA ThreadKeeps ==
    ASSUME NEW c, Feed(c)!FeedConstantsOK, Feed(c)!FeedInv,
           Feed(c)!Parse \/ Feed(c)!Finish \/ Feed(c)!ParseFails
    PROVE  Feed(c)!FeedInv'
<1>1. /\ thread = "parsing"
      /\ UNCHANGED <<feedQueue, feedConsumer, feedOutcome, feedReceived, stored>>
  BY DEF Feed!Parse, Feed!Finish, Feed!ParseFails
<1>2. /\ thread' \in {"parsing", "putting"} /\ item' \in Feed(c)!Items
      /\ parsed' \in 0 .. c.items /\ batch' \in 0 .. parsed'
      /\ parsed <= parsed'
      /\ parsed' = parsed + batch' - batch + IF thread' = "putting" THEN item'.size ELSE 0
      /\ item'.kind # "batch" => item'.size = 0
  <2>1. CASE Feed(c)!Parse
    <3>1. PICK target \in c.targets :
            IF batch + 1 >= target
            THEN thread' = "putting" /\ item' = [kind |-> "batch", size |-> batch + 1] /\ batch' = 0
            ELSE batch' = batch + 1 /\ thread' = thread /\ item' = item
      BY <2>1 DEF Feed!Parse, Feed!Putting, Feed!Batch
    <3>2. parsed < c.items /\ parsed' = parsed + 1 BY <2>1 DEF Feed!Parse
    <3>3. batch + 1 \in 0 .. c.items BY <3>2, FeedTyped, FeedNumbers
    <3>4. CASE batch + 1 >= target
      <4>1. item' = [kind |-> "batch", size |-> batch + 1] /\ thread' = "putting" /\ batch' = 0
        BY <3>1, <3>4
      <4>2. /\ [kind |-> "batch", size |-> batch + 1] \in Feed(c)!Items
            /\ [kind |-> "batch", size |-> batch + 1].kind = "batch"
            /\ [kind |-> "batch", size |-> batch + 1].size = batch + 1
        BY <3>3, FeedItem
      <4>3. item' \in Feed(c)!Items /\ item'.kind = "batch" /\ item'.size = batch + 1
        BY <4>1, <4>2
      <4> QED BY <3>2, <3>3, <4>1, <4>3, FeedTyped, FeedNumbers
    <3>5. CASE ~(batch + 1 >= target)
      <4>1. item.kind # "batch" => item.size = 0 BY DEF Feed!FeedInv, Feed!MarkedLast
      <4> QED BY <1>1, <3>1, <3>2, <3>3, <3>5, <4>1, FeedTyped, FeedNumbers
    <3> QED BY <3>4, <3>5
  <2>2. CASE Feed(c)!Finish
    <3>1. /\ parsed' = parsed /\ batch' = 0 /\ thread' = "putting"
          /\ item' = IF batch > 0 THEN [kind |-> "batch", size |-> batch]
                                  ELSE [kind |-> "end", size |-> 0]
      BY <2>2 DEF Feed!Finish, Feed!Putting, Feed!Batch, Feed!EndMark
    <3>2. batch \in 0 .. c.items BY FeedTyped, FeedNumbers
    <3>3. /\ item' \in Feed(c)!Items /\ item'.size = batch
          /\ item'.kind # "batch" => item'.size = 0
      <4>1. 0 \in 0 .. c.items BY FeedNumbers
      <4>2. CASE batch > 0 BY <3>1, <3>2, <4>2, FeedItem
      <4>3. CASE batch = 0 BY <3>1, <4>1, <4>3, FeedItem
      <4> QED BY <3>2, <4>2, <4>3
    <3> QED BY <3>1, <3>2, <3>3, FeedTyped, FeedNumbers
  <2>3. CASE Feed(c)!ParseFails
    <3>1. /\ parsed' = parsed /\ batch' = batch /\ thread' = "putting"
          /\ item' = [kind |-> "error", size |-> 0]
      BY <2>3 DEF Feed!ParseFails, Feed!Putting, Feed!Error
    <3>2. 0 \in 0 .. c.items BY FeedNumbers
    <3>3. item' \in Feed(c)!Items /\ item'.size = 0 BY <3>1, <3>2, FeedItem
    <3> QED BY <3>1, <3>2, <3>3, FeedTyped, FeedNumbers
  <2> QED BY <2>1, <2>2, <2>3
<1>3. /\ kept' \in [size : 0 .. c.limit, cacheable : BOOLEAN]
      /\ kept'.size = IF kept'.cacheable THEN parsed' ELSE 0
  <2>1. kept.size = IF kept.cacheable THEN parsed ELSE 0 BY DEF Feed!FeedInv, Feed!KeptWhole
  <2>2. CASE Feed(c)!Parse
    <3>1. parsed' = parsed + 1 /\ kept' = Feed(c)!Kept(kept) BY <2>2 DEF Feed!Parse
    <3>2. CASE ~kept.cacheable BY <2>1, <3>1, <3>2, FeedTyped DEF Feed!Kept
    <3>3. CASE kept.cacheable /\ kept.size < c.limit
      <4>1. kept' = [kept EXCEPT !.size = @ + 1] BY <3>1, <3>3 DEF Feed!Kept
      <4>2. kept'.size = kept.size + 1 /\ kept'.cacheable = kept.cacheable
        BY <4>1, FeedTyped
      <4>3. kept'.size \in 0 .. c.limit BY <3>3, <4>2, FeedTyped, FeedNumbers
      <4>4. kept' \in [size : 0 .. c.limit, cacheable : BOOLEAN] BY <4>1, <4>2, <4>3, FeedTyped
      <4> QED BY <2>1, <3>1, <3>3, <4>2, <4>4
    <3>4. CASE kept.cacheable /\ ~(kept.size < c.limit)
      <4>1. kept' = [size |-> 0, cacheable |-> FALSE] BY <3>1, <3>4 DEF Feed!Kept
      <4> QED BY <4>1, FeedNumbers
    <3> QED BY <3>2, <3>3, <3>4
  <2>3. CASE ~Feed(c)!Parse
    BY <2>1, <2>3, FeedTyped DEF Feed!Finish, Feed!ParseFails
  <2> QED BY <2>2, <2>3
<1>4. Feed(c)!TypeOK'
  BY <1>1, <1>2, <1>3, FeedTyped, FeedNumbers DEF Feed!TypeOK, Feed!FeedInv
<1>5. Feed(c)!FeedIsWhole' BY <1>1 DEF Feed!FeedInv, Feed!FeedIsWhole
<1>6. Feed(c)!Counted'
  <2>1. PICK sums \in [0 .. Len(feedQueue) -> 0 .. c.items] : Feed(c)!Counts(sums)
    BY DEF Feed!FeedInv, Feed!Counted
  <2>2. sums[Len(feedQueue)] \in Nat BY <2>1, FeedTyped, FeedNumbers
  <2>3. parsed = sums[Len(feedQueue)] + batch
    BY <1>1, <2>1, <2>2, FeedTyped, FeedNumbers DEF Feed!Counts
  <2>4. parsed' = sums[Len(feedQueue)] + batch' + IF thread' = "putting" THEN item'.size ELSE 0
    <3>1. parsed \in Nat /\ batch \in Nat /\ batch' \in Nat BY <1>2, FeedTyped, FeedNumbers
    <3>2. (IF thread' = "putting" THEN item'.size ELSE 0) \in Nat
      BY <1>2, FeedNumbers DEF Feed!Items
    <3> QED BY <1>2, <2>2, <2>3, <3>1, <3>2
  <2>5. Feed(c)!Counts(sums)' BY <1>1, <2>1, <2>4 DEF Feed!Counts
  <2>6. sums \in [0 .. Len(feedQueue') -> 0 .. c.items] BY <1>1, <2>1
  <2> QED BY <2>5, <2>6 DEF Feed!Counted
<1>7. Feed(c)!MarkedLast'
  <2>1. \A i \in DOMAIN feedQueue : feedQueue[i].kind # "end"
    BY <1>1 DEF Feed!FeedInv, Feed!MarkedLast
  <2>2. thread' = "putting" /\ item'.kind = "end" => parsed' = c.items /\ batch' = 0
    BY <1>1 DEF Feed!Parse, Feed!Finish, Feed!ParseFails, Feed!Putting, Feed!Batch, Feed!Error,
              Feed!EndMark
  <2> QED BY <1>1, <1>2, <2>1, <2>2 DEF Feed!FeedInv, Feed!MarkedLast
<1>8. Feed(c)!KeptWhole' BY <1>3 DEF Feed!KeptWhole
<1> QED BY <1>1, <1>4, <1>5, <1>6, <1>7, <1>8 DEF Feed!FeedInv

LEMMA PutKeeps ==
    ASSUME NEW c, Feed(c)!FeedConstantsOK, Feed(c)!FeedInv, Feed(c)!Put
    PROVE  Feed(c)!FeedInv'
<1> DEFINE n == Len(feedQueue)
<1>1. /\ thread = "putting" /\ n < c.room /\ feedQueue' = Append(feedQueue, item)
      /\ UNCHANGED <<parsed, batch, kept, feedConsumer, feedOutcome, feedReceived, stored>>
  BY DEF Feed!Put
<1>2. /\ feedQueue' \in Seq(Feed(c)!Items) /\ Len(feedQueue') = n + 1 /\ n \in Nat
      /\ DOMAIN feedQueue = 1 .. n /\ DOMAIN feedQueue' = 1 .. n + 1
      /\ \A i \in 1 .. n : feedQueue'[i] = feedQueue[i]
      /\ feedQueue'[n + 1] = item
  BY <1>1, FeedTyped, Appended
<1> HIDE DEF n
<1>3. /\ item' \in Feed(c)!Items
      /\ item'.kind # "batch" => item'.size = 0
      /\ thread' \in {"parsing", "putting", "ended"} /\ (thread' = "ended" <=> item.kind = "end")
      /\ (IF thread' = "putting" THEN item'.size ELSE 0) = 0
      /\ thread' = "putting" => item.kind = "error"
  <2>1. item.kind # "batch" => item.size = 0 BY DEF Feed!FeedInv, Feed!MarkedLast
  <2>2. item.kind \in {"batch", "error", "end"} BY FeedTyped
  <2>3. CASE item.kind = "batch"
    BY <1>1, <2>1, <2>3, FeedTyped DEF Feed!Put, Feed!AfterPut
  <2>4. CASE item.kind = "error"
    <3>1. thread' = "putting" /\ item' = [kind |-> "end", size |-> 0]
      BY <1>1, <2>4 DEF Feed!Put, Feed!AfterPut, Feed!Putting, Feed!EndMark
    <3>2. 0 \in 0 .. c.items BY FeedNumbers
    <3> QED BY <2>4, <3>1, <3>2 DEF Feed!Items
  <2>5. CASE item.kind = "end"
    BY <1>1, <2>1, <2>5, FeedTyped DEF Feed!Put, Feed!AfterPut
  <2> QED BY <2>2, <2>3, <2>4, <2>5
<1>4. Feed(c)!TypeOK'
  <2>1. Len(feedQueue') <= c.room BY <1>1, <1>2, FeedNumbers
  <2>2. Feed(c)!TypeOK BY DEF Feed!FeedInv
  <2> QED BY <1>1, <1>2, <1>3, <2>1, <2>2 DEF Feed!TypeOK
<1>5. Feed(c)!FeedIsWhole' BY <1>1 DEF Feed!FeedInv, Feed!FeedIsWhole
<1>6. Feed(c)!Counted'
  <2>1. PICK sums \in [0 .. n -> 0 .. c.items] : Feed(c)!Counts(sums)
    BY DEF Feed!FeedInv, Feed!Counted, n
  <2>2. item.size \in 0 .. c.items /\ batch \in Nat /\ parsed \in 0 .. c.items BY FeedTyped, FeedNumbers
  <2>3. sums[n] \in 0 .. c.items /\ sums[n] \in Nat BY <1>2, <2>1, FeedNumbers
  <2>4. /\ sums[0] = feedReceived /\ parsed = sums[n] + batch + item.size
        /\ \A i \in 1 .. n : sums[i] = sums[i - 1] + feedQueue[i].size
        /\ \A i \in 1 .. n : sums[i - 1] <= sums[n]
    BY <1>1, <1>2, <2>1 DEF Feed!Counts, n
  <2> DEFINE last == sums[n] + item.size
             new == [i \in 0 .. n + 1 |-> IF i = n + 1 THEN last ELSE sums[i]]
  <2>5. last \in 0 .. c.items /\ parsed = last + batch /\ sums[n] <= last
    BY <2>2, <2>3, <2>4, FeedNumbers
  <2>6. new[n + 1] = last /\ new[n] = sums[n] BY <1>2
  <2>7. \A i \in 0 .. n : new[i] = sums[i] BY <1>2
  <2>8. new \in [0 .. n + 1 -> 0 .. c.items]
    <3> SUFFICES ASSUME NEW i \in 0 .. n + 1 PROVE new[i] \in 0 .. c.items OBVIOUS
    <3>1. CASE i = n + 1 BY <2>5, <2>6, <3>1
    <3>2. CASE i # n + 1
      <4>1. i \in 0 .. n BY <1>2, <3>2
      <4> QED BY <2>1, <2>7, <4>1
    <3> QED BY <3>1, <3>2
  <2>9. \A i \in 1 .. n + 1 : new[i] = new[i - 1] + feedQueue'[i].size
    <3> SUFFICES ASSUME NEW i \in 1 .. n + 1 PROVE new[i] = new[i - 1] + feedQueue'[i].size
      OBVIOUS
    <3>1. CASE i = n + 1
      <4>1. i - 1 = n BY <1>2, <3>1
      <4> QED BY <1>2, <2>6, <3>1, <4>1
    <3>2. CASE i # n + 1
      <4>1. i \in 1 .. n /\ i \in 0 .. n /\ i - 1 \in 0 .. n BY <1>2, <3>2
      <4> HIDE DEF new
      <4>2. feedQueue'[i] = feedQueue[i] /\ new[i] = sums[i] /\ new[i - 1] = sums[i - 1]
        BY <1>2, <2>7, <4>1
      <4> QED BY <2>4, <4>1, <4>2
    <3> QED BY <3>1, <3>2
  <2>10. \A i \in 1 .. n + 1 : new[i - 1] <= new[n + 1]
    <3> SUFFICES ASSUME NEW i \in 1 .. n + 1 PROVE new[i - 1] <= new[n + 1] OBVIOUS
    <3>1. i - 1 \in 0 .. n BY <1>2
    <3>2. new[i - 1] = sums[i - 1] BY <2>7, <3>1
    <3>3. sums[i - 1] <= sums[n] /\ sums[i - 1] \in 0 .. c.items
      <4>1. sums[i - 1] \in 0 .. c.items BY <2>1, <3>1
      <4>2. CASE i = n + 1
        <5>1. i - 1 = n BY <1>2, <4>2
        <5> QED BY <2>3, <4>1, <5>1
      <4>3. CASE i # n + 1
        <5>1. i \in 1 .. n BY <1>2, <4>3
        <5> QED BY <2>4, <4>1, <5>1
      <4> QED BY <4>2, <4>3
    <3> HIDE DEF new
    <3> QED BY <2>3, <2>5, <2>6, <3>2, <3>3, FeedNumbers
  <2>11. new[0] = feedReceived' BY <1>1, <1>2, <2>4, <2>7
  <2>12. parsed' = new[n + 1] + batch' + IF thread' = "putting" THEN item'.size ELSE 0
    BY <1>1, <1>3, <2>2, <2>5, <2>6, FeedNumbers
  <2> HIDE DEF new, last
  <2>13. PICK f : f = new OBVIOUS
  <2>14. Feed(c)!Counts(f)' BY <1>2, <2>9, <2>10, <2>11, <2>12, <2>13 DEF Feed!Counts
  <2>15. f \in [0 .. Len(feedQueue') -> 0 .. c.items] BY <1>2, <2>8, <2>13
  <2> QED BY <2>14, <2>15 DEF Feed!Counted
<1>7. Feed(c)!MarkedLast'
  <2>1. /\ \A i \in 1 .. n : feedQueue[i].kind # "end"
        /\ \A i \in 1 .. n : feedQueue[i].kind # "batch" => feedQueue[i].size = 0
        /\ item.kind # "batch" => item.size = 0
        /\ item.kind = "end" => (parsed = c.items /\ batch = 0) \/ Feed(c)!Failed
    BY <1>1, <1>2 DEF Feed!FeedInv, Feed!MarkedLast
  <2>2. Feed(c)!Failed => Feed(c)!Failed' BY <1>1, <1>2 DEF Feed!Failed
  <2>3. item.kind = "error" => Feed(c)!Failed'
    <3>1. n + 1 \in DOMAIN feedQueue' BY <1>2
    <3> QED BY <1>2, <3>1 DEF Feed!Failed
  <2>4. ASSUME NEW i \in DOMAIN feedQueue'
        PROVE  /\ feedQueue'[i].kind = "end" => i = Len(feedQueue') /\ thread' = "ended"
               /\ feedQueue'[i].kind # "batch" => feedQueue'[i].size = 0
    <3>1. CASE i = n + 1 BY <1>2, <1>3, <2>1, <3>1
    <3>2. CASE i # n + 1
      <4>1. i \in 1 .. n BY <1>2, <3>2
      <4> QED BY <1>2, <2>1, <4>1
    <3> QED BY <3>1, <3>2
  <2>5. thread' = "ended" \/ (thread' = "putting" /\ item'.kind = "end")
          => (parsed' = c.items /\ batch' = 0) \/ Feed(c)!Failed'
    BY <1>1, <1>3, <2>1, <2>2, <2>3
  <2> QED BY <1>3, <2>4, <2>5 DEF Feed!MarkedLast
<1>8. Feed(c)!KeptWhole' BY <1>1 DEF Feed!FeedInv, Feed!KeptWhole
<1> QED BY <1>1, <1>4, <1>5, <1>6, <1>7, <1>8 DEF Feed!FeedInv

LEMMA GetKeeps ==
    ASSUME NEW c, Feed(c)!FeedConstantsOK, Feed(c)!FeedInv, Feed(c)!Get
    PROVE  Feed(c)!FeedInv'
<1> DEFINE n == Len(feedQueue)
           x == feedQueue[1]
<1>1. /\ feedConsumer = "waiting" /\ feedOutcome = "none" /\ feedQueue # <<>>
      /\ feedQueue' = Tail(feedQueue)
      /\ UNCHANGED <<thread, item, parsed, batch, kept>>
  BY DEF Feed!Get
<1>2. /\ feedQueue' \in Seq(Feed(c)!Items) /\ Len(feedQueue') = n - 1 /\ n \in Nat \ {0}
      /\ DOMAIN feedQueue = 1 .. n /\ DOMAIN feedQueue' = 1 .. n - 1
      /\ Head(feedQueue) = x /\ x \in Feed(c)!Items
      /\ \A i \in 1 .. n - 1 : feedQueue'[i] = feedQueue[i + 1]
  BY <1>1, FeedTyped, Tailed
<1>3. x.kind \in {"batch", "error", "end"} /\ x.size \in 0 .. c.items BY <1>2 DEF Feed!Items
<1> HIDE DEF n, x
<1>4. /\ x.kind # "batch" => x.size = 0
      /\ x.kind = "end" => 1 = n /\ thread = "ended"
  <2>1. 1 \in DOMAIN feedQueue BY <1>2
  <2> QED BY <2>1 DEF Feed!FeedInv, Feed!MarkedLast, n, x
<1>5. /\ x.kind = "batch" => /\ feedConsumer' = "yield" /\ feedReceived' = feedReceived + x.size
                             /\ UNCHANGED <<feedOutcome, stored>>
      /\ x.kind = "error" => /\ feedOutcome' = "error"
                             /\ UNCHANGED <<feedConsumer, feedReceived, stored>>
      /\ x.kind = "end" => /\ feedOutcome' = "ok" /\ stored' = kept.size
                           /\ UNCHANGED <<feedConsumer, feedReceived>>
  <2>1. CASE x.kind = "batch" BY <1>2, <2>1 DEF Feed!Get, Feed!Ends
  <2>2. CASE x.kind = "error" BY <1>2, <2>2 DEF Feed!Get, Feed!Ends
  <2>3. CASE x.kind = "end" BY <1>2, <2>3 DEF Feed!Get, Feed!Ends
  <2> QED BY <1>3, <2>1, <2>2, <2>3
<1>6. feedReceived \in Nat /\ feedReceived' = feedReceived + x.size
  BY <1>3, <1>4, <1>5, FeedTyped, FeedNumbers
<1>7. PICK sums \in [0 .. n -> 0 .. c.items] : Feed(c)!Counts(sums)
  BY DEF Feed!FeedInv, Feed!Counted, n
<1>8. /\ sums[0] = feedReceived
      /\ parsed = sums[n] + batch + IF thread = "putting" THEN item.size ELSE 0
      /\ \A i \in 1 .. n : sums[i] = sums[i - 1] + feedQueue[i].size
      /\ \A i \in 1 .. n : sums[i - 1] <= sums[n]
  BY <1>2, <1>7 DEF Feed!Counts, n
<1>9. sums[1] = feedReceived'
  <2>1. 1 \in 1 .. n /\ 1 - 1 = 0 BY <1>2
  <2>2. sums[1] = sums[0] + feedQueue[1].size BY <1>8, <2>1
  <2> QED BY <1>6, <1>8, <2>2 DEF x
<1>10. sums[1] <= sums[n] /\ sums[1] \in 0 .. c.items /\ sums[n] \in 0 .. c.items
  <2>1. 1 \in 0 .. n /\ n \in 0 .. n BY <1>2
  <2>2. sums[1] \in 0 .. c.items /\ sums[n] \in 0 .. c.items BY <1>7, <2>1
  <2>3. CASE n = 1 BY <2>2, <2>3, FeedNumbers
  <2>4. CASE n # 1
    <3>1. 2 \in 1 .. n /\ 2 - 1 = 1 BY <1>2, <2>4
    <3> QED BY <1>8, <2>2, <3>1
  <2> QED BY <2>2, <2>3, <2>4
<1>11. sums[n] <= parsed /\ parsed \in 0 .. c.items
  <2>1. (IF thread = "putting" THEN item.size ELSE 0) \in Nat BY FeedTyped, FeedNumbers
  <2> QED BY <1>8, <1>10, <2>1, FeedTyped, FeedNumbers
<1>12. feedReceived' \in 0 .. parsed' BY <1>1, <1>9, <1>10, <1>11, FeedNumbers
<1>13. x.kind = "end" => feedReceived' = c.items
  <2> SUFFICES ASSUME x.kind = "end" PROVE feedReceived' = c.items OBVIOUS
  <2>1. n = 1 /\ thread = "ended" BY <1>4
  <2>2. ~Feed(c)!Failed
    <3>1. \A i \in DOMAIN feedQueue : feedQueue[i].kind = "end" BY <1>2, <2>1 DEF x
    <3> QED BY <1>1, <3>1 DEF Feed!Failed
  <2>3. parsed = c.items /\ batch = 0 BY <2>1, <2>2 DEF Feed!FeedInv, Feed!MarkedLast
  <2> QED BY <1>8, <1>9, <1>10, <2>1, <2>3, FeedNumbers
<1>14. kept.size \in 0 .. c.limit /\ kept.size \in 0 .. c.items /\ (kept.size # 0 => kept.size = parsed)
  BY FeedTyped, FeedNumbers DEF Feed!FeedInv, Feed!KeptWhole
<1>15. x.kind = "end" => parsed = c.items
  BY <1>1, <1>9, <1>10, <1>11, <1>13, FeedNumbers
<1>16. Feed(c)!TypeOK'
  <2>1. Feed(c)!TypeOK BY DEF Feed!FeedInv
  <2>2. Len(feedQueue') <= c.room BY <1>2, FeedTyped, FeedNumbers DEF n
  <2>3. /\ feedConsumer' \in {"waiting", "yield", "ended"}
        /\ feedOutcome' \in {"none", "ok", "error", "left"} /\ stored' \in 0 .. c.items
    BY <1>3, <1>5, <1>14, FeedTyped
  <2> QED BY <1>1, <1>2, <1>12, <2>1, <2>2, <2>3 DEF Feed!TypeOK
<1>17. Feed(c)!FeedIsWhole'
  <2>1. stored # 0 => stored = c.items BY DEF Feed!FeedInv, Feed!FeedIsWhole
  <2>2. CASE x.kind = "batch" BY <1>1, <1>5, <2>1, <2>2 DEF Feed!FeedIsWhole
  <2>3. CASE x.kind = "error" BY <1>5, <2>1, <2>3 DEF Feed!FeedIsWhole
  <2>4. CASE x.kind = "end" BY <1>5, <1>13, <1>14, <1>15, <2>4 DEF Feed!FeedIsWhole
  <2> QED BY <1>3, <2>2, <2>3, <2>4
<1>18. Feed(c)!Counted'
  <2> DEFINE new == [i \in 0 .. n - 1 |-> sums[i + 1]]
  <2>1. new \in [0 .. n - 1 -> 0 .. c.items]
    <3> SUFFICES ASSUME NEW i \in 0 .. n - 1 PROVE sums[i + 1] \in 0 .. c.items OBVIOUS
    <3>1. i + 1 \in 0 .. n BY <1>2
    <3> QED BY <1>7, <3>1
  <2>2. \A i \in 0 .. n - 1 : new[i] = sums[i + 1] OBVIOUS
  <2> HIDE DEF new
  <2>3. new[0] = feedReceived'
    <3>1. 0 \in 0 .. n - 1 /\ 0 + 1 = 1 BY <1>2
    <3> QED BY <1>9, <2>2, <3>1
  <2>4. new[n - 1] = sums[n]
    <3>1. n - 1 \in 0 .. n - 1 /\ n - 1 + 1 = n BY <1>2
    <3> QED BY <2>2, <3>1
  <2>5. ASSUME NEW i \in 1 .. n - 1
        PROVE  new[i] = new[i - 1] + feedQueue'[i].size /\ new[i - 1] <= new[n - 1]
    <3>1. /\ i \in 0 .. n - 1 /\ i - 1 \in 0 .. n - 1 /\ i - 1 + 1 = i
          /\ i + 1 \in 1 .. n /\ i + 1 - 1 = i
      BY <1>2
    <3>2. new[i] = sums[i + 1] /\ new[i - 1] = sums[i] /\ feedQueue'[i] = feedQueue[i + 1]
      BY <1>2, <2>2, <3>1
    <3>3. sums[i + 1] = sums[i] + feedQueue[i + 1].size /\ sums[i] <= sums[n] BY <1>8, <3>1
    <3> QED BY <2>4, <3>2, <3>3
  <2>6. parsed' = new[n - 1] + batch' + IF thread' = "putting" THEN item'.size ELSE 0
    BY <1>1, <1>8, <2>4
  <2>7. PICK f : f = new OBVIOUS
  <2>8. Feed(c)!Counts(f)' BY <1>2, <2>3, <2>5, <2>6, <2>7 DEF Feed!Counts
  <2>9. f \in [0 .. Len(feedQueue') -> 0 .. c.items] BY <1>2, <2>1, <2>7
  <2> QED BY <2>8, <2>9 DEF Feed!Counted
<1>19. Feed(c)!MarkedLast'
  <2>1. Feed(c)!MarkedLast BY DEF Feed!FeedInv
  <2>2. Feed(c)!Failed => Feed(c)!Failed'
    <3>1. CASE feedOutcome = "error" BY <1>1, <3>1
    <3>2. ASSUME NEW i \in DOMAIN feedQueue, feedQueue[i].kind = "error" PROVE Feed(c)!Failed'
      <4>1. CASE i = 1 BY <1>5, <3>2, <4>1 DEF Feed!Failed, x
      <4>2. CASE i # 1
        <5>1. i - 1 \in 1 .. n - 1 /\ i - 1 + 1 = i BY <1>2, <4>2
        <5> QED BY <1>2, <3>2, <5>1 DEF Feed!Failed
      <4> QED BY <4>1, <4>2
    <3> QED BY <3>1, <3>2 DEF Feed!Failed
  <2>3. ASSUME NEW i \in DOMAIN feedQueue'
        PROVE  /\ feedQueue'[i].kind = "end" => i = Len(feedQueue') /\ thread' = "ended"
               /\ feedQueue'[i].kind # "batch" => feedQueue'[i].size = 0
    <3>1. i + 1 \in DOMAIN feedQueue /\ i \in 1 .. n - 1 BY <1>2
    <3>2. feedQueue'[i] = feedQueue[i + 1] BY <1>2, <3>1
    <3>3. i + 1 = n => i = n - 1 BY <1>2, <3>1
    <3> QED BY <1>1, <1>2, <2>1, <3>1, <3>2, <3>3 DEF Feed!MarkedLast, n
  <2>4. thread' = "ended" \/ (thread' = "putting" /\ item'.kind = "end")
          => (parsed' = c.items /\ batch' = 0) \/ Feed(c)!Failed'
    BY <1>1, <2>1, <2>2 DEF Feed!MarkedLast
  <2> QED BY <1>1, <2>1, <2>3, <2>4 DEF Feed!MarkedLast
<1>20. Feed(c)!KeptWhole' BY <1>1 DEF Feed!FeedInv, Feed!KeptWhole
<1>21. feedConsumer' = "yield" => feedOutcome' = "none" BY <1>1, <1>3, <1>5
<1> QED BY <1>21, <1>16, <1>17, <1>18, <1>19, <1>20 DEF Feed!FeedInv

LEMMA FeedStep ==
    ASSUME NEW c, Feed(c)!FeedConstantsOK, Feed(c)!FeedInv, Feed(c)!Next \/ UNCHANGED feedVars
    PROVE  Feed(c)!FeedInv'
<1>1. CASE Feed(c)!Resume \/ Feed(c)!Leave \/ Feed(c)!End \/ UNCHANGED feedVars
  <2>1. /\ UNCHANGED <<thread, item, parsed, batch, kept, feedQueue, feedReceived, stored>>
        /\ feedOutcome' = feedOutcome \/ (feedOutcome # "error" /\ feedOutcome' = "left")
    <3>1. CASE Feed(c)!Resume \/ Feed(c)!End \/ UNCHANGED feedVars
      BY <3>1 DEF Feed!Resume, Feed!End, feedVars
    <3>2. CASE Feed(c)!Leave BY <3>2 DEF Feed!Leave, Feed!FeedInv
    <3> QED BY <1>1, <3>1, <3>2
  <2>2. /\ feedConsumer' \in {"waiting", "yield", "ended"}
        /\ feedOutcome' \in {"none", "ok", "error", "left"}
        /\ feedConsumer' = "yield" => feedOutcome' = "none"
    BY <1>1, FeedTyped DEF Feed!Resume, Feed!Leave, Feed!End, feedVars, Feed!FeedInv
  <2>3. Feed(c)!TypeOK /\ Feed(c)!FeedIsWhole /\ Feed(c)!Counted /\ Feed(c)!MarkedLast
        /\ Feed(c)!KeptWhole
    BY DEF Feed!FeedInv
  <2>4. Feed(c)!TypeOK' BY <2>1, <2>2, <2>3 DEF Feed!TypeOK
  <2>5. Feed(c)!FeedIsWhole' BY <2>1, <2>3 DEF Feed!FeedIsWhole
  <2>6. Feed(c)!Counted' BY <2>1, <2>3 DEF Feed!Counted, Feed!Counts
  <2>7. Feed(c)!Failed => Feed(c)!Failed' BY <2>1 DEF Feed!Failed
  <2>8. Feed(c)!MarkedLast' BY <2>1, <2>3, <2>7 DEF Feed!MarkedLast
  <2>9. Feed(c)!KeptWhole' BY <2>1, <2>3 DEF Feed!KeptWhole
  <2> QED BY <2>2, <2>4, <2>5, <2>6, <2>8, <2>9 DEF Feed!FeedInv
<1> QED BY <1>1, ThreadKeeps, PutKeeps, GetKeeps DEF Feed!Next
-----------------------------------------------------------------------------
(* The crawl: nothing in reach is missed, and nothing out of scope is read *)

LEMMA SameInCrawl ==
    ASSUME NEW c, NEW S
    PROVE  /\ Crawl(c)!IsFiniteSet(S) <=> IsFiniteSet(S)
           /\ Crawl(c)!Cardinality(S) = Cardinality(S)
<1>1. Crawl(c)!IsFiniteSet(S) <=> IsFiniteSet(S) BY DEF IsFiniteSet, Crawl!IsFiniteSet
<1>2. Crawl(c)!Cardinality(S) = Cardinality(S) BY DEF Cardinality, Crawl!Cardinality
<1> QED BY <1>1, <1>2

LEMMA CrawlConstants ==
    ASSUME NEW c, Crawl(c)!CrawlConstantsOK
    PROVE  /\ IsFiniteSet(c.indexes) /\ IsFiniteSet(c.pages)
           /\ c.seeds \in Seq(c.indexes) /\ Len(c.seeds) \in Nat
           /\ \A i \in 1 .. Len(c.seeds) : c.seeds[i] \notin c.foreign
           /\ \A i, j \in 1 .. Len(c.seeds) : c.seeds[i] = c.seeds[j] => i = j
           /\ c.maxIndex \in Nat \ {0} /\ c.maxPages \in Nat \ {0}
           /\ Crawl(c)!SeedSet = {c.seeds[i] : i \in 1 .. Len(c.seeds)}
<1>1. c.seeds \in Seq(c.indexes \ c.foreign) BY DEF Crawl!CrawlConstantsOK
<1>2. c.seeds \in Seq(c.indexes) /\ \A i \in 1 .. Len(c.seeds) : c.seeds[i] \notin c.foreign
  BY <1>1
<1>3. DOMAIN c.seeds = 1 .. Len(c.seeds) BY <1>1
<1> QED
  BY <1>2, <1>3, SameInCrawl
  DEF Crawl!CrawlConstantsOK, Crawl!IsInjective, Crawl!SeedSet, Crawl!Range

LEMMA CrawlTyped ==
    ASSUME NEW c, Crawl(c)!CrawlConstantsOK, Crawl(c)!CrawlInv
    PROVE  /\ web \in [c.indexes -> [pages : SUBSET c.pages, children : SUBSET c.indexes]]
           /\ crawlQueue \in Seq(c.indexes) /\ Len(crawlQueue) \in Nat
           /\ DOMAIN crawlQueue = 1 .. Len(crawlQueue)
           /\ Crawl(c)!Range(crawlQueue) = {crawlQueue[i] : i \in 1 .. Len(crawlQueue)}
           /\ \A i, j \in 1 .. Len(crawlQueue) : crawlQueue[i] = crawlQueue[j] => i = j
           /\ visited \subseteq c.indexes /\ IsFiniteSet(visited)
           /\ Cardinality(visited) \in 0 .. c.maxIndex
           /\ candidates \subseteq c.pages /\ IsFiniteSet(candidates)
           /\ Cardinality(candidates) \in 0 .. c.maxPages
<1>1. Crawl(c)!TypeOK /\ Crawl(c)!Scope BY DEF Crawl!CrawlInv
<1>2. IsFiniteSet(visited) /\ IsFiniteSet(candidates) BY <1>1, SameInCrawl DEF Crawl!Scope
<1>3. Cardinality(visited) \in Nat /\ Cardinality(candidates) \in Nat
  BY <1>2, FS_CardinalityType
<1>4. crawlQueue \in Seq(c.indexes) BY <1>1 DEF Crawl!TypeOK
<1>5. Len(crawlQueue) \in Nat /\ DOMAIN crawlQueue = 1 .. Len(crawlQueue) BY <1>4
<1>6. Cardinality(visited) <= c.maxIndex /\ Cardinality(candidates) <= c.maxPages
  BY <1>1, SameInCrawl DEF Crawl!TypeOK
<1>7. Crawl(c)!Range(crawlQueue) = {crawlQueue[i] : i \in 1 .. Len(crawlQueue)}
  BY <1>5 DEF Crawl!Range
<1>8. \A i, j \in 1 .. Len(crawlQueue) : crawlQueue[i] = crawlQueue[j] => i = j
  BY <1>1, <1>5 DEF Crawl!TypeOK, Crawl!IsInjective
<1>9. Cardinality(visited) \in 0 .. c.maxIndex /\ Cardinality(candidates) \in 0 .. c.maxPages
  BY <1>3, <1>6, CrawlConstants
<1> QED BY <1>1, <1>2, <1>4, <1>5, <1>7, <1>8, <1>9 DEF Crawl!TypeOK

LEMMA SeedsReachable ==
    ASSUME NEW c, Crawl(c)!CrawlConstantsOK
    PROVE  /\ Crawl(c)!SeedSet \subseteq Crawl(c)!Reachable
           /\ \A i \in Crawl(c)!SeedSet : Crawl(c)!Wanted(i)
<1>1. \A i \in Crawl(c)!SeedSet : i \in c.indexes /\ i \notin c.foreign BY CrawlConstants
<1> QED BY <1>1 DEF Crawl!Reachable, Crawl!Closed, Crawl!Wanted

LEMMA CrawlInit ==
    ASSUME NEW c, Crawl(c)!CrawlConstantsOK, Crawl(c)!Init PROVE Crawl(c)!CrawlInv
<1>1. /\ web \in [c.indexes -> [pages : SUBSET c.pages, children : SUBSET c.indexes]]
      /\ crawlQueue = c.seeds /\ visited = {} /\ candidates = {} /\ stage = "crawl"
  BY DEF Crawl!Init, Crawl!Contents
<1>2. IsFiniteSet({}) /\ Cardinality({}) = 0 BY FS_EmptySet
<1>3. DOMAIN crawlQueue = 1 .. Len(crawlQueue) BY <1>1, CrawlConstants
<1>4. Crawl(c)!Range(crawlQueue) = Crawl(c)!SeedSet BY <1>1 DEF Crawl!SeedSet
<1>5. Crawl(c)!TypeOK
  BY <1>1, <1>2, <1>3, SameInCrawl, CrawlConstants DEF Crawl!TypeOK, Crawl!IsInjective
<1>6. Crawl(c)!Scope
  BY <1>1, <1>2, <1>4, SameInCrawl, SeedsReachable DEF Crawl!Scope, Crawl!Met
<1>7. Crawl(c)!Kept BY <1>1 DEF Crawl!Kept
<1>8. Crawl(c)!SeedsAhead
  <2>1. CASE Len(c.seeds) = 0
    <3>1. Crawl(c)!SeedSet = {} BY <2>1, CrawlConstants
    <3> QED BY <3>1 DEF Crawl!SeedsAhead
  <2>2. CASE Len(c.seeds) # 0
    <3>1. Len(crawlQueue) \in 1 .. Len(crawlQueue) BY <1>1, <2>2, CrawlConstants
    <3>2. /\ \A i \in 1 .. Len(crawlQueue) : crawlQueue[i] \in Crawl(c)!SeedSet
          /\ Crawl(c)!SeedSet \subseteq visited \cup {crawlQueue[j] : j \in 1 .. Len(crawlQueue)}
      BY <1>1, CrawlConstants
    <3> QED BY <1>1, <3>1, <3>2 DEF Crawl!SeedsAhead
  <2> QED BY <2>1, <2>2
<1> QED BY <1>4, <1>5, <1>6, <1>7, <1>8 DEF Crawl!CrawlInv, Crawl!Met

\* What can be reached is closed under the children that are wanted.
LEMMA ReachableClosed ==
    ASSUME NEW c, Crawl(c)!CrawlInv, Crawl(c)!CrawlConstantsOK, NEW i \in Crawl(c)!Reachable
    PROVE  Crawl(c)!ChildrenOf(i) \subseteq Crawl(c)!Reachable
<1> SUFFICES ASSUME NEW d \in Crawl(c)!ChildrenOf(i) PROVE d \in Crawl(c)!Reachable OBVIOUS
<1>1. d \in c.indexes BY CrawlTyped DEF Crawl!ChildrenOf, Crawl!Reachable
<1>2. ASSUME NEW ixs \in SUBSET c.indexes, Crawl(c)!Closed(ixs) PROVE d \in ixs
  BY <1>2 DEF Crawl!Reachable, Crawl!Closed
<1> QED BY <1>1, <1>2 DEF Crawl!Reachable

\* An order of a finite set has its members, each once.
LEMMA Ordered ==
    ASSUME NEW c, NEW T, IsFiniteSet(T), NEW s \in Crawl(c)!Orders(T)
    PROVE  /\ Cardinality(T) \in Nat /\ s \in [1 .. Cardinality(T) -> T]
           /\ \A i, j \in 1 .. Cardinality(T) : s[i] = s[j] => i = j
           /\ \A x \in T : \E i \in 1 .. Cardinality(T) : s[i] = x
<1> DEFINE m == Cardinality(T)
<1>1. m \in Nat BY FS_CardinalityType
<1>2. s \in [1 .. m -> T] /\ Crawl(c)!IsInjective(s) BY SameInCrawl DEF Crawl!Orders
<1>3. \A i, j \in 1 .. m : s[i] = s[j] => i = j BY <1>2 DEF Crawl!IsInjective
<1>4. Cardinality(1 .. m) = m BY <1>1, FS_Interval
<1>5. s \in Injection(1 .. m, T) BY <1>2, <1>3 DEF Injection, IsInjective
<1>6. s \in Surjection(1 .. m, T) BY <1>4, <1>5, FS_Injection
<1>7. \A x \in T : \E i \in 1 .. m : s[i] = x BY <1>6 DEF Surjection
<1> QED BY <1>1, <1>2, <1>3, <1>7

\* The next index is visited, and some of its new children wait.
LEMMA VisitQueue ==
    ASSUME NEW c, Crawl(c)!CrawlConstantsOK, Crawl(c)!CrawlInv, Crawl(c)!Visit
    PROVE  \E index \in c.indexes : \E picked \in SUBSET Crawl(c)!ChildrenOf(index) :
             /\ Len(crawlQueue) > 0 /\ index = crawlQueue[1] /\ index \notin visited
             /\ visited' = visited \cup {index}
             /\ IsFiniteSet(visited') /\ Cardinality(visited') = Cardinality(visited) + 1
             /\ IsFiniteSet(picked) /\ picked \cap Crawl(c)!Met = {}
             /\ crawlQueue' \in Seq(c.indexes)
             /\ Len(crawlQueue') = Len(crawlQueue) - 1 + Cardinality(picked)
             /\ \A i \in 1 .. Len(crawlQueue) - 1 : crawlQueue'[i] = crawlQueue[i + 1]
             /\ \A i, j \in 1 .. Len(crawlQueue') : crawlQueue'[i] = crawlQueue'[j] => i = j
             /\ Crawl(c)!Met' = Crawl(c)!Met \cup picked
             /\ visited' \cap Crawl(c)!Range(crawlQueue)' = {}
             /\ Cardinality(picked) \in 0 .. Crawl(c)!Room /\ Crawl(c)!Room \in Nat
             /\ \/ Crawl(c)!ChildrenOf(index) \subseteq Crawl(c)!Met \cup picked
                \/ Cardinality(picked) = Crawl(c)!Room
<1> DEFINE n == Len(crawlQueue)
           index == crawlQueue[1]
           tail == Tail(crawlQueue)
<1>1. crawlQueue # <<>> /\ visited' = visited \cup {index}
  BY CrawlTyped DEF Crawl!Visit, Crawl!Going
<1>2. PICK picked \in Crawl(c)!Fitting(Crawl(c)!NewChildren(index), Crawl(c)!Room) :
        \E ch \in Crawl(c)!Orders(picked) : crawlQueue' = Crawl(c)!Queued(ch)
  BY <1>1, CrawlTyped DEF Crawl!Visit
<1>3. PICK ch \in Crawl(c)!Orders(picked) : crawlQueue' = tail \o ch
  BY <1>2 DEF Crawl!Queued
<1>4. /\ tail \in Seq(c.indexes) /\ Len(tail) = n - 1 /\ n \in Nat \ {0}
      /\ DOMAIN tail = 1 .. n - 1 /\ index \in c.indexes
      /\ \A i \in 1 .. n - 1 : tail[i] = crawlQueue[i + 1]
  BY <1>1, CrawlTyped, Tailed
<1> HIDE DEF n, index, tail
<1>5. /\ Crawl(c)!Range(crawlQueue) = {crawlQueue[i] : i \in 1 .. n}
      /\ Crawl(c)!Range(tail) = {crawlQueue[i + 1] : i \in 1 .. n - 1}
      /\ \A i, j \in 1 .. n : crawlQueue[i] = crawlQueue[j] => i = j
      /\ visited \cap Crawl(c)!Range(crawlQueue) = {}
  <2>1. Crawl(c)!Range(tail) = {crawlQueue[i + 1] : i \in 1 .. n - 1} BY <1>4 DEF Crawl!Range
  <2> QED BY <2>1, CrawlTyped DEF Crawl!CrawlInv, Crawl!Scope, n
<1>6. Crawl(c)!Range(crawlQueue) = {index} \cup Crawl(c)!Range(tail)
  <2>1. ASSUME NEW x \in Crawl(c)!Range(crawlQueue) PROVE x \in {index} \cup Crawl(c)!Range(tail)
    <3>1. PICK i \in 1 .. n : x = crawlQueue[i] BY <1>5
    <3>2. CASE i = 1 BY <3>1, <3>2 DEF index
    <3>3. CASE i # 1
      <4>1. i - 1 \in 1 .. n - 1 /\ i - 1 + 1 = i BY <1>4, <3>3
      <4> QED BY <1>5, <3>1, <4>1
    <3> QED BY <3>2, <3>3
  <2>2. index \in Crawl(c)!Range(crawlQueue)
    <3>1. 1 \in 1 .. n BY <1>4
    <3> QED BY <1>5, <3>1 DEF index
  <2>3. ASSUME NEW i \in 1 .. n - 1 PROVE crawlQueue[i + 1] \in Crawl(c)!Range(crawlQueue)
    <3>1. i + 1 \in 1 .. n BY <1>4
    <3> QED BY <1>5, <3>1
  <2> QED BY <1>5, <2>1, <2>2, <2>3
<1>7. index \notin Crawl(c)!Range(tail)
  <2> SUFFICES ASSUME NEW i \in 1 .. n - 1, crawlQueue[i + 1] = index PROVE FALSE BY <1>5
  <2>1. i + 1 \in 1 .. n /\ 1 \in 1 .. n /\ i + 1 # 1 BY <1>4
  <2> QED BY <1>5, <2>1 DEF index
<1>8. index \notin visited BY <1>5, <1>6
<1>9. Crawl(c)!NewChildren(index) = Crawl(c)!ChildrenOf(index) \ Crawl(c)!Met
  BY <1>6 DEF Crawl!NewChildren, Crawl!ChildrenOf, Crawl!Met, tail
<1>10. Crawl(c)!ChildrenOf(index) \subseteq c.indexes BY <1>4, CrawlTyped DEF Crawl!ChildrenOf
<1>11. /\ IsFiniteSet(Crawl(c)!NewChildren(index)) /\ IsFiniteSet(picked)
       /\ picked \subseteq Crawl(c)!NewChildren(index)
       /\ Cardinality(Crawl(c)!NewChildren(index)) \in Nat
  <2>1. picked \subseteq Crawl(c)!NewChildren(index) BY <1>2 DEF Crawl!Fitting
  <2>2. Crawl(c)!NewChildren(index) \subseteq c.indexes BY <1>9, <1>10
  <2>3. IsFiniteSet(Crawl(c)!NewChildren(index)) BY <2>2, CrawlConstants, FS_Subset
  <2> QED BY <2>1, <2>3, FS_Subset, FS_CardinalityType
<1>12. Crawl(c)!Room \in Nat BY <1>4, CrawlConstants DEF Crawl!Room, n
<1>13. /\ Cardinality(picked) \in 0 .. Crawl(c)!Room
       /\ picked = Crawl(c)!NewChildren(index) \/ Cardinality(picked) = Crawl(c)!Room
  <2> DEFINE new == Cardinality(Crawl(c)!NewChildren(index))
  <2>1. Cardinality(picked) = IF new < Crawl(c)!Room THEN new ELSE Crawl(c)!Room
    BY <1>2, SameInCrawl DEF Crawl!Fitting
  <2>2. new \in Nat BY <1>11
  <2> HIDE DEF new
  <2>3. CASE new < Crawl(c)!Room
    <3>1. Cardinality(picked) = new BY <2>1, <2>3
    <3>2. picked = Crawl(c)!NewChildren(index) BY <1>11, <3>1, FS_Subset DEF new
    <3> QED BY <1>12, <2>2, <2>3, <3>1, <3>2
  <2>4. CASE ~(new < Crawl(c)!Room) BY <1>12, <2>1, <2>4
  <2> QED BY <2>3, <2>4
<1> DEFINE m == Cardinality(picked)
<1>14. /\ m \in Nat /\ ch \in [1 .. m -> picked] /\ \A i, j \in 1 .. m : ch[i] = ch[j] => i = j
       /\ \A x \in picked : \E i \in 1 .. m : ch[i] = x
  BY <1>11, Ordered
<1> HIDE DEF m
<1>15. /\ crawlQueue' \in Seq(c.indexes) /\ Len(crawlQueue') = n - 1 + m
       /\ DOMAIN crawlQueue' = 1 .. n - 1 + m
       /\ \A i \in 1 .. n - 1 : crawlQueue'[i] = crawlQueue[i + 1]
       /\ \A i \in 1 .. m : crawlQueue'[n - 1 + i] = ch[i]
  <2>1. picked \in SUBSET c.indexes BY <1>9, <1>10, <1>11
  <2>2. /\ tail \o ch \in Seq(c.indexes) /\ Len(tail \o ch) = Len(tail) + m
        /\ DOMAIN (tail \o ch) = 1 .. Len(tail) + m
        /\ \A i \in 1 .. Len(tail) : (tail \o ch)[i] = tail[i]
        /\ \A i \in 1 .. m : (tail \o ch)[Len(tail) + i] = ch[i]
    <3>1. tail \in Seq(c.indexes) /\ m \in Nat /\ ch \in [1 .. m -> picked] BY <1>4, <1>14
    <3> QED BY <2>1, <3>1, Joined
  <2> QED BY <1>3, <1>4, <2>2
<1>16. \A i \in 1 .. n - 1 + m :
          \/ i \in 1 .. n - 1 /\ crawlQueue'[i] = crawlQueue[i + 1]
          \/ i - (n - 1) \in 1 .. m /\ crawlQueue'[i] = ch[i - (n - 1)]
  <2> SUFFICES ASSUME NEW i \in 1 .. n - 1 + m, i \notin 1 .. n - 1
               PROVE  i - (n - 1) \in 1 .. m /\ crawlQueue'[i] = ch[i - (n - 1)]
    BY <1>15
  <2>1. i - (n - 1) \in 1 .. m /\ n - 1 + (i - (n - 1)) = i BY <1>4, <1>14
  <2> QED BY <1>15, <2>1
<1>17. Crawl(c)!Range(crawlQueue)' = Crawl(c)!Range(tail) \cup picked
  <2>1. Crawl(c)!Range(crawlQueue)' = {crawlQueue'[i] : i \in 1 .. n - 1 + m}
    BY <1>15 DEF Crawl!Range
  <2>2. ASSUME NEW i \in 1 .. n - 1 + m PROVE crawlQueue'[i] \in Crawl(c)!Range(tail) \cup picked
    BY <1>5, <1>14, <1>16
  <2>3. ASSUME NEW i \in 1 .. n - 1
        PROVE  crawlQueue[i + 1] \in {crawlQueue'[j] : j \in 1 .. n - 1 + m}
    <3>1. i \in 1 .. n - 1 + m BY <1>4, <1>14
    <3> QED BY <1>15, <3>1
  <2>4. ASSUME NEW x \in picked PROVE x \in {crawlQueue'[j] : j \in 1 .. n - 1 + m}
    <3>1. PICK i \in 1 .. m : ch[i] = x BY <1>14
    <3>2. n - 1 + i \in 1 .. n - 1 + m BY <1>4, <1>14
    <3> QED BY <1>15, <3>1, <3>2
  <2> QED BY <1>5, <2>1, <2>2, <2>3, <2>4
<1>18. picked \cap Crawl(c)!Met = {} /\ picked \subseteq Crawl(c)!ChildrenOf(index) BY <1>9, <1>11
<1>19. Crawl(c)!Met' = Crawl(c)!Met \cup picked
  BY <1>1, <1>6, <1>17 DEF Crawl!Met
<1>20. visited' \cap Crawl(c)!Range(crawlQueue)' = {}
  BY <1>1, <1>5, <1>6, <1>7, <1>17, <1>18 DEF Crawl!Met
<1>21. ASSUME NEW i \in 1 .. n - 1 + m, NEW j \in 1 .. n - 1 + m, crawlQueue'[i] = crawlQueue'[j]
       PROVE  i = j
  <2>1. CASE i \in 1 .. n - 1 /\ j \in 1 .. n - 1
    <3>1. i + 1 \in 1 .. n /\ j + 1 \in 1 .. n BY <1>4, <2>1
    <3>2. crawlQueue[i + 1] = crawlQueue[j + 1] BY <1>15, <1>21, <2>1
    <3>3. i + 1 = j + 1 BY <1>5, <3>1, <3>2
    <3> QED BY <3>3
  <2>2. CASE i \notin 1 .. n - 1 /\ j \notin 1 .. n - 1
    <3>1. i - (n - 1) \in 1 .. m /\ j - (n - 1) \in 1 .. m
          /\ ch[i - (n - 1)] = ch[j - (n - 1)]
      BY <1>16, <1>21, <2>2
    <3>2. i - (n - 1) = j - (n - 1) BY <1>14, <3>1
    <3> QED BY <1>4, <3>2
  <2>3. ASSUME NEW u \in 1 .. n - 1, NEW v \in 1 .. m PROVE crawlQueue[u + 1] # ch[v]
    <3>1. crawlQueue[u + 1] \in Crawl(c)!Met BY <1>5, <1>6 DEF Crawl!Met
    <3>2. ch[v] \in picked BY <1>14
    <3> QED BY <1>18, <3>1, <3>2
  <2>4. CASE i \in 1 .. n - 1 /\ j \notin 1 .. n - 1
    <3>1. /\ crawlQueue'[i] = crawlQueue[i + 1] /\ j - (n - 1) \in 1 .. m
          /\ crawlQueue'[j] = ch[j - (n - 1)]
      BY <1>15, <1>16, <2>4
    <3> QED BY <1>21, <2>3, <2>4, <3>1
  <2>5. CASE i \notin 1 .. n - 1 /\ j \in 1 .. n - 1
    <3>1. /\ crawlQueue'[j] = crawlQueue[j + 1] /\ i - (n - 1) \in 1 .. m
          /\ crawlQueue'[i] = ch[i - (n - 1)]
      BY <1>15, <1>16, <2>5
    <3> QED BY <1>21, <2>3, <2>5, <3>1
  <2> QED BY <2>1, <2>2, <2>4, <2>5
<1>22. IsFiniteSet(visited') /\ Cardinality(visited') = Cardinality(visited) + 1
  BY <1>1, <1>8, CrawlTyped, FS_AddElement
<1>23. \/ Crawl(c)!ChildrenOf(index) \subseteq Crawl(c)!Met \cup picked
       \/ Cardinality(picked) = Crawl(c)!Room
  BY <1>9, <1>13
<1> QED
  <2>1. /\ n > 0 /\ Len(crawlQueue') = n - 1 + Cardinality(picked)
        /\ \A i, j \in 1 .. Len(crawlQueue') : crawlQueue'[i] = crawlQueue'[j] => i = j
    BY <1>4, <1>15, <1>21 DEF m
  <2>2. /\ Len(crawlQueue) > 0 /\ index = crawlQueue[1]
        /\ Len(crawlQueue') = Len(crawlQueue) - 1 + Cardinality(picked)
        /\ \A i \in 1 .. Len(crawlQueue) - 1 : crawlQueue'[i] = crawlQueue[i + 1]
    BY <2>1, <1>15 DEF n, index
  <2> QED BY <1>1, <1>4, <1>8, <1>11, <1>12, <1>13, <1>15, <1>18, <1>19, <1>20, <1>22, <1>23, <2>1, <2>2

\* Some of the index's pages become candidates: all that are allowed, or as many
\* as there is room for.
LEMMA VisitPages ==
    ASSUME NEW c, Crawl(c)!CrawlConstantsOK, Crawl(c)!CrawlInv, Crawl(c)!Visit
    PROVE  /\ candidates \subseteq candidates' /\ candidates' \subseteq c.pages
           /\ IsFiniteSet(candidates') /\ Cardinality(candidates') \in 0 .. c.maxPages
           /\ \A p \in candidates' : /\ Crawl(c)!Allowed(p)
                                     /\ p \in candidates \/ p \in web[crawlQueue[1]].pages
           /\ \/ Cardinality(candidates') >= c.maxPages
              \/ \A p \in web[crawlQueue[1]].pages : Crawl(c)!Allowed(p) => p \in candidates'
           /\ Cardinality(candidates') >= Cardinality(candidates)
<1> DEFINE index == crawlQueue[1]
           new == {p \in web[index].pages : Crawl(c)!Allowed(p)} \ candidates
           room == c.maxPages - Cardinality(candidates)
<1>1. crawlQueue # <<>> /\ Head(crawlQueue) = index /\ index \in c.indexes
      /\ Cardinality(candidates) < c.maxPages
  BY CrawlTyped, SameInCrawl DEF Crawl!Visit, Crawl!Going
<1>2. PICK found \in Crawl(c)!Fitting(new, room) : candidates' = candidates \cup found
  BY <1>1, SameInCrawl DEF Crawl!Visit
<1> DEFINE held == Cardinality(candidates)
<1>3. room \in Nat \ {0} /\ held + room = c.maxPages /\ held \in Nat /\ c.maxPages \in Nat
  <2>1. held \in Nat /\ c.maxPages \in Nat /\ held < c.maxPages /\ room = c.maxPages - held
    BY <1>1, CrawlTyped, CrawlConstants
  <2> HIDE DEF held, room
  <2> QED BY <2>1
<1>4. new \subseteq c.pages /\ \A p \in new : Crawl(c)!Allowed(p) /\ p \in web[index].pages
  BY <1>1, CrawlTyped
<1>5. new \cap candidates = {} OBVIOUS
<1>6. \A p \in web[index].pages : Crawl(c)!Allowed(p) => p \in candidates \cup new OBVIOUS
<1> HIDE DEF new, room, index
<1>7. found \subseteq new /\ Cardinality(found) = IF Cardinality(new) < room THEN Cardinality(new) ELSE room
  BY <1>2, SameInCrawl DEF Crawl!Fitting
<1>8. IsFiniteSet(new) /\ IsFiniteSet(found) /\ Cardinality(new) \in Nat
  BY <1>4, <1>7, CrawlConstants, FS_Subset, FS_CardinalityType
<1>9. IsFiniteSet(candidates') /\ Cardinality(candidates') = Cardinality(candidates) + Cardinality(found)
  <2>1. found \cap candidates = {} /\ candidates \cap found = {} BY <1>5, <1>7
  <2>2. Cardinality(candidates \cap found) = 0 BY <2>1, FS_EmptySet
  <2>3. Cardinality(found) \in Nat BY <1>8, FS_CardinalityType
  <2>4. IsFiniteSet(candidates) BY CrawlTyped
  <2>5. /\ IsFiniteSet(candidates \cup found)
        /\ Cardinality(candidates \cup found) = held + Cardinality(found) - Cardinality(candidates \cap found)
    BY <1>8, <2>4, FS_Union
  <2>6. Cardinality(candidates \cup found) = held + Cardinality(found) BY <1>3, <2>2, <2>3, <2>5
  <2> QED BY <1>2, <2>5, <2>6
<1>10. /\ Cardinality(found) \in 0 .. room
       /\ Cardinality(found) = room \/ found = new
  <2>1. CASE Cardinality(new) < room
    <3>1. Cardinality(found) = Cardinality(new) BY <1>7, <2>1
    <3>2. found = new BY <1>7, <1>8, <3>1, FS_Subset
    <3> QED BY <1>3, <1>8, <2>1, <3>1, <3>2
  <2>2. CASE ~(Cardinality(new) < room) BY <1>3, <1>7, <2>2
  <2> QED BY <2>1, <2>2
<1>11. Cardinality(candidates') \in 0 .. c.maxPages
       /\ Cardinality(candidates') >= Cardinality(candidates)
       /\ (Cardinality(found) = room => Cardinality(candidates') >= c.maxPages)
  <2>1. Cardinality(candidates') = held + Cardinality(found) BY <1>9
  <2>2. /\ held + Cardinality(found) \in 0 .. c.maxPages /\ held + Cardinality(found) >= held
        /\ (Cardinality(found) = room => held + Cardinality(found) >= c.maxPages)
    <3> HIDE DEF held
    <3> QED BY <1>3, <1>10
  <2> QED BY <2>1, <2>2
<1>12. \A p \in candidates : Crawl(c)!Allowed(p) /\ p \in c.pages
  BY CrawlTyped DEF Crawl!CrawlInv, Crawl!Scope
<1>13. /\ candidates' \subseteq c.pages
       /\ \A p \in candidates' : Crawl(c)!Allowed(p) /\ (p \in candidates \/ p \in web[index].pages)
  BY <1>2, <1>4, <1>7, <1>12
<1>14. \/ Cardinality(candidates') >= c.maxPages
       \/ \A p \in web[index].pages : Crawl(c)!Allowed(p) => p \in candidates'
  BY <1>2, <1>6, <1>10, <1>11
<1> QED BY <1>2, <1>9, <1>11, <1>13, <1>14 DEF index

LEMMA VisitKeeps ==
    ASSUME NEW c, Crawl(c)!CrawlConstantsOK, Crawl(c)!CrawlInv, Crawl(c)!Visit
    PROVE  Crawl(c)!CrawlInv'
<1> DEFINE n == Len(crawlQueue)
<1>1. PICK index \in c.indexes : \E picked \in SUBSET Crawl(c)!ChildrenOf(index) :
             /\ Len(crawlQueue) > 0 /\ index = crawlQueue[1] /\ index \notin visited
             /\ visited' = visited \cup {index}
             /\ IsFiniteSet(visited') /\ Cardinality(visited') = Cardinality(visited) + 1
             /\ IsFiniteSet(picked) /\ picked \cap Crawl(c)!Met = {}
             /\ crawlQueue' \in Seq(c.indexes)
             /\ Len(crawlQueue') = Len(crawlQueue) - 1 + Cardinality(picked)
             /\ \A i \in 1 .. Len(crawlQueue) - 1 : crawlQueue'[i] = crawlQueue[i + 1]
             /\ \A i, j \in 1 .. Len(crawlQueue') : crawlQueue'[i] = crawlQueue'[j] => i = j
             /\ Crawl(c)!Met' = Crawl(c)!Met \cup picked
             /\ visited' \cap Crawl(c)!Range(crawlQueue)' = {}
             /\ Cardinality(picked) \in 0 .. Crawl(c)!Room /\ Crawl(c)!Room \in Nat
             /\ \/ Crawl(c)!ChildrenOf(index) \subseteq Crawl(c)!Met \cup picked
                \/ Cardinality(picked) = Crawl(c)!Room
  BY VisitQueue
<1>2. PICK picked \in SUBSET Crawl(c)!ChildrenOf(index) :
             /\ Len(crawlQueue) > 0 /\ index = crawlQueue[1] /\ index \notin visited
             /\ visited' = visited \cup {index}
             /\ IsFiniteSet(visited') /\ Cardinality(visited') = Cardinality(visited) + 1
             /\ IsFiniteSet(picked) /\ picked \cap Crawl(c)!Met = {}
             /\ crawlQueue' \in Seq(c.indexes)
             /\ Len(crawlQueue') = Len(crawlQueue) - 1 + Cardinality(picked)
             /\ \A i \in 1 .. Len(crawlQueue) - 1 : crawlQueue'[i] = crawlQueue[i + 1]
             /\ \A i, j \in 1 .. Len(crawlQueue') : crawlQueue'[i] = crawlQueue'[j] => i = j
             /\ Crawl(c)!Met' = Crawl(c)!Met \cup picked
             /\ visited' \cap Crawl(c)!Range(crawlQueue)' = {}
             /\ Cardinality(picked) \in 0 .. Crawl(c)!Room /\ Crawl(c)!Room \in Nat
             /\ \/ Crawl(c)!ChildrenOf(index) \subseteq Crawl(c)!Met \cup picked
                \/ Cardinality(picked) = Crawl(c)!Room
  BY <1>1
<1>3. n \in Nat \ {0} BY <1>2, CrawlTyped
<1>4. UNCHANGED web /\ stage = "crawl" /\ stage' = "crawl" /\ Cardinality(visited) < c.maxIndex
  BY SameInCrawl DEF Crawl!Visit, Crawl!Going
<1>5. Crawl(c)!Room = IF 2 * c.maxIndex > n - 1 THEN 2 * c.maxIndex - (n - 1) ELSE 0
  BY DEF Crawl!Room
<1>6. Cardinality(picked) \in Nat /\ Len(crawlQueue') = n - 1 + Cardinality(picked)
      /\ Cardinality(picked) <= Crawl(c)!Room
  BY <1>2
<1> HIDE DEF n
<1>7. Crawl(c)!TypeOK'
  <2>1. Len(crawlQueue) <= Len(c.seeds) \/ Len(crawlQueue) <= 2 * c.maxIndex
    BY DEF Crawl!CrawlInv, Crawl!TypeOK
  <2>2. Len(crawlQueue') <= Len(c.seeds) \/ Len(crawlQueue') <= 2 * c.maxIndex
    <3>1. CASE 2 * c.maxIndex > n - 1
      <4>1. Cardinality(picked) <= 2 * c.maxIndex - (n - 1) BY <1>5, <1>6, <3>1
      <4> QED BY <1>3, <1>6, <4>1, CrawlConstants
    <3>2. CASE ~(2 * c.maxIndex > n - 1)
      <4>1. Cardinality(picked) = 0 BY <1>5, <1>6, <3>2
      <4> QED BY <1>3, <1>6, <2>1, <4>1, CrawlConstants DEF n
    <3> QED BY <3>1, <3>2
  <2>3. /\ visited' \subseteq c.indexes /\ Cardinality(visited') <= c.maxIndex
        /\ stage' \in {"crawl", "done", "failed"}
    BY <1>2, <1>4, CrawlTyped, CrawlConstants
  <2>4. candidates' \subseteq c.pages /\ Cardinality(candidates') <= c.maxPages BY VisitPages
  <2>5. Crawl(c)!IsInjective(crawlQueue)'
    <3>1. DOMAIN crawlQueue' = 1 .. Len(crawlQueue') BY <1>2
    <3> QED BY <1>2, <3>1 DEF Crawl!IsInjective
  <2> QED BY <1>2, <1>4, <2>2, <2>3, <2>4, <2>5, SameInCrawl, CrawlTyped DEF Crawl!TypeOK
<1>8. index \in Crawl(c)!Met /\ Crawl(c)!Met \subseteq Crawl(c)!Reachable
      /\ \A i \in Crawl(c)!Met : Crawl(c)!Wanted(i)
  <2>1. 1 \in 1 .. Len(crawlQueue) BY <1>2, CrawlTyped
  <2>2. index \in Crawl(c)!Met BY <1>2, <2>1, CrawlTyped DEF Crawl!Met
  <2> QED BY <2>2 DEF Crawl!CrawlInv, Crawl!Scope
<1>9. Crawl(c)!Reachable' = Crawl(c)!Reachable /\ \A i : Crawl(c)!ChildrenOf(i)' = Crawl(c)!ChildrenOf(i)
  BY <1>4 DEF Crawl!Reachable, Crawl!Closed, Crawl!ChildrenOf
<1>10. Crawl(c)!Scope'
  <2>1. picked \subseteq Crawl(c)!Reachable /\ \A i \in picked : Crawl(c)!Wanted(i)
    <3>1. Crawl(c)!ChildrenOf(index) \subseteq Crawl(c)!Reachable BY <1>8, ReachableClosed
    <3> QED BY <3>1 DEF Crawl!ChildrenOf
  <2>2. Crawl(c)!Met' \subseteq Crawl(c)!Reachable' /\ \A i \in Crawl(c)!Met' : Crawl(c)!Wanted(i)
    BY <1>2, <1>8, <1>9, <2>1
  <2>3. \A p \in candidates' : Crawl(c)!Allowed(p) /\ \E i \in visited' : p \in web'[i].pages
    <3>1. \A p \in candidates : \E i \in visited : p \in web[i].pages
      BY DEF Crawl!CrawlInv, Crawl!Scope
    <3>2. \A p \in candidates' : Crawl(c)!Allowed(p) /\ (p \in candidates \/ p \in web[index].pages)
      BY <1>2, VisitPages
    <3> QED BY <1>2, <1>4, <3>1, <3>2
  <2> QED BY <1>2, <2>2, <2>3, VisitPages, SameInCrawl DEF Crawl!Scope
<1>11. Crawl(c)!Kept'
  <2>1. Crawl(c)!Kept BY DEF Crawl!CrawlInv
  <2>2. \/ \A i \in visited' : Crawl(c)!ChildrenOf(i)' \subseteq Crawl(c)!Met'
        \/ Cardinality(visited') + Len(crawlQueue') >= 2 * c.maxIndex
    <3>1. CASE Cardinality(picked) = Crawl(c)!Room
      <4>1. CASE 2 * c.maxIndex > n - 1
        <5>1. Cardinality(picked) = 2 * c.maxIndex - (n - 1) BY <1>5, <3>1, <4>1
        <5>2. Len(crawlQueue') = 2 * c.maxIndex BY <1>3, <1>6, <5>1, CrawlConstants
        <5> QED BY <1>2, <5>2, CrawlTyped, CrawlConstants
      <4>2. CASE ~(2 * c.maxIndex > n - 1)
        <5>1. Cardinality(visited) \in Nat /\ c.maxIndex \in Nat BY CrawlTyped, CrawlConstants
        <5>2. Cardinality(visited') + Len(crawlQueue') >= 2 * c.maxIndex
          BY <1>2, <1>3, <1>6, <4>2, <5>1
        <5> QED BY <5>2
      <4> QED BY <4>1, <4>2
    <3>2. CASE Cardinality(visited) + Len(crawlQueue) >= 2 * c.maxIndex
      <4>1. Cardinality(visited) \in Nat /\ c.maxIndex \in Nat BY CrawlTyped, CrawlConstants
      <4>2. Cardinality(visited) + n >= 2 * c.maxIndex BY <3>2 DEF n
      <4>3. Cardinality(visited') = Cardinality(visited) + 1 BY <1>2
      <4>4. Cardinality(visited') + Len(crawlQueue') >= 2 * c.maxIndex
        BY <1>3, <1>6, <4>1, <4>2, <4>3
      <4> QED BY <4>4
    <3>3. CASE /\ Crawl(c)!ChildrenOf(index) \subseteq Crawl(c)!Met \cup picked
               /\ ~(Cardinality(visited) + Len(crawlQueue) >= 2 * c.maxIndex)
      <4>1. \A i \in visited : Crawl(c)!ChildrenOf(i) \subseteq Crawl(c)!Met
        BY <2>1, <3>3, SameInCrawl DEF Crawl!Kept
      <4> QED BY <1>2, <1>9, <3>3, <4>1
    <3> QED BY <1>2, <3>1, <3>2, <3>3
  <2>3. \/ \A i \in visited' : \A p \in web'[i].pages : Crawl(c)!Allowed(p) => p \in candidates'
        \/ Cardinality(candidates') >= c.maxPages
    <3>1. CASE Cardinality(candidates) >= c.maxPages
      BY <3>1, VisitPages, CrawlTyped, CrawlConstants
    <3>2. CASE ~(Cardinality(candidates) >= c.maxPages)
      <4>1. \A i \in visited : \A p \in web[i].pages : Crawl(c)!Allowed(p) => p \in candidates
        BY <2>1, <3>2, SameInCrawl DEF Crawl!Kept
      <4> QED BY <1>2, <1>4, <4>1, VisitPages
    <3> QED BY <3>1, <3>2
  <2> QED BY <1>4, <2>2, <2>3, SameInCrawl DEF Crawl!Kept
<1>12. Crawl(c)!SeedSet \subseteq Crawl(c)!Met' BY <1>2 DEF Crawl!CrawlInv
<1>13. Crawl(c)!SeedsAhead'
  <2>1. CASE Crawl(c)!SeedSet \subseteq visited BY <1>2, <2>1 DEF Crawl!SeedsAhead
  <2>2. CASE ~(Crawl(c)!SeedSet \subseteq visited)
    <3>1. PICK k \in 1 .. n :
            /\ \A i \in 1 .. k : crawlQueue[i] \in Crawl(c)!SeedSet
            /\ Crawl(c)!SeedSet \subseteq visited \cup {crawlQueue[j] : j \in 1 .. k}
      BY <2>2 DEF Crawl!CrawlInv, Crawl!SeedsAhead, n
    <3>2. visited \subseteq Crawl(c)!SeedSet BY <2>2 DEF Crawl!CrawlInv, Crawl!SeedsAhead
    <3>3. 1 \in 1 .. k BY <1>3
    <3>4. visited' \subseteq Crawl(c)!SeedSet BY <1>2, <3>1, <3>2, <3>3
    <3>5. CASE k = 1
      <4>1. \A j \in 1 .. k : j = 1 BY <3>5
      <4>2. ASSUME NEW s \in Crawl(c)!SeedSet PROVE s \in visited'
        <5>1. CASE s \in visited BY <1>2, <5>1
        <5>2. CASE s \notin visited
          <6>1. PICK j \in 1 .. k : s = crawlQueue[j] BY <3>1, <5>2
          <6>2. s = index BY <1>2, <4>1, <6>1
          <6> QED BY <1>2, <6>2
        <5> QED BY <5>1, <5>2
      <4> QED BY <4>2 DEF Crawl!SeedsAhead
    <3>6. CASE k # 1
      <4>1. k - 1 \in 1 .. Len(crawlQueue') BY <1>3, <1>6, <3>6
      <4>2. \A i \in 1 .. k - 1 : i + 1 \in 1 .. k /\ crawlQueue'[i] = crawlQueue[i + 1]
        <5>1. \A i \in 1 .. k - 1 : i + 1 \in 1 .. k /\ i \in 1 .. n - 1 BY <1>3
        <5> QED BY <1>2, <5>1 DEF n
      <4>3. \A i \in 1 .. k - 1 : crawlQueue'[i] \in Crawl(c)!SeedSet BY <3>1, <4>2
      <4>4. ASSUME NEW s \in Crawl(c)!SeedSet, s \notin visited'
            PROVE  s \in {crawlQueue'[j] : j \in 1 .. k - 1}
        <5>1. PICK j \in 1 .. k : s = crawlQueue[j] BY <1>2, <3>1, <4>4
        <5>2. j # 1 BY <1>2, <4>4, <5>1
        <5>3. j - 1 \in 1 .. k - 1 /\ j - 1 + 1 = j BY <5>2
        <5> QED BY <4>2, <5>1, <5>3
      <4>5. Crawl(c)!SeedSet \subseteq visited' \cup {crawlQueue'[j] : j \in 1 .. k - 1} BY <4>4
      <4> QED BY <3>4, <4>1, <4>3, <4>5 DEF Crawl!SeedsAhead
    <3> QED BY <3>5, <3>6
  <2> QED BY <2>1, <2>2
<1> QED BY <1>7, <1>10, <1>11, <1>12, <1>13 DEF Crawl!CrawlInv

LEMMA CrawlStep ==
    ASSUME NEW c, Crawl(c)!CrawlConstantsOK, Crawl(c)!CrawlInv, Crawl(c)!Next \/ UNCHANGED crawlVars
    PROVE  Crawl(c)!CrawlInv'
<1>1. CASE Crawl(c)!Fail \/ Crawl(c)!Done \/ UNCHANGED crawlVars
  <2>1. /\ UNCHANGED <<web, crawlQueue, visited, candidates>>
        /\ stage' \in {stage, "failed", "done"}
        /\ stage' = "done" => ~Crawl(c)!Going \/ stage = "done"
    BY <1>1 DEF Crawl!Fail, Crawl!Done, crawlVars
  <2>2. Crawl(c)!TypeOK /\ Crawl(c)!Scope /\ Crawl(c)!Kept /\ Crawl(c)!SeedsAhead
        /\ Crawl(c)!SeedSet \subseteq Crawl(c)!Met
    BY DEF Crawl!CrawlInv
  <2>3. Crawl(c)!Met' = Crawl(c)!Met /\ Crawl(c)!Reachable' = Crawl(c)!Reachable
        /\ Crawl(c)!Range(crawlQueue)' = Crawl(c)!Range(crawlQueue)
        /\ (Crawl(c)!Going <=> Crawl(c)!Going') /\ \A i : Crawl(c)!ChildrenOf(i)' = Crawl(c)!ChildrenOf(i)
    BY <2>1 DEF Crawl!Met, Crawl!Range, Crawl!Reachable, Crawl!Closed, Crawl!ChildrenOf, Crawl!Going
  <2>4. Crawl(c)!TypeOK' BY <2>1, <2>2 DEF Crawl!TypeOK
  <2>5. Crawl(c)!Scope' BY <2>1, <2>2, <2>3 DEF Crawl!Scope
  <2>6. Crawl(c)!Kept' BY <2>1, <2>2, <2>3 DEF Crawl!Kept
  <2>7. Crawl(c)!SeedsAhead' BY <2>1, <2>2 DEF Crawl!SeedsAhead
  <2> QED BY <2>2, <2>3, <2>4, <2>5, <2>6, <2>7 DEF Crawl!CrawlInv
<1> QED BY <1>1, VisitKeeps DEF Crawl!Next

\* What the invariant says of a crawl.
LEMMA CrawlKept ==
    ASSUME NEW c, Crawl(c)!CrawlConstantsOK, Crawl(c)!CrawlInv
    PROVE  /\ Crawl(c)!TypeOK /\ Crawl(c)!NothingMissed
           /\ Crawl(c)!SeedsFirst /\ Crawl(c)!StaysInScope
<1>1. Crawl(c)!TypeOK /\ Crawl(c)!Scope /\ Crawl(c)!Kept /\ Crawl(c)!SeedsAhead
      /\ Crawl(c)!SeedSet \subseteq Crawl(c)!Met
  BY DEF Crawl!CrawlInv
<1>2. Crawl(c)!SeedsFirst BY <1>1 DEF Crawl!SeedsAhead, Crawl!SeedsFirst
<1>3. Crawl(c)!StaysInScope
  BY <1>1 DEF Crawl!Scope, Crawl!StaysInScope, Crawl!Met, Crawl!Wanted, Crawl!Allowed
<1>4. Crawl(c)!NothingMissed
  <2> SUFFICES ASSUME stage = "done", Cardinality(visited) < c.maxIndex,
                      Cardinality(candidates) < c.maxPages
               PROVE  candidates = {p \in UNION {web[i].pages : i \in Crawl(c)!Reachable} :
                                       Crawl(c)!Allowed(p)}
    BY SameInCrawl DEF Crawl!NothingMissed
  <2>1. crawlQueue = <<>> BY <1>1, SameInCrawl DEF Crawl!Kept, Crawl!Going
  <2>2. Crawl(c)!Met = visited BY <2>1 DEF Crawl!Met, Crawl!Range
  <2>3. ~(Cardinality(visited) + Len(crawlQueue) >= 2 * c.maxIndex)
    BY <2>1, CrawlTyped, CrawlConstants
  <2>4. \A i \in visited : Crawl(c)!ChildrenOf(i) \subseteq visited
    BY <1>1, <2>2, <2>3, SameInCrawl DEF Crawl!Kept
  <2>5. visited \in SUBSET c.indexes /\ Crawl(c)!Closed(visited)
    BY <1>1, <2>2, <2>4, CrawlTyped DEF Crawl!Closed
  <2>6. Crawl(c)!Reachable = visited BY <1>1, <2>2, <2>5 DEF Crawl!Reachable, Crawl!Scope
  <2>7. \A i \in visited : \A p \in web[i].pages : Crawl(c)!Allowed(p) => p \in candidates
    BY <1>1, SameInCrawl, CrawlTyped, CrawlConstants DEF Crawl!Kept
  <2>8. \A p \in candidates : Crawl(c)!Allowed(p) BY <1>1 DEF Crawl!Scope
  <2>9. \A p \in candidates : \E i \in visited : p \in web[i].pages BY <1>1 DEF Crawl!Scope
  <2> QED BY <2>6, <2>7, <2>8, <2>9
<1> QED BY <1>1, <1>2, <1>3, <1>4

-----------------------------------------------------------------------------
(* The pool: every page is answered for, and a failure is no absence *)

LEMMA SameInPool ==
    ASSUME NEW c, NEW S
    PROVE  /\ Pool(c)!IsFiniteSet(S) <=> IsFiniteSet(S)
           /\ Pool(c)!Cardinality(S) = Cardinality(S)
<1>1. Pool(c)!IsFiniteSet(S) <=> IsFiniteSet(S) BY DEF IsFiniteSet, Pool!IsFiniteSet
<1>2. Pool(c)!Cardinality(S) = Cardinality(S) BY DEF Cardinality, Pool!Cardinality
<1> QED BY <1>1, <1>2

LEMMA PoolConstants ==
    ASSUME NEW c, Pool(c)!PoolConstantsOK
    PROVE  /\ c.pages \in Nat \ {0} /\ c.room \in Nat /\ IsFiniteSet(c.workers)
           /\ Pool(c)!NumWorkers = Cardinality(c.workers)
           /\ Pool(c)!NumWorkers \in Nat \ {0}
           /\ Pool(c)!Total = c.pages + Pool(c)!NumWorkers /\ Pool(c)!Total \in Nat
           /\ Pool(c)!Pages = 1 .. c.pages
<1>1. c.pages \in Nat \ {0} /\ c.room \in Nat BY DEF Pool!PoolConstantsOK
<1>2. IsFiniteSet(c.workers) BY SameInPool DEF Pool!PoolConstantsOK
<1>3. Pool(c)!NumWorkers = Cardinality(c.workers) BY SameInPool DEF Pool!NumWorkers
<1>4. Pool(c)!Pages = 1 .. c.pages BY DEF Pool!Pages
<1>5. Pool(c)!NumWorkers \in 1 .. c.pages BY <1>4 DEF Pool!PoolConstantsOK
<1>6. Pool(c)!Total = c.pages + Pool(c)!NumWorkers BY DEF Pool!Total
<1> QED BY <1>1, <1>2, <1>3, <1>4, <1>5, <1>6

LEMMA PoolTyped ==
    ASSUME NEW c, Pool(c)!PoolConstantsOK, Pool(c)!PoolInv
    PROVE  /\ put \in 0 .. Pool(c)!Total /\ producing \in BOOLEAN /\ taken \in 0 .. put
           /\ worker \in [c.workers -> Pool(c)!Worker]
           /\ \A w \in c.workers : /\ worker[w] \in Pool(c)!Worker
                                   /\ worker[w].at \in {"idle", "fetch", "put", "ended"}
                                   /\ worker[w].item \in Pool(c)!Item
                                   /\ worker[w].item.kind \in {"page", "error", "none"}
                                   /\ worker[w].item.page \in 0 .. c.pages
           /\ poolOutput \in Seq(Pool(c)!Item) /\ Len(poolOutput) \in Nat
           /\ DOMAIN poolOutput = 1 .. Len(poolOutput)
           /\ \A i \in 1 .. Len(poolOutput) : poolOutput[i] \in Pool(c)!Item
           /\ poolFinished \in 0 .. Pool(c)!NumWorkers
           /\ poolReceived \subseteq Pool(c)!Pages /\ failed \subseteq Pool(c)!Pages
           /\ poolReceived \cap failed = {}
           /\ IsFiniteSet(Pool(c)!Busy) /\ Cardinality(Pool(c)!Busy) \in Nat
           /\ IsFiniteSet(Pool(c)!Gone) /\ Cardinality(Pool(c)!Gone) \in 0 .. Pool(c)!NumWorkers
           /\ Cardinality(Pool(c)!Gone) = Pool(c)!NumWorkers => Pool(c)!Gone = c.workers
<1>1. Pool(c)!TypeOK BY DEF Pool!PoolInv
<1>2. poolOutput \in Seq(Pool(c)!Item) BY <1>1 DEF Pool!TypeOK
<1>3. \A w \in c.workers : /\ worker[w] \in Pool(c)!Worker
                           /\ worker[w].at \in {"idle", "fetch", "put", "ended"}
                           /\ worker[w].item \in Pool(c)!Item
                           /\ worker[w].item.kind \in {"page", "error", "none"}
                           /\ worker[w].item.page \in 0 .. c.pages
  BY <1>1 DEF Pool!TypeOK, Pool!Worker, Pool!Item
<1>4. Pool(c)!Busy \in SUBSET c.workers BY DEF Pool!Busy
<1>5. Pool(c)!Gone \in SUBSET c.workers BY DEF Pool!Gone
<1>6. IsFiniteSet(c.workers) BY PoolConstants
<1>7. IsFiniteSet(Pool(c)!Busy) BY <1>4, <1>6, FS_Subset
<1>8. /\ IsFiniteSet(Pool(c)!Gone) /\ Cardinality(Pool(c)!Gone) <= Cardinality(c.workers)
      /\ Cardinality(c.workers) = Cardinality(Pool(c)!Gone) => c.workers = Pool(c)!Gone
  BY <1>5, <1>6, FS_Subset
<1>9. Cardinality(Pool(c)!Busy) \in Nat /\ Cardinality(Pool(c)!Gone) \in Nat
  BY <1>7, <1>8, FS_CardinalityType
<1>10. /\ Cardinality(Pool(c)!Gone) \in 0 .. Pool(c)!NumWorkers
       /\ Cardinality(Pool(c)!Gone) = Pool(c)!NumWorkers => Pool(c)!Gone = c.workers
  BY <1>8, <1>9, PoolConstants
<1>11. /\ put \in 0 .. Pool(c)!Total /\ producing \in BOOLEAN /\ taken \in 0 .. put
       /\ worker \in [c.workers -> Pool(c)!Worker]
       /\ poolFinished \in 0 .. Pool(c)!NumWorkers
       /\ poolReceived \subseteq Pool(c)!Pages /\ failed \subseteq Pool(c)!Pages
       /\ poolReceived \cap failed = {}
  BY <1>1 DEF Pool!TypeOK
<1> QED BY <1>2, <1>3, <1>7, <1>9, <1>10, <1>8, <1>11

\* The Nones that are counted or wait.
LEMMA NonesOf ==
    ASSUME NEW c, poolOutput \in Seq(Pool(c)!Item), poolFinished \in Nat
    PROVE  /\ Pool(c)!Nones = poolFinished
                + Cardinality({i \in 1 .. Len(poolOutput) :
                                  poolOutput[i] \in {x \in Pool(c)!Item : x.kind = "none"}})
           /\ Pool(c)!Nones \in Nat /\ Pool(c)!Nones >= poolFinished
           /\ Pool(c)!Nones = poolFinished
                => \A i \in 1 .. Len(poolOutput) : poolOutput[i].kind # "none"
<1> DEFINE K == {x \in Pool(c)!Item : x.kind = "none"}
           X == {i \in 1 .. Len(poolOutput) : poolOutput[i] \in K}
<1>1. Pool(c)!NonesIn(poolOutput) = X BY DEF Pool!NonesIn
<1>2. \A i \in 1 .. Len(poolOutput) : poolOutput[i] \notin K => poolOutput[i].kind # "none"
  OBVIOUS
<1> HIDE DEF K
<1>3. Cardinality(X) \in Nat /\ (Cardinality(X) = 0 => \A i \in 1 .. Len(poolOutput) : poolOutput[i] \notin K)
  BY CountOf
<1>4. Pool(c)!Nones = poolFinished + Cardinality(X) BY <1>1, SameInPool DEF Pool!Nones
<1> HIDE DEF X
<1>5. /\ Pool(c)!Nones \in Nat /\ Pool(c)!Nones >= poolFinished
      /\ Pool(c)!Nones = poolFinished => Cardinality(X) = 0
  BY <1>3, <1>4
<1> QED BY <1>2, <1>3, <1>4, <1>5 DEF X, K

LEMMA NonesPut ==
    ASSUME NEW c, poolOutput \in Seq(Pool(c)!Item), poolFinished \in Nat, NEW x \in Pool(c)!Item,
           poolOutput' = Append(poolOutput, x), poolFinished' = poolFinished
    PROVE  /\ x.kind = "none" => Pool(c)!Nones' = Pool(c)!Nones + 1
           /\ x.kind # "none" => Pool(c)!Nones' = Pool(c)!Nones
<1>0. PICK t : t = Append(poolOutput, x) /\ t = poolOutput' OBVIOUS
<1> DEFINE K == {y \in Pool(c)!Item : y.kind = "none"}
           n == Cardinality({i \in 1 .. Len(poolOutput) : poolOutput[i] \in K})
           m == Cardinality({i \in 1 .. Len(t) : t[i] \in K})
<1>1. (x.kind = "none" => x \in K) /\ (x.kind # "none" => x \notin K) OBVIOUS
<1>2. Pool(c)!NonesIn(poolOutput) = {i \in 1 .. Len(poolOutput) : poolOutput[i] \in K}
  BY DEF Pool!NonesIn
<1>3. Pool(c)!NonesIn(poolOutput)'
        = {i \in 1 .. Len(t) : t[i] \in K}
  BY <1>0 DEF Pool!NonesIn
<1>4. Pool(c)!Nones = poolFinished + n BY <1>2, SameInPool DEF Pool!Nones
<1>5. Pool(c)!Nones' = poolFinished + m BY <1>3, SameInPool DEF Pool!Nones
<1> HIDE DEF K
<1>6. (x \in K => m = n + 1) /\ (x \notin K => m = n) BY <1>0, CountAppended
<1>7. n \in Nat BY CountOf
<1> HIDE DEF n, m
<1> QED BY <1>1, <1>4, <1>5, <1>6, <1>7

LEMMA NonesGot ==
    ASSUME NEW c, poolOutput \in Seq(Pool(c)!Item), poolFinished \in Nat, poolOutput # <<>>,
           poolOutput' = Tail(poolOutput),
           poolOutput[1].kind = "none" => poolFinished' = poolFinished + 1,
           poolOutput[1].kind # "none" => poolFinished' = poolFinished
    PROVE  Pool(c)!Nones' = Pool(c)!Nones
<1>0. PICK t : t = Tail(poolOutput) /\ t = poolOutput' OBVIOUS
<1> DEFINE K == {y \in Pool(c)!Item : y.kind = "none"}
           n == Cardinality({i \in 1 .. Len(poolOutput) : poolOutput[i] \in K})
           m == Cardinality({i \in 1 .. Len(t) : t[i] \in K})
<1>1. /\ poolOutput[1].kind = "none" => poolOutput[1] \in K
      /\ poolOutput[1].kind # "none" => poolOutput[1] \notin K
  BY Tailed
<1>2. Pool(c)!NonesIn(poolOutput) = {i \in 1 .. Len(poolOutput) : poolOutput[i] \in K}
  BY DEF Pool!NonesIn
<1>3. Pool(c)!NonesIn(poolOutput)' = {i \in 1 .. Len(t) : t[i] \in K}
  <2>1. t \in Seq(Pool(c)!Item) BY <1>0, Tailed
  <2> QED BY <1>0, <2>1 DEF Pool!NonesIn
<1>4. Pool(c)!Nones = poolFinished + n BY <1>2, SameInPool DEF Pool!Nones
<1>5. Pool(c)!Nones' = poolFinished' + m BY <1>3, SameInPool DEF Pool!Nones
<1> HIDE DEF K
<1>6. (poolOutput[1] \in K => n = m + 1) /\ (poolOutput[1] \notin K => n = m) BY <1>0, CountTailed
<1>7. m \in Nat
  <2>1. t \in Seq(Pool(c)!Item) BY <1>0, Tailed
  <2> QED BY <2>1, CountOf
<1> HIDE DEF n, m
<1> QED BY <1>1, <1>4, <1>5, <1>6, <1>7

LEMMA PoolInit ==
    ASSUME NEW c, Pool(c)!PoolConstantsOK, Pool(c)!Init PROVE Pool(c)!PoolInv
<1>1. /\ put = Pool(c)!Filled(0) /\ producing = (put < Pool(c)!Total) /\ taken = 0
      /\ worker = [w \in c.workers |-> [at |-> "idle", item |-> Pool(c)!Nothing]]
      /\ poolOutput = <<>> /\ poolConsumer = "waiting" /\ outcome = "none" /\ poolFinished = 0
      /\ poolReceived = {} /\ failed = {}
  BY DEF Pool!Init
<1>2. Pool(c)!Nothing.kind = "none" /\ Pool(c)!Nothing \in Pool(c)!Item
  BY PoolConstants DEF Pool!Nothing, Pool!Item
<1>3. worker \in [c.workers -> Pool(c)!Worker] BY <1>1, <1>2 DEF Pool!Worker
<1>4. \A w \in c.workers : worker[w].at = "idle" /\ worker[w].item.kind = "none" BY <1>1, <1>2
<1>5. Len(poolOutput) = 0 /\ DOMAIN poolOutput = {} /\ poolOutput \in Seq(Pool(c)!Item) BY <1>1
<1>6. put \in 0 .. Pool(c)!Total /\ (c.room > 0 => put - taken <= c.room)
  BY <1>1, PoolConstants DEF Pool!Filled
<1>7. Pool(c)!TypeOK BY <1>1, <1>3, <1>5, <1>6, PoolConstants DEF Pool!TypeOK
<1>8. Pool(c)!Named BY <1>4, <1>5 DEF Pool!Named
<1>9. Pool(c)!Busy = {} BY <1>4 DEF Pool!Busy
<1>10. Pool(c)!OnePlace BY <1>1, <1>5, <1>9 DEF Pool!OnePlace, Pool!InHand
<1>11. Pool(c)!Nones = 0
  <2>1. Pool(c)!NonesIn(poolOutput) = {} BY <1>5 DEF Pool!NonesIn
  <2>2. Pool(c)!Cardinality({}) = 0 BY FS_EmptySet, SameInPool
  <2>3. Pool(c)!Cardinality(Pool(c)!NonesIn(poolOutput)) = 0 BY <2>1, <2>2, Zenon
  <2> QED BY <1>1, <2>3 DEF Pool!Nones
<1>12. Pool(c)!Gone \in SUBSET c.workers BY DEF Pool!Gone
<1>13. Cardinality(Pool(c)!Gone) \in Nat
  <2>1. IsFiniteSet(Pool(c)!Gone) BY <1>12, PoolConstants, FS_Subset
  <2> QED BY <2>1, FS_CardinalityType
<1>14. Pool(c)!AllThere
  BY <1>1, <1>4, <1>11, <1>13, PoolConstants, SameInPool DEF Pool!AllThere, Pool!Pages
<1>15. Len(poolOutput) + Pool(c)!Cardinality(Pool(c)!Busy) <= taken
  BY <1>1, <1>5, <1>9, FS_EmptySet, SameInPool
<1> QED BY <1>1, <1>7, <1>8, <1>10, <1>14, <1>15 DEF Pool!PoolInv

\* What a step of one subworker changes.
LEMMA WorkerStep ==
    ASSUME NEW c, Pool(c)!PoolConstantsOK, Pool(c)!PoolInv, NEW w \in c.workers,
           NEW x \in Pool(c)!Worker, worker' = [worker EXCEPT ![w] = x]
    PROVE  /\ worker' \in [c.workers -> Pool(c)!Worker] /\ worker'[w] = x
           /\ \A v \in c.workers : v # w => worker'[v] = worker[v]
           /\ \A v \in c.workers : \A p : v # w => (Pool(c)!InHand(v, p)' <=> Pool(c)!InHand(v, p))
           /\ \A p : Pool(c)!InHand(w, p)' <=> /\ x.at \in {"fetch", "put"}
                                               /\ x.item.kind # "none" /\ x.item.page = p
           /\ \A p : Pool(c)!InHand(w, p) <=> /\ worker[w].at \in {"fetch", "put"}
                                              /\ worker[w].item.kind # "none"
                                              /\ worker[w].item.page = p
           /\ worker[w].at \notin {"fetch", "put"} /\ x.at \in {"fetch", "put"} =>
                 Cardinality(Pool(c)!Busy') = Cardinality(Pool(c)!Busy) + 1
           /\ worker[w].at \in {"fetch", "put"} /\ x.at \notin {"fetch", "put"} =>
                 Cardinality(Pool(c)!Busy') = Cardinality(Pool(c)!Busy) - 1
           /\ worker[w].at \in {"fetch", "put"} /\ x.at \in {"fetch", "put"} =>
                 Pool(c)!Busy' = Pool(c)!Busy
           /\ worker[w].at # "ended" /\ x.at = "ended" =>
                 Cardinality(Pool(c)!Gone') = Cardinality(Pool(c)!Gone) + 1
           /\ worker[w].at # "ended" /\ x.at # "ended" => Pool(c)!Gone' = Pool(c)!Gone
<1>1. worker \in [c.workers -> Pool(c)!Worker] BY PoolTyped
<1>2. /\ worker' \in [c.workers -> Pool(c)!Worker] /\ worker'[w] = x
      /\ \A v \in c.workers : v # w => worker'[v] = worker[v]
  BY <1>1
<1>3. \A v \in c.workers : \A p : v # w => (Pool(c)!InHand(v, p)' <=> Pool(c)!InHand(v, p))
  BY <1>2 DEF Pool!InHand, Pool!Busy
<1>4. /\ \A p : Pool(c)!InHand(w, p)' <=> /\ x.at \in {"fetch", "put"}
                                          /\ x.item.kind # "none" /\ x.item.page = p
      /\ \A p : Pool(c)!InHand(w, p) <=> /\ worker[w].at \in {"fetch", "put"}
                                         /\ worker[w].item.kind # "none"
                                         /\ worker[w].item.page = p
  BY <1>2 DEF Pool!InHand, Pool!Busy
<1>5. IsFiniteSet(Pool(c)!Busy) /\ IsFiniteSet(Pool(c)!Gone) BY PoolTyped
<1>6. Cardinality(Pool(c)!Busy \cup {w})
        = IF w \in Pool(c)!Busy THEN Cardinality(Pool(c)!Busy) ELSE Cardinality(Pool(c)!Busy) + 1
  BY <1>5, FS_AddElement
<1>7. Cardinality(Pool(c)!Busy \ {w})
        = IF w \in Pool(c)!Busy THEN Cardinality(Pool(c)!Busy) - 1 ELSE Cardinality(Pool(c)!Busy)
  BY <1>5, FS_RemoveElement
<1>8. Cardinality(Pool(c)!Gone \cup {w})
        = IF w \in Pool(c)!Gone THEN Cardinality(Pool(c)!Gone) ELSE Cardinality(Pool(c)!Gone) + 1
  BY <1>5, FS_AddElement
<1>9. /\ worker[w].at \in {"fetch", "put"} <=> w \in Pool(c)!Busy
      /\ worker[w].at = "ended" <=> w \in Pool(c)!Gone
  BY DEF Pool!Busy, Pool!Gone
<1>10. /\ x.at \in {"fetch", "put"} => Pool(c)!Busy' = Pool(c)!Busy \cup {w}
       /\ x.at \notin {"fetch", "put"} => Pool(c)!Busy' = Pool(c)!Busy \ {w}
  BY <1>2 DEF Pool!Busy
<1>11. /\ x.at = "ended" => Pool(c)!Gone' = Pool(c)!Gone \cup {w}
       /\ x.at # "ended" => Pool(c)!Gone' = Pool(c)!Gone \ {w}
  BY <1>2 DEF Pool!Gone
<1>12. /\ w \in Pool(c)!Busy => Pool(c)!Busy \cup {w} = Pool(c)!Busy
       /\ w \notin Pool(c)!Gone => Pool(c)!Gone \ {w} = Pool(c)!Gone
  OBVIOUS
<1>13. /\ worker[w].at \notin {"fetch", "put"} /\ x.at \in {"fetch", "put"} =>
             Cardinality(Pool(c)!Busy') = Cardinality(Pool(c)!Busy) + 1
       /\ worker[w].at \in {"fetch", "put"} /\ x.at \notin {"fetch", "put"} =>
             Cardinality(Pool(c)!Busy') = Cardinality(Pool(c)!Busy) - 1
       /\ worker[w].at \in {"fetch", "put"} /\ x.at \in {"fetch", "put"} =>
             Pool(c)!Busy' = Pool(c)!Busy
  BY <1>6, <1>7, <1>9, <1>10, <1>12, Zenon
<1>14. /\ worker[w].at # "ended" /\ x.at = "ended" =>
             Cardinality(Pool(c)!Gone') = Cardinality(Pool(c)!Gone) + 1
       /\ worker[w].at # "ended" /\ x.at # "ended" => Pool(c)!Gone' = Pool(c)!Gone
  BY <1>8, <1>9, <1>11, <1>12, Zenon
<1> QED BY <1>2, <1>3, <1>4, <1>13, <1>14

\* What the places of pages are.
LEMMA PoolPlaces ==
    ASSUME NEW c, Pool(c)!PoolConstantsOK, Pool(c)!PoolInv, NEW p \in Pool(c)!Pages
    PROVE  /\ p > taken => p \notin poolReceived \cup failed
           /\ \A v \in c.workers : Pool(c)!InHand(v, p) =>
                 /\ p <= taken /\ p \notin poolReceived \cup failed
                 /\ \A i \in 1 .. Len(poolOutput) : ~Pool(c)!Waits(i, p)
                 /\ \A u \in c.workers : Pool(c)!InHand(u, p) => u = v
           /\ \A i \in 1 .. Len(poolOutput) : Pool(c)!Waits(i, p) =>
                 /\ p <= taken /\ p \notin poolReceived \cup failed
                 /\ \A j \in 1 .. Len(poolOutput) : Pool(c)!Waits(j, p) => j = i
<1>1. DOMAIN poolOutput = 1 .. Len(poolOutput) BY PoolTyped
<1>2. Pool(c)!OnePlace BY DEF Pool!PoolInv
<1> QED BY <1>1, <1>2 DEF Pool!OnePlace

\* The parts of the invariant that steps of a subworker have in common.
LEMMA PoolParts ==
    ASSUME NEW c, Pool(c)!PoolConstantsOK, Pool(c)!PoolInv
    PROVE  /\ Pool(c)!Named /\ Len(poolOutput) + Cardinality(Pool(c)!Busy) <= taken
           /\ c.room > 0 => put - taken <= c.room /\ Len(poolOutput) <= c.room
           /\ producing => put < Pool(c)!Total
           /\ outcome = "none" <=> poolConsumer # "ended"
           /\ outcome \in {"ok", "error"} => poolFinished = Pool(c)!NumWorkers
           /\ outcome = "ok" => ~Pool(c)!Failing(poolReceived, failed)
           /\ poolConsumer \in {"waiting", "yield", "closing", "ended"}
           /\ outcome \in {"none", "ok", "error", "canceled"}
           /\ ~Pool(c)!Canceled =>
                 /\ \A p \in Pool(c)!Pages : p <= taken =>
                       \/ p \in poolReceived \cup failed
                       \/ \E v \in c.workers : Pool(c)!InHand(v, p)
                       \/ \E i \in 1 .. Len(poolOutput) : Pool(c)!Waits(i, p)
                 /\ Pool(c)!Nones <= Cardinality(Pool(c)!Gone)
                 /\ Pool(c)!Nones > 0 => taken > c.pages
                 /\ \A v \in c.workers :
                       worker[v].at = "put" /\ worker[v].item.kind = "none" => taken > c.pages
                 /\ Pool(c)!Nones = Pool(c)!NumWorkers /\ poolOutput # <<>> =>
                       poolOutput[Len(poolOutput)].kind = "none"
<1>1. Pool(c)!TypeOK /\ (~Pool(c)!Canceled => Pool(c)!AllThere) BY DEF Pool!PoolInv
<1>2. DOMAIN poolOutput = 1 .. Len(poolOutput) BY PoolTyped
<1>3. /\ c.room > 0 => put - taken <= c.room /\ Len(poolOutput) <= c.room
      /\ poolConsumer \in {"waiting", "yield", "closing", "ended"}
      /\ outcome \in {"none", "ok", "error", "canceled"}
  BY <1>1 DEF Pool!TypeOK
<1>4. /\ Pool(c)!Named /\ Len(poolOutput) + Cardinality(Pool(c)!Busy) <= taken
      /\ producing => put < Pool(c)!Total
      /\ outcome = "none" <=> poolConsumer # "ended"
      /\ outcome \in {"ok", "error"} => poolFinished = Pool(c)!NumWorkers
      /\ outcome = "ok" => ~Pool(c)!Failing(poolReceived, failed)
  BY SameInPool DEF Pool!PoolInv
<1>5. ~Pool(c)!Canceled =>
         /\ \A p \in Pool(c)!Pages : p <= taken =>
               \/ p \in poolReceived \cup failed
               \/ \E v \in c.workers : Pool(c)!InHand(v, p)
               \/ \E i \in 1 .. Len(poolOutput) : Pool(c)!Waits(i, p)
         /\ Pool(c)!Nones <= Cardinality(Pool(c)!Gone)
         /\ Pool(c)!Nones > 0 => taken > c.pages
         /\ \A v \in c.workers :
               worker[v].at = "put" /\ worker[v].item.kind = "none" => taken > c.pages
         /\ Pool(c)!Nones = Pool(c)!NumWorkers /\ poolOutput # <<>> =>
               poolOutput[Len(poolOutput)].kind = "none"
  BY <1>1, <1>2, SameInPool DEF Pool!AllThere
<1> QED BY <1>3, <1>4, <1>5

LEMMA PoolAgain ==
    ASSUME NEW c, Pool(c)!PoolConstantsOK,
           put' \in 0 .. Pool(c)!Total, producing' \in BOOLEAN, taken' \in 0 .. put',
           worker' \in [c.workers -> Pool(c)!Worker], poolOutput' \in Seq(Pool(c)!Item),
           poolFinished' \in 0 .. Pool(c)!NumWorkers,
           poolReceived' \subseteq Pool(c)!Pages, failed' \subseteq Pool(c)!Pages,
           poolReceived' \cap failed' = {},
           c.room > 0 => put' - taken' <= c.room /\ Len(poolOutput') <= c.room,
           poolConsumer' \in {"waiting", "yield", "closing", "ended"},
           outcome' \in {"none", "ok", "error", "canceled"},
           \A v \in c.workers : /\ worker'[v].at = "fetch" => worker'[v].item.kind = "page"
                                /\ worker'[v].item.kind # "none" =>
                                      worker'[v].item.page \in Pool(c)!Pages,
           \A i \in 1 .. Len(poolOutput') :
              poolOutput'[i].kind # "none" => poolOutput'[i].page \in Pool(c)!Pages,
           \A p \in Pool(c)!Pages :
              /\ p > taken' => p \notin poolReceived' \cup failed'
              /\ \A v \in c.workers : Pool(c)!InHand(v, p)' =>
                    /\ p <= taken' /\ p \notin poolReceived' \cup failed'
                    /\ \A i \in 1 .. Len(poolOutput') : ~Pool(c)!Waits(i, p)'
                    /\ \A u \in c.workers : Pool(c)!InHand(u, p)' => u = v
              /\ \A i \in 1 .. Len(poolOutput') : Pool(c)!Waits(i, p)' =>
                    /\ p <= taken' /\ p \notin poolReceived' \cup failed'
                    /\ \A j \in 1 .. Len(poolOutput') : Pool(c)!Waits(j, p)' => j = i,
           Len(poolOutput') + Cardinality(Pool(c)!Busy') <= taken',
           producing' => put' < Pool(c)!Total,
           outcome' = "none" <=> poolConsumer' # "ended",
           outcome' \in {"ok", "error"} => poolFinished' = Pool(c)!NumWorkers,
           outcome' = "ok" => ~Pool(c)!Failing(poolReceived', failed'),
           ~Pool(c)!Canceled' =>
              /\ \A p \in Pool(c)!Pages : p <= taken' =>
                    \/ p \in poolReceived' \cup failed'
                    \/ \E v \in c.workers : Pool(c)!InHand(v, p)'
                    \/ \E i \in 1 .. Len(poolOutput') : Pool(c)!Waits(i, p)'
              /\ Pool(c)!Nones' <= Cardinality(Pool(c)!Gone')
              /\ Pool(c)!Nones' > 0 => taken' > c.pages
              /\ \A v \in c.workers :
                    worker'[v].at = "put" /\ worker'[v].item.kind = "none" => taken' > c.pages
              /\ Pool(c)!Nones' = Pool(c)!NumWorkers /\ poolOutput' # <<>> =>
                    poolOutput'[Len(poolOutput')].kind = "none"
    PROVE  Pool(c)!PoolInv'
<1>1. DOMAIN poolOutput' = 1 .. Len(poolOutput') /\ Len(poolOutput') \in Nat OBVIOUS
<1>2. Len(poolOutput') <= Pool(c)!Total
  <2>1. Pool(c)!Busy' \subseteq c.workers BY DEF Pool!Busy
  <2>2. IsFiniteSet(Pool(c)!Busy') BY <2>1, PoolConstants, FS_Subset
  <2>3. Cardinality(Pool(c)!Busy') \in Nat BY <2>2, FS_CardinalityType
  <2> QED BY <1>1, <2>3, PoolConstants
<1>3. Pool(c)!TypeOK' BY <1>2 DEF Pool!TypeOK
<1>4. Pool(c)!Named' BY <1>1 DEF Pool!Named
<1>5. Pool(c)!OnePlace' BY <1>1 DEF Pool!OnePlace
<1>6. ~Pool(c)!Canceled' => Pool(c)!AllThere'
  <2> SUFFICES ASSUME ~Pool(c)!Canceled' PROVE Pool(c)!AllThere' OBVIOUS
  <2>1. /\ Pool(c)!Nones' <= Pool(c)!Cardinality(Pool(c)!Gone)'
        /\ Pool(c)!Nones' > 0 \/ (\E v \in c.workers : worker'[v].at = "put" /\ worker'[v].item.kind = "none")
              => taken' > c.pages
        /\ Pool(c)!Nones' = Pool(c)!NumWorkers /\ poolOutput' # <<>> =>
              poolOutput'[Len(poolOutput')].kind = "none"
    BY SameInPool
  <2>2. \A p \in Pool(c)!Pages : p <= taken' =>
          \/ p \in poolReceived' \cup failed'
          \/ \E v \in c.workers : Pool(c)!InHand(v, p)'
          \/ \E i \in DOMAIN poolOutput' : Pool(c)!Waits(i, p)'
    BY <1>1
  <2> QED BY <2>1, <2>2 DEF Pool!AllThere, Pool!NumWorkers
<1>7. Len(poolOutput') + Pool(c)!Cardinality(Pool(c)!Busy)' <= taken' BY SameInPool
<1> QED BY <1>3, <1>4, <1>5, <1>6, <1>7 DEF Pool!PoolInv, Pool!NumWorkers

\* A subworker gets an entry.
LEMMA TakeKeeps ==
    ASSUME NEW c, Pool(c)!PoolConstantsOK, Pool(c)!PoolInv, NEW w \in c.workers, Pool(c)!Take(w)
    PROVE  Pool(c)!PoolInv'
<1>0. PICK x : x = IF taken + 1 <= c.pages
                   THEN [at |-> "fetch", item |-> [kind |-> "page", page |-> taken + 1]]
                   ELSE [at |-> "put", item |-> Pool(c)!Nothing]
  OBVIOUS
<1>1. /\ worker[w].at = "idle" /\ taken < put /\ taken' = taken + 1
      /\ worker' = [worker EXCEPT ![w] = x]
      /\ UNCHANGED <<put, producing, poolOutput, poolConsumer, outcome, poolFinished, poolReceived, failed>>
  BY <1>0 DEF Pool!Take
<1>2. taken \in Nat /\ taken' \in 0 .. put' /\ put \in 0 .. Pool(c)!Total BY <1>1, PoolTyped, PoolConstants
<1>3. /\ Pool(c)!Nothing.kind = "none" /\ Pool(c)!Nothing \in Pool(c)!Item
      /\ (taken + 1 <= c.pages => [kind |-> "page", page |-> taken + 1] \in Pool(c)!Item)
  BY <1>2, PoolConstants DEF Pool!Nothing, Pool!Item
<1>4. /\ x \in Pool(c)!Worker /\ x.at \in {"fetch", "put"}
      /\ x.at = "fetch" => x.item.kind = "page"
      /\ x.item.kind # "none" => x.item.page = taken + 1 /\ taken + 1 \in Pool(c)!Pages
      /\ taken + 1 <= c.pages => x.item.kind # "none" /\ x.item.page = taken + 1
      /\ x.at = "put" => taken + 1 > c.pages
  BY <1>0, <1>2, <1>3, PoolConstants DEF Pool!Worker
<1>5. /\ worker' \in [c.workers -> Pool(c)!Worker] /\ worker'[w] = x
      /\ \A v \in c.workers : v # w => worker'[v] = worker[v]
      /\ \A v \in c.workers : \A p : v # w => (Pool(c)!InHand(v, p)' <=> Pool(c)!InHand(v, p))
      /\ \A p : Pool(c)!InHand(w, p)' <=> x.item.kind # "none" /\ x.item.page = p
      /\ \A p : ~Pool(c)!InHand(w, p)
      /\ Cardinality(Pool(c)!Busy') = Cardinality(Pool(c)!Busy) + 1
      /\ Pool(c)!Gone' = Pool(c)!Gone
  <2>1. x \in Pool(c)!Worker /\ worker' = [worker EXCEPT ![w] = x] BY <1>1, <1>4
  <2>2. /\ worker[w].at \notin {"fetch", "put"} /\ worker[w].at # "ended"
        /\ x.at \in {"fetch", "put"} /\ x.at # "ended"
    BY <1>1, <1>4
  <2>3. /\ worker' \in [c.workers -> Pool(c)!Worker] /\ worker'[w] = x
        /\ \A v \in c.workers : v # w => worker'[v] = worker[v]
        /\ \A v \in c.workers : \A p : v # w => (Pool(c)!InHand(v, p)' <=> Pool(c)!InHand(v, p))
    BY <2>1, WorkerStep
  <2>4. /\ \A p : Pool(c)!InHand(w, p)' <=> x.item.kind # "none" /\ x.item.page = p
        /\ \A p : ~Pool(c)!InHand(w, p)
    <3>1. \A p : Pool(c)!InHand(w, p)' <=> /\ x.at \in {"fetch", "put"}
                                           /\ x.item.kind # "none" /\ x.item.page = p
      BY <2>3 DEF Pool!InHand, Pool!Busy
    <3>2. \A p : Pool(c)!InHand(w, p) <=> /\ worker[w].at \in {"fetch", "put"}
                                          /\ worker[w].item.kind # "none"
                                          /\ worker[w].item.page = p
      BY <2>1, WorkerStep
    <3> QED BY <2>2, <3>1, <3>2
  <2>5. /\ Cardinality(Pool(c)!Busy') = Cardinality(Pool(c)!Busy) + 1
        /\ Pool(c)!Gone' = Pool(c)!Gone
    BY <2>1, <2>2, WorkerStep
  <2> QED BY <2>3, <2>4, <2>5
<1>6. \A i, p : Pool(c)!Waits(i, p)' <=> Pool(c)!Waits(i, p) BY <1>1 DEF Pool!Waits
<1>7. Pool(c)!Nones' = Pool(c)!Nones /\ (Pool(c)!Canceled' <=> Pool(c)!Canceled)
  BY <1>1 DEF Pool!Nones, Pool!NonesIn, Pool!Canceled
<1>8. ASSUME NEW p \in Pool(c)!Pages
      PROVE  /\ p > taken' => p \notin poolReceived' \cup failed'
             /\ \A v \in c.workers : Pool(c)!InHand(v, p)' =>
                   /\ p <= taken' /\ p \notin poolReceived' \cup failed'
                   /\ \A i \in 1 .. Len(poolOutput') : ~Pool(c)!Waits(i, p)'
                   /\ \A u \in c.workers : Pool(c)!InHand(u, p)' => u = v
             /\ \A i \in 1 .. Len(poolOutput') : Pool(c)!Waits(i, p)' =>
                   /\ p <= taken' /\ p \notin poolReceived' \cup failed'
                   /\ \A j \in 1 .. Len(poolOutput') : Pool(c)!Waits(j, p)' => j = i
  <2>1. p \in Nat /\ Pool(c)!InHand(w, p)' => p > taken /\ p <= taken'
    BY <1>1, <1>2, <1>4, <1>5
  <2>2. p \in Nat BY PoolConstants
  <2>3. p > taken' => p > taken BY <1>1, <1>2, <2>2
  <2>4. p <= taken => ~(p > taken) /\ p <= taken' BY <1>1, <1>2, <2>2
  <2> QED BY <1>1, <1>5, <1>6, <2>1, <2>2, <2>3, <2>4, PoolPlaces
<1>9. ~Pool(c)!Canceled' =>
         /\ \A p \in Pool(c)!Pages : p <= taken' =>
               \/ p \in poolReceived' \cup failed'
               \/ \E v \in c.workers : Pool(c)!InHand(v, p)'
               \/ \E i \in 1 .. Len(poolOutput') : Pool(c)!Waits(i, p)'
         /\ Pool(c)!Nones' <= Cardinality(Pool(c)!Gone')
         /\ Pool(c)!Nones' > 0 => taken' > c.pages
         /\ \A v \in c.workers :
               worker'[v].at = "put" /\ worker'[v].item.kind = "none" => taken' > c.pages
         /\ Pool(c)!Nones' = Pool(c)!NumWorkers /\ poolOutput' # <<>> =>
               poolOutput'[Len(poolOutput')].kind = "none"
  <2> SUFFICES ASSUME ~Pool(c)!Canceled
               PROVE  /\ \A p \in Pool(c)!Pages : p <= taken' =>
                            \/ p \in poolReceived \cup failed
                            \/ \E v \in c.workers : Pool(c)!InHand(v, p)'
                            \/ \E i \in 1 .. Len(poolOutput) : Pool(c)!Waits(i, p)
                      /\ Pool(c)!Nones > 0 => taken' > c.pages
                      /\ \A v \in c.workers :
                            worker'[v].at = "put" /\ worker'[v].item.kind = "none" => taken' > c.pages
    BY <1>1, <1>5, <1>6, <1>7, PoolParts
  <2>1. taken > c.pages => taken' > c.pages BY <1>1, <1>2, PoolConstants
  <2>2. ASSUME NEW p \in Pool(c)!Pages, p <= taken'
        PROVE  \/ p \in poolReceived \cup failed
               \/ \E v \in c.workers : Pool(c)!InHand(v, p)'
               \/ \E i \in 1 .. Len(poolOutput) : Pool(c)!Waits(i, p)
    <3>1. p \in Nat /\ p <= c.pages BY PoolConstants
    <3>2. CASE p = taken + 1
      <4>1. taken + 1 <= c.pages BY <3>1, <3>2
      <4>2. Pool(c)!InHand(w, p)' BY <1>4, <1>5, <3>2, <4>1
      <4> QED BY <4>2
    <3>3. CASE p # taken + 1
      <4>1. p <= taken BY <1>1, <1>2, <2>2, <3>1, <3>3
      <4> QED BY <1>5, <4>1, PoolParts
    <3> QED BY <3>2, <3>3
  <2>3. ASSUME NEW v \in c.workers, worker'[v].at = "put" /\ worker'[v].item.kind = "none"
        PROVE  taken' > c.pages
    <3>1. CASE v = w BY <1>1, <1>4, <1>5, <2>3, <3>1
    <3>2. CASE v # w BY <1>5, <2>1, <2>3, <3>2, PoolParts
    <3> QED BY <3>1, <3>2
  <2> QED BY <2>1, <2>2, <2>3, PoolParts
<1>10. /\ \A v \in c.workers : /\ worker'[v].at = "fetch" => worker'[v].item.kind = "page"
                               /\ worker'[v].item.kind # "none" =>
                                     worker'[v].item.page \in Pool(c)!Pages
       /\ \A i \in 1 .. Len(poolOutput') :
             poolOutput'[i].kind # "none" => poolOutput'[i].page \in Pool(c)!Pages
  <2>1. DOMAIN poolOutput = 1 .. Len(poolOutput) /\ Pool(c)!Named BY PoolTyped, PoolParts
  <2> QED BY <1>1, <1>4, <1>5, <2>1 DEF Pool!Named
<1>11. /\ c.room > 0 => put' - taken' <= c.room /\ Len(poolOutput') <= c.room
       /\ Len(poolOutput') + Cardinality(Pool(c)!Busy') <= taken'
  <2> DEFINE busy == Cardinality(Pool(c)!Busy)
  <2>1. busy \in Nat /\ Len(poolOutput) \in Nat /\ Len(poolOutput) + busy <= taken
    BY PoolTyped, PoolParts
  <2>2. Cardinality(Pool(c)!Busy') = busy + 1 BY <1>5
  <2>3. c.room > 0 => put - taken <= c.room /\ Len(poolOutput) <= c.room BY PoolParts
  <2> HIDE DEF busy
  <2> QED BY <1>1, <1>2, <2>1, <2>2, <2>3, PoolConstants
<1>12. /\ put' \in 0 .. Pool(c)!Total /\ producing' \in BOOLEAN /\ poolOutput' \in Seq(Pool(c)!Item)
       /\ poolFinished' \in 0 .. Pool(c)!NumWorkers
       /\ poolReceived' \subseteq Pool(c)!Pages /\ failed' \subseteq Pool(c)!Pages
       /\ poolReceived' \cap failed' = {}
  BY <1>1, PoolTyped
<1>13. /\ poolConsumer' \in {"waiting", "yield", "closing", "ended"}
       /\ outcome' \in {"none", "ok", "error", "canceled"}
       /\ producing' => put' < Pool(c)!Total
       /\ outcome' = "none" <=> poolConsumer' # "ended"
       /\ outcome' \in {"ok", "error"} => poolFinished' = Pool(c)!NumWorkers
       /\ outcome' = "ok" => ~Pool(c)!Failing(poolReceived', failed')
  BY <1>1, PoolParts
<1> QED BY <1>2, <1>5, <1>8, <1>9, <1>10, <1>11, <1>12, <1>13, PoolAgain

\* A request of a page ends.
LEMMA FetchedKeeps ==
    ASSUME NEW c, Pool(c)!PoolConstantsOK, Pool(c)!PoolInv, NEW w \in c.workers,
           NEW kind, Pool(c)!Fetched(w, kind)
    PROVE  Pool(c)!PoolInv'
<1>0. PICK x : x = [at |-> "put", item |-> [worker[w].item EXCEPT !.kind = kind]] OBVIOUS
<1>1. /\ worker[w].at = "fetch" /\ kind \in {"page", "error"}
      /\ worker' = [worker EXCEPT ![w] = x]
      /\ UNCHANGED <<put, producing, taken, poolOutput, poolConsumer, outcome, poolFinished,
                     poolReceived, failed>>
  <2>1. worker \in [c.workers -> Pool(c)!Worker] BY PoolTyped
  <2> QED BY <1>0, <2>1 DEF Pool!Fetched
<1>2. /\ worker[w].item \in Pool(c)!Item /\ worker[w].item.kind = "page"
      /\ worker[w].item.page \in Pool(c)!Pages
  BY <1>1, PoolTyped, PoolParts DEF Pool!Named
<1>3. /\ x \in Pool(c)!Worker /\ x.at = "put" /\ x.item.kind = kind
      /\ x.item.page = worker[w].item.page
  BY <1>0, <1>1, <1>2 DEF Pool!Worker, Pool!Item
<1>4. /\ worker' \in [c.workers -> Pool(c)!Worker] /\ worker'[w] = x
      /\ \A v \in c.workers : v # w => worker'[v] = worker[v]
      /\ \A v \in c.workers : \A p : v # w => (Pool(c)!InHand(v, p)' <=> Pool(c)!InHand(v, p))
      /\ \A p : Pool(c)!InHand(w, p)' <=> Pool(c)!InHand(w, p)
      /\ Cardinality(Pool(c)!Busy') = Cardinality(Pool(c)!Busy)
      /\ Pool(c)!Gone' = Pool(c)!Gone
  <2>3. /\ worker' \in [c.workers -> Pool(c)!Worker] /\ worker'[w] = x
        /\ \A v \in c.workers : v # w => worker'[v] = worker[v]
        /\ \A v \in c.workers : \A p : v # w => (Pool(c)!InHand(v, p)' <=> Pool(c)!InHand(v, p))
    BY <1>1, <1>3, WorkerStep
  <2>4. \A p : Pool(c)!InHand(w, p)' <=> Pool(c)!InHand(w, p)
    BY <1>1, <1>2, <1>3, <2>3 DEF Pool!InHand, Pool!Busy
  <2>5. Pool(c)!Busy' = Pool(c)!Busy /\ Pool(c)!Gone' = Pool(c)!Gone
    <3>1. /\ worker[w].at \in {"fetch", "put"} /\ x.at \in {"fetch", "put"}
          /\ worker[w].at # "ended" /\ x.at # "ended"
      BY <1>1, <1>3
    <3>2. worker' = [worker EXCEPT ![w] = x] /\ x \in Pool(c)!Worker BY <1>1, <1>3
    <3>3. Pool(c)!Busy' = Pool(c)!Busy BY <3>1, <3>2, WorkerStep
    <3>4. Pool(c)!Gone' = Pool(c)!Gone BY <3>1, <3>2, WorkerStep
    <3> QED BY <3>3, <3>4
  <2> QED BY <2>3, <2>4, <2>5
<1>5. \A v \in c.workers : \A p : Pool(c)!InHand(v, p)' <=> Pool(c)!InHand(v, p) BY <1>4
<1>6. \A i, p : Pool(c)!Waits(i, p)' <=> Pool(c)!Waits(i, p) BY <1>1 DEF Pool!Waits
<1>7. Pool(c)!Nones' = Pool(c)!Nones /\ (Pool(c)!Canceled' <=> Pool(c)!Canceled)
  BY <1>1 DEF Pool!Nones, Pool!NonesIn, Pool!Canceled
<1>8. ASSUME NEW p \in Pool(c)!Pages
      PROVE  /\ p > taken' => p \notin poolReceived' \cup failed'
             /\ \A v \in c.workers : Pool(c)!InHand(v, p)' =>
                   /\ p <= taken' /\ p \notin poolReceived' \cup failed'
                   /\ \A i \in 1 .. Len(poolOutput') : ~Pool(c)!Waits(i, p)'
                   /\ \A u \in c.workers : Pool(c)!InHand(u, p)' => u = v
             /\ \A i \in 1 .. Len(poolOutput') : Pool(c)!Waits(i, p)' =>
                   /\ p <= taken' /\ p \notin poolReceived' \cup failed'
                   /\ \A j \in 1 .. Len(poolOutput') : Pool(c)!Waits(j, p)' => j = i
  BY <1>1, <1>5, <1>6, PoolPlaces
<1>9. ~Pool(c)!Canceled' =>
         /\ \A p \in Pool(c)!Pages : p <= taken' =>
               \/ p \in poolReceived' \cup failed'
               \/ \E v \in c.workers : Pool(c)!InHand(v, p)'
               \/ \E i \in 1 .. Len(poolOutput') : Pool(c)!Waits(i, p)'
         /\ Pool(c)!Nones' <= Cardinality(Pool(c)!Gone')
         /\ Pool(c)!Nones' > 0 => taken' > c.pages
         /\ \A v \in c.workers :
               worker'[v].at = "put" /\ worker'[v].item.kind = "none" => taken' > c.pages
         /\ Pool(c)!Nones' = Pool(c)!NumWorkers /\ poolOutput' # <<>> =>
               poolOutput'[Len(poolOutput')].kind = "none"
  <2> SUFFICES ASSUME ~Pool(c)!Canceled
               PROVE  \A v \in c.workers :
                         worker'[v].at = "put" /\ worker'[v].item.kind = "none" => taken' > c.pages
    BY <1>1, <1>4, <1>5, <1>6, <1>7, PoolParts
  <2>1. ASSUME NEW v \in c.workers, worker'[v].at = "put" /\ worker'[v].item.kind = "none"
        PROVE  taken' > c.pages
    <3>1. v # w BY <1>1, <1>3, <1>4, <2>1
    <3> QED BY <1>1, <1>4, <2>1, <3>1, PoolParts
  <2> QED BY <2>1
<1>10. /\ \A v \in c.workers : /\ worker'[v].at = "fetch" => worker'[v].item.kind = "page"
                               /\ worker'[v].item.kind # "none" =>
                                     worker'[v].item.page \in Pool(c)!Pages
       /\ \A i \in 1 .. Len(poolOutput') :
             poolOutput'[i].kind # "none" => poolOutput'[i].page \in Pool(c)!Pages
  <2>1. DOMAIN poolOutput = 1 .. Len(poolOutput) /\ Pool(c)!Named BY PoolTyped, PoolParts
  <2> QED BY <1>1, <1>2, <1>3, <1>4, <2>1 DEF Pool!Named
<1>11. /\ c.room > 0 => put' - taken' <= c.room /\ Len(poolOutput') <= c.room
       /\ Len(poolOutput') + Cardinality(Pool(c)!Busy') <= taken'
  BY <1>1, <1>4, PoolParts
<1>12. /\ put' \in 0 .. Pool(c)!Total /\ producing' \in BOOLEAN /\ taken' \in 0 .. put'
       /\ poolOutput' \in Seq(Pool(c)!Item) /\ poolFinished' \in 0 .. Pool(c)!NumWorkers
       /\ poolReceived' \subseteq Pool(c)!Pages /\ failed' \subseteq Pool(c)!Pages
       /\ poolReceived' \cap failed' = {}
  BY <1>1, PoolTyped
<1>13. /\ poolConsumer' \in {"waiting", "yield", "closing", "ended"}
       /\ outcome' \in {"none", "ok", "error", "canceled"}
       /\ producing' => put' < Pool(c)!Total
       /\ outcome' = "none" <=> poolConsumer' # "ended"
       /\ outcome' \in {"ok", "error"} => poolFinished' = Pool(c)!NumWorkers
       /\ outcome' = "ok" => ~Pool(c)!Failing(poolReceived', failed')
  BY <1>1, PoolParts
<1> QED BY <1>4, <1>8, <1>9, <1>10, <1>11, <1>12, <1>13, PoolAgain

\* A subworker puts what it has.
LEMMA PoolPutKeeps ==
    ASSUME NEW c, Pool(c)!PoolConstantsOK, Pool(c)!PoolInv, NEW w \in c.workers, Pool(c)!Put(w)
    PROVE  Pool(c)!PoolInv'
<1>0. PICK x : x = [worker[w] EXCEPT !.at = Pool(c)!After(worker[w].item)] OBVIOUS
<1>00. PICK y : y = worker[w].item OBVIOUS
<1> DEFINE n == Len(poolOutput)
<1>000. PICK m : m = n + 1 OBVIOUS
<1>1. /\ worker[w].at = "put" /\ Pool(c)!HasRoom
      /\ worker' = [worker EXCEPT ![w] = x]
      /\ poolOutput' = Append(poolOutput, y)
      /\ UNCHANGED <<put, producing, taken, poolConsumer, outcome, poolFinished, poolReceived, failed>>
  <2>1. worker \in [c.workers -> Pool(c)!Worker] BY PoolTyped
  <2> QED BY <1>0, <1>00, <2>1 DEF Pool!Put
<1>2. /\ y \in Pool(c)!Item /\ y.kind \in {"page", "error", "none"}
      /\ y.kind # "none" => y.page \in Pool(c)!Pages
  BY <1>00, PoolTyped, PoolParts DEF Pool!Named
<1>3. /\ x \in Pool(c)!Worker /\ x.item = y
      /\ y.kind = "none" => x.at = "ended"
      /\ y.kind # "none" => x.at = "idle"
      /\ x.at \notin {"fetch", "put"}
  <2>1. worker[w] \in Pool(c)!Worker BY PoolTyped
  <2> QED BY <1>0, <1>00, <2>1 DEF Pool!Worker, Pool!After
<1>4. /\ worker' \in [c.workers -> Pool(c)!Worker] /\ worker'[w] = x
      /\ \A v \in c.workers : v # w => worker'[v] = worker[v]
      /\ \A v \in c.workers : \A p : v # w => (Pool(c)!InHand(v, p)' <=> Pool(c)!InHand(v, p))
      /\ \A p : ~Pool(c)!InHand(w, p)'
      /\ \A p : Pool(c)!InHand(w, p) <=> y.kind # "none" /\ y.page = p
      /\ Cardinality(Pool(c)!Busy') = Cardinality(Pool(c)!Busy) - 1
      /\ y.kind = "none" => Cardinality(Pool(c)!Gone') = Cardinality(Pool(c)!Gone) + 1
      /\ y.kind # "none" => Pool(c)!Gone' = Pool(c)!Gone
  <2>3. /\ worker' \in [c.workers -> Pool(c)!Worker] /\ worker'[w] = x
        /\ \A v \in c.workers : v # w => worker'[v] = worker[v]
        /\ \A v \in c.workers : \A p : v # w => (Pool(c)!InHand(v, p)' <=> Pool(c)!InHand(v, p))
    BY <1>1, <1>3, WorkerStep
  <2>4. /\ \A p : ~Pool(c)!InHand(w, p)'
        /\ \A p : Pool(c)!InHand(w, p) <=> y.kind # "none" /\ y.page = p
    BY <1>00, <1>1, <1>3, <2>3 DEF Pool!InHand, Pool!Busy
  <2>5. Cardinality(Pool(c)!Busy') = Cardinality(Pool(c)!Busy) - 1
    BY <1>1, <1>3, WorkerStep
  <2>6. worker[w].at # "ended" /\ (y.kind = "none" => x.at = "ended") /\ (y.kind # "none" => x.at # "ended")
    BY <1>1, <1>3
  <2>7. /\ y.kind = "none" => Cardinality(Pool(c)!Gone') = Cardinality(Pool(c)!Gone) + 1
        /\ y.kind # "none" => Pool(c)!Gone' = Pool(c)!Gone
    BY <1>1, <1>3, <2>6, WorkerStep
  <2> QED BY <2>3, <2>4, <2>5, <2>7
<1>5. /\ n \in Nat /\ poolOutput' \in Seq(Pool(c)!Item) /\ Len(poolOutput') = n + 1
      /\ \A i \in 1 .. n : poolOutput'[i] = poolOutput[i]
      /\ poolOutput'[n + 1] = y /\ poolOutput' # <<>>
  <2>1. /\ Append(poolOutput, y) \in Seq(Pool(c)!Item) /\ Len(Append(poolOutput, y)) = n + 1 /\ n \in Nat
        /\ \A i \in 1 .. n : Append(poolOutput, y)[i] = poolOutput[i]
        /\ Append(poolOutput, y)[n + 1] = y
    BY <1>2, PoolTyped, Appended
  <2>2. Append(poolOutput, y) # <<>> BY <2>1
  <2> QED BY <1>1, <2>1, <2>2
<1>6. /\ \A i \in 1 .. n : \A p : Pool(c)!Waits(i, p)' <=> Pool(c)!Waits(i, p)
      /\ \A p : Pool(c)!Waits(m, p)' <=> Pool(c)!InHand(w, p)
  <2>1. \A i \in 1 .. n : \A p : Pool(c)!Waits(i, p)' <=> Pool(c)!Waits(i, p)
    BY <1>5 DEF Pool!Waits
  <2>2. \A p : Pool(c)!Waits(m, p)' <=> y.kind # "none" /\ y.page = p
    BY <1>000, <1>5 DEF Pool!Waits
  <2> QED BY <1>4, <2>1, <2>2
<1> HIDE DEF n
<1>7. /\ y.kind = "none" => Pool(c)!Nones' = Pool(c)!Nones + 1
      /\ y.kind # "none" => Pool(c)!Nones' = Pool(c)!Nones
      /\ Pool(c)!Nones \in Nat /\ (Pool(c)!Canceled' <=> Pool(c)!Canceled)
  <2>1. poolOutput \in Seq(Pool(c)!Item) /\ poolFinished \in Nat BY PoolTyped, PoolConstants
  <2>2. Pool(c)!Canceled' <=> Pool(c)!Canceled BY <1>1 DEF Pool!Canceled
  <2>3. Pool(c)!Nones \in Nat BY <2>1, NonesOf
  <2>4. /\ y.kind = "none" => Pool(c)!Nones' = Pool(c)!Nones + 1
        /\ y.kind # "none" => Pool(c)!Nones' = Pool(c)!Nones
    BY <1>1, <1>2, <2>1, NonesPut
  <2> QED BY <2>2, <2>3, <2>4
<1>8. ASSUME NEW p \in Pool(c)!Pages
      PROVE  /\ p > taken' => p \notin poolReceived' \cup failed'
             /\ \A v \in c.workers : Pool(c)!InHand(v, p)' =>
                   /\ p <= taken' /\ p \notin poolReceived' \cup failed'
                   /\ \A i \in 1 .. Len(poolOutput') : ~Pool(c)!Waits(i, p)'
                   /\ \A u \in c.workers : Pool(c)!InHand(u, p)' => u = v
             /\ \A i \in 1 .. Len(poolOutput') : Pool(c)!Waits(i, p)' =>
                   /\ p <= taken' /\ p \notin poolReceived' \cup failed'
                   /\ \A j \in 1 .. Len(poolOutput') : Pool(c)!Waits(j, p)' => j = i
  <2>1. /\ \A i \in 1 .. Len(poolOutput') : i \in 1 .. n \/ i = m
        /\ m \notin 1 .. n
    BY <1>000, <1>5
  <2>2. /\ \A i \in 1 .. n : Pool(c)!Waits(i, p)' <=> Pool(c)!Waits(i, p)
        /\ Pool(c)!Waits(m, p)' <=> Pool(c)!InHand(w, p)
        /\ ~Pool(c)!InHand(w, p)'
        /\ \A v \in c.workers : v # w => (Pool(c)!InHand(v, p)' <=> Pool(c)!InHand(v, p))
    BY <1>4, <1>6
  <2>3. /\ p > taken => p \notin poolReceived \cup failed
        /\ \A v \in c.workers : Pool(c)!InHand(v, p) =>
              /\ p <= taken /\ p \notin poolReceived \cup failed
              /\ \A i \in 1 .. n : ~Pool(c)!Waits(i, p)
              /\ \A u \in c.workers : Pool(c)!InHand(u, p) => u = v
        /\ \A i \in 1 .. n : Pool(c)!Waits(i, p) =>
              /\ p <= taken /\ p \notin poolReceived \cup failed
              /\ \A j \in 1 .. n : Pool(c)!Waits(j, p) => j = i
    BY PoolPlaces DEF n
  <2>4. ASSUME NEW v \in c.workers, Pool(c)!InHand(v, p)'
        PROVE  /\ p <= taken /\ p \notin poolReceived \cup failed
               /\ \A i \in 1 .. Len(poolOutput') : ~Pool(c)!Waits(i, p)'
               /\ \A u \in c.workers : Pool(c)!InHand(u, p)' => u = v
    BY <2>1, <2>2, <2>3, <2>4
  <2>5. ASSUME NEW i \in 1 .. Len(poolOutput'), Pool(c)!Waits(i, p)'
        PROVE  /\ p <= taken /\ p \notin poolReceived \cup failed
               /\ \A j \in 1 .. Len(poolOutput') : Pool(c)!Waits(j, p)' => j = i
    <3>1. CASE i \in 1 .. n BY <2>1, <2>2, <2>3, <2>5, <3>1
    <3>2. CASE i = m
      <4>1. Pool(c)!InHand(w, p) BY <2>2, <2>5, <3>2
      <4> QED BY <2>1, <2>2, <2>3, <3>2, <4>1
    <3> QED BY <2>1, <3>1, <3>2
  <2> QED BY <1>1, <2>3, <2>4, <2>5
<1>9. ~Pool(c)!Canceled' =>
         /\ \A p \in Pool(c)!Pages : p <= taken' =>
               \/ p \in poolReceived' \cup failed'
               \/ \E v \in c.workers : Pool(c)!InHand(v, p)'
               \/ \E i \in 1 .. Len(poolOutput') : Pool(c)!Waits(i, p)'
         /\ Pool(c)!Nones' <= Cardinality(Pool(c)!Gone')
         /\ Pool(c)!Nones' > 0 => taken' > c.pages
         /\ \A v \in c.workers :
               worker'[v].at = "put" /\ worker'[v].item.kind = "none" => taken' > c.pages
         /\ Pool(c)!Nones' = Pool(c)!NumWorkers /\ poolOutput' # <<>> =>
               poolOutput'[Len(poolOutput')].kind = "none"
  <2> SUFFICES ASSUME ~Pool(c)!Canceled
               PROVE  /\ \A p \in Pool(c)!Pages : p <= taken =>
                            \/ p \in poolReceived \cup failed
                            \/ \E v \in c.workers : Pool(c)!InHand(v, p)'
                            \/ \E i \in 1 .. n + 1 : Pool(c)!Waits(i, p)'
                      /\ Pool(c)!Nones' <= Cardinality(Pool(c)!Gone')
                      /\ Pool(c)!Nones' > 0 => taken > c.pages
                      /\ \A v \in c.workers :
                            worker'[v].at = "put" /\ worker'[v].item.kind = "none" => taken > c.pages
                      /\ Pool(c)!Nones' = Pool(c)!NumWorkers => y.kind = "none"
    BY <1>1, <1>5, <1>7
  <2>0. m \in 1 .. n + 1 /\ \A i \in 1 .. n : i \in 1 .. n + 1 BY <1>000, <1>5
  <2>1. ASSUME NEW p \in Pool(c)!Pages, p <= taken
        PROVE  \/ p \in poolReceived \cup failed
               \/ \E v \in c.workers : Pool(c)!InHand(v, p)'
               \/ \E i \in 1 .. n + 1 : Pool(c)!Waits(i, p)'
    <3>1. CASE \E v \in c.workers : Pool(c)!InHand(v, p)
      <4>1. PICK v \in c.workers : Pool(c)!InHand(v, p) BY <3>1
      <4>2. CASE v = w BY <1>6, <2>0, <4>1, <4>2
      <4>3. CASE v # w BY <1>4, <4>1, <4>3
      <4> QED BY <4>2, <4>3
    <3>2. CASE \E i \in 1 .. n : Pool(c)!Waits(i, p) BY <1>6, <2>0, <3>2
    <3> QED BY <2>1, <3>1, <3>2, PoolParts DEF n
  <2>2. Pool(c)!Nones <= Cardinality(Pool(c)!Gone) /\ Cardinality(Pool(c)!Gone) \in Nat
        /\ Cardinality(Pool(c)!Gone) <= Pool(c)!NumWorkers
        /\ (Cardinality(Pool(c)!Gone) = Pool(c)!NumWorkers => Pool(c)!Gone = c.workers)
    BY PoolTyped, PoolConstants, PoolParts
  <2>3. Pool(c)!Nones' <= Cardinality(Pool(c)!Gone') BY <1>2, <1>4, <1>7, <2>2
  <2>4. Pool(c)!Nones' > 0 => taken > c.pages
    <3>1. CASE y.kind = "none" BY <1>00, <1>1, <3>1, PoolParts
    <3>2. CASE y.kind # "none" BY <1>7, <3>2, PoolParts
    <3> QED BY <3>1, <3>2
  <2>5. ASSUME NEW v \in c.workers, worker'[v].at = "put" /\ worker'[v].item.kind = "none"
        PROVE  taken > c.pages
    <3>1. v # w BY <1>3, <1>4, <2>5
    <3> QED BY <1>4, <2>5, <3>1, PoolParts
  <2>6. Pool(c)!Nones' = Pool(c)!NumWorkers => y.kind = "none"
    <3> SUFFICES ASSUME Pool(c)!Nones' = Pool(c)!NumWorkers, y.kind # "none" PROVE FALSE OBVIOUS
    <3>1. Pool(c)!Gone = c.workers BY <1>7, <2>2, PoolConstants
    <3> QED BY <1>1, <3>1 DEF Pool!Gone
  <2> QED BY <2>1, <2>3, <2>4, <2>5, <2>6
<1>10. /\ \A v \in c.workers : /\ worker'[v].at = "fetch" => worker'[v].item.kind = "page"
                               /\ worker'[v].item.kind # "none" =>
                                     worker'[v].item.page \in Pool(c)!Pages
       /\ \A i \in 1 .. Len(poolOutput') :
             poolOutput'[i].kind # "none" => poolOutput'[i].page \in Pool(c)!Pages
  <2>1. DOMAIN poolOutput = 1 .. n /\ Pool(c)!Named BY PoolTyped, PoolParts DEF n
  <2>2. \A i \in 1 .. Len(poolOutput') : i \in 1 .. n \/ i = n + 1 BY <1>5
  <2>3. \A i \in 1 .. Len(poolOutput') :
           poolOutput'[i].kind # "none" => poolOutput'[i].page \in Pool(c)!Pages
    BY <1>2, <1>5, <2>1, <2>2 DEF Pool!Named
  <2>4. \A v \in c.workers : /\ worker'[v].at = "fetch" => worker'[v].item.kind = "page"
                             /\ worker'[v].item.kind # "none" =>
                                   worker'[v].item.page \in Pool(c)!Pages
    BY <1>2, <1>3, <1>4, <2>1 DEF Pool!Named
  <2> QED BY <2>3, <2>4
<1>11. /\ c.room > 0 => put' - taken' <= c.room /\ Len(poolOutput') <= c.room
       /\ Len(poolOutput') + Cardinality(Pool(c)!Busy') <= taken'
  <2> DEFINE busy == Cardinality(Pool(c)!Busy)
  <2>1. busy \in Nat /\ n + busy <= taken /\ taken \in Nat BY PoolTyped, PoolParts, PoolConstants DEF n
  <2>2. Cardinality(Pool(c)!Busy') = busy - 1 BY <1>4
  <2>3. c.room > 0 => put - taken <= c.room /\ n < c.room BY <1>1, PoolParts, PoolConstants DEF Pool!HasRoom, n
  <2> HIDE DEF busy
  <2> QED BY <1>1, <1>5, <2>1, <2>2, <2>3, PoolConstants
<1>12. /\ put' \in 0 .. Pool(c)!Total /\ producing' \in BOOLEAN /\ taken' \in 0 .. put'
       /\ poolFinished' \in 0 .. Pool(c)!NumWorkers
       /\ poolReceived' \subseteq Pool(c)!Pages /\ failed' \subseteq Pool(c)!Pages
       /\ poolReceived' \cap failed' = {}
  BY <1>1, PoolTyped
<1>13. /\ poolConsumer' \in {"waiting", "yield", "closing", "ended"}
       /\ outcome' \in {"none", "ok", "error", "canceled"}
       /\ producing' => put' < Pool(c)!Total
       /\ outcome' = "none" <=> poolConsumer' # "ended"
       /\ outcome' \in {"ok", "error"} => poolFinished' = Pool(c)!NumWorkers
       /\ outcome' = "ok" => ~Pool(c)!Failing(poolReceived', failed')
  BY <1>1, PoolParts
<1> QED BY <1>4, <1>5, <1>8, <1>9, <1>10, <1>11, <1>12, <1>13, PoolAgain

\* The generator gets an item.
LEMMA PoolGetKeeps ==
    ASSUME NEW c, Pool(c)!PoolConstantsOK, Pool(c)!PoolInv, Pool(c)!Get
    PROVE  Pool(c)!PoolInv'
<1>0. PICK x : x = poolOutput[1] OBVIOUS
<1>00. PICK n : n = Len(poolOutput) OBVIOUS
<1>1. /\ poolConsumer = "waiting" /\ poolFinished < Pool(c)!NumWorkers /\ poolOutput # <<>>
      /\ poolOutput' = Tail(poolOutput)
      /\ UNCHANGED <<put, producing, taken, worker, outcome>>
  BY DEF Pool!Get
<1>2. /\ poolOutput' \in Seq(Pool(c)!Item) /\ Len(poolOutput') = n - 1 /\ n \in Nat \ {0}
      /\ Head(poolOutput) = x /\ x \in Pool(c)!Item
      /\ \A i \in 1 .. n - 1 : poolOutput'[i] = poolOutput[i + 1]
  BY <1>0, <1>00, <1>1, PoolTyped, Tailed
<1>3. /\ x.kind \in {"page", "error", "none"}
      /\ x.kind # "none" => x.page \in Pool(c)!Pages
  <2>1. 1 \in DOMAIN poolOutput BY <1>00, <1>2, PoolTyped
  <2> QED BY <1>0, <1>2, <2>1, PoolParts DEF Pool!Named, Pool!Item
<1>4. /\ x.kind = "none" => /\ poolFinished' = poolFinished + 1
                            /\ UNCHANGED <<poolReceived, failed>>
      /\ x.kind = "page" => /\ poolReceived' = poolReceived \cup {x.page}
                            /\ UNCHANGED <<poolFinished, failed>>
      /\ x.kind = "error" => /\ failed' = failed \cup {x.page}
                             /\ UNCHANGED <<poolFinished, poolReceived>>
      /\ poolConsumer' \in {"waiting", "yield"}
  <2>0. poolFinished \in Nat BY PoolTyped, PoolConstants
  <2>1. CASE x.kind = "none" BY <1>2, <2>0, <2>1 DEF Pool!Get
  <2>2. CASE x.kind = "page" BY <1>2, <2>0, <2>2 DEF Pool!Get
  <2>3. CASE x.kind = "error" BY <1>2, <2>0, <2>3 DEF Pool!Get
  <2> QED BY <1>3, <2>1, <2>2, <2>3
<1>5. \A p : p \in poolReceived' \cup failed' <=>
                p \in poolReceived \cup failed \/ Pool(c)!Waits(1, p)
  BY <1>0, <1>3, <1>4 DEF Pool!Waits
<1>6. /\ \A i \in 1 .. n - 1 : \A p : Pool(c)!Waits(i, p)' <=> Pool(c)!Waits(i + 1, p)
      /\ \A v, p : Pool(c)!InHand(v, p)' <=> Pool(c)!InHand(v, p)
      /\ Pool(c)!Gone' = Pool(c)!Gone /\ Pool(c)!Busy' = Pool(c)!Busy
  BY <1>1, <1>2 DEF Pool!Waits, Pool!InHand, Pool!Busy, Pool!Gone
<1>7. /\ Pool(c)!Nones' = Pool(c)!Nones
      /\ ~Pool(c)!Canceled /\ ~Pool(c)!Canceled' /\ outcome = "none"
  <2>1. poolOutput \in Seq(Pool(c)!Item) /\ poolFinished \in Nat BY PoolTyped, PoolConstants
  <2>2. outcome = "none" BY <1>1, PoolParts
  <2>3. ~Pool(c)!Canceled /\ ~Pool(c)!Canceled' BY <1>1, <1>4, <2>2 DEF Pool!Canceled
  <2>4. /\ poolOutput[1].kind = "none" => poolFinished' = poolFinished + 1
        /\ poolOutput[1].kind # "none" => poolFinished' = poolFinished
    BY <1>0, <1>3, <1>4
  <2>5. Pool(c)!Nones' = Pool(c)!Nones BY <1>1, <2>1, <2>4, NonesGot
  <2> QED BY <2>2, <2>3, <2>5
<1>8. ASSUME NEW p \in Pool(c)!Pages
      PROVE  /\ p > taken' => p \notin poolReceived' \cup failed'
             /\ \A v \in c.workers : Pool(c)!InHand(v, p)' =>
                   /\ p <= taken' /\ p \notin poolReceived' \cup failed'
                   /\ \A i \in 1 .. Len(poolOutput') : ~Pool(c)!Waits(i, p)'
                   /\ \A u \in c.workers : Pool(c)!InHand(u, p)' => u = v
             /\ \A i \in 1 .. Len(poolOutput') : Pool(c)!Waits(i, p)' =>
                   /\ p <= taken' /\ p \notin poolReceived' \cup failed'
                   /\ \A j \in 1 .. Len(poolOutput') : Pool(c)!Waits(j, p)' => j = i
  <2>1. /\ 1 \in 1 .. n /\ \A i \in 1 .. n - 1 : i + 1 \in 1 .. n /\ i + 1 # 1
        /\ \A i, j \in 1 .. n - 1 : i + 1 = j + 1 => j = i
    BY <1>2
  <2>2. /\ p > taken => p \notin poolReceived \cup failed
        /\ \A v \in c.workers : Pool(c)!InHand(v, p) =>
              /\ p <= taken /\ p \notin poolReceived \cup failed
              /\ \A i \in 1 .. n : ~Pool(c)!Waits(i, p)
              /\ \A u \in c.workers : Pool(c)!InHand(u, p) => u = v
        /\ \A i \in 1 .. n : Pool(c)!Waits(i, p) =>
              /\ p <= taken /\ p \notin poolReceived \cup failed
              /\ \A j \in 1 .. n : Pool(c)!Waits(j, p) => j = i
    BY <1>00, PoolPlaces
  <2>3. \A i \in 1 .. Len(poolOutput') : i \in 1 .. n - 1 /\ (Pool(c)!Waits(i, p)' <=> Pool(c)!Waits(i + 1, p))
    BY <1>2, <1>6
  <2>4. p > taken => ~(p <= taken) BY PoolTyped, PoolConstants
  <2>5. p > taken => p \notin poolReceived' \cup failed' BY <1>5, <2>1, <2>2, <2>4
  <2>6. ASSUME NEW v \in c.workers, Pool(c)!InHand(v, p)'
        PROVE  /\ p <= taken /\ p \notin poolReceived' \cup failed'
               /\ \A i \in 1 .. Len(poolOutput') : ~Pool(c)!Waits(i, p)'
               /\ \A u \in c.workers : Pool(c)!InHand(u, p)' => u = v
    <3>1. Pool(c)!InHand(v, p) BY <1>6, <2>6
    <3>2. /\ p <= taken /\ p \notin poolReceived \cup failed
          /\ \A i \in 1 .. n : ~Pool(c)!Waits(i, p)
          /\ \A u \in c.workers : Pool(c)!InHand(u, p) => u = v
      BY <2>2, <3>1
    <3>3. p \notin poolReceived' \cup failed' BY <1>5, <2>1, <3>2
    <3>4. \A i \in 1 .. Len(poolOutput') : ~Pool(c)!Waits(i, p)' BY <2>1, <2>3, <3>2
    <3>5. \A u \in c.workers : Pool(c)!InHand(u, p)' => u = v BY <1>6, <3>2
    <3> QED BY <3>2, <3>3, <3>4, <3>5
  <2>7. ASSUME NEW i \in 1 .. Len(poolOutput'), Pool(c)!Waits(i, p)'
        PROVE  /\ p <= taken /\ p \notin poolReceived' \cup failed'
               /\ \A j \in 1 .. Len(poolOutput') : Pool(c)!Waits(j, p)' => j = i
    <3>1. i \in 1 .. n - 1 /\ Pool(c)!Waits(i + 1, p) /\ i + 1 \in 1 .. n /\ i + 1 # 1
      BY <2>1, <2>3, <2>7
    <3>2. /\ p <= taken /\ p \notin poolReceived \cup failed
          /\ \A j \in 1 .. n : Pool(c)!Waits(j, p) => j = i + 1
      BY <2>2, <3>1
    <3>3. p \notin poolReceived' \cup failed' BY <1>5, <2>1, <3>1, <3>2
    <3>4. ASSUME NEW j \in 1 .. Len(poolOutput'), Pool(c)!Waits(j, p)' PROVE j = i
      <4>1. j \in 1 .. n - 1 /\ j + 1 \in 1 .. n /\ Pool(c)!Waits(j + 1, p) BY <2>1, <2>3, <3>4
      <4>2. j + 1 = i + 1 BY <3>2, <4>1
      <4> QED BY <2>1, <3>1, <4>1, <4>2
    <3> QED BY <3>2, <3>3, <3>4
  <2> QED BY <1>1, <2>5, <2>6, <2>7
<1>9. /\ \A p \in Pool(c)!Pages : p <= taken' =>
            \/ p \in poolReceived' \cup failed'
            \/ \E v \in c.workers : Pool(c)!InHand(v, p)'
            \/ \E i \in 1 .. Len(poolOutput') : Pool(c)!Waits(i, p)'
      /\ Pool(c)!Nones' <= Cardinality(Pool(c)!Gone')
      /\ Pool(c)!Nones' > 0 => taken' > c.pages
      /\ \A v \in c.workers :
            worker'[v].at = "put" /\ worker'[v].item.kind = "none" => taken' > c.pages
      /\ Pool(c)!Nones' = Pool(c)!NumWorkers /\ poolOutput' # <<>> =>
            poolOutput'[Len(poolOutput')].kind = "none"
  <2>1. ASSUME NEW p \in Pool(c)!Pages, p <= taken
        PROVE  \/ p \in poolReceived' \cup failed'
               \/ \E v \in c.workers : Pool(c)!InHand(v, p)'
               \/ \E i \in 1 .. Len(poolOutput') : Pool(c)!Waits(i, p)'
    <3>1. CASE \E i \in 1 .. n : Pool(c)!Waits(i, p)
      <4>1. PICK i \in 1 .. n : Pool(c)!Waits(i, p) BY <3>1
      <4>2. CASE i = 1 BY <1>5, <4>1, <4>2
      <4>3. CASE i # 1
        <5>1. i - 1 \in 1 .. n - 1 /\ i - 1 + 1 = i BY <1>2, <4>3
        <5>2. PICK j : j = i - 1 OBVIOUS
        <5>3. j \in 1 .. Len(poolOutput') /\ Pool(c)!Waits(j, p)' BY <1>2, <1>6, <4>1, <5>1, <5>2
        <5> QED BY <5>3
      <4> QED BY <4>2, <4>3
    <3>2. CASE ~\E i \in 1 .. n : Pool(c)!Waits(i, p)
      BY <1>00, <1>5, <1>6, <1>7, <2>1, <3>2, PoolParts
    <3> QED BY <3>1, <3>2
  <2>2. /\ Pool(c)!Nones' <= Cardinality(Pool(c)!Gone')
        /\ Pool(c)!Nones' > 0 => taken' > c.pages
        /\ \A v \in c.workers :
              worker'[v].at = "put" /\ worker'[v].item.kind = "none" => taken' > c.pages
    BY <1>1, <1>6, <1>7, PoolParts
  <2>3. ASSUME Pool(c)!Nones' = Pool(c)!NumWorkers, poolOutput' # <<>>
        PROVE  poolOutput'[Len(poolOutput')].kind = "none"
    <3>1. poolOutput[n].kind = "none" BY <1>00, <1>1, <1>7, <2>3, PoolParts
    <3>2. n - 1 \in 1 .. n - 1
      <4>1. Len(poolOutput') # 0 BY <1>2, <2>3
      <4> QED BY <1>2, <4>1
    <3>3. poolOutput'[n - 1] = poolOutput[n - 1 + 1] /\ n - 1 + 1 = n BY <1>2, <3>2
    <3> QED BY <1>2, <3>1, <3>3
  <2> QED BY <1>1, <2>1, <2>2, <2>3
<1>10. /\ \A v \in c.workers : /\ worker'[v].at = "fetch" => worker'[v].item.kind = "page"
                               /\ worker'[v].item.kind # "none" =>
                                     worker'[v].item.page \in Pool(c)!Pages
       /\ \A i \in 1 .. Len(poolOutput') :
             poolOutput'[i].kind # "none" => poolOutput'[i].page \in Pool(c)!Pages
  <2>1. DOMAIN poolOutput = 1 .. n /\ Pool(c)!Named BY <1>00, PoolTyped, PoolParts
  <2>2. ASSUME NEW i \in 1 .. Len(poolOutput'), poolOutput'[i].kind # "none"
        PROVE  poolOutput'[i].page \in Pool(c)!Pages
    <3>1. i + 1 \in DOMAIN poolOutput /\ poolOutput'[i] = poolOutput[i + 1] BY <1>2, <2>1
    <3> QED BY <2>1, <2>2, <3>1 DEF Pool!Named
  <2> QED BY <1>1, <2>1, <2>2 DEF Pool!Named
<1>11. /\ c.room > 0 => put' - taken' <= c.room /\ Len(poolOutput') <= c.room
       /\ Len(poolOutput') + Cardinality(Pool(c)!Busy') <= taken'
  <2> DEFINE busy == Cardinality(Pool(c)!Busy)
  <2>1. busy \in Nat /\ n + busy <= taken /\ taken \in Nat
    BY <1>00, PoolTyped, PoolParts, PoolConstants
  <2>2. Cardinality(Pool(c)!Busy') = busy BY <1>6
  <2>3. c.room > 0 => put - taken <= c.room /\ n <= c.room BY <1>00, PoolParts
  <2> HIDE DEF busy
  <2> QED BY <1>1, <1>2, <2>1, <2>2, <2>3, PoolConstants
<1>12. /\ put' \in 0 .. Pool(c)!Total /\ producing' \in BOOLEAN /\ taken' \in 0 .. put'
       /\ worker' \in [c.workers -> Pool(c)!Worker]
       /\ poolFinished' \in 0 .. Pool(c)!NumWorkers
       /\ poolReceived' \subseteq Pool(c)!Pages /\ failed' \subseteq Pool(c)!Pages
       /\ poolReceived' \cap failed' = {}
  <2>1. /\ put' \in 0 .. Pool(c)!Total /\ producing' \in BOOLEAN /\ taken' \in 0 .. put'
        /\ worker' \in [c.workers -> Pool(c)!Worker]
    BY <1>1, PoolTyped
  <2>2. poolFinished' \in 0 .. Pool(c)!NumWorkers
    BY <1>1, <1>3, <1>4, PoolTyped, PoolConstants
  <2>3. /\ poolReceived \subseteq Pool(c)!Pages /\ failed \subseteq Pool(c)!Pages
        /\ poolReceived \cap failed = {}
    BY PoolTyped
  <2>4. poolReceived' \subseteq Pool(c)!Pages /\ failed' \subseteq Pool(c)!Pages
    BY <1>3, <1>4, <2>3
  <2>5. x.kind # "none" => x.page \notin poolReceived \cup failed
    <3> SUFFICES ASSUME x.kind # "none" PROVE x.page \notin poolReceived \cup failed OBVIOUS
    <3>1. Pool(c)!Waits(1, x.page) BY <1>0 DEF Pool!Waits
    <3>2. x.page \in Pool(c)!Pages /\ 1 \in 1 .. Len(poolOutput) BY <1>00, <1>2, <1>3
    <3> QED BY <3>1, <3>2, PoolPlaces
  <2>6. poolReceived' \cap failed' = {} BY <1>3, <1>4, <2>3, <2>5
  <2> QED BY <2>1, <2>2, <2>4, <2>6
<1>13. /\ poolConsumer' \in {"waiting", "yield", "closing", "ended"}
       /\ outcome' \in {"none", "ok", "error", "canceled"}
       /\ producing' => put' < Pool(c)!Total
       /\ outcome' = "none" <=> poolConsumer' # "ended"
       /\ outcome' \in {"ok", "error"} => poolFinished' = Pool(c)!NumWorkers
       /\ outcome' = "ok" => ~Pool(c)!Failing(poolReceived', failed')
  BY <1>1, <1>4, <1>7, PoolParts
<1> QED BY <1>2, <1>8, <1>9, <1>10, <1>11, <1>12, <1>13, PoolAgain

\* The pool is cancelled: a subworker keeps the page it has, or loses it.
LEMMA PoolCancelKeeps ==
    ASSUME NEW c, Pool(c)!PoolConstantsOK, Pool(c)!PoolInv, Pool(c)!Cancel
    PROVE  Pool(c)!PoolInv'
<1>1. /\ poolConsumer \in {"waiting", "yield"} /\ poolConsumer' = "closing" /\ producing' = FALSE
      /\ worker' = [w \in c.workers |-> Pool(c)!Cancelled(worker[w])]
      /\ UNCHANGED <<put, taken, poolOutput, outcome, poolFinished, poolReceived, failed>>
  BY DEF Pool!Cancel
<1>2. ASSUME NEW w \in c.workers
      PROVE  /\ worker'[w] \in Pool(c)!Worker
             /\ worker'[w].at \in {"put", "ended"}
             /\ worker'[w].at = "put" => worker[w].at \in {"fetch", "put"} /\ worker[w].item.kind = "page"
             /\ worker'[w].item.kind # "none" => worker[w].item.kind # "none"
             /\ worker'[w].item.page = worker[w].item.page
  <2>1. worker'[w] = Pool(c)!Cancelled(worker[w]) BY <1>1
  <2>2. worker[w] \in Pool(c)!Worker /\ (worker[w].at = "fetch" => worker[w].item.kind = "page")
    BY PoolTyped, PoolParts DEF Pool!Named
  <2>3. CASE worker[w].at = "fetch" \/ (worker[w].at = "put" /\ worker[w].item.kind = "page")
    <3>1. worker'[w] = [at |-> "put", item |-> [worker[w].item EXCEPT !.kind = "error"]]
      BY <2>1, <2>3 DEF Pool!Cancelled
    <3> QED BY <2>2, <2>3, <3>1 DEF Pool!Worker, Pool!Item
  <2>4. CASE ~(worker[w].at = "fetch" \/ (worker[w].at = "put" /\ worker[w].item.kind = "page"))
    <3>1. worker'[w] = [worker[w] EXCEPT !.at = "ended"] BY <2>1, <2>4 DEF Pool!Cancelled
    <3> QED BY <2>2, <3>1 DEF Pool!Worker
  <2> QED BY <2>3, <2>4
<1>3. \A v \in c.workers : \A p : Pool(c)!InHand(v, p)' => Pool(c)!InHand(v, p)
  BY <1>2 DEF Pool!InHand, Pool!Busy
<1>4. Cardinality(Pool(c)!Busy') <= Cardinality(Pool(c)!Busy) /\ Cardinality(Pool(c)!Busy') \in Nat
  <2>1. Pool(c)!Busy' \in SUBSET Pool(c)!Busy BY <1>2 DEF Pool!Busy
  <2>2. IsFiniteSet(Pool(c)!Busy) BY PoolTyped
  <2>3. IsFiniteSet(Pool(c)!Busy') /\ Cardinality(Pool(c)!Busy') <= Cardinality(Pool(c)!Busy)
    BY <2>1, <2>2, FS_Subset
  <2> QED BY <2>3, FS_CardinalityType
<1>5. \A i, p : Pool(c)!Waits(i, p)' <=> Pool(c)!Waits(i, p) BY <1>1 DEF Pool!Waits
<1>6. Pool(c)!Canceled' BY <1>1 DEF Pool!Canceled
<1>8. ASSUME NEW p \in Pool(c)!Pages
      PROVE  /\ p > taken' => p \notin poolReceived' \cup failed'
             /\ \A v \in c.workers : Pool(c)!InHand(v, p)' =>
                   /\ p <= taken' /\ p \notin poolReceived' \cup failed'
                   /\ \A i \in 1 .. Len(poolOutput') : ~Pool(c)!Waits(i, p)'
                   /\ \A u \in c.workers : Pool(c)!InHand(u, p)' => u = v
             /\ \A i \in 1 .. Len(poolOutput') : Pool(c)!Waits(i, p)' =>
                   /\ p <= taken' /\ p \notin poolReceived' \cup failed'
                   /\ \A j \in 1 .. Len(poolOutput') : Pool(c)!Waits(j, p)' => j = i
  BY <1>1, <1>3, <1>5, PoolPlaces
<1>10. /\ \A v \in c.workers : /\ worker'[v].at = "fetch" => worker'[v].item.kind = "page"
                               /\ worker'[v].item.kind # "none" =>
                                     worker'[v].item.page \in Pool(c)!Pages
       /\ \A i \in 1 .. Len(poolOutput') :
             poolOutput'[i].kind # "none" => poolOutput'[i].page \in Pool(c)!Pages
  <2>1. DOMAIN poolOutput = 1 .. Len(poolOutput) /\ Pool(c)!Named BY PoolTyped, PoolParts
  <2> QED BY <1>1, <1>2, <2>1 DEF Pool!Named
<1>11. /\ c.room > 0 => put' - taken' <= c.room /\ Len(poolOutput') <= c.room
       /\ Len(poolOutput') + Cardinality(Pool(c)!Busy') <= taken'
  <2> DEFINE busy == Cardinality(Pool(c)!Busy)
             after == Cardinality(Pool(c)!Busy')
  <2>1. busy \in Nat /\ Len(poolOutput) \in Nat /\ Len(poolOutput) + busy <= taken /\ taken \in Nat
    BY PoolTyped, PoolParts, PoolConstants
  <2>2. after <= busy /\ after \in Nat BY <1>4
  <2>3. c.room > 0 => put - taken <= c.room /\ Len(poolOutput) <= c.room BY PoolParts
  <2>4. Len(poolOutput) + after <= taken
    <3> HIDE DEF busy, after
    <3> QED BY <2>1, <2>2
  <2> QED BY <1>1, <2>3, <2>4
<1>12. /\ put' \in 0 .. Pool(c)!Total /\ producing' \in BOOLEAN /\ taken' \in 0 .. put'
       /\ worker' \in [c.workers -> Pool(c)!Worker] /\ poolOutput' \in Seq(Pool(c)!Item)
       /\ poolFinished' \in 0 .. Pool(c)!NumWorkers
       /\ poolReceived' \subseteq Pool(c)!Pages /\ failed' \subseteq Pool(c)!Pages
       /\ poolReceived' \cap failed' = {}
  BY <1>1, <1>2, PoolTyped
<1>13. /\ poolConsumer' \in {"waiting", "yield", "closing", "ended"}
       /\ outcome' \in {"none", "ok", "error", "canceled"}
       /\ producing' => put' < Pool(c)!Total
       /\ outcome' = "none" <=> poolConsumer' # "ended"
       /\ outcome' \in {"ok", "error"} => poolFinished' = Pool(c)!NumWorkers
       /\ outcome' = "ok" => ~Pool(c)!Failing(poolReceived', failed')
  BY <1>1, PoolParts
<1> QED BY <1>6, <1>8, <1>10, <1>11, <1>12, <1>13, PoolAgain

\* The producer, a caller that comes back, and the end of the generator.
LEMMA PoolQuietKeeps ==
    ASSUME NEW c, Pool(c)!PoolConstantsOK, Pool(c)!PoolInv,
           \/ Pool(c)!Produce \/ Pool(c)!Resume \/ Pool(c)!End \/ Pool(c)!Closed
           \/ UNCHANGED poolVars
    PROVE  Pool(c)!PoolInv'
<1>1. UNCHANGED <<taken, worker, poolOutput, poolFinished, poolReceived, failed>>
  BY DEF Pool!Produce, Pool!Resume, Pool!End, Pool!Closed, poolVars
<1>2. /\ \A v, p : Pool(c)!InHand(v, p)' <=> Pool(c)!InHand(v, p)
      /\ \A i, p : Pool(c)!Waits(i, p)' <=> Pool(c)!Waits(i, p)
      /\ Pool(c)!Gone' = Pool(c)!Gone /\ Pool(c)!Busy' = Pool(c)!Busy
      /\ Pool(c)!Nones' = Pool(c)!Nones
  BY <1>1 DEF Pool!InHand, Pool!Waits, Pool!Gone, Pool!Busy, Pool!Nones, Pool!NonesIn
<1>3. /\ put' \in 0 .. Pool(c)!Total /\ producing' \in BOOLEAN /\ taken' \in 0 .. put'
      /\ c.room > 0 => put' - taken' <= c.room
      /\ producing' => put' < Pool(c)!Total
  <2>1. /\ put \in 0 .. Pool(c)!Total /\ producing \in BOOLEAN /\ taken \in 0 .. put
        /\ c.room > 0 => put - taken <= c.room
        /\ producing => put < Pool(c)!Total
    BY PoolTyped, PoolParts
  <2>2. CASE Pool(c)!Produce
    <3>1. put - taken < c.room /\ put' = Pool(c)!Filled(taken) /\ producing' = (put' < Pool(c)!Total)
      BY <2>2 DEF Pool!Produce
    <3>2. taken \in Nat /\ put \in Nat /\ taken <= put BY <2>1, PoolConstants
    <3>3. c.room > 0 BY <3>1, <3>2, PoolConstants
    <3>4. put' = IF taken + c.room > Pool(c)!Total THEN Pool(c)!Total ELSE taken + c.room
      BY <3>1, <3>3, PoolConstants DEF Pool!Filled
    <3>5. Pool(c)!Total \in Nat /\ c.room \in Nat /\ taken' = taken /\ put <= Pool(c)!Total
      BY <1>1, <2>1, PoolConstants
    <3>6. put' \in 0 .. Pool(c)!Total /\ taken \in 0 .. put' /\ put' - taken <= c.room
      BY <3>1, <3>2, <3>4, <3>5
    <3>7. put' \in Nat BY <3>5, <3>6
    <3>8. producing' \in BOOLEAN BY <3>1, <3>5, <3>7
    <3>9. producing' => put' < Pool(c)!Total BY <3>1, <3>5, <3>7
    <3> QED BY <3>5, <3>6, <3>8, <3>9
  <2>3. CASE ~Pool(c)!Produce
    <3>1. UNCHANGED <<put, producing>>
      BY <2>3 DEF Pool!Resume, Pool!End, Pool!Closed, poolVars
    <3> QED BY <1>1, <2>1, <3>1
  <2> QED BY <2>2, <2>3
<1>4. /\ poolConsumer' \in {"waiting", "yield", "closing", "ended"}
      /\ outcome' \in {"none", "ok", "error", "canceled"}
      /\ outcome' = "none" <=> poolConsumer' # "ended"
      /\ outcome' \in {"ok", "error"} => poolFinished' = Pool(c)!NumWorkers
      /\ outcome' = "ok" => ~Pool(c)!Failing(poolReceived', failed')
      /\ ~Pool(c)!Canceled' => ~Pool(c)!Canceled
  <2>1. CASE UNCHANGED <<poolConsumer, outcome>>
    BY <1>1, <2>1, PoolParts DEF Pool!Canceled
  <2>2. CASE Pool(c)!Resume
    <3>1. poolConsumer = "yield" /\ poolConsumer' = "waiting" /\ outcome' = outcome
      BY <2>2 DEF Pool!Resume
    <3> QED BY <1>1, <3>1, PoolParts DEF Pool!Canceled
  <2>3. CASE Pool(c)!End
    <3>1. /\ poolConsumer = "waiting" /\ poolConsumer' = "ended" /\ poolFinished = Pool(c)!NumWorkers
          /\ outcome' = IF Pool(c)!Failing(poolReceived, failed) THEN "error" ELSE "ok"
      BY <2>3 DEF Pool!End
    <3>2. outcome = "none" BY <3>1, PoolParts
    <3> QED BY <1>1, <3>1, <3>2 DEF Pool!Canceled
  <2>4. CASE Pool(c)!Closed
    <3>1. poolConsumer' = "ended" /\ outcome' = "canceled" BY <2>4 DEF Pool!Closed
    <3> QED BY <3>1 DEF Pool!Canceled
  <2> QED BY <2>1, <2>2, <2>3, <2>4 DEF Pool!Produce, poolVars
<1>5. ASSUME NEW p \in Pool(c)!Pages
      PROVE  /\ p > taken' => p \notin poolReceived' \cup failed'
             /\ \A v \in c.workers : Pool(c)!InHand(v, p)' =>
                   /\ p <= taken' /\ p \notin poolReceived' \cup failed'
                   /\ \A i \in 1 .. Len(poolOutput') : ~Pool(c)!Waits(i, p)'
                   /\ \A u \in c.workers : Pool(c)!InHand(u, p)' => u = v
             /\ \A i \in 1 .. Len(poolOutput') : Pool(c)!Waits(i, p)' =>
                   /\ p <= taken' /\ p \notin poolReceived' \cup failed'
                   /\ \A j \in 1 .. Len(poolOutput') : Pool(c)!Waits(j, p)' => j = i
  BY <1>1, <1>2, PoolPlaces
<1>6. ~Pool(c)!Canceled' =>
         /\ \A p \in Pool(c)!Pages : p <= taken' =>
               \/ p \in poolReceived' \cup failed'
               \/ \E v \in c.workers : Pool(c)!InHand(v, p)'
               \/ \E i \in 1 .. Len(poolOutput') : Pool(c)!Waits(i, p)'
         /\ Pool(c)!Nones' <= Cardinality(Pool(c)!Gone')
         /\ Pool(c)!Nones' > 0 => taken' > c.pages
         /\ \A v \in c.workers :
               worker'[v].at = "put" /\ worker'[v].item.kind = "none" => taken' > c.pages
         /\ Pool(c)!Nones' = Pool(c)!NumWorkers /\ poolOutput' # <<>> =>
               poolOutput'[Len(poolOutput')].kind = "none"
  BY <1>1, <1>2, <1>4, PoolParts
<1>7. /\ \A v \in c.workers : /\ worker'[v].at = "fetch" => worker'[v].item.kind = "page"
                              /\ worker'[v].item.kind # "none" =>
                                    worker'[v].item.page \in Pool(c)!Pages
      /\ \A i \in 1 .. Len(poolOutput') :
            poolOutput'[i].kind # "none" => poolOutput'[i].page \in Pool(c)!Pages
  <2>1. DOMAIN poolOutput = 1 .. Len(poolOutput) /\ Pool(c)!Named BY PoolTyped, PoolParts
  <2> QED BY <1>1, <2>1 DEF Pool!Named
<1>8. /\ c.room > 0 => put' - taken' <= c.room /\ Len(poolOutput') <= c.room
      /\ Len(poolOutput') + Cardinality(Pool(c)!Busy') <= taken'
  BY <1>1, <1>2, <1>3, PoolParts
<1>9. /\ worker' \in [c.workers -> Pool(c)!Worker] /\ poolOutput' \in Seq(Pool(c)!Item)
      /\ poolFinished' \in 0 .. Pool(c)!NumWorkers
      /\ poolReceived' \subseteq Pool(c)!Pages /\ failed' \subseteq Pool(c)!Pages
      /\ poolReceived' \cap failed' = {}
  BY <1>1, PoolTyped
<1> QED BY <1>3, <1>4, <1>5, <1>6, <1>7, <1>8, <1>9, PoolAgain

LEMMA PoolStep ==
    ASSUME NEW c, Pool(c)!PoolConstantsOK, Pool(c)!PoolInv, Pool(c)!Next \/ UNCHANGED poolVars
    PROVE  Pool(c)!PoolInv'
<1>1. CASE \E w \in c.workers : Pool(c)!Take(w) BY <1>1, TakeKeeps
<1>2. CASE \E w \in c.workers : Pool(c)!Put(w) BY <1>2, PoolPutKeeps
<1>3. CASE \E w \in c.workers : \E kind \in {"page", "error"} : Pool(c)!Fetched(w, kind)
  BY <1>3, FetchedKeeps
<1>4. CASE Pool(c)!Get BY <1>4, PoolGetKeeps
<1>5. CASE Pool(c)!Cancel BY <1>5, PoolCancelKeeps
<1>6. CASE \/ Pool(c)!Produce \/ Pool(c)!Resume \/ Pool(c)!End \/ Pool(c)!Closed
           \/ UNCHANGED poolVars
  BY <1>6, PoolQuietKeeps
<1> QED BY <1>1, <1>2, <1>3, <1>4, <1>5, <1>6 DEF Pool!Next, Pool!Progress

\* What the invariant says of a pool.
LEMMA PoolKept ==
    ASSUME NEW c, Pool(c)!PoolConstantsOK, Pool(c)!PoolInv
    PROVE  Pool(c)!TypeOK /\ Pool(c)!EveryPageAnswered /\ Pool(c)!PolledIsRead
<1>1. Pool(c)!TypeOK BY DEF Pool!PoolInv
<1>2. ASSUME outcome \in {"ok", "error"} PROVE poolReceived \cup failed = Pool(c)!Pages
  <2>1. poolFinished = Pool(c)!NumWorkers /\ ~Pool(c)!Canceled
    BY <1>2, PoolParts DEF Pool!Canceled
  <2>2. /\ Pool(c)!Nones <= Cardinality(Pool(c)!Gone)
        /\ Pool(c)!Nones > 0 => taken > c.pages
        /\ Pool(c)!Nones = Pool(c)!NumWorkers /\ poolOutput # <<>> =>
              poolOutput[Len(poolOutput)].kind = "none"
        /\ \A p \in Pool(c)!Pages : p <= taken =>
              \/ p \in poolReceived \cup failed
              \/ \E v \in c.workers : Pool(c)!InHand(v, p)
              \/ \E i \in 1 .. Len(poolOutput) : Pool(c)!Waits(i, p)
    BY <2>1, PoolParts
  <2>3. /\ Pool(c)!Nones \in Nat /\ Pool(c)!Nones >= poolFinished
        /\ Pool(c)!Nones = poolFinished
             => \A i \in 1 .. Len(poolOutput) : poolOutput[i].kind # "none"
    <3>1. poolOutput \in Seq(Pool(c)!Item) /\ poolFinished \in Nat BY PoolTyped, PoolConstants
    <3> QED BY <3>1, NonesOf
  <2>4. /\ Cardinality(Pool(c)!Gone) \in 0 .. Pool(c)!NumWorkers
        /\ Cardinality(Pool(c)!Gone) = Pool(c)!NumWorkers => Pool(c)!Gone = c.workers
    BY PoolTyped
  <2>5. Pool(c)!Nones = Pool(c)!NumWorkers /\ Pool(c)!Gone = c.workers
    BY <2>1, <2>2, <2>3, <2>4, PoolConstants
  <2>6. \A v \in c.workers : \A p : ~Pool(c)!InHand(v, p)
    BY <2>5 DEF Pool!Gone, Pool!InHand, Pool!Busy
  <2>7. Len(poolOutput) = 0
    <3> SUFFICES ASSUME Len(poolOutput) # 0 PROVE FALSE OBVIOUS
    <3>1. Len(poolOutput) \in 1 .. Len(poolOutput) /\ poolOutput # <<>> BY PoolTyped
    <3> QED BY <2>1, <2>2, <2>3, <2>5, <3>1
  <2>8. \A p \in Pool(c)!Pages : p <= taken
    BY <2>2, <2>5, PoolTyped, PoolConstants
  <2>9. Pool(c)!Pages \subseteq poolReceived \cup failed BY <2>2, <2>6, <2>7, <2>8
  <2> QED BY <2>9, PoolTyped
<1>3. Pool(c)!EveryPageAnswered BY <1>2 DEF Pool!EveryPageAnswered
<1>4. Pool(c)!PolledIsRead
  <2>1. 1 \in Pool(c)!Pages BY PoolConstants
  <2>2. outcome = "ok" => ~Pool(c)!Failing(poolReceived, failed) BY PoolParts
  <2> QED BY <1>2, <2>1, <2>2 DEF Pool!PolledIsRead, Pool!Failing
<1> QED BY <1>1, <1>3, <1>4

-----------------------------------------------------------------------------
(* The pipeline: a refresh without an error has received all of its source *)

LEMMA SameInPipeline ==
    ASSUME NEW c, NEW S
    PROVE  /\ Pipeline(c)!IsFiniteSet(S) <=> IsFiniteSet(S)
           /\ Pipeline(c)!Cardinality(S) = Cardinality(S)
<1>1. Pipeline(c)!IsFiniteSet(S) <=> IsFiniteSet(S) BY DEF IsFiniteSet, Pipeline!IsFiniteSet
<1>2. Pipeline(c)!Cardinality(S) = Cardinality(S) BY DEF Cardinality, Pipeline!Cardinality
<1> QED BY <1>1, <1>2

LEMMA PipelineConstants ==
    ASSUME NEW c, Pipeline(c)!PipelineConstantsOK
    PROVE  /\ c.sources \in Nat /\ c.batches \in Nat /\ c.room \in Nat \ {0}
           /\ IsFiniteSet(c.agents)
           /\ Pipeline(c)!NumAgents = Cardinality(c.agents)
           /\ Pipeline(c)!NumAgents \in Nat \ {0}
           /\ Pipeline(c)!Adapters = 1 .. c.sources /\ Pipeline(c)!Positions = 0 .. c.batches
<1>1. c.sources \in Nat /\ c.batches \in Nat /\ c.room \in Nat \ {0} BY DEF Pipeline!PipelineConstantsOK
<1>2. IsFiniteSet(c.agents) /\ c.agents # {} BY SameInPipeline DEF Pipeline!PipelineConstantsOK
<1>3. Pipeline(c)!NumAgents = Cardinality(c.agents) BY SameInPipeline DEF Pipeline!NumAgents
<1>4. Cardinality(c.agents) \in Nat /\ Cardinality(c.agents) # 0
  BY <1>2, FS_CardinalityType, FS_EmptySet
<1> QED BY <1>1, <1>2, <1>3, <1>4 DEF Pipeline!Adapters, Pipeline!Positions

LEMMA PipelineItems ==
    ASSUME NEW c, Pipeline(c)!PipelineConstantsOK
    PROVE  /\ \A x \in Pipeline(c)!Item : /\ x.kind \in {"batch", "error", "duration", "end"}
                                          /\ x.source \in 0 .. c.sources
                                          /\ x.position \in 0 .. c.batches
           /\ \A x \in Pipeline(c)!Agent : /\ x.at \in {"idle", "inside", "putting", "done"}
                                           /\ x.source \in 0 .. c.sources
                                           /\ x.sent \in 0 .. c.batches
                                           /\ x.item \in Pipeline(c)!Item /\ x.last \in BOOLEAN
           /\ \A kind \in {"batch", "error", "duration", "end"} : \A s \in 0 .. c.sources :
                 \A k \in 0 .. c.batches :
                    /\ Pipeline(c)!Mark(kind, s, k) \in Pipeline(c)!Item
                    /\ Pipeline(c)!Mark(kind, s, k).kind = kind
                    /\ Pipeline(c)!Mark(kind, s, k).source = s
                    /\ Pipeline(c)!Mark(kind, s, k).position = k
           /\ Pipeline(c)!Nothing \in Pipeline(c)!Item
           /\ Pipeline(c)!Nothing.kind = "end" /\ Pipeline(c)!Nothing.source = 0
           /\ Pipeline(c)!IdleAgent \in Pipeline(c)!Agent
           /\ Pipeline(c)!IdleAgent.at = "idle" /\ Pipeline(c)!IdleAgent.source = 0
           /\ ~Pipeline(c)!IdleAgent.last
<1>1. Pipeline(c)!Positions = 0 .. c.batches /\ 0 \in 0 .. c.batches /\ 0 \in 0 .. c.sources
  BY PipelineConstants
<1>2. \A x \in Pipeline(c)!Item : /\ x.kind \in {"batch", "error", "duration", "end"}
                                  /\ x.source \in 0 .. c.sources
                                  /\ x.position \in 0 .. c.batches
  BY <1>1 DEF Pipeline!Item
<1>3. \A x \in Pipeline(c)!Agent : /\ x.at \in {"idle", "inside", "putting", "done"}
                                   /\ x.source \in 0 .. c.sources
                                   /\ x.sent \in 0 .. c.batches
                                   /\ x.item \in Pipeline(c)!Item /\ x.last \in BOOLEAN
  BY <1>1 DEF Pipeline!Agent
<1>4. \A kind \in {"batch", "error", "duration", "end"} : \A s \in 0 .. c.sources :
         \A k \in 0 .. c.batches :
            /\ Pipeline(c)!Mark(kind, s, k) \in Pipeline(c)!Item
            /\ Pipeline(c)!Mark(kind, s, k).kind = kind
            /\ Pipeline(c)!Mark(kind, s, k).source = s
            /\ Pipeline(c)!Mark(kind, s, k).position = k
  BY <1>1 DEF Pipeline!Item, Pipeline!Mark
<1>5. /\ Pipeline(c)!Nothing \in Pipeline(c)!Item
      /\ Pipeline(c)!Nothing.kind = "end" /\ Pipeline(c)!Nothing.source = 0
  BY <1>1, <1>4 DEF Pipeline!Nothing
<1>6. /\ Pipeline(c)!IdleAgent \in Pipeline(c)!Agent
      /\ Pipeline(c)!IdleAgent.at = "idle" /\ Pipeline(c)!IdleAgent.source = 0
      /\ ~Pipeline(c)!IdleAgent.last
  BY <1>1, <1>5 DEF Pipeline!IdleAgent, Pipeline!Agent
<1> QED BY <1>2, <1>3, <1>4, <1>5, <1>6

LEMMA PipelineTyped ==
    ASSUME NEW c, Pipeline(c)!PipelineConstantsOK, Pipeline(c)!TypeOK
    PROVE  /\ producer \in 0 .. c.sources + Pipeline(c)!NumAgents
           /\ queue \in Seq(0 .. c.sources) /\ Len(queue) \in 0 .. c.room
           /\ DOMAIN queue = 1 .. Len(queue)
           /\ output \in Seq(Pipeline(c)!Item) /\ Len(output) \in 0 .. c.room
           /\ DOMAIN output = 1 .. Len(output)
           /\ \A i \in 1 .. Len(output) : /\ output[i] \in Pipeline(c)!Item
                                          /\ output[i].kind \in {"batch", "error", "duration", "end"}
                                          /\ output[i].source \in 0 .. c.sources
                                          /\ output[i].position \in 0 .. c.batches
           /\ agent \in [c.agents -> Pipeline(c)!Agent]
           /\ \A v \in c.agents : /\ agent[v] \in Pipeline(c)!Agent
                                  /\ agent[v].at \in {"idle", "inside", "putting", "done"}
                                  /\ agent[v].source \in 0 .. c.sources
                                  /\ agent[v].sent \in 0 .. c.batches
                                  /\ agent[v].item \in Pipeline(c)!Item
                                  /\ agent[v].last \in BOOLEAN
           /\ consumer \in {"waiting", "body", "finished", "canceled"}
           /\ finished \in 0 .. Pipeline(c)!NumAgents
           /\ received \in [1 .. c.sources -> 0 .. c.batches]
           /\ errors \subseteq 1 .. c.sources
<1>1. /\ producer \in 0 .. c.sources + Pipeline(c)!NumAgents
      /\ queue \in Seq(0 .. c.sources) /\ Len(queue) <= c.room
      /\ output \in Seq(Pipeline(c)!Item) /\ Len(output) <= c.room
      /\ agent \in [c.agents -> Pipeline(c)!Agent]
      /\ consumer \in {"waiting", "body", "finished", "canceled"}
      /\ finished \in 0 .. Pipeline(c)!NumAgents
      /\ received \in [1 .. c.sources -> 0 .. c.batches]
      /\ errors \subseteq 1 .. c.sources
  BY PipelineConstants DEF Pipeline!TypeOK
<1>2. /\ Len(queue) \in 0 .. c.room /\ DOMAIN queue = 1 .. Len(queue)
      /\ Len(output) \in 0 .. c.room /\ DOMAIN output = 1 .. Len(output)
      /\ \A i \in 1 .. Len(output) : output[i] \in Pipeline(c)!Item
  BY <1>1, PipelineConstants
<1>3. \A v \in c.agents : agent[v] \in Pipeline(c)!Agent BY <1>1
<1>4. \A i \in 1 .. Len(output) : /\ output[i].kind \in {"batch", "error", "duration", "end"}
                                  /\ output[i].source \in 0 .. c.sources
                                  /\ output[i].position \in 0 .. c.batches
  BY <1>2, PipelineItems
<1>5. \A v \in c.agents : /\ agent[v].at \in {"idle", "inside", "putting", "done"}
                          /\ agent[v].source \in 0 .. c.sources
                          /\ agent[v].sent \in 0 .. c.batches
                          /\ agent[v].item \in Pipeline(c)!Item
                          /\ agent[v].last \in BOOLEAN
  BY <1>3, PipelineItems
<1> QED BY <1>1, <1>2, <1>3, <1>4, <1>5

\* What becomes of an agent.
LEMMA PipelinePutting ==
    ASSUME NEW c, Pipeline(c)!PipelineConstantsOK, Pipeline(c)!TypeOK, NEW v \in c.agents,
           NEW x \in Pipeline(c)!Item
    PROVE  /\ Pipeline(c)!Putting(v, x) \in Pipeline(c)!Agent
           /\ Pipeline(c)!Putting(v, x).at = "putting" /\ Pipeline(c)!Putting(v, x).item = x
           /\ Pipeline(c)!Putting(v, x).source = agent[v].source
           /\ Pipeline(c)!Putting(v, x).sent = agent[v].sent
           /\ Pipeline(c)!Putting(v, x).last = agent[v].last
<1>1. agent[v] \in Pipeline(c)!Agent BY PipelineTyped
<1> QED BY <1>1 DEF Pipeline!Agent, Pipeline!Putting

LEMMA PipelineAfterPut ==
    ASSUME NEW c, Pipeline(c)!PipelineConstantsOK, Pipeline(c)!TypeOK, NEW v \in c.agents
    PROVE  /\ Pipeline(c)!AfterPut(v) \in Pipeline(c)!Agent
           /\ agent[v].item.kind = "batch" =>
                 /\ Pipeline(c)!AfterPut(v).at = "inside"
                 /\ Pipeline(c)!AfterPut(v).source = agent[v].source
                 /\ Pipeline(c)!AfterPut(v).sent = agent[v].sent
                 /\ Pipeline(c)!AfterPut(v).last = agent[v].last
           /\ agent[v].item.kind = "error" =>
                 /\ Pipeline(c)!AfterPut(v).at = "putting"
                 /\ Pipeline(c)!AfterPut(v).source = agent[v].source
                 /\ Pipeline(c)!AfterPut(v).item.kind = "duration"
                 /\ Pipeline(c)!AfterPut(v).item.source = agent[v].source
                 /\ Pipeline(c)!AfterPut(v).last = agent[v].last
           /\ agent[v].item.kind \in {"duration", "end"} =>
                 /\ Pipeline(c)!AfterPut(v).source = 0 /\ ~Pipeline(c)!AfterPut(v).last
                 /\ Pipeline(c)!AfterPut(v).at =
                       IF agent[v].item.kind = "duration" /\ ~agent[v].last THEN "idle" ELSE "done"
<1>1. agent[v] \in Pipeline(c)!Agent /\ agent[v].source \in 0 .. c.sources
      /\ agent[v].item \in Pipeline(c)!Item
  BY PipelineTyped
<1>2. agent[v].item.kind \in {"batch", "error", "duration", "end"} BY <1>1, PipelineItems
<1>3. 0 \in 0 .. c.batches BY PipelineConstants
<1>4. CASE agent[v].item.kind = "batch"
  <2>1. Pipeline(c)!AfterPut(v) = [agent[v] EXCEPT !.at = "inside"] BY <1>4 DEF Pipeline!AfterPut
  <2> QED BY <1>1, <1>4, <2>1 DEF Pipeline!Agent
<1>5. CASE agent[v].item.kind = "error"
  <2>1. Pipeline(c)!AfterPut(v) = Pipeline(c)!Putting(v, Pipeline(c)!Mark("duration", agent[v].source, 0))
    BY <1>5 DEF Pipeline!AfterPut
  <2>2. PICK x : x = Pipeline(c)!Mark("duration", agent[v].source, 0) OBVIOUS
  <2>3. x \in Pipeline(c)!Item /\ x.kind = "duration" /\ x.source = agent[v].source
    BY <1>1, <1>3, <2>2, PipelineItems
  <2> QED BY <1>5, <2>1, <2>2, <2>3, PipelinePutting
<1>6. CASE agent[v].item.kind = "duration" /\ ~agent[v].last
  <2>1. Pipeline(c)!AfterPut(v) = Pipeline(c)!IdleAgent BY <1>6 DEF Pipeline!AfterPut
  <2> QED BY <1>6, <2>1, PipelineItems
<1>7. CASE agent[v].item.kind \in {"duration", "end"} /\ ~(agent[v].item.kind = "duration" /\ ~agent[v].last)
  <2>1. Pipeline(c)!AfterPut(v) = [Pipeline(c)!IdleAgent EXCEPT !.at = "done"]
    BY <1>7 DEF Pipeline!AfterPut
  <2>2. Pipeline(c)!IdleAgent \in Pipeline(c)!Agent /\ Pipeline(c)!IdleAgent.source = 0
        /\ ~Pipeline(c)!IdleAgent.last
    BY PipelineItems
  <2>3. /\ Pipeline(c)!AfterPut(v) \in Pipeline(c)!Agent /\ Pipeline(c)!AfterPut(v).at = "done"
        /\ Pipeline(c)!AfterPut(v).source = 0 /\ ~Pipeline(c)!AfterPut(v).last
    BY <2>1, <2>2 DEF Pipeline!Agent
  <2> QED BY <1>7, <2>3
<1> QED BY <1>2, <1>4, <1>5, <1>6, <1>7

LEMMA PipelineCancelled ==
    ASSUME NEW c, Pipeline(c)!PipelineConstantsOK, Pipeline(c)!TypeOK, NEW v \in c.agents
    PROVE  /\ Pipeline(c)!Cancelled(v) \in Pipeline(c)!Agent
           /\ agent[v].at = "putting" /\ agent[v].item.kind = "batch" =>
                 /\ Pipeline(c)!Cancelled(v).at = "putting"
                 /\ Pipeline(c)!Cancelled(v).source = agent[v].source
                 /\ Pipeline(c)!Cancelled(v).item.kind = "duration"
                 /\ Pipeline(c)!Cancelled(v).item.source = agent[v].source
                 /\ Pipeline(c)!Cancelled(v).last
<1>1. agent[v].source \in 0 .. c.sources /\ 0 \in 0 .. c.batches BY PipelineTyped, PipelineConstants
<1>2. PICK x : x = Pipeline(c)!Mark("duration", agent[v].source, 0) OBVIOUS
<1>3. x \in Pipeline(c)!Item /\ x.kind = "duration" /\ x.source = agent[v].source
  BY <1>1, <1>2, PipelineItems
<1>4. PICK y : y = Pipeline(c)!Putting(v, x) OBVIOUS
<1>5. y \in Pipeline(c)!Agent /\ y.at = "putting" /\ y.item = x /\ y.source = agent[v].source
  BY <1>3, <1>4, PipelinePutting
<1>6. CASE agent[v].at = "inside" \/ (agent[v].at = "putting" /\ agent[v].item.kind \in {"batch", "error"})
  <2>1. Pipeline(c)!Cancelled(v) = [y EXCEPT !.last = TRUE] BY <1>2, <1>4, <1>6 DEF Pipeline!Cancelled
  <2> QED BY <1>3, <1>5, <2>1 DEF Pipeline!Agent
<1>7. CASE ~(agent[v].at = "inside" \/ (agent[v].at = "putting" /\ agent[v].item.kind \in {"batch", "error"}))
  <2>1. Pipeline(c)!Cancelled(v) = [Pipeline(c)!IdleAgent EXCEPT !.at = "done"]
    BY <1>7 DEF Pipeline!Cancelled
  <2> QED BY <1>7, <2>1, PipelineItems DEF Pipeline!Agent
<1> QED BY <1>6, <1>7

\* Every step keeps the types; of the consumer's, when what it gets is of a
\* source and not every mark is counted.
LEMMA PipelineTypeStep ==
    ASSUME NEW c, Pipeline(c)!PipelineConstantsOK, Pipeline(c)!TypeOK,
           consumer = "waiting" => /\ finished # Pipeline(c)!NumAgents
                                   /\ output # <<>> /\ output[1].kind # "end" => output[1].source # 0,
           Pipeline(c)!Next \/ UNCHANGED pipelineVars
    PROVE  Pipeline(c)!TypeOK'
<1> USE PipelineConstants
<1>0. /\ producer \in 0 .. c.sources + Pipeline(c)!NumAgents
      /\ queue \in Seq(0 .. c.sources) /\ Len(queue) \in 0 .. c.room
      /\ output \in Seq(Pipeline(c)!Item) /\ Len(output) \in 0 .. c.room
      /\ agent \in [c.agents -> Pipeline(c)!Agent]
      /\ consumer \in {"waiting", "body", "finished", "canceled"}
      /\ finished \in 0 .. Pipeline(c)!NumAgents
      /\ received \in [1 .. c.sources -> 0 .. c.batches]
      /\ errors \subseteq 1 .. c.sources
  BY PipelineTyped
<1>1. CASE Pipeline(c)!Produce
  <2>1. /\ producer < c.sources + Pipeline(c)!NumAgents /\ Len(queue) < c.room
        /\ queue' = Append(queue, IF producer < c.sources THEN producer + 1 ELSE 0)
        /\ producer' = producer + 1
        /\ UNCHANGED <<output, agent, consumer, finished, received, errors>>
    BY <1>1 DEF Pipeline!Produce
  <2>2. (IF producer < c.sources THEN producer + 1 ELSE 0) \in 0 .. c.sources BY <1>0
  <2>3. queue' \in Seq(0 .. c.sources) /\ Len(queue') = Len(queue) + 1 BY <1>0, <2>1, <2>2, Appended
  <2>4. Len(queue') <= c.room /\ producer' \in 0 .. c.sources + Pipeline(c)!NumAgents
    BY <1>0, <2>1, <2>3
  <2> QED BY <1>0, <2>1, <2>3, <2>4 DEF Pipeline!TypeOK, Pipeline!NumAgents
<1>2. ASSUME UNCHANGED Pipeline(c)!Unshared, agent' \in [c.agents -> Pipeline(c)!Agent],
             queue' \in Seq(0 .. c.sources), Len(queue') <= c.room,
             output' \in Seq(Pipeline(c)!Item), Len(output') <= c.room
      PROVE  Pipeline(c)!TypeOK'
  BY <1>0, <1>2 DEF Pipeline!Unshared, Pipeline!TypeOK, Pipeline!NumAgents
<1>3. ASSUME NEW v \in c.agents, Pipeline(c)!GetAdapter(v) PROVE Pipeline(c)!TypeOK'
  <2>1. queue # <<>> /\ queue' = Tail(queue) /\ output' = output /\ UNCHANGED Pipeline(c)!Unshared
    BY <1>3 DEF Pipeline!GetAdapter
  <2>2. queue' \in Seq(0 .. c.sources) /\ Len(queue') = Len(queue) - 1 /\ Head(queue) \in 0 .. c.sources
    BY <1>0, <2>1, Tailed
  <2>3. Pipeline(c)!Nothing \in Pipeline(c)!Item BY PipelineItems
  <2>4. Pipeline(c)!Putting(v, Pipeline(c)!Nothing) \in Pipeline(c)!Agent
    BY <2>3, PipelinePutting
  <2>5. [agent[v] EXCEPT !.at = "inside", !.source = Head(queue), !.sent = 0] \in Pipeline(c)!Agent
    <3>1. agent[v] \in Pipeline(c)!Agent /\ 0 \in Pipeline(c)!Positions BY PipelineTyped
    <3>2. PICK h : h = Head(queue) OBVIOUS
    <3>3. h \in 0 .. c.sources BY <2>2, <3>2
    <3>4. PICK x : x = agent[v] OBVIOUS
    <3>5. [x EXCEPT !.at = "inside", !.source = h, !.sent = 0] \in Pipeline(c)!Agent
      BY <3>1, <3>3, <3>4 DEF Pipeline!Agent
    <3> QED BY <3>2, <3>4, <3>5
  <2>6. agent' = [agent EXCEPT ![v] = IF Head(queue) = 0 THEN Pipeline(c)!Putting(v, Pipeline(c)!Nothing)
                                      ELSE [agent[v] EXCEPT !.at = "inside", !.source = Head(queue), !.sent = 0]]
    BY <1>3 DEF Pipeline!GetAdapter
  <2>7. agent' \in [c.agents -> Pipeline(c)!Agent] BY <1>0, <2>4, <2>5, <2>6
  <2>8. Len(queue') <= c.room /\ Len(output') <= c.room BY <1>0, <2>1, <2>2
  <2> QED BY <1>0, <1>2, <2>1, <2>2, <2>7, <2>8
<1>4. ASSUME NEW v \in c.agents,
             Pipeline(c)!AdapterYields(v) \/ Pipeline(c)!AdapterEnds(v) \/ Pipeline(c)!AdapterRaises(v)
                \/ Pipeline(c)!TimeoutWhileBlocked(v)
      PROVE  Pipeline(c)!TypeOK'
  <2>1. queue' = queue /\ output' = output /\ UNCHANGED Pipeline(c)!Unshared
    BY <1>4 DEF Pipeline!AdapterYields, Pipeline!AdapterEnds, Pipeline!AdapterRaises,
                Pipeline!TimeoutWhileBlocked
  <2>2. agent[v] \in Pipeline(c)!Agent /\ agent[v].source \in 0 .. c.sources
        /\ agent[v].sent \in 0 .. c.batches /\ 0 \in 0 .. c.batches
    BY PipelineTyped
  <2>3. CASE Pipeline(c)!AdapterYields(v)
    <3>1. PICK x : x = Pipeline(c)!Mark("batch", agent[v].source, agent[v].sent + 1) OBVIOUS
    <3>2. PICK y : y = Pipeline(c)!Putting(v, x) OBVIOUS
    <3>3. agent[v].sent < c.batches /\ agent' = [agent EXCEPT ![v] = [y EXCEPT !.sent = agent[v].sent + 1]]
      BY <2>3, <3>1, <3>2 DEF Pipeline!AdapterYields
    <3>4. agent[v].sent + 1 \in 0 .. c.batches BY <2>2, <3>3
    <3>5. x \in Pipeline(c)!Item BY <2>2, <3>1, <3>4, PipelineItems
    <3>6. y \in Pipeline(c)!Agent /\ y.sent = agent[v].sent BY <3>2, <3>5, PipelinePutting
    <3>7. [y EXCEPT !.sent = agent[v].sent + 1] \in Pipeline(c)!Agent BY <3>4, <3>6 DEF Pipeline!Agent, Pipeline!Positions
    <3>8. agent' \in [c.agents -> Pipeline(c)!Agent] BY <1>0, <3>3, <3>7
    <3> QED BY <1>0, <1>2, <2>1, <3>8
  <2>4. ASSUME NEW kind \in {"duration", "error"},
               agent' = [agent EXCEPT ![v] = Pipeline(c)!Putting(v, Pipeline(c)!Mark(kind, agent[v].source, 0))]
        PROVE  Pipeline(c)!TypeOK'
    <3>1. Pipeline(c)!Mark(kind, agent[v].source, 0) \in Pipeline(c)!Item BY <2>2, PipelineItems
    <3>2. Pipeline(c)!Putting(v, Pipeline(c)!Mark(kind, agent[v].source, 0)) \in Pipeline(c)!Agent
      BY <3>1, PipelinePutting
    <3>3. agent' \in [c.agents -> Pipeline(c)!Agent] BY <1>0, <2>4, <3>2
    <3> QED BY <1>0, <1>2, <2>1, <3>3
  <2>5. CASE Pipeline(c)!AdapterEnds(v)
    <3>1. agent' = [agent EXCEPT ![v] = Pipeline(c)!Putting(v, Pipeline(c)!Mark("duration", agent[v].source, 0))]
      BY <2>5 DEF Pipeline!AdapterEnds
    <3> QED BY <2>4, <3>1
  <2>6. CASE Pipeline(c)!AdapterRaises(v)
    <3>1. agent' = [agent EXCEPT ![v] = Pipeline(c)!Putting(v, Pipeline(c)!Mark("error", agent[v].source, 0))]
      BY <2>6 DEF Pipeline!AdapterRaises
    <3> QED BY <2>4, <3>1
  <2>7. CASE Pipeline(c)!TimeoutWhileBlocked(v)
    <3>1. agent' = [agent EXCEPT ![v] = Pipeline(c)!Cancelled(v)] BY <2>7 DEF Pipeline!TimeoutWhileBlocked
    <3>2. agent' \in [c.agents -> Pipeline(c)!Agent] BY <1>0, <3>1, PipelineCancelled
    <3> QED BY <1>0, <1>2, <2>1, <3>2
  <2> QED BY <1>4, <2>3, <2>5, <2>6, <2>7
<1>5. ASSUME NEW v \in c.agents, Pipeline(c)!PutOutput(v) PROVE Pipeline(c)!TypeOK'
  <2>1. /\ Len(output) < c.room /\ output' = Append(output, agent[v].item)
        /\ agent' = [agent EXCEPT ![v] = Pipeline(c)!AfterPut(v)]
        /\ queue' = queue /\ UNCHANGED Pipeline(c)!Unshared
    BY <1>5 DEF Pipeline!PutOutput
  <2>2. agent' \in [c.agents -> Pipeline(c)!Agent] BY <1>0, <2>1, PipelineAfterPut
  <2>3. output' \in Seq(Pipeline(c)!Item) /\ Len(output') = Len(output) + 1
    BY <1>0, <2>1, PipelineTyped, Appended
  <2>4. Len(output') <= c.room BY <1>0, <2>1, <2>3
  <2> QED BY <1>0, <1>2, <2>1, <2>2, <2>3, <2>4
<1>6. CASE Pipeline(c)!Consume
  <2>1. PICK x : x = output[1] OBVIOUS
  <2>2. /\ consumer = "waiting" /\ output # <<>> /\ output' = Tail(output)
        /\ UNCHANGED <<producer, queue, agent>>
    BY <1>6 DEF Pipeline!Consume
  <2>3. output' \in Seq(Pipeline(c)!Item) /\ Len(output') = Len(output) - 1 /\ Head(output) = x
        /\ x \in Pipeline(c)!Item
    BY <1>0, <2>1, <2>2, Tailed
  <2>4. x.source \in 0 .. c.sources /\ x.position \in 0 .. c.batches BY <2>3, PipelineItems
  <2>5. x.kind # "end" => x.source \in 1 .. c.sources BY <2>1, <2>2, <2>4
  <2>6. Len(output') <= c.room BY <1>0, <2>3
  <2>7. /\ consumer' \in {"waiting", "body", "finished", "canceled"}
        /\ finished' \in 0 .. Pipeline(c)!NumAgents
        /\ received' \in [1 .. c.sources -> 0 .. c.batches]
        /\ errors' \subseteq 1 .. c.sources
    <3>1. CASE x.kind = "end"
      <4>1. /\ finished' = finished + 1
            /\ consumer' = IF finished + 1 = Pipeline(c)!NumAgents THEN "finished" ELSE "waiting"
            /\ UNCHANGED <<received, errors>>
        BY <1>6, <2>3, <3>1 DEF Pipeline!Consume, Pipeline!Counted
      <4>2. finished # Pipeline(c)!NumAgents BY <2>2
      <4>3. finished' \in 0 .. Pipeline(c)!NumAgents BY <1>0, <4>1, <4>2
      <4>4. consumer' \in {"waiting", "body", "finished", "canceled"} BY <4>1
      <4> QED BY <1>0, <4>1, <4>3, <4>4
    <3>2. CASE x.kind = "batch" BY <1>0, <1>6, <2>3, <2>4, <2>5, <3>2 DEF Pipeline!Consume
    <3>3. CASE x.kind = "error" BY <1>0, <1>6, <2>3, <2>5, <3>3 DEF Pipeline!Consume
    <3>4. CASE x.kind = "duration" BY <1>0, <1>6, <2>3, <3>4 DEF Pipeline!Consume
    <3>5. x.kind \in {"batch", "error", "duration", "end"} BY <2>3, PipelineItems
    <3> QED BY <3>1, <3>2, <3>3, <3>4, <3>5
  <2> QED BY <1>0, <2>2, <2>3, <2>6, <2>7 DEF Pipeline!TypeOK, Pipeline!NumAgents
<1>7. CASE Pipeline(c)!CallerReturns \/ UNCHANGED pipelineVars
  <2>1. /\ UNCHANGED <<producer, queue, output, agent, finished, received, errors>>
        /\ consumer' \in {consumer, "waiting"}
    BY <1>7 DEF Pipeline!CallerReturns, pipelineVars
  <2> QED BY <1>0, <2>1 DEF Pipeline!TypeOK, Pipeline!NumAgents
<1>8. CASE Pipeline(c)!CancelRefresh
  <2>1. /\ agent' = [v \in c.agents |-> Pipeline(c)!Cancelled(v)] /\ consumer' = "canceled"
        /\ UNCHANGED <<producer, queue, output, finished, received, errors>>
    BY <1>8 DEF Pipeline!CancelRefresh
  <2>2. agent' \in [c.agents -> Pipeline(c)!Agent] BY <2>1, PipelineCancelled
  <2> QED BY <1>0, <2>1, <2>2 DEF Pipeline!TypeOK, Pipeline!NumAgents
<1> QED BY <1>1, <1>3, <1>4, <1>5, <1>6, <1>7, <1>8 DEF Pipeline!Next, Pipeline!Progress

\* What is known of a source goes on being known when another item is put.
LEMMA PipelineAppended ==
    ASSUME NEW c, Pipeline(c)!PipelineConstantsOK, Pipeline(c)!TypeOK,
           NEW x \in Pipeline(c)!Item, output' = Append(output, x),
           received' = received, errors' = errors, NEW s \in 1 .. c.sources
    PROVE  /\ ~(x.kind = "batch" /\ x.source = s) =>
                 /\ Pipeline(c)!InOutput(s) => Pipeline(c)!InOutput(s)'
                 /\ \A k : Pipeline(c)!LastOut(s, k) => Pipeline(c)!LastOut(s, k)'
                 /\ Pipeline(c)!Read(s) => Pipeline(c)!Read(s)'
           /\ x.kind = "error" /\ x.source = s => Pipeline(c)!Read(s)'
           /\ x.kind = "batch" /\ x.source = s /\ Pipeline(c)!InOutput(s)
              /\ Pipeline(c)!LastOut(s, x.position - 1)
                 => Pipeline(c)!InOutput(s)' /\ Pipeline(c)!LastOut(s, x.position)'
<1>0. PICK n : n = Len(output) OBVIOUS
<1>1. /\ n \in Nat /\ DOMAIN output = 1 .. n /\ DOMAIN output' = 1 .. n + 1
      /\ output'[n + 1] = x /\ \A i \in 1 .. n : output'[i] = output[i]
  BY <1>0, PipelineTyped, Appended
<1>2. /\ received[s] \in Nat /\ \A i \in 1 .. n : output[i].position \in Nat
      /\ x.position \in Nat
  <2>1. \A i \in 1 .. n : output[i].position \in 0 .. c.batches BY <1>0, PipelineTyped
  <2>2. received[s] \in 0 .. c.batches BY PipelineTyped
  <2>3. x.position \in 0 .. c.batches BY PipelineItems
  <2> QED BY <2>1, <2>2, <2>3, PipelineConstants
<1>3. PICK B : B = Pipeline(c)!BatchesOf(s) OBVIOUS
<1>4. B = {i \in 1 .. n : output[i].kind = "batch" /\ output[i].source = s}
  BY <1>1, <1>3 DEF Pipeline!BatchesOf
<1>5. Pipeline(c)!BatchesOf(s)' = {i \in 1 .. n + 1 : output'[i].kind = "batch" /\ output'[i].source = s}
  BY <1>1 DEF Pipeline!BatchesOf
<1>6. 1 .. n + 1 = 1 .. n \cup {n + 1} BY <1>1
<1>7. CASE ~(x.kind = "batch" /\ x.source = s)
  <2>1. Pipeline(c)!BatchesOf(s)' = B BY <1>1, <1>4, <1>5, <1>6, <1>7
  <2>2. \A i \in B : output'[i] = output[i] BY <1>1, <1>4
  <2>3. ASSUME Pipeline(c)!InOutput(s) PROVE Pipeline(c)!InOutput(s)'
    <3>1. \A i \in B :
             /\ received[s] < output[i].position
             /\ \/ output[i].position = received[s] + 1
                \/ \E j \in B : j < i /\ output[j].position + 1 = output[i].position
             /\ \A j \in B : i < j => output[i].position < output[j].position
      BY <1>3, <2>3 DEF Pipeline!InOutput
    <3>2. \A i \in B :
             /\ received'[s] < output'[i].position
             /\ \/ output'[i].position = received'[s] + 1
                \/ \E j \in B : j < i /\ output'[j].position + 1 = output'[i].position
             /\ \A j \in B : i < j => output'[i].position < output'[j].position
      BY <2>2, <3>1
    <3> QED BY <2>1, <3>2 DEF Pipeline!InOutput
  <2>4. \A k : Pipeline(c)!LastOut(s, k) => Pipeline(c)!LastOut(s, k)'
    BY <1>3, <2>1, <2>2 DEF Pipeline!LastOut
  <2>5. Pipeline(c)!Read(s) => Pipeline(c)!Read(s)'
    BY <1>1, <1>6, <2>4 DEF Pipeline!Read
  <2>6. x.kind = "error" /\ x.source = s => Pipeline(c)!Read(s)'
    BY <1>1, <1>6 DEF Pipeline!Read
  <2> QED BY <1>7, <2>3, <2>4, <2>5, <2>6
<1>8. CASE x.kind = "batch" /\ x.source = s
  <2> SUFFICES ASSUME Pipeline(c)!InOutput(s), Pipeline(c)!LastOut(s, x.position - 1)
               PROVE  Pipeline(c)!InOutput(s)' /\ Pipeline(c)!LastOut(s, x.position)'
    BY <1>8
  <2>1. PICK C : C = Pipeline(c)!BatchesOf(s)' OBVIOUS
  <2>2. C = B \cup {n + 1} BY <1>1, <1>4, <1>5, <1>6, <1>8, <2>1
  <2>3. /\ \A i \in B : i \in 1 .. n /\ output'[i] = output[i] /\ output[i].position \in Nat
        /\ output'[n + 1] = x
    BY <1>1, <1>2, <1>4
  <2>4. /\ received[s] <= x.position - 1 /\ \A i \in B : output[i].position <= x.position - 1
        /\ received[s] = x.position - 1 \/ \E i \in B : output[i].position = x.position - 1
    BY <1>3 DEF Pipeline!LastOut
  <2>5. \A i \in B :
           /\ received[s] < output[i].position
           /\ \/ output[i].position = received[s] + 1
              \/ \E j \in B : j < i /\ output[j].position + 1 = output[i].position
           /\ \A j \in B : i < j => output[i].position < output[j].position
    BY <1>3 DEF Pipeline!InOutput
  <2>6. ASSUME NEW i \in C
        PROVE  /\ received[s] < output'[i].position
               /\ \/ output'[i].position = received[s] + 1
                  \/ \E j \in C : j < i /\ output'[j].position + 1 = output'[i].position
               /\ \A j \in C : i < j => output'[i].position < output'[j].position
    <3>1. CASE i \in B
      <4>1. output'[i] = output[i] BY <2>3, <3>1
      <4>2. received[s] < output'[i].position BY <2>5, <3>1, <4>1
      <4>3. \/ output'[i].position = received[s] + 1
            \/ \E j \in C : j < i /\ output'[j].position + 1 = output'[i].position
        <5>1. CASE output[i].position = received[s] + 1 BY <4>1, <5>1
        <5>2. CASE \E j \in B : j < i /\ output[j].position + 1 = output[i].position
          <6>1. PICK j \in B : j < i /\ output[j].position + 1 = output[i].position BY <5>2
          <6>2. j \in C /\ output'[j] = output[j] BY <2>2, <2>3
          <6> QED BY <4>1, <6>1, <6>2
        <5> QED BY <2>5, <3>1, <5>1, <5>2
      <4>4. ASSUME NEW j \in C, i < j PROVE output'[i].position < output'[j].position
        <5>1. CASE j \in B BY <2>3, <2>5, <3>1, <4>1, <4>4, <5>1
        <5>2. CASE j = n + 1
          <6>1. output'[j].position = x.position BY <2>3, <5>2
          <6>2. output[i].position <= x.position - 1 /\ output[i].position \in Nat BY <2>3, <2>4, <3>1
          <6> QED BY <1>2, <4>1, <6>1, <6>2
        <5> QED BY <2>2, <5>1, <5>2
      <4> QED BY <4>2, <4>3, <4>4
    <3>2. CASE i = n + 1
      <4>1. output'[i] = x BY <2>3, <3>2
      <4>2. received[s] < output'[i].position BY <1>2, <2>4, <4>1
      <4>3. \/ output'[i].position = received[s] + 1
            \/ \E j \in C : j < i /\ output'[j].position + 1 = output'[i].position
        <5>1. CASE received[s] = x.position - 1 BY <1>2, <4>1, <5>1
        <5>2. CASE \E j \in B : output[j].position = x.position - 1
          <6>1. PICK j \in B : output[j].position = x.position - 1 BY <5>2
          <6>2. j \in C /\ output'[j] = output[j] /\ j \in 1 .. n BY <2>2, <2>3
          <6>3. j < i BY <1>1, <3>2, <6>2
          <6>4. output'[j].position + 1 = output'[i].position BY <1>2, <4>1, <6>1, <6>2
          <6> QED BY <6>2, <6>3, <6>4
        <5> QED BY <2>4, <5>1, <5>2
      <4>4. \A j \in C : ~(i < j) BY <1>1, <2>2, <2>3, <3>2
      <4> QED BY <4>2, <4>3, <4>4
    <3> QED BY <2>2, <3>1, <3>2
  <2>7. Pipeline(c)!InOutput(s)' BY <2>1, <2>6 DEF Pipeline!InOutput
  <2>8. /\ received[s] <= x.position
        /\ \A i \in C : output'[i].position <= x.position
        /\ \E i \in C : output'[i].position = x.position
    <3>1. received[s] <= x.position BY <1>2, <2>4
    <3>2. ASSUME NEW i \in C PROVE output'[i].position <= x.position
      <4>1. CASE i \in B
        <5>1. output'[i].position = output[i].position /\ output[i].position \in Nat BY <2>3, <4>1
        <5>2. output[i].position <= x.position - 1 BY <2>4, <4>1
        <5>3. x.position \in Nat BY <1>2
        <5>4. output[i].position <= x.position BY <5>1, <5>2, <5>3
        <5> QED BY <5>1, <5>4
      <4>2. CASE i = n + 1
        <5>1. output'[i].position = x.position BY <2>3, <4>2
        <5> QED BY <1>2, <5>1
      <4> QED BY <2>2, <4>1, <4>2
    <3>3. n + 1 \in C /\ output'[n + 1].position = x.position BY <2>2, <2>3
    <3> QED BY <3>1, <3>2, <3>3
  <2>9. Pipeline(c)!LastOut(s, x.position)' BY <2>1, <2>8 DEF Pipeline!LastOut
  <2> QED BY <2>7, <2>9
<1> QED BY <1>7, <1>8

\* So it does when the consumer gets an item; a batch is the one after the
\* last it has received.
LEMMA PipelineTailed ==
    ASSUME NEW c, Pipeline(c)!PipelineConstantsOK, Pipeline(c)!TypeOK,
           output # <<>>, output' = Tail(output), NEW s \in 1 .. c.sources,
           errors \subseteq errors', Pipeline(c)!InOutput(s),
           IF output[1].kind = "batch" /\ output[1].source = s
           THEN received'[s] = output[1].position ELSE received'[s] = received[s],
           output[1].kind = "error" /\ output[1].source = s => s \in errors'
    PROVE  /\ Pipeline(c)!InOutput(s)'
           /\ \A k \in Nat : Pipeline(c)!LastOut(s, k) => Pipeline(c)!LastOut(s, k)'
           /\ Pipeline(c)!Read(s) => Pipeline(c)!Read(s)'
           /\ received'[s] \in {received[s], received[s] + 1}
<1>0. PICK n : n = Len(output) OBVIOUS
<1>1. /\ n \in Nat \ {0} /\ DOMAIN output = 1 .. n /\ DOMAIN output' = 1 .. n - 1
      /\ \A i \in 1 .. n - 1 : output'[i] = output[i + 1]
  BY <1>0, PipelineTyped, Tailed
<1>2. received[s] \in Nat /\ \A i \in 1 .. n : output[i].position \in Nat
  <2>1. \A i \in 1 .. n : output[i].position \in 0 .. c.batches BY <1>0, PipelineTyped
  <2>2. received[s] \in 0 .. c.batches BY PipelineTyped
  <2> QED BY <2>1, <2>2, PipelineConstants
<1>3. PICK B : B = Pipeline(c)!BatchesOf(s) OBVIOUS
<1>4. B = {i \in 1 .. n : output[i].kind = "batch" /\ output[i].source = s}
  BY <1>1, <1>3 DEF Pipeline!BatchesOf
<1>5. PICK C : C = Pipeline(c)!BatchesOf(s)' OBVIOUS
<1>6. C = {i \in 1 .. n - 1 : output[i + 1].kind = "batch" /\ output[i + 1].source = s}
  BY <1>1, <1>5 DEF Pipeline!BatchesOf
<1>7. \A i \in C : i \in 1 .. n - 1 /\ i + 1 \in B /\ output'[i] = output[i + 1]
  <2>1. \A i \in 1 .. n - 1 : i + 1 \in 1 .. n BY <1>1
  <2> QED BY <1>1, <1>4, <1>6, <2>1
<1>8. \A i \in B : i # 1 => i - 1 \in C /\ output'[i - 1] = output[i] /\ i \in 1 .. n
  <2>1. \A i \in 1 .. n : i # 1 => i - 1 \in 1 .. n - 1 /\ i - 1 + 1 = i BY <1>1
  <2> QED BY <1>1, <1>4, <1>6, <2>1
<1>9. \A i \in B : i \in 1 .. n /\ output[i].position \in Nat BY <1>2, <1>4
<1>10. 1 \in B <=> output[1].kind = "batch" /\ output[1].source = s
  <2>1. 1 \in 1 .. n BY <1>1
  <2> QED BY <1>4, <2>1
<1>11. \A i \in B :
           /\ received[s] < output[i].position
           /\ \/ output[i].position = received[s] + 1
              \/ \E j \in B : j < i /\ output[j].position + 1 = output[i].position
           /\ \A j \in B : i < j => output[i].position < output[j].position
  BY <1>3 DEF Pipeline!InOutput
<1>12. 1 \in B => output[1].position = received[s] + 1 /\ received'[s] = received[s] + 1
  <2>1. \A j \in B : ~(j < 1) BY <1>1, <1>9
  <2> QED BY <1>10, <1>11, <2>1
<1>13. 1 \notin B => received'[s] = received[s] BY <1>10
<1>14. ASSUME NEW i \in C
       PROVE  /\ received'[s] < output'[i].position
              /\ \/ output'[i].position = received'[s] + 1
                 \/ \E j \in C : j < i /\ output'[j].position + 1 = output'[i].position
              /\ \A j \in C : i < j => output'[i].position < output'[j].position
  <2>1. i \in Nat /\ i > 0 /\ i + 1 \in B /\ output'[i] = output[i + 1] BY <1>1, <1>7
  <2>2. received'[s] < output'[i].position
    <3>1. CASE 1 \in B
      <4>1. output[1].position < output[i + 1].position BY <1>11, <2>1, <3>1
      <4> QED BY <1>12, <2>1, <3>1, <4>1
    <3>2. CASE 1 \notin B BY <1>11, <1>13, <2>1, <3>2
    <3> QED BY <3>1, <3>2
  <2>3. \/ output'[i].position = received'[s] + 1
        \/ \E j \in C : j < i /\ output'[j].position + 1 = output'[i].position
    <3>1. CASE output[i + 1].position = received[s] + 1
      <4>1. 1 \notin B
        <5>1. 1 \in B => received[s] + 1 < output[i + 1].position BY <1>11, <1>12, <2>1
        <5> QED BY <1>2, <3>1, <5>1
      <4> QED BY <1>13, <2>1, <3>1, <4>1
    <3>2. CASE \E j \in B : j < i + 1 /\ output[j].position + 1 = output[i + 1].position
      <4>1. PICK j \in B : j < i + 1 /\ output[j].position + 1 = output[i + 1].position BY <3>2
      <4>2. CASE j = 1 BY <1>12, <2>1, <4>1, <4>2
      <4>3. CASE j # 1
        <5>1. j - 1 \in C /\ output'[j - 1] = output[j] /\ j \in 1 .. n BY <1>8, <4>3
        <5>2. j - 1 < i BY <1>1, <2>1, <4>1, <5>1
        <5> QED BY <2>1, <4>1, <5>1, <5>2
      <4> QED BY <4>2, <4>3
    <3> QED BY <1>11, <2>1, <3>1, <3>2
  <2>4. ASSUME NEW j \in C, i < j PROVE output'[i].position < output'[j].position
    <3>1. j \in Nat /\ j + 1 \in B /\ output'[j] = output[j + 1] BY <1>1, <1>7
    <3>2. i + 1 < j + 1 BY <2>1, <2>4, <3>1
    <3> QED BY <1>11, <2>1, <3>1, <3>2
  <2> QED BY <2>2, <2>3, <2>4
<1>15. Pipeline(c)!InOutput(s)' BY <1>5, <1>14 DEF Pipeline!InOutput
<1>16. ASSUME NEW k \in Nat, Pipeline(c)!LastOut(s, k) PROVE Pipeline(c)!LastOut(s, k)'
  <2>1. /\ received[s] <= k /\ \A i \in B : output[i].position <= k
        /\ received[s] = k \/ \E i \in B : output[i].position = k
    BY <1>3, <1>16 DEF Pipeline!LastOut
  <2>2. received'[s] <= k BY <1>12, <1>13, <2>1
  <2>3. \A i \in C : output'[i].position <= k BY <1>7, <2>1
  <2>4. received'[s] = k \/ \E i \in C : output'[i].position = k
    <3>1. CASE received[s] = k
      <4>1. 1 \notin B BY <1>2, <1>12, <2>1, <3>1
      <4> QED BY <1>13, <3>1, <4>1
    <3>2. CASE \E i \in B : output[i].position = k
      <4>1. PICK i \in B : output[i].position = k BY <3>2
      <4>2. CASE i = 1 BY <1>12, <4>1, <4>2
      <4>3. CASE i # 1 BY <1>8, <4>1, <4>3
      <4> QED BY <4>2, <4>3
    <3> QED BY <2>1, <3>1, <3>2
  <2> QED BY <1>5, <2>2, <2>3, <2>4 DEF Pipeline!LastOut
<1>17. ASSUME Pipeline(c)!Read(s) PROVE Pipeline(c)!Read(s)'
  <2>1. CASE Pipeline(c)!LastOut(s, c.batches) BY <1>16, <2>1, PipelineConstants DEF Pipeline!Read
  <2>2. CASE s \in errors BY <2>2 DEF Pipeline!Read
  <2>3. CASE \E i \in DOMAIN output : output[i].kind = "error" /\ output[i].source = s
    <3>1. PICK i \in 1 .. n : output[i].kind = "error" /\ output[i].source = s BY <1>1, <2>3
    <3>2. CASE i = 1 BY <3>1, <3>2 DEF Pipeline!Read
    <3>3. CASE i # 1
      <4>1. i - 1 \in 1 .. n - 1 /\ i - 1 + 1 = i BY <1>1, <3>3
      <4>2. i - 1 \in DOMAIN output' /\ output'[i - 1] = output[i] BY <1>1, <4>1
      <4> QED BY <3>1, <4>2 DEF Pipeline!Read
    <3> QED BY <3>2, <3>3
  <2> QED BY <1>17, <2>1, <2>2, <2>3 DEF Pipeline!Read
<1> QED BY <1>12, <1>13, <1>15, <1>16, <1>17

\* Marks in the output and counted.
LEMMA EndsOf ==
    ASSUME NEW c, output \in Seq(Pipeline(c)!Item), finished \in Nat
    PROVE  /\ Pipeline(c)!Ends = finished
                + Cardinality({i \in 1 .. Len(output) :
                                  output[i] \in {x \in Pipeline(c)!Item : x.kind = "end"}})
           /\ Pipeline(c)!Ends \in Nat /\ Pipeline(c)!Ends >= finished
           /\ Pipeline(c)!Ends = finished
                => \A i \in 1 .. Len(output) : output[i].kind # "end"
<1> DEFINE K == {x \in Pipeline(c)!Item : x.kind = "end"}
           X == {i \in 1 .. Len(output) : output[i] \in K}
<1>1. Pipeline(c)!EndsIn(output) = X BY DEF Pipeline!EndsIn
<1>2. \A i \in 1 .. Len(output) : output[i] \notin K => output[i].kind # "end" OBVIOUS
<1> HIDE DEF K
<1>3. Cardinality(X) \in Nat /\ (Cardinality(X) = 0 => \A i \in 1 .. Len(output) : output[i] \notin K)
  BY CountOf
<1>4. Pipeline(c)!Ends = finished + Cardinality(X) BY <1>1, SameInPipeline DEF Pipeline!Ends
<1> HIDE DEF X
<1>5. /\ Pipeline(c)!Ends \in Nat /\ Pipeline(c)!Ends >= finished
      /\ Pipeline(c)!Ends = finished => Cardinality(X) = 0
  BY <1>3, <1>4
<1> QED BY <1>2, <1>3, <1>4, <1>5 DEF X, K

LEMMA EndsPut ==
    ASSUME NEW c, output \in Seq(Pipeline(c)!Item), finished \in Nat, NEW x \in Pipeline(c)!Item,
           output' = Append(output, x), finished' = finished
    PROVE  /\ x.kind = "end" => Pipeline(c)!Ends' = Pipeline(c)!Ends + 1
           /\ x.kind # "end" => Pipeline(c)!Ends' = Pipeline(c)!Ends
<1>0. PICK t : t = Append(output, x) /\ t = output' OBVIOUS
<1> DEFINE K == {y \in Pipeline(c)!Item : y.kind = "end"}
           n == Cardinality({i \in 1 .. Len(output) : output[i] \in K})
           m == Cardinality({i \in 1 .. Len(t) : t[i] \in K})
<1>1. (x.kind = "end" => x \in K) /\ (x.kind # "end" => x \notin K) OBVIOUS
<1>2. Pipeline(c)!EndsIn(output) = {i \in 1 .. Len(output) : output[i] \in K}
  BY DEF Pipeline!EndsIn
<1>3. Pipeline(c)!EndsIn(output)' = {i \in 1 .. Len(t) : t[i] \in K}
  BY <1>0 DEF Pipeline!EndsIn
<1>4. Pipeline(c)!Ends = finished + n BY <1>2, SameInPipeline DEF Pipeline!Ends
<1>5. Pipeline(c)!Ends' = finished + m BY <1>3, SameInPipeline DEF Pipeline!Ends
<1> HIDE DEF K
<1>6. (x \in K => m = n + 1) /\ (x \notin K => m = n) BY <1>0, CountAppended
<1>7. n \in Nat BY CountOf
<1> HIDE DEF n, m
<1> QED BY <1>1, <1>4, <1>5, <1>6, <1>7

LEMMA EndsGot ==
    ASSUME NEW c, output \in Seq(Pipeline(c)!Item), finished \in Nat, output # <<>>,
           output' = Tail(output),
           output[1].kind = "end" => finished' = finished + 1,
           output[1].kind # "end" => finished' = finished
    PROVE  Pipeline(c)!Ends' = Pipeline(c)!Ends
<1>0. PICK t : t = Tail(output) /\ t = output' OBVIOUS
<1> DEFINE K == {y \in Pipeline(c)!Item : y.kind = "end"}
           n == Cardinality({i \in 1 .. Len(output) : output[i] \in K})
           m == Cardinality({i \in 1 .. Len(t) : t[i] \in K})
<1>1. /\ output[1].kind = "end" => output[1] \in K
      /\ output[1].kind # "end" => output[1] \notin K
  BY Tailed
<1>2. Pipeline(c)!EndsIn(output) = {i \in 1 .. Len(output) : output[i] \in K}
  BY DEF Pipeline!EndsIn
<1>3. Pipeline(c)!EndsIn(output)' = {i \in 1 .. Len(t) : t[i] \in K}
  <2>1. t \in Seq(Pipeline(c)!Item) BY <1>0, Tailed
  <2> QED BY <1>0, <2>1 DEF Pipeline!EndsIn
<1>4. Pipeline(c)!Ends = finished + n BY <1>2, SameInPipeline DEF Pipeline!Ends
<1>5. Pipeline(c)!Ends' = finished' + m BY <1>3, SameInPipeline DEF Pipeline!Ends
<1> HIDE DEF K
<1>6. (output[1] \in K => n = m + 1) /\ (output[1] \notin K => n = m) BY <1>0, CountTailed
<1>7. m \in Nat
  <2>1. t \in Seq(Pipeline(c)!Item) BY <1>0, Tailed
  <2> QED BY <2>1, CountOf
<1> HIDE DEF n, m
<1> QED BY <1>1, <1>4, <1>5, <1>6, <1>7

\* The agents whose task has ended.
LEMMA GoneAgents ==
    ASSUME NEW c, Pipeline(c)!PipelineConstantsOK
    PROVE  /\ IsFiniteSet(Pipeline(c)!Gone) /\ Cardinality(Pipeline(c)!Gone) \in Nat
           /\ Cardinality(Pipeline(c)!Gone) <= Pipeline(c)!NumAgents
           /\ Cardinality(Pipeline(c)!Gone) = Pipeline(c)!NumAgents
                 => \A v \in c.agents : agent[v].at = "done"
<1>1. IsFiniteSet(c.agents) /\ Pipeline(c)!NumAgents = Cardinality(c.agents) BY PipelineConstants
<1>2. Pipeline(c)!Gone \subseteq c.agents BY DEF Pipeline!Gone
<1>3. /\ IsFiniteSet(Pipeline(c)!Gone) /\ Cardinality(Pipeline(c)!Gone) <= Cardinality(c.agents)
      /\ Cardinality(Pipeline(c)!Gone) = Cardinality(c.agents) => Pipeline(c)!Gone = c.agents
  BY <1>1, <1>2, FS_Subset
<1>4. Cardinality(Pipeline(c)!Gone) \in Nat BY <1>3, FS_CardinalityType
<1>5. Pipeline(c)!Gone = c.agents => \A v \in c.agents : agent[v].at = "done" BY DEF Pipeline!Gone
<1> QED BY <1>1, <1>3, <1>4, <1>5

LEMMA GoneStep ==
    ASSUME NEW c, Pipeline(c)!PipelineConstantsOK, Pipeline(c)!TypeOK, NEW v \in c.agents, NEW y,
           agent' = [agent EXCEPT ![v] = y], agent[v].at # "done"
    PROVE  /\ y.at # "done" => Pipeline(c)!Gone' = Pipeline(c)!Gone
           /\ y.at = "done" => Cardinality(Pipeline(c)!Gone') = Cardinality(Pipeline(c)!Gone) + 1
<1>1. Pipeline(c)!Gone = {u \in c.agents : agent[u].at = "done"} BY DEF Pipeline!Gone
<1>2. agent \in [c.agents -> Pipeline(c)!Agent] BY PipelineTyped
<1>3. \A u \in c.agents : agent'[u] = IF u = v THEN y ELSE agent[u] BY <1>2
<1>4. Pipeline(c)!Gone' = {u \in c.agents : agent'[u].at = "done"} BY DEF Pipeline!Gone
<1>5. y.at # "done" => Pipeline(c)!Gone' = Pipeline(c)!Gone BY <1>1, <1>3, <1>4
<1>6. y.at = "done" => Pipeline(c)!Gone' = Pipeline(c)!Gone \cup {v} BY <1>1, <1>3, <1>4
<1>7. v \notin Pipeline(c)!Gone BY <1>1
<1>8. IsFiniteSet(Pipeline(c)!Gone) BY GoneAgents
<1>9. Cardinality(Pipeline(c)!Gone \cup {v}) = Cardinality(Pipeline(c)!Gone) + 1
  BY <1>7, <1>8, FS_AddElement
<1> QED BY <1>5, <1>6, <1>9

\* The parts of the invariant.
LEMMA PipelineParts ==
    ASSUME NEW c, Pipeline(c)!PipelineConstantsOK, Pipeline(c)!PipelineInv, consumer # "canceled"
    PROVE  /\ Pipeline(c)!TypeOK /\ Pipeline(c)!InQueue
           /\ Pipeline(c)!Ends <= Cardinality(Pipeline(c)!Gone)
           /\ \A s \in 1 .. c.sources : Pipeline(c)!Unheld(s) /\ ~Pipeline(c)!Read(s)
                 => Pipeline(c)!Ends < Cardinality(Pipeline(c)!Gone)
           /\ Pipeline(c)!Ends > 0 => Pipeline(c)!Taken >= c.sources
           /\ \A v \in c.agents : agent[v].at = "putting" /\ agent[v].item.kind = "end"
                 => Pipeline(c)!Taken >= c.sources
           /\ Pipeline(c)!Ends = Pipeline(c)!NumAgents /\ output # <<>>
                 => output[Len(output)].kind = "end"
           /\ consumer = "finished" <=> finished = Pipeline(c)!NumAgents
           /\ consumer = "finished" => output = <<>>
           /\ \A s \in 1 .. c.sources : /\ Pipeline(c)!InOutput(s)
                                        /\ s > Pipeline(c)!Taken => received[s] = 0
           /\ \A i \in 1 .. Len(output) :
                 output[i].kind # "end" => output[i].source \in 1 .. Pipeline(c)!Taken
           /\ \A v \in c.agents : Pipeline(c)!Holds(agent[v])
           /\ \A u, v \in c.agents : agent[u].source # 0 /\ agent[u].source = agent[v].source => u = v
<1>1. Pipeline(c)!TypeOK /\ Pipeline(c)!InQueue /\ Pipeline(c)!Marked BY DEF Pipeline!PipelineInv
<1>2. DOMAIN output = 1 .. Len(output) /\ Pipeline(c)!Adapters = 1 .. c.sources
  BY <1>1, PipelineTyped, PipelineConstants
<1>3. /\ Pipeline(c)!Ends <= Cardinality(Pipeline(c)!Gone)
      /\ \A s \in 1 .. c.sources : Pipeline(c)!Unheld(s) /\ ~Pipeline(c)!Read(s)
            => Pipeline(c)!Ends < Cardinality(Pipeline(c)!Gone)
  BY <1>1, <1>2, SameInPipeline DEF Pipeline!Marked
<1>4. /\ Pipeline(c)!Ends > 0 => Pipeline(c)!Taken >= c.sources
      /\ \A v \in c.agents : agent[v].at = "putting" /\ agent[v].item.kind = "end"
            => Pipeline(c)!Taken >= c.sources
      /\ Pipeline(c)!Ends = Pipeline(c)!NumAgents /\ output # <<>>
            => output[Len(output)].kind = "end"
      /\ consumer = "finished" <=> finished = Pipeline(c)!NumAgents
      /\ consumer = "finished" => output = <<>>
  BY <1>1 DEF Pipeline!Marked
<1>5. /\ \A s \in 1 .. c.sources : /\ Pipeline(c)!InOutput(s)
                                   /\ s > Pipeline(c)!Taken => received[s] = 0
      /\ \A i \in 1 .. Len(output) :
            output[i].kind # "end" => output[i].source \in 1 .. Pipeline(c)!Taken
      /\ \A v \in c.agents : Pipeline(c)!Holds(agent[v])
      /\ \A u, v \in c.agents : agent[u].source # 0 /\ agent[u].source = agent[v].source => u = v
  BY <1>2 DEF Pipeline!PipelineInv
<1> QED BY <1>1, <1>3, <1>4, <1>5

LEMMA PipelineAgain ==
    ASSUME NEW c, Pipeline(c)!PipelineConstantsOK, Pipeline(c)!TypeOK', Pipeline(c)!InQueue',
           Pipeline(c)!Ends' <= Cardinality(Pipeline(c)!Gone'),
           \A s \in 1 .. c.sources : Pipeline(c)!Unheld(s)' /\ ~Pipeline(c)!Read(s)'
                 => Pipeline(c)!Ends' < Cardinality(Pipeline(c)!Gone'),
           Pipeline(c)!Ends' > 0 => Pipeline(c)!Taken' >= c.sources,
           \A v \in c.agents : agent'[v].at = "putting" /\ agent'[v].item.kind = "end"
                 => Pipeline(c)!Taken' >= c.sources,
           Pipeline(c)!Ends' = Pipeline(c)!NumAgents /\ output' # <<>>
                 => output'[Len(output')].kind = "end",
           consumer' = "finished" <=> finished' = Pipeline(c)!NumAgents,
           consumer' = "finished" => output' = <<>>,
           \A s \in 1 .. c.sources : /\ Pipeline(c)!InOutput(s)'
                                     /\ s > Pipeline(c)!Taken' => received'[s] = 0,
           \A i \in DOMAIN output' :
                 output'[i].kind # "end" => output'[i].source \in 1 .. Pipeline(c)!Taken',
           \A v \in c.agents : Pipeline(c)!Holds(agent[v])',
           \A u, v \in c.agents : agent'[u].source # 0 /\ agent'[u].source = agent'[v].source => u = v
    PROVE  Pipeline(c)!PipelineInv'
<1>1. Pipeline(c)!Adapters = 1 .. c.sources BY PipelineConstants
<1>2. PICK g : g = Pipeline(c)!Gone' OBVIOUS
<1>3. Pipeline(c)!Cardinality(g) = Cardinality(g) BY SameInPipeline
<1>4. Pipeline(c)!NumAgents' = Pipeline(c)!NumAgents BY DEF Pipeline!NumAgents
<1>5. Pipeline(c)!Marked'
  <2>1. /\ Pipeline(c)!Ends' <= Pipeline(c)!Cardinality(Pipeline(c)!Gone)'
        /\ (\E s \in Pipeline(c)!Adapters : Pipeline(c)!Unheld(s)' /\ ~Pipeline(c)!Read(s)')
              => Pipeline(c)!Ends' < Pipeline(c)!Cardinality(Pipeline(c)!Gone)'
    BY <1>1, <1>2, <1>3
  <2> QED BY <1>4, <2>1 DEF Pipeline!Marked
<1>6. \A s \in Pipeline(c)!Adapters : /\ Pipeline(c)!InOutput(s)'
                                      /\ s > Pipeline(c)!Taken' => received'[s] = 0
  BY <1>1
<1>7. Pipeline(c)!Adapters' = Pipeline(c)!Adapters BY DEF Pipeline!Adapters
<1> QED BY <1>5, <1>6, <1>7 DEF Pipeline!PipelineInv

LEMMA PipelineInit ==
    ASSUME NEW c, Pipeline(c)!PipelineConstantsOK, Pipeline(c)!Init PROVE Pipeline(c)!PipelineInv
<1> USE PipelineConstants
<1>1. /\ producer = 0 /\ queue = <<>> /\ output = <<>>
      /\ agent = [v \in c.agents |-> Pipeline(c)!IdleAgent] /\ consumer = "waiting"
      /\ finished = 0 /\ received = [s \in 1 .. c.sources |-> 0] /\ errors = {}
  BY DEF Pipeline!Init
<1>2. /\ 0 \in 0 .. c.sources + Pipeline(c)!NumAgents /\ 0 \in 0 .. Pipeline(c)!NumAgents
      /\ 0 \in 0 .. c.batches /\ 0 <= c.room
  OBVIOUS
<1>3. Len(queue) = 0 /\ Len(output) = 0 /\ DOMAIN output = {} /\ DOMAIN queue = {}
      /\ queue \in Seq(0 .. c.sources) /\ output \in Seq(Pipeline(c)!Item)
  BY <1>1
<1>4. Pipeline(c)!TypeOK
  <2>1. agent \in [c.agents -> Pipeline(c)!Agent] BY <1>1, PipelineItems
  <2>2. received \in [1 .. c.sources -> 0 .. c.batches] BY <1>1, <1>2
  <2>3. producer \in 0 .. c.sources + Pipeline(c)!NumAgents /\ finished \in 0 .. Pipeline(c)!NumAgents
    BY <1>1, <1>2
  <2>4. Len(queue) <= c.room /\ Len(output) <= c.room BY <1>2, <1>3
  <2> QED BY <1>1, <1>3, <2>1, <2>2, <2>3, <2>4 DEF Pipeline!TypeOK
<1>5. Pipeline(c)!Taken = 0
  <2>1. producer = 0 /\ Len(queue) = 0 /\ 0 - 0 = 0 BY <1>1, <1>3
  <2> QED BY <2>1, Zenon DEF Pipeline!Taken
<1>6. Pipeline(c)!InQueue BY <1>1, <1>3 DEF Pipeline!InQueue
<1>7. Pipeline(c)!Ends = 0
  <2>1. Pipeline(c)!EndsIn(output) = {} BY <1>3 DEF Pipeline!EndsIn
  <2>2. Pipeline(c)!Cardinality({}) = 0 BY SameInPipeline, FS_EmptySet
  <2>3. finished = 0 /\ 0 + 0 = 0 BY <1>1
  <2> QED BY <2>1, <2>2, <2>3, Zenon DEF Pipeline!Ends
<1>8. /\ \A v \in c.agents : agent[v].at = "idle" /\ agent[v].source = 0 /\ ~agent[v].last
  BY <1>1, PipelineItems
<1>9. Pipeline(c)!Marked
  <2>1. \A s \in 1 .. c.sources : ~Pipeline(c)!Unheld(s) BY <1>5 DEF Pipeline!Unheld
  <2>2. PICK g : g = Pipeline(c)!Gone OBVIOUS
  <2>3. Cardinality(g) \in Nat /\ Pipeline(c)!Cardinality(g) = Cardinality(g)
    BY <2>2, GoneAgents, SameInPipeline
  <2>4. Pipeline(c)!Ends <= Pipeline(c)!Cardinality(Pipeline(c)!Gone) BY <1>7, <2>2, <2>3
  <2>5. finished # Pipeline(c)!NumAgents BY <1>1
  <2>6. ~(Pipeline(c)!Ends > 0) BY <1>7
  <2> QED BY <1>1, <1>8, <2>1, <2>4, <2>5, <2>6 DEF Pipeline!Marked
<1>10. \A s \in Pipeline(c)!Adapters : /\ Pipeline(c)!InOutput(s)
                                       /\ s > Pipeline(c)!Taken => received[s] = 0
  <2>1. \A s : Pipeline(c)!BatchesOf(s) = {} BY <1>3 DEF Pipeline!BatchesOf
  <2> QED BY <1>1, <2>1 DEF Pipeline!InOutput
<1>11. \A v \in c.agents : Pipeline(c)!Holds(agent[v]) BY <1>5, <1>8 DEF Pipeline!Holds
<1>12. /\ \A i \in DOMAIN output : output[i].kind # "end" => output[i].source \in 1 .. Pipeline(c)!Taken
       /\ \A u, v \in c.agents : agent[u].source # 0 /\ agent[u].source = agent[v].source => u = v
  BY <1>3, <1>8
<1> QED BY <1>4, <1>6, <1>9, <1>10, <1>11, <1>12 DEF Pipeline!PipelineInv

LEMMA PipelineTaken ==
    ASSUME NEW c, Pipeline(c)!PipelineConstantsOK, Pipeline(c)!TypeOK, Pipeline(c)!InQueue
    PROVE  /\ Pipeline(c)!Taken = producer - Len(queue) /\ Pipeline(c)!Taken \in Nat
           /\ \A i \in 1 .. Len(queue) : queue[i] = IF Pipeline(c)!Taken + i <= c.sources
                                                    THEN Pipeline(c)!Taken + i ELSE 0
<1>1. Pipeline(c)!Taken = producer - Len(queue) BY DEF Pipeline!Taken
<1>2. Len(queue) <= producer /\ DOMAIN queue = 1 .. Len(queue) BY PipelineTyped DEF Pipeline!InQueue
<1>3. producer \in Int /\ Len(queue) \in Int
  <2>1. producer \in 0 .. c.sources + Pipeline(c)!NumAgents /\ Len(queue) \in 0 .. c.room
    BY PipelineTyped
  <2> QED BY <2>1, PipelineConstants
<1>4. Pipeline(c)!Taken \in Nat BY <1>1, <1>2, <1>3
<1> QED BY <1>1, <1>2, <1>4 DEF Pipeline!InQueue

LEMMA PipelineSame ==
    ASSUME NEW c, UNCHANGED <<output, received, errors>>
    PROVE  /\ \A s : Pipeline(c)!InOutput(s) => Pipeline(c)!InOutput(s)'
           /\ \A s, k : Pipeline(c)!LastOut(s, k) => Pipeline(c)!LastOut(s, k)'
           /\ \A s : Pipeline(c)!Read(s) => Pipeline(c)!Read(s)'
<1>1. \A s : Pipeline(c)!BatchesOf(s)' = Pipeline(c)!BatchesOf(s) BY DEF Pipeline!BatchesOf
<1>2. \A s, k : Pipeline(c)!LastOut(s, k) => Pipeline(c)!LastOut(s, k)' BY <1>1 DEF Pipeline!LastOut
<1>3. ASSUME NEW s, Pipeline(c)!InOutput(s) PROVE Pipeline(c)!InOutput(s)'
  <2>1. PICK B : B = Pipeline(c)!BatchesOf(s) OBVIOUS
  <2>2. B = Pipeline(c)!BatchesOf(s)' BY <1>1, <2>1
  <2> QED BY <1>3, <2>1, <2>2 DEF Pipeline!InOutput
<1>4. \A s : Pipeline(c)!Read(s) => Pipeline(c)!Read(s)' BY <1>2 DEF Pipeline!Read
<1> QED BY <1>2, <1>3, <1>4

\* What an agent holds it goes on holding.
LEMMA HoldsOnward ==
    ASSUME NEW c, Pipeline(c)!PipelineConstantsOK, NEW x \in Pipeline(c)!Agent, Pipeline(c)!Holds(x),
           Pipeline(c)!Taken \in Nat, Pipeline(c)!Taken' \in Nat, Pipeline(c)!Taken <= Pipeline(c)!Taken',
           x.source # 0 =>
              /\ \A k \in Nat : Pipeline(c)!LastOut(x.source, k) => Pipeline(c)!LastOut(x.source, k)'
              /\ Pipeline(c)!Read(x.source) => Pipeline(c)!Read(x.source)'
    PROVE  Pipeline(c)!Holds(x)'
<1>1. x.source \in Nat /\ x.sent \in Nat
  <2>1. x.source \in 0 .. c.sources /\ x.sent \in 0 .. c.batches BY PipelineItems
  <2> QED BY <2>1, PipelineConstants
<1>2. x.source <= Pipeline(c)!Taken
  BY DEF Pipeline!Holds
<1>3. x.source <= Pipeline(c)!Taken' BY <1>1, <1>2
<1>4. x.at = "inside" => x.source # 0 /\ Pipeline(c)!LastOut(x.source, x.sent)'
  BY <1>1 DEF Pipeline!Holds
<1>5. ASSUME x.at = "putting"
      PROVE  /\ x.item.source = x.source /\ (x.item.kind = "end" <=> x.source = 0)
             /\ x.item.kind = "batch" =>
                   x.sent > 0 /\ x.item.position = x.sent /\ Pipeline(c)!LastOut(x.source, x.sent - 1)'
             /\ x.item.kind = "duration" => x.last \/ Pipeline(c)!Read(x.source)'
  <2>1. x.item.source = x.source /\ (x.item.kind = "end" <=> x.source = 0)
    BY <1>5 DEF Pipeline!Holds
  <2>2. ASSUME x.item.kind = "batch"
        PROVE  x.sent > 0 /\ x.item.position = x.sent /\ Pipeline(c)!LastOut(x.source, x.sent - 1)'
    <3>1. x.sent > 0 /\ x.item.position = x.sent /\ Pipeline(c)!LastOut(x.source, x.sent - 1)
      BY <1>5, <2>2 DEF Pipeline!Holds
    <3>2. x.sent - 1 \in Nat /\ x.source # 0 BY <1>1, <2>1, <2>2, <3>1
    <3> QED BY <3>1, <3>2
  <2>3. x.item.kind = "duration" => x.last \/ Pipeline(c)!Read(x.source)'
    BY <1>5, <2>1 DEF Pipeline!Holds
  <2> QED BY <2>1, <2>2, <2>3
<1>6. /\ x.at \in {"idle", "done"} => x.source = 0
      /\ x.last => x.at = "putting" /\ x.item.kind = "duration"
  BY DEF Pipeline!Holds
<1> QED BY <1>3, <1>4, <1>5, <1>6 DEF Pipeline!Holds

\* An agent goes on and puts nothing.
LEMMA PipelineMoves ==
    ASSUME NEW c, Pipeline(c)!PipelineConstantsOK, Pipeline(c)!PipelineInv, consumer # "canceled",
           Pipeline(c)!TypeOK', Pipeline(c)!InQueue', NEW v \in c.agents, NEW y \in Pipeline(c)!Agent,
           agent' = [agent EXCEPT ![v] = y], UNCHANGED <<output, consumer, finished, received, errors>>,
           agent[v].at # "done", y.at # "done",
           Pipeline(c)!Taken' \in Nat, Pipeline(c)!Taken <= Pipeline(c)!Taken', Pipeline(c)!Holds(y)',
           \A s \in 1 .. c.sources :
              s <= Pipeline(c)!Taken' /\ y.source # s => s <= Pipeline(c)!Taken /\ agent[v].source # s,
           y.source # 0 => y.source = agent[v].source \/ y.source > Pipeline(c)!Taken,
           y.at = "putting" /\ y.item.kind = "end" => Pipeline(c)!Taken' >= c.sources
    PROVE  Pipeline(c)!PipelineInv'
<1>1. /\ Pipeline(c)!TypeOK /\ Pipeline(c)!InQueue
      /\ Pipeline(c)!Ends <= Cardinality(Pipeline(c)!Gone)
      /\ \A s \in 1 .. c.sources : Pipeline(c)!Unheld(s) /\ ~Pipeline(c)!Read(s)
            => Pipeline(c)!Ends < Cardinality(Pipeline(c)!Gone)
      /\ Pipeline(c)!Ends > 0 => Pipeline(c)!Taken >= c.sources
      /\ \A u \in c.agents : agent[u].at = "putting" /\ agent[u].item.kind = "end"
            => Pipeline(c)!Taken >= c.sources
      /\ Pipeline(c)!Ends = Pipeline(c)!NumAgents /\ output # <<>>
            => output[Len(output)].kind = "end"
      /\ consumer = "finished" <=> finished = Pipeline(c)!NumAgents
      /\ consumer = "finished" => output = <<>>
      /\ \A s \in 1 .. c.sources : /\ Pipeline(c)!InOutput(s)
                                   /\ s > Pipeline(c)!Taken => received[s] = 0
      /\ \A i \in 1 .. Len(output) :
            output[i].kind # "end" => output[i].source \in 1 .. Pipeline(c)!Taken
      /\ \A u \in c.agents : Pipeline(c)!Holds(agent[u])
      /\ \A u, w \in c.agents : agent[u].source # 0 /\ agent[u].source = agent[w].source => u = w
  BY PipelineParts
<1>2. /\ Pipeline(c)!Taken \in Nat /\ c.sources \in Nat /\ DOMAIN output = 1 .. Len(output)
      /\ \A u \in c.agents : agent[u] \in Pipeline(c)!Agent /\ agent[u].source \in 0 .. c.sources
      /\ agent \in [c.agents -> Pipeline(c)!Agent]
  BY <1>1, PipelineTaken, PipelineTyped, PipelineConstants
<1>3. /\ \A u \in c.agents : u # v => agent'[u] = agent[u]
      /\ agent'[v] = y
  BY <1>2
<1>4. /\ \A s : Pipeline(c)!InOutput(s) => Pipeline(c)!InOutput(s)'
      /\ \A s, k : Pipeline(c)!LastOut(s, k) => Pipeline(c)!LastOut(s, k)'
      /\ \A s : Pipeline(c)!Read(s) => Pipeline(c)!Read(s)'
  BY PipelineSame
<1>5. Pipeline(c)!Ends' = Pipeline(c)!Ends BY DEF Pipeline!Ends, Pipeline!EndsIn
<1>6. Cardinality(Pipeline(c)!Gone') = Cardinality(Pipeline(c)!Gone) BY <1>1, GoneStep
<1>7. ASSUME NEW s \in 1 .. c.sources, Pipeline(c)!Unheld(s)', ~Pipeline(c)!Read(s)'
      PROVE  Pipeline(c)!Ends' < Cardinality(Pipeline(c)!Gone')
  <2>1. s <= Pipeline(c)!Taken' /\ \A u \in c.agents : agent'[u].source # s
    BY <1>7 DEF Pipeline!Unheld
  <2>2. y.source # s BY <1>3, <2>1
  <2>3. s <= Pipeline(c)!Taken /\ \A u \in c.agents : agent[u].source # s
    BY <1>3, <2>1, <2>2
  <2>4. Pipeline(c)!Unheld(s) BY <2>3 DEF Pipeline!Unheld
  <2> QED BY <1>1, <1>4, <1>5, <1>6, <1>7, <2>4
<1>8. Pipeline(c)!Ends' > 0 => Pipeline(c)!Taken' >= c.sources BY <1>1, <1>2, <1>5
<1>9. ASSUME NEW u \in c.agents, agent'[u].at = "putting", agent'[u].item.kind = "end"
      PROVE  Pipeline(c)!Taken' >= c.sources
  <2>1. CASE u = v BY <1>3, <1>9, <2>1
  <2>2. CASE u # v
    <3>1. Pipeline(c)!Taken >= c.sources BY <1>1, <1>3, <1>9, <2>2
    <3> QED BY <1>2, <3>1
  <2> QED BY <2>1, <2>2
<1>10. ASSUME NEW s \in 1 .. c.sources
       PROVE  /\ Pipeline(c)!InOutput(s)'
              /\ s > Pipeline(c)!Taken' => received'[s] = 0
  <2>1. s > Pipeline(c)!Taken' => s > Pipeline(c)!Taken BY <1>2
  <2> QED BY <1>1, <1>4, <2>1
<1>11. ASSUME NEW i \in DOMAIN output', output'[i].kind # "end"
       PROVE  output'[i].source \in 1 .. Pipeline(c)!Taken'
  <2>1. output[i].source \in 1 .. Pipeline(c)!Taken BY <1>1, <1>2, <1>11
  <2> QED BY <1>2, <2>1
<1>12. ASSUME NEW u \in c.agents PROVE Pipeline(c)!Holds(agent[u])'
  <2>1. CASE u = v BY <1>3, <2>1
  <2>2. CASE u # v
    <3>1. PICK x : x = agent[u] OBVIOUS
    <3>2. x \in Pipeline(c)!Agent /\ Pipeline(c)!Holds(x) BY <1>1, <1>2, <3>1
    <3>3. Pipeline(c)!Holds(x)' BY <1>2, <1>4, <3>2, HoldsOnward
    <3> QED BY <1>3, <2>2, <3>1, <3>3
  <2> QED BY <2>1, <2>2
<1>13. ASSUME NEW u \in c.agents, NEW w \in c.agents, agent'[u].source # 0,
              agent'[u].source = agent'[w].source
       PROVE  u = w
  <2>1. \A x \in c.agents : Pipeline(c)!Holds(agent[x]) /\ agent[x].source \in Nat BY <1>1, <1>2
  <2>2. \A x \in c.agents : agent[x].source <= Pipeline(c)!Taken BY <2>1 DEF Pipeline!Holds
  <2>3. \A x \in c.agents : x # v => agent'[x].source = agent[x].source BY <1>3
  <2>4. CASE u # v /\ w # v BY <1>1, <1>13, <2>3, <2>4
  <2>5. ASSUME NEW x \in c.agents, x # v, y.source # 0, y.source = agent[x].source PROVE FALSE
    <3>1. y.source <= Pipeline(c)!Taken BY <2>2, <2>5
    <3>2. ~(y.source > Pipeline(c)!Taken) BY <1>2, <2>1, <2>5, <3>1
    <3>3. agent[v].source = agent[x].source /\ agent[v].source # 0 BY <2>5, <3>2
    <3> QED BY <1>1, <2>5, <3>3
  <2> QED BY <1>3, <1>13, <2>3, <2>4, <2>5
<1>14. /\ \A s \in 1 .. c.sources : Pipeline(c)!Unheld(s)' /\ ~Pipeline(c)!Read(s)'
             => Pipeline(c)!Ends' < Cardinality(Pipeline(c)!Gone')
       /\ Pipeline(c)!Ends' <= Cardinality(Pipeline(c)!Gone')
       /\ Pipeline(c)!Ends' = Pipeline(c)!NumAgents /\ output' # <<>>
             => output'[Len(output')].kind = "end"
       /\ consumer' = "finished" <=> finished' = Pipeline(c)!NumAgents
       /\ consumer' = "finished" => output' = <<>>
  BY <1>1, <1>5, <1>6, <1>7
<1> QED BY <1>8, <1>9, <1>10, <1>11, <1>12, <1>13, <1>14, PipelineAgain

LEMMA PipelineTypes ==
    ASSUME NEW c, Pipeline(c)!PipelineConstantsOK, Pipeline(c)!PipelineInv,
           Pipeline(c)!Next \/ UNCHANGED pipelineVars
    PROVE  Pipeline(c)!TypeOK'
<1>1. Pipeline(c)!TypeOK BY DEF Pipeline!PipelineInv
<1>2. ASSUME consumer = "waiting"
      PROVE  /\ finished # Pipeline(c)!NumAgents
             /\ output # <<>> /\ output[1].kind # "end" => output[1].source # 0
  <2>1. finished # Pipeline(c)!NumAgents BY <1>2, PipelineParts
  <2>2. ASSUME output # <<>>, output[1].kind # "end" PROVE output[1].source # 0
    <3>1. output \in Seq(Pipeline(c)!Item) BY <1>1, PipelineTyped
    <3>2. 1 \in 1 .. Len(output) BY <2>2, <3>1, Tailed
    <3>3. output[1].source \in 1 .. Pipeline(c)!Taken BY <1>2, <2>2, <3>2, PipelineParts
    <3> QED BY <3>3
  <2> QED BY <2>1, <2>2
<1> QED BY <1>1, <1>2, PipelineTypeStep

\* Nothing but the producer or the caller goes on.
LEMMA PipelineStays ==
    ASSUME NEW c, Pipeline(c)!PipelineConstantsOK, Pipeline(c)!PipelineInv, consumer # "canceled",
           Pipeline(c)!TypeOK', Pipeline(c)!InQueue', Pipeline(c)!Taken' = Pipeline(c)!Taken,
           UNCHANGED <<output, agent, finished, received, errors>>,
           consumer' = "finished" <=> consumer = "finished"
    PROVE  Pipeline(c)!PipelineInv'
<1>1. /\ Pipeline(c)!TypeOK /\ Pipeline(c)!InQueue
      /\ Pipeline(c)!Ends <= Cardinality(Pipeline(c)!Gone)
      /\ \A s \in 1 .. c.sources : Pipeline(c)!Unheld(s) /\ ~Pipeline(c)!Read(s)
            => Pipeline(c)!Ends < Cardinality(Pipeline(c)!Gone)
      /\ Pipeline(c)!Ends > 0 => Pipeline(c)!Taken >= c.sources
      /\ \A u \in c.agents : agent[u].at = "putting" /\ agent[u].item.kind = "end"
            => Pipeline(c)!Taken >= c.sources
      /\ Pipeline(c)!Ends = Pipeline(c)!NumAgents /\ output # <<>>
            => output[Len(output)].kind = "end"
      /\ consumer = "finished" <=> finished = Pipeline(c)!NumAgents
      /\ consumer = "finished" => output = <<>>
      /\ \A s \in 1 .. c.sources : /\ Pipeline(c)!InOutput(s)
                                   /\ s > Pipeline(c)!Taken => received[s] = 0
      /\ \A i \in 1 .. Len(output) :
            output[i].kind # "end" => output[i].source \in 1 .. Pipeline(c)!Taken
      /\ \A u \in c.agents : Pipeline(c)!Holds(agent[u])
      /\ \A u, w \in c.agents : agent[u].source # 0 /\ agent[u].source = agent[w].source => u = w
  BY PipelineParts
<1>2. /\ Pipeline(c)!Taken \in Nat /\ DOMAIN output = 1 .. Len(output)
      /\ \A u \in c.agents : agent[u] \in Pipeline(c)!Agent
  BY <1>1, PipelineTaken, PipelineTyped
<1>3. /\ \A s : Pipeline(c)!InOutput(s) => Pipeline(c)!InOutput(s)'
      /\ \A s, k : Pipeline(c)!LastOut(s, k) => Pipeline(c)!LastOut(s, k)'
      /\ \A s : Pipeline(c)!Read(s) => Pipeline(c)!Read(s)'
  BY PipelineSame
<1>4. Pipeline(c)!Ends' = Pipeline(c)!Ends BY DEF Pipeline!Ends, Pipeline!EndsIn
<1>5. Pipeline(c)!Gone' = Pipeline(c)!Gone BY DEF Pipeline!Gone
<1>6. ASSUME NEW s \in 1 .. c.sources, Pipeline(c)!Unheld(s)', ~Pipeline(c)!Read(s)'
      PROVE  Pipeline(c)!Ends' < Cardinality(Pipeline(c)!Gone')
  <2>1. Pipeline(c)!Unheld(s) BY <1>6 DEF Pipeline!Unheld
  <2> QED BY <1>1, <1>3, <1>4, <1>5, <1>6, <2>1
<1>7. ASSUME NEW u \in c.agents PROVE Pipeline(c)!Holds(agent[u])'
  <2>1. PICK x : x = agent[u] OBVIOUS
  <2>2. x \in Pipeline(c)!Agent /\ Pipeline(c)!Holds(x) BY <1>1, <1>2, <2>1
  <2>3. Pipeline(c)!Taken' \in Nat /\ Pipeline(c)!Taken <= Pipeline(c)!Taken' BY <1>2
  <2>4. Pipeline(c)!Holds(x)' BY <1>2, <1>3, <2>2, <2>3, HoldsOnward
  <2> QED BY <2>1, <2>4
<1>8. /\ \A s \in 1 .. c.sources : /\ Pipeline(c)!InOutput(s)'
                                   /\ s > Pipeline(c)!Taken' => received'[s] = 0
      /\ \A i \in DOMAIN output' :
            output'[i].kind # "end" => output'[i].source \in 1 .. Pipeline(c)!Taken'
  BY <1>1, <1>2, <1>3
<1>9. /\ Pipeline(c)!Ends' <= Cardinality(Pipeline(c)!Gone')
      /\ Pipeline(c)!Ends' > 0 => Pipeline(c)!Taken' >= c.sources
      /\ \A u \in c.agents : agent'[u].at = "putting" /\ agent'[u].item.kind = "end"
            => Pipeline(c)!Taken' >= c.sources
      /\ Pipeline(c)!Ends' = Pipeline(c)!NumAgents /\ output' # <<>>
            => output'[Len(output')].kind = "end"
      /\ consumer' = "finished" <=> finished' = Pipeline(c)!NumAgents
      /\ consumer' = "finished" => output' = <<>>
      /\ \A u, w \in c.agents : agent'[u].source # 0 /\ agent'[u].source = agent'[w].source => u = w
  BY <1>1, <1>4, <1>5
<1> QED BY <1>6, <1>7, <1>8, <1>9, PipelineAgain

LEMMA ProduceKeeps ==
    ASSUME NEW c, Pipeline(c)!PipelineConstantsOK, Pipeline(c)!PipelineInv, Pipeline(c)!Produce,
           Pipeline(c)!TypeOK'
    PROVE  Pipeline(c)!PipelineInv'
<1>1. /\ consumer # "canceled" /\ producer' = producer + 1
      /\ queue' = Append(queue, IF producer < c.sources THEN producer + 1 ELSE 0)
      /\ UNCHANGED <<output, agent, consumer, finished, received, errors>>
  BY DEF Pipeline!Produce
<1>2. Pipeline(c)!TypeOK /\ Pipeline(c)!InQueue BY <1>1, PipelineParts
<1>3. PICK x : x = IF producer < c.sources THEN producer + 1 ELSE 0 OBVIOUS
<1>4. /\ queue \in Seq(0 .. c.sources) /\ producer \in Nat /\ c.sources \in Nat
      /\ Len(queue) <= producer
  <2>1. queue \in Seq(0 .. c.sources) /\ producer \in 0 .. c.sources + Pipeline(c)!NumAgents
    BY <1>2, PipelineTyped
  <2>2. Len(queue) <= producer BY <1>2 DEF Pipeline!InQueue
  <2> QED BY <2>1, <2>2, PipelineConstants
<1>5. x \in 0 .. c.sources BY <1>3, <1>4
<1>6. queue' = Append(queue, x) BY <1>1, <1>3
<1>7. PICK m : m = Len(queue) OBVIOUS
<1>8. /\ m \in Nat /\ Len(queue') = m + 1 /\ DOMAIN queue' = 1 .. m + 1
      /\ queue'[m + 1] = x /\ \A i \in 1 .. m : queue'[i] = queue[i]
  BY <1>4, <1>5, <1>6, <1>7, Appended
<1>9. PICK t : t = Pipeline(c)!Taken OBVIOUS
<1>10. /\ t = producer - m /\ t \in Nat
       /\ \A i \in 1 .. m : queue[i] = IF t + i <= c.sources THEN t + i ELSE 0
  BY <1>2, <1>7, <1>9, PipelineTaken
<1>11. Pipeline(c)!Taken' = t
  <2>1. Pipeline(c)!Taken' = producer' - Len(queue') BY DEF Pipeline!Taken
  <2> QED BY <1>1, <1>4, <1>8, <1>10, <2>1
<1>12. x = IF t + (m + 1) <= c.sources THEN t + (m + 1) ELSE 0
  <2>1. t + (m + 1) = producer + 1 BY <1>4, <1>8, <1>10
  <2>2. producer < c.sources <=> producer + 1 <= c.sources BY <1>4
  <2> QED BY <1>3, <2>1, <2>2
<1>13. \A i \in 1 .. m + 1 : queue'[i] = IF t + i <= c.sources THEN t + i ELSE 0
  <2> TAKE i \in 1 .. m + 1
  <2>1. CASE i \in 1 .. m BY <1>8, <1>10, <2>1
  <2>2. CASE i = m + 1 BY <1>8, <1>12, <2>2
  <2> QED BY <1>8, <2>1, <2>2
<1>14. Len(queue') <= producer' BY <1>1, <1>4, <1>7, <1>8
<1>15. Pipeline(c)!InQueue' BY <1>8, <1>11, <1>13, <1>14 DEF Pipeline!InQueue
<1> QED BY <1>1, <1>9, <1>11, <1>15, PipelineStays

LEMMA GetAdapterKeeps ==
    ASSUME NEW c, Pipeline(c)!PipelineConstantsOK, Pipeline(c)!PipelineInv, consumer # "canceled",
           NEW v \in c.agents, Pipeline(c)!GetAdapter(v), Pipeline(c)!TypeOK'
    PROVE  Pipeline(c)!PipelineInv'
<1>1. /\ agent[v].at = "idle" /\ queue # <<>> /\ queue' = Tail(queue)
      /\ UNCHANGED <<output, producer, consumer, finished, received, errors>>
  BY DEF Pipeline!GetAdapter, Pipeline!Unshared
<1>2. Pipeline(c)!TypeOK /\ Pipeline(c)!InQueue /\ Pipeline(c)!Holds(agent[v])
  BY PipelineParts
<1>3. /\ queue \in Seq(0 .. c.sources) /\ producer \in Nat /\ c.sources \in Nat
      /\ Len(queue) <= producer
  <2>1. queue \in Seq(0 .. c.sources) /\ producer \in 0 .. c.sources + Pipeline(c)!NumAgents
    BY <1>2, PipelineTyped
  <2>2. Len(queue) <= producer BY <1>2 DEF Pipeline!InQueue
  <2> QED BY <2>1, <2>2, PipelineConstants
<1>4. PICK m : m = Len(queue) OBVIOUS
<1>5. PICK h : h = Head(queue) OBVIOUS
<1>6. /\ m \in Nat \ {0} /\ Len(queue') = m - 1 /\ DOMAIN queue' = 1 .. m - 1
      /\ h = queue[1] /\ h \in 0 .. c.sources
      /\ \A i \in 1 .. m - 1 : queue'[i] = queue[i + 1]
  BY <1>1, <1>3, <1>4, <1>5, Tailed
<1>7. PICK t : t = Pipeline(c)!Taken OBVIOUS
<1>8. /\ t = producer - m /\ t \in Nat
      /\ \A i \in 1 .. m : queue[i] = IF t + i <= c.sources THEN t + i ELSE 0
  BY <1>2, <1>4, <1>7, PipelineTaken
<1>9. Pipeline(c)!Taken' = t + 1
  <2>1. Pipeline(c)!Taken' = producer' - Len(queue') BY DEF Pipeline!Taken
  <2> QED BY <1>1, <1>3, <1>6, <1>8, <2>1
<1>10. PICK u : u = t + 1 OBVIOUS
<1>11. \A i \in 1 .. m - 1 : queue'[i] = IF u + i <= c.sources THEN u + i ELSE 0
  <2> TAKE i \in 1 .. m - 1
  <2>1. i + 1 \in 1 .. m /\ t + (i + 1) = u + i BY <1>6, <1>8, <1>10
  <2> QED BY <1>6, <1>8, <2>1
<1>12. Pipeline(c)!InQueue'
  <2>1. Len(queue') <= producer' BY <1>1, <1>3, <1>4, <1>6
  <2> QED BY <1>6, <1>9, <1>10, <1>11, <2>1 DEF Pipeline!InQueue
<1>13. h = IF u <= c.sources THEN u ELSE 0
  <2>1. 1 \in 1 .. m /\ t + 1 = u BY <1>6, <1>10
  <2> QED BY <1>6, <1>8, <2>1
<1>14. /\ Pipeline(c)!Nothing \in Pipeline(c)!Item /\ Pipeline(c)!Nothing.kind = "end"
       /\ Pipeline(c)!Nothing.source = 0
  BY PipelineItems
<1>15. agent[v].source = 0 /\ ~agent[v].last /\ agent[v] \in Pipeline(c)!Agent
  BY <1>1, <1>2, PipelineTyped DEF Pipeline!Holds
<1>16. PICK y : y = IF h = 0 THEN Pipeline(c)!Putting(v, Pipeline(c)!Nothing)
                    ELSE [agent[v] EXCEPT !.at = "inside", !.source = h, !.sent = 0]
  OBVIOUS
<1>17. agent' = [agent EXCEPT ![v] = y] BY <1>5, <1>16 DEF Pipeline!GetAdapter
<1>18. u \in Nat /\ Pipeline(c)!Taken' = u /\ Pipeline(c)!Taken <= u /\ Pipeline(c)!Taken = u - 1
       /\ Pipeline(c)!Taken \in Nat
  BY <1>7, <1>8, <1>9, <1>10
<1>19. CASE h = 0
  <2>1. /\ y \in Pipeline(c)!Agent /\ y.at = "putting" /\ y.item = Pipeline(c)!Nothing
        /\ y.source = 0 /\ ~y.last
    BY <1>2, <1>14, <1>15, <1>16, <1>19, PipelinePutting
  <2>2. Pipeline(c)!Taken' >= c.sources BY <1>3, <1>13, <1>18, <1>19
  <2>3. Pipeline(c)!Holds(y)' BY <1>14, <1>18, <2>1 DEF Pipeline!Holds
  <2>4. ASSUME NEW s \in 1 .. c.sources, s <= Pipeline(c)!Taken', y.source # s
        PROVE  s <= Pipeline(c)!Taken /\ agent[v].source # s
    <3>1. ~(u <= c.sources) BY <1>13, <1>18, <1>19
    <3> QED BY <1>3, <1>15, <1>18, <3>1
  <2> QED BY <1>1, <1>12, <1>17, <1>18, <2>1, <2>2, <2>3, <2>4, PipelineMoves
<1>20. CASE h # 0
  <2>1. y = [agent[v] EXCEPT !.at = "inside", !.source = h, !.sent = 0] BY <1>16, <1>20
  <2>2. /\ y \in Pipeline(c)!Agent /\ y.at = "inside" /\ y.source = h /\ y.sent = 0 /\ ~y.last
    <3>1. 0 \in Pipeline(c)!Positions BY PipelineConstants
    <3> QED BY <1>6, <1>15, <2>1, <3>1 DEF Pipeline!Agent
  <2>3. h = u /\ h \in 1 .. c.sources BY <1>6, <1>13, <1>18, <1>20
  <2>4. Pipeline(c)!LastOut(h, 0)'
    <3>1. h > Pipeline(c)!Taken BY <1>18, <2>3
    <3>2. received[h] = 0 BY <2>3, <3>1, PipelineParts
    <3>3. ASSUME NEW i \in Pipeline(c)!BatchesOf(h) PROVE FALSE
      <4>1. i \in 1 .. Len(output) /\ output[i].kind = "batch" /\ output[i].source = h
        BY <1>2, PipelineTyped DEF Pipeline!BatchesOf
      <4>2. output[i].source \in 1 .. Pipeline(c)!Taken BY <4>1, PipelineParts
      <4> QED BY <1>18, <2>3, <4>1, <4>2
    <3>4. Pipeline(c)!LastOut(h, 0) BY <3>2, <3>3 DEF Pipeline!LastOut
    <3> QED BY <1>1, <3>4, PipelineSame
  <2>5. Pipeline(c)!Holds(y)' BY <1>18, <2>2, <2>3, <2>4, <1>20 DEF Pipeline!Holds
  <2>6. ASSUME NEW s \in 1 .. c.sources, s <= Pipeline(c)!Taken', y.source # s
        PROVE  s <= Pipeline(c)!Taken /\ agent[v].source # s
    BY <1>15, <1>18, <2>2, <2>3, <2>6
  <2>7. y.source > Pipeline(c)!Taken BY <1>18, <2>2, <2>3
  <2> QED BY <1>1, <1>12, <1>17, <1>18, <2>2, <2>5, <2>6, <2>7, PipelineMoves
<1> QED BY <1>19, <1>20

\* An adapter gives a batch, ends or raises, or its timeout expires.
LEMMA AdapterKeeps ==
    ASSUME NEW c, Pipeline(c)!PipelineConstantsOK, Pipeline(c)!PipelineInv, consumer # "canceled",
           NEW v \in c.agents, Pipeline(c)!TypeOK',
           \/ Pipeline(c)!AdapterYields(v) \/ Pipeline(c)!AdapterEnds(v)
           \/ Pipeline(c)!AdapterRaises(v) \/ Pipeline(c)!TimeoutWhileBlocked(v)
    PROVE  Pipeline(c)!PipelineInv'
<1>1. /\ UNCHANGED <<producer, queue, output, consumer, finished, received, errors>>
      /\ agent[v].at # "done"
  BY DEF Pipeline!AdapterYields, Pipeline!AdapterEnds, Pipeline!AdapterRaises,
         Pipeline!TimeoutWhileBlocked, Pipeline!Unshared
<1>2. Pipeline(c)!TypeOK /\ Pipeline(c)!InQueue /\ Pipeline(c)!Holds(agent[v])
  BY PipelineParts
<1>3. /\ Pipeline(c)!Taken' = Pipeline(c)!Taken /\ Pipeline(c)!Taken \in Nat
      /\ Pipeline(c)!Taken' \in Nat /\ Pipeline(c)!Taken <= Pipeline(c)!Taken'
  <2>1. Pipeline(c)!Taken' = Pipeline(c)!Taken /\ Pipeline(c)!Taken \in Nat
    BY <1>1, <1>2, PipelineTaken DEF Pipeline!Taken
  <2> QED BY <2>1
<1>4. Pipeline(c)!InQueue' BY <1>1, <1>2, <1>3 DEF Pipeline!InQueue
<1>5. /\ agent[v] \in Pipeline(c)!Agent /\ agent[v].source \in 0 .. c.sources
      /\ agent[v].sent \in 0 .. c.batches /\ agent[v].source <= Pipeline(c)!Taken
      /\ 0 \in 0 .. c.batches /\ agent[v].sent \in Nat
  <2>1. /\ agent[v] \in Pipeline(c)!Agent /\ agent[v].source \in 0 .. c.sources
        /\ agent[v].sent \in 0 .. c.batches /\ agent[v].source <= Pipeline(c)!Taken
    BY <1>2, PipelineTyped DEF Pipeline!Holds
  <2> QED BY <2>1, PipelineConstants
<1>6. ASSUME NEW y \in Pipeline(c)!Agent, agent' = [agent EXCEPT ![v] = y],
             y.at = "putting", y.source = agent[v].source, y.source # 0, y.item.source = y.source,
             y.item.kind # "end",
             y.item.kind = "batch" =>
                y.sent > 0 /\ y.item.position = y.sent /\ Pipeline(c)!LastOut(y.source, y.sent - 1)',
             y.item.kind = "duration" => y.last \/ Pipeline(c)!Read(y.source)',
             y.last => y.item.kind = "duration"
      PROVE  Pipeline(c)!PipelineInv'
  <2>1. Pipeline(c)!Holds(y)' BY <1>3, <1>5, <1>6 DEF Pipeline!Holds
  <2>2. \A s \in 1 .. c.sources :
           s <= Pipeline(c)!Taken' /\ y.source # s => s <= Pipeline(c)!Taken /\ agent[v].source # s
    BY <1>3, <1>6
  <2> QED BY <1>1, <1>3, <1>4, <1>6, <2>1, <2>2, PipelineMoves
<1>7. \A s, k : Pipeline(c)!LastOut(s, k) => Pipeline(c)!LastOut(s, k)' BY <1>1, PipelineSame
<1>8. CASE Pipeline(c)!AdapterYields(v)
  <2>1. PICK k : k = agent[v].sent + 1 OBVIOUS
  <2>2. PICK x : x = Pipeline(c)!Mark("batch", agent[v].source, k) OBVIOUS
  <2>3. PICK z : z = Pipeline(c)!Putting(v, x) OBVIOUS
  <2>4. PICK y : y = [z EXCEPT !.sent = k] OBVIOUS
  <2>5. agent[v].at = "inside" /\ agent[v].sent < c.batches /\ agent' = [agent EXCEPT ![v] = y]
    BY <1>8, <2>1, <2>2, <2>3, <2>4 DEF Pipeline!AdapterYields
  <2>6. k \in 0 .. c.batches /\ k > 0 /\ k - 1 = agent[v].sent BY <1>5, <2>1, <2>5, PipelineConstants
  <2>7. x \in Pipeline(c)!Item /\ x.kind = "batch" /\ x.source = agent[v].source /\ x.position = k
    BY <1>5, <2>2, <2>6, PipelineItems
  <2>8. z \in Pipeline(c)!Agent /\ z.at = "putting" /\ z.item = x /\ z.source = agent[v].source
        /\ z.last = agent[v].last
    BY <1>2, <2>3, <2>7, PipelinePutting
  <2>9. /\ y \in Pipeline(c)!Agent /\ y.at = "putting" /\ y.item = x /\ y.source = agent[v].source
        /\ y.sent = k /\ y.last = agent[v].last
    <3>1. k \in Pipeline(c)!Positions BY <2>6, PipelineConstants
    <3> QED BY <2>4, <2>8, <3>1 DEF Pipeline!Agent
  <2>10. agent[v].source # 0 /\ Pipeline(c)!LastOut(agent[v].source, agent[v].sent) /\ ~agent[v].last
    BY <1>2, <2>5 DEF Pipeline!Holds
  <2>11. Pipeline(c)!LastOut(y.source, y.sent - 1)' BY <1>7, <2>6, <2>9, <2>10
  <2>12. ~y.last /\ y.source # 0 /\ y.item.source = y.source /\ y.item.kind = "batch"
         /\ y.sent > 0 /\ y.item.position = y.sent
    BY <2>6, <2>7, <2>9, <2>10
  <2> QED BY <1>6, <2>5, <2>9, <2>11, <2>12
<1>9. ASSUME agent[v].at = "inside", NEW kind \in {"error", "duration"},
             NEW s, s = agent[v].source, kind = "duration" => Pipeline(c)!Read(s)',
             agent' = [agent EXCEPT ![v] = Pipeline(c)!Putting(v, Pipeline(c)!Mark(kind, agent[v].source, 0))]
      PROVE  Pipeline(c)!PipelineInv'
  <2>1. PICK x : x = Pipeline(c)!Mark(kind, agent[v].source, 0) OBVIOUS
  <2>2. PICK y : y = Pipeline(c)!Putting(v, x) OBVIOUS
  <2>3. x \in Pipeline(c)!Item /\ x.kind = kind /\ x.source = agent[v].source
    BY <1>5, <2>1, PipelineItems
  <2>4. /\ y \in Pipeline(c)!Agent /\ y.at = "putting" /\ y.item = x /\ y.source = agent[v].source
        /\ y.last = agent[v].last
    BY <1>2, <2>2, <2>3, PipelinePutting
  <2>5. agent[v].source # 0 /\ ~agent[v].last BY <1>2, <1>9 DEF Pipeline!Holds
  <2>6. agent' = [agent EXCEPT ![v] = y] BY <1>9, <2>1, <2>2
  <2>7. y.source = s /\ (kind = "duration" => Pipeline(c)!Read(s)') BY <1>9, <2>4
  <2>8. y.item.kind = kind /\ y.item.source = y.source /\ y.source # 0 /\ ~y.last BY <2>3, <2>4, <2>5
  <2> QED BY <1>6, <2>4, <2>6, <2>7, <2>8
<1>10. CASE Pipeline(c)!AdapterEnds(v)
  <2>1. /\ agent[v].at = "inside" /\ agent[v].sent = c.batches
        /\ agent' = [agent EXCEPT ![v] = Pipeline(c)!Putting(v, Pipeline(c)!Mark("duration", agent[v].source, 0))]
    BY <1>10 DEF Pipeline!AdapterEnds
  <2>2. Pipeline(c)!LastOut(agent[v].source, c.batches) BY <1>2, <2>1 DEF Pipeline!Holds
  <2>3. Pipeline(c)!Read(agent[v].source) BY <2>2 DEF Pipeline!Read
  <2>4. PICK s : s = agent[v].source OBVIOUS
  <2>5. Pipeline(c)!Read(s)' BY <1>1, <2>3, <2>4, PipelineSame
  <2> QED BY <1>9, <2>1, <2>4, <2>5
<1>11. CASE Pipeline(c)!AdapterRaises(v)
  <2>1. /\ agent[v].at = "inside"
        /\ agent' = [agent EXCEPT ![v] = Pipeline(c)!Putting(v, Pipeline(c)!Mark("error", agent[v].source, 0))]
    BY <1>11 DEF Pipeline!AdapterRaises
  <2> QED BY <1>9, <2>1
<1>12. CASE Pipeline(c)!TimeoutWhileBlocked(v)
  <2>1. /\ agent[v].at = "putting" /\ agent[v].item.kind = "batch"
        /\ agent' = [agent EXCEPT ![v] = Pipeline(c)!Cancelled(v)]
    BY <1>12 DEF Pipeline!TimeoutWhileBlocked
  <2>2. PICK y : y = Pipeline(c)!Cancelled(v) OBVIOUS
  <2>3. /\ y \in Pipeline(c)!Agent /\ y.at = "putting" /\ y.source = agent[v].source
        /\ y.item.kind = "duration" /\ y.item.source = agent[v].source /\ y.last
    BY <1>2, <2>1, <2>2, PipelineCancelled
  <2>4. agent[v].source # 0 BY <1>2, <2>1 DEF Pipeline!Holds
  <2>5. agent' = [agent EXCEPT ![v] = y] BY <2>1, <2>2
  <2> QED BY <1>6, <2>3, <2>4, <2>5
<1> QED BY <1>8, <1>10, <1>11, <1>12

\* The output queue takes an item.
LEMMA PutOutputKeeps ==
    ASSUME NEW c, Pipeline(c)!PipelineConstantsOK, Pipeline(c)!PipelineInv, consumer # "canceled",
           NEW v \in c.agents, Pipeline(c)!PutOutput(v), Pipeline(c)!TypeOK'
    PROVE  Pipeline(c)!PipelineInv'
<1>1. /\ agent[v].at = "putting" /\ output' = Append(output, agent[v].item)
      /\ agent' = [agent EXCEPT ![v] = Pipeline(c)!AfterPut(v)]
      /\ UNCHANGED <<producer, queue, consumer, finished, received, errors>>
  BY DEF Pipeline!PutOutput, Pipeline!Unshared
<1>2. /\ Pipeline(c)!TypeOK /\ Pipeline(c)!InQueue
      /\ Pipeline(c)!Ends <= Cardinality(Pipeline(c)!Gone)
      /\ \A s \in 1 .. c.sources : Pipeline(c)!Unheld(s) /\ ~Pipeline(c)!Read(s)
            => Pipeline(c)!Ends < Cardinality(Pipeline(c)!Gone)
      /\ Pipeline(c)!Ends > 0 => Pipeline(c)!Taken >= c.sources
      /\ \A u \in c.agents : agent[u].at = "putting" /\ agent[u].item.kind = "end"
            => Pipeline(c)!Taken >= c.sources
      /\ consumer = "finished" <=> finished = Pipeline(c)!NumAgents
      /\ \A s \in 1 .. c.sources : /\ Pipeline(c)!InOutput(s)
                                   /\ s > Pipeline(c)!Taken => received[s] = 0
      /\ \A i \in 1 .. Len(output) :
            output[i].kind # "end" => output[i].source \in 1 .. Pipeline(c)!Taken
      /\ \A u \in c.agents : Pipeline(c)!Holds(agent[u])
      /\ \A u, w \in c.agents : agent[u].source # 0 /\ agent[u].source = agent[w].source => u = w
  BY PipelineParts
<1>3. PICK x : x = agent[v].item OBVIOUS
<1>4. PICK y : y = Pipeline(c)!AfterPut(v) OBVIOUS
<1>5. PICK n : n = Len(output) OBVIOUS
<1>6. PICK h : h = agent[v].source OBVIOUS
<1>7. /\ output \in Seq(Pipeline(c)!Item) /\ x \in Pipeline(c)!Item /\ finished \in Nat
      /\ x.kind \in {"batch", "error", "duration", "end"} /\ h \in 0 .. c.sources
      /\ agent \in [c.agents -> Pipeline(c)!Agent] /\ agent[v].sent \in Nat /\ c.sources \in Nat
      /\ \A u \in c.agents : agent[u] \in Pipeline(c)!Agent /\ agent[u].source \in 0 .. c.sources
      /\ Pipeline(c)!NumAgents \in Nat
  <2>1. /\ output \in Seq(Pipeline(c)!Item) /\ x \in Pipeline(c)!Item /\ h \in 0 .. c.sources
        /\ finished \in 0 .. Pipeline(c)!NumAgents
        /\ agent \in [c.agents -> Pipeline(c)!Agent] /\ agent[v].sent \in 0 .. c.batches
        /\ \A u \in c.agents : agent[u] \in Pipeline(c)!Agent /\ agent[u].source \in 0 .. c.sources
    BY <1>2, <1>3, <1>6, PipelineTyped
  <2>2. x.kind \in {"batch", "error", "duration", "end"} BY <2>1, PipelineItems
  <2> QED BY <2>1, <2>2, PipelineConstants
<1>8. /\ n \in Nat /\ Len(output') = n + 1 /\ DOMAIN output' = 1 .. n + 1
      /\ output'[n + 1] = x /\ \A i \in 1 .. n : output'[i] = output[i]
  BY <1>1, <1>3, <1>5, <1>7, Appended
<1>9. agent'[v] = y /\ \A u \in c.agents : u # v => agent'[u] = agent[u] BY <1>1, <1>4, <1>7
<1>10. /\ y \in Pipeline(c)!Agent
       /\ x.kind = "batch" =>
             /\ y.at = "inside" /\ y.source = h /\ y.sent = agent[v].sent /\ y.last = agent[v].last
       /\ x.kind = "error" =>
             /\ y.at = "putting" /\ y.source = h /\ y.item.kind = "duration" /\ y.item.source = h
             /\ y.last = agent[v].last
       /\ x.kind \in {"duration", "end"} =>
             /\ y.source = 0 /\ ~y.last
             /\ y.at = IF x.kind = "duration" /\ ~agent[v].last THEN "idle" ELSE "done"
  BY <1>2, <1>3, <1>4, <1>6, PipelineAfterPut
<1>11. /\ x.source = h /\ (x.kind = "end" <=> h = 0) /\ h <= Pipeline(c)!Taken
       /\ x.kind = "batch" =>
             x.position = agent[v].sent /\ Pipeline(c)!LastOut(h, x.position - 1)
       /\ x.kind = "duration" => agent[v].last \/ Pipeline(c)!Read(h)
       /\ agent[v].last => x.kind = "duration"
  <2>1. Pipeline(c)!Holds(agent[v]) BY <1>2
  <2> QED BY <1>1, <1>3, <1>6, <2>1 DEF Pipeline!Holds
<1>12. /\ Pipeline(c)!Taken \in Nat /\ Pipeline(c)!Taken' = Pipeline(c)!Taken
       /\ Pipeline(c)!Taken' \in Nat /\ Pipeline(c)!Taken <= Pipeline(c)!Taken'
  <2>1. Pipeline(c)!Taken' = Pipeline(c)!Taken /\ Pipeline(c)!Taken \in Nat
    BY <1>1, <1>2, PipelineTaken DEF Pipeline!Taken
  <2> QED BY <2>1
<1>13. Pipeline(c)!InQueue' BY <1>1, <1>2, <1>12 DEF Pipeline!InQueue
<1>14. /\ x.kind = "end" => Pipeline(c)!Ends' = Pipeline(c)!Ends + 1
       /\ x.kind # "end" => Pipeline(c)!Ends' = Pipeline(c)!Ends
  BY <1>1, <1>3, <1>7, EndsPut
<1>15. Pipeline(c)!Ends \in Nat BY <1>7, EndsOf
<1>16. /\ y.at # "done" => Pipeline(c)!Gone' = Pipeline(c)!Gone
       /\ y.at = "done" => Cardinality(Pipeline(c)!Gone') = Cardinality(Pipeline(c)!Gone) + 1
  <2>1. agent' = [agent EXCEPT ![v] = y] /\ agent[v].at # "done" BY <1>1, <1>4
  <2> QED BY <1>2, <2>1, GoneStep
<1>17. /\ Cardinality(Pipeline(c)!Gone) \in Nat
       /\ Cardinality(Pipeline(c)!Gone) < Pipeline(c)!NumAgents
  <2>1. PICK g : g = Cardinality(Pipeline(c)!Gone) OBVIOUS
  <2>2. g \in Nat /\ g <= Pipeline(c)!NumAgents /\ g # Pipeline(c)!NumAgents
    BY <1>1, <2>1, GoneAgents
  <2>3. g < Pipeline(c)!NumAgents BY <1>7, <2>2
  <2> QED BY <2>1, <2>2, <2>3
<1>18. finished # Pipeline(c)!NumAgents
  <2>1. Pipeline(c)!Ends >= finished BY <1>7, EndsOf
  <2> QED BY <1>2, <1>7, <1>15, <1>17, <2>1
<1>19. ASSUME NEW s \in 1 .. c.sources
       PROVE  /\ Pipeline(c)!InOutput(s)'
              /\ ~(x.kind = "batch" /\ s = h) =>
                    /\ \A k : Pipeline(c)!LastOut(s, k) => Pipeline(c)!LastOut(s, k)'
                    /\ Pipeline(c)!Read(s) => Pipeline(c)!Read(s)'
              /\ x.kind = "error" /\ s = h => Pipeline(c)!Read(s)'
              /\ x.kind = "batch" /\ s = h => Pipeline(c)!LastOut(s, x.position)'
  <2>1. /\ ~(x.kind = "batch" /\ x.source = s) =>
              /\ Pipeline(c)!InOutput(s) => Pipeline(c)!InOutput(s)'
              /\ \A k : Pipeline(c)!LastOut(s, k) => Pipeline(c)!LastOut(s, k)'
              /\ Pipeline(c)!Read(s) => Pipeline(c)!Read(s)'
        /\ x.kind = "error" /\ x.source = s => Pipeline(c)!Read(s)'
        /\ x.kind = "batch" /\ x.source = s /\ Pipeline(c)!InOutput(s)
           /\ Pipeline(c)!LastOut(s, x.position - 1)
              => Pipeline(c)!InOutput(s)' /\ Pipeline(c)!LastOut(s, x.position)'
    <3>1. output' = Append(output, x) /\ received' = received /\ errors' = errors BY <1>1, <1>3
    <3> QED BY <1>2, <1>7, <3>1, PipelineAppended
  <2>2. Pipeline(c)!InOutput(s) BY <1>2
  <2>3. x.source = h /\ (x.kind = "batch" => Pipeline(c)!LastOut(h, x.position - 1)) BY <1>11
  <2> QED BY <2>1, <2>2, <2>3
<1>20. ASSUME NEW u \in c.agents PROVE Pipeline(c)!Holds(agent[u])'
  <2>1. CASE u = v
    <3>1. CASE x.kind = "batch"
      <4>1. h \in 1 .. c.sources BY <1>7, <1>11, <3>1
      <4>2. y.at = "inside" /\ y.source = h /\ y.sent = agent[v].sent /\ ~y.last
        BY <1>10, <1>11, <3>1
      <4>3. Pipeline(c)!LastOut(y.source, y.sent)'
        <5>1. PICK k : k = agent[v].sent OBVIOUS
        <5>2. Pipeline(c)!LastOut(h, k)' BY <1>11, <1>19, <3>1, <4>1, <5>1
        <5> QED BY <4>2, <5>1, <5>2
      <4>4. Pipeline(c)!Holds(y)' BY <1>11, <1>12, <4>1, <4>2, <4>3 DEF Pipeline!Holds
      <4> QED BY <1>9, <2>1, <4>4
    <3>2. CASE x.kind = "error"
      <4>1. h \in 1 .. c.sources BY <1>7, <1>11, <3>2
      <4>2. Pipeline(c)!Read(h)' BY <1>19, <3>2, <4>1
      <4>3. y.at = "putting" /\ y.source = h /\ y.item.kind = "duration" /\ y.item.source = h /\ ~y.last
        BY <1>10, <1>11, <3>2
      <4>4. Pipeline(c)!Holds(y)' BY <1>11, <1>12, <4>1, <4>2, <4>3 DEF Pipeline!Holds
      <4> QED BY <1>9, <2>1, <4>4
    <3>3. CASE x.kind \in {"duration", "end"}
      <4>1. y.source = 0 /\ ~y.last /\ y.at \in {"idle", "done"} BY <1>10, <3>3
      <4>2. Pipeline(c)!Holds(y)' BY <1>12, <4>1 DEF Pipeline!Holds
      <4> QED BY <1>9, <2>1, <4>2
    <3> QED BY <1>7, <3>1, <3>2, <3>3
  <2>2. CASE u # v
    <3>1. PICK z : z = agent[u] OBVIOUS
    <3>2. z \in Pipeline(c)!Agent /\ Pipeline(c)!Holds(z) /\ z.source \in 0 .. c.sources
      BY <1>2, <1>7, <3>1
    <3>3. z.source # 0 => z.source \in 1 .. c.sources /\ z.source # h
      BY <1>2, <1>6, <1>7, <2>2, <3>1, <3>2
    <3>4. z.source # 0 =>
             /\ \A k \in Nat : Pipeline(c)!LastOut(z.source, k) => Pipeline(c)!LastOut(z.source, k)'
             /\ Pipeline(c)!Read(z.source) => Pipeline(c)!Read(z.source)'
      <4>1. PICK s : s = z.source OBVIOUS
      <4>2. s # 0 =>
             /\ \A k \in Nat : Pipeline(c)!LastOut(s, k) => Pipeline(c)!LastOut(s, k)'
             /\ Pipeline(c)!Read(s) => Pipeline(c)!Read(s)'
        BY <1>19, <3>3, <4>1
      <4> QED BY <4>1, <4>2
    <3>5. Pipeline(c)!Holds(z)' BY <1>12, <3>2, <3>4, HoldsOnward
    <3> QED BY <1>9, <2>2, <3>1, <3>5
  <2> QED BY <2>1, <2>2
<1>21. ASSUME NEW s \in 1 .. c.sources, Pipeline(c)!Unheld(s)', ~Pipeline(c)!Read(s)'
       PROVE  Pipeline(c)!Ends' < Cardinality(Pipeline(c)!Gone')
  <2>1. s <= Pipeline(c)!Taken /\ \A u \in c.agents : agent'[u].source # s
    BY <1>12, <1>21 DEF Pipeline!Unheld
  <2>2. CASE s # h
    <3>1. \A u \in c.agents : agent[u].source # s BY <1>6, <1>9, <2>1, <2>2
    <3>2. Pipeline(c)!Unheld(s) BY <2>1, <3>1 DEF Pipeline!Unheld
    <3>3. ~Pipeline(c)!Read(s) BY <1>19, <1>21, <2>2
    <3>4. Pipeline(c)!Ends < Cardinality(Pipeline(c)!Gone) BY <1>2, <3>2, <3>3
    <3>5. CASE x.kind = "end"
      <4>1. y.at = "done" BY <1>10, <3>5
      <4> QED BY <1>14, <1>15, <1>16, <1>17, <3>4, <3>5, <4>1
    <3>6. CASE x.kind # "end"
      <4>1. Pipeline(c)!Ends' = Pipeline(c)!Ends BY <1>14, <3>6
      <4>2. Cardinality(Pipeline(c)!Gone') \in {Cardinality(Pipeline(c)!Gone), Cardinality(Pipeline(c)!Gone) + 1}
        BY <1>16
      <4> QED BY <1>15, <1>17, <3>4, <4>1, <4>2
    <3> QED BY <3>5, <3>6
  <2>3. CASE s = h
    <3>1. x.kind = "duration"
      <4>1. y.source # h BY <1>9, <2>1, <2>3
      <4>2. h # 0 BY <2>3
      <4> QED BY <1>7, <1>10, <1>11, <4>1, <4>2
    <3>2. CASE ~agent[v].last
      <4>1. Pipeline(c)!Read(s) BY <1>11, <2>3, <3>1, <3>2
      <4> QED BY <1>19, <1>21, <3>1, <4>1
    <3>3. CASE agent[v].last
      <4>1. y.at = "done" BY <1>10, <3>1, <3>3
      <4> QED BY <1>2, <1>14, <1>15, <1>16, <1>17, <3>1, <4>1
    <3> QED BY <3>2, <3>3
  <2> QED BY <2>2, <2>3
<1>22. Pipeline(c)!Ends' <= Cardinality(Pipeline(c)!Gone')
  <2>1. CASE x.kind = "end"
    <3>1. y.at = "done" BY <1>10, <2>1
    <3> QED BY <1>2, <1>14, <1>15, <1>16, <1>17, <2>1, <3>1
  <2>2. CASE x.kind # "end"
    <3>1. Pipeline(c)!Ends' = Pipeline(c)!Ends BY <1>14, <2>2
    <3>2. Cardinality(Pipeline(c)!Gone') \in {Cardinality(Pipeline(c)!Gone), Cardinality(Pipeline(c)!Gone) + 1}
      BY <1>16
    <3> QED BY <1>2, <1>15, <1>17, <3>1, <3>2
  <2> QED BY <2>1, <2>2
<1>23. Pipeline(c)!Ends' > 0 => Pipeline(c)!Taken' >= c.sources
  <2>1. CASE x.kind = "end" BY <1>1, <1>2, <1>3, <1>12, <2>1
  <2>2. CASE x.kind # "end" BY <1>2, <1>12, <1>14, <2>2
  <2> QED BY <2>1, <2>2
<1>24. ASSUME NEW u \in c.agents, agent'[u].at = "putting", agent'[u].item.kind = "end"
       PROVE  Pipeline(c)!Taken' >= c.sources
  <2>1. u # v
    <3>1. y.at = "putting" => x.kind = "error" BY <1>7, <1>10
    <3>2. y.at = "putting" => y.item.kind = "duration" BY <1>10, <3>1
    <3> QED BY <1>9, <1>24, <3>2
  <2> QED BY <1>2, <1>9, <1>12, <1>24, <2>1
<1>25. ASSUME Pipeline(c)!Ends' = Pipeline(c)!NumAgents PROVE output'[Len(output')].kind = "end"
  <2>1. x.kind = "end"
    <3>1. Pipeline(c)!Ends # Pipeline(c)!NumAgents BY <1>2, <1>7, <1>15, <1>17
    <3> QED BY <1>14, <1>25, <3>1
  <2> QED BY <1>8, <2>1
<1>26. ASSUME NEW i \in DOMAIN output', output'[i].kind # "end"
       PROVE  output'[i].source \in 1 .. Pipeline(c)!Taken'
  <2>1. CASE i \in 1 .. n BY <1>2, <1>5, <1>8, <1>12, <1>26, <2>1
  <2>2. CASE i = n + 1
    <3>1. output'[i] = x /\ x.kind # "end" BY <1>8, <1>26, <2>2
    <3>2. x.source = h /\ h # 0 /\ h <= Pipeline(c)!Taken BY <1>11, <3>1
    <3>3. h \in 1 .. Pipeline(c)!Taken BY <1>7, <1>12, <3>2
    <3> QED BY <1>12, <3>1, <3>2, <3>3
  <2> QED BY <1>8, <2>1, <2>2
<1>27. ASSUME NEW u \in c.agents, NEW w \in c.agents, agent'[u].source # 0,
              agent'[u].source = agent'[w].source
       PROVE  u = w
  <2>1. agent'[v].source \in {0, h} BY <1>7, <1>9, <1>10
  <2>2. \A z \in c.agents : agent'[z].source # 0 => agent'[z].source = agent[z].source
    BY <1>6, <1>9, <2>1
  <2> QED BY <1>2, <1>27, <2>2
<1>28. \A s \in 1 .. c.sources : /\ Pipeline(c)!InOutput(s)'
                                 /\ s > Pipeline(c)!Taken' => received'[s] = 0
  BY <1>1, <1>2, <1>12, <1>19
<1>29. consumer' # "finished" /\ finished' # Pipeline(c)!NumAgents BY <1>1, <1>2, <1>18
<1> QED BY <1>13, <1>20, <1>21, <1>22, <1>23, <1>24, <1>25, <1>26, <1>27, <1>28, <1>29, PipelineAgain

\* The consumer gets an item.
LEMMA ConsumeKeeps ==
    ASSUME NEW c, Pipeline(c)!PipelineConstantsOK, Pipeline(c)!PipelineInv, Pipeline(c)!Consume,
           Pipeline(c)!TypeOK'
    PROVE  /\ Pipeline(c)!PipelineInv'
           /\ \A s \in 1 .. c.sources : received'[s] \in {received[s], received[s] + 1}
<1>1. /\ consumer = "waiting" /\ output # <<>> /\ output' = Tail(output)
      /\ UNCHANGED <<producer, queue, agent>>
  BY DEF Pipeline!Consume
<1>2. /\ Pipeline(c)!TypeOK /\ Pipeline(c)!InQueue
      /\ Pipeline(c)!Ends <= Cardinality(Pipeline(c)!Gone)
      /\ \A s \in 1 .. c.sources : Pipeline(c)!Unheld(s) /\ ~Pipeline(c)!Read(s)
            => Pipeline(c)!Ends < Cardinality(Pipeline(c)!Gone)
      /\ Pipeline(c)!Ends > 0 => Pipeline(c)!Taken >= c.sources
      /\ \A u \in c.agents : agent[u].at = "putting" /\ agent[u].item.kind = "end"
            => Pipeline(c)!Taken >= c.sources
      /\ Pipeline(c)!Ends = Pipeline(c)!NumAgents /\ output # <<>>
            => output[Len(output)].kind = "end"
      /\ finished # Pipeline(c)!NumAgents
      /\ \A s \in 1 .. c.sources : /\ Pipeline(c)!InOutput(s)
                                   /\ s > Pipeline(c)!Taken => received[s] = 0
      /\ \A i \in 1 .. Len(output) :
            output[i].kind # "end" => output[i].source \in 1 .. Pipeline(c)!Taken
      /\ \A u \in c.agents : Pipeline(c)!Holds(agent[u])
      /\ \A u, w \in c.agents : agent[u].source # 0 /\ agent[u].source = agent[w].source => u = w
  BY <1>1, PipelineParts
<1>3. PICK n : n = Len(output) OBVIOUS
<1>4. PICK x : x = output[1] OBVIOUS
<1>5. /\ output \in Seq(Pipeline(c)!Item) /\ finished \in Nat /\ Pipeline(c)!NumAgents \in Nat
      /\ received \in [1 .. c.sources -> 0 .. c.batches]
      /\ \A u \in c.agents : agent[u] \in Pipeline(c)!Agent /\ agent[u].source \in 0 .. c.sources
  <2>1. finished \in 0 .. Pipeline(c)!NumAgents BY <1>2, PipelineTyped
  <2> QED BY <1>2, <2>1, PipelineTyped, PipelineConstants
<1>6. /\ n \in Nat \ {0} /\ Len(output') = n - 1 /\ DOMAIN output' = 1 .. n - 1
      /\ Head(output) = x /\ x \in Pipeline(c)!Item
      /\ \A i \in 1 .. n - 1 : output'[i] = output[i + 1]
  BY <1>1, <1>3, <1>4, <1>5, Tailed
<1>7. /\ x.kind \in {"batch", "error", "duration", "end"}
      /\ x.kind # "end" => x.source \in 1 .. Pipeline(c)!Taken
  <2>1. 1 \in 1 .. n BY <1>6
  <2> QED BY <1>2, <1>3, <1>4, <1>6, <2>1, PipelineItems
<1>8. /\ x.kind = "end" => finished' = finished + 1
      /\ x.kind # "end" => finished' = finished /\ consumer' \in {"waiting", "body"}
      /\ x.kind = "end" =>
            consumer' = IF finished + 1 = Pipeline(c)!NumAgents THEN "finished" ELSE "waiting"
      /\ x.kind = "batch" => received' = [received EXCEPT ![x.source] = x.position]
      /\ x.kind # "batch" => received' = received
      /\ x.kind = "error" => errors' = errors \cup {x.source}
      /\ x.kind # "error" => errors' = errors
  <2>1. CASE x.kind = "end" BY <1>6, <2>1 DEF Pipeline!Consume, Pipeline!Counted
  <2>2. CASE x.kind = "duration" BY <1>1, <1>6, <2>2 DEF Pipeline!Consume
  <2>3. CASE x.kind = "batch" BY <1>6, <2>3 DEF Pipeline!Consume
  <2>4. CASE x.kind = "error" BY <1>6, <2>4 DEF Pipeline!Consume
  <2> QED BY <1>7, <2>1, <2>2, <2>3, <2>4
<1>9. /\ Pipeline(c)!Taken \in Nat /\ Pipeline(c)!Taken' = Pipeline(c)!Taken
      /\ Pipeline(c)!Taken' \in Nat /\ Pipeline(c)!Taken <= Pipeline(c)!Taken'
  <2>1. Pipeline(c)!Taken' = Pipeline(c)!Taken /\ Pipeline(c)!Taken \in Nat
    BY <1>1, <1>2, PipelineTaken DEF Pipeline!Taken
  <2> QED BY <2>1
<1>10. Pipeline(c)!InQueue' BY <1>1, <1>2, <1>9 DEF Pipeline!InQueue
<1>11. ASSUME NEW s \in 1 .. c.sources
       PROVE  /\ Pipeline(c)!InOutput(s)'
              /\ \A k \in Nat : Pipeline(c)!LastOut(s, k) => Pipeline(c)!LastOut(s, k)'
              /\ Pipeline(c)!Read(s) => Pipeline(c)!Read(s)'
              /\ received'[s] \in {received[s], received[s] + 1}
  <2>1. errors \subseteq errors' /\ (x.kind = "error" /\ x.source = s => s \in errors')
    BY <1>8
  <2>2. IF x.kind = "batch" /\ x.source = s THEN received'[s] = x.position
        ELSE received'[s] = received[s]
    BY <1>5, <1>8
  <2>3. Pipeline(c)!InOutput(s) BY <1>2
  <2> QED BY <1>1, <1>2, <1>4, <2>1, <2>2, <2>3, PipelineTailed
<1>12. Pipeline(c)!Ends' = Pipeline(c)!Ends BY <1>1, <1>4, <1>5, <1>8, EndsGot
<1>13. Pipeline(c)!Gone' = Pipeline(c)!Gone BY <1>1 DEF Pipeline!Gone
<1>14. ASSUME NEW s \in 1 .. c.sources, Pipeline(c)!Unheld(s)', ~Pipeline(c)!Read(s)'
       PROVE  Pipeline(c)!Ends' < Cardinality(Pipeline(c)!Gone')
  <2>1. Pipeline(c)!Unheld(s) BY <1>1, <1>9, <1>14 DEF Pipeline!Unheld
  <2>2. ~Pipeline(c)!Read(s) BY <1>11, <1>14
  <2> QED BY <1>2, <1>12, <1>13, <2>1, <2>2
<1>15. ASSUME NEW u \in c.agents PROVE Pipeline(c)!Holds(agent[u])'
  <2>1. PICK z : z = agent[u] OBVIOUS
  <2>2. z \in Pipeline(c)!Agent /\ Pipeline(c)!Holds(z) /\ z.source \in 0 .. c.sources
    BY <1>2, <1>5, <2>1
  <2>3. PICK s : s = z.source OBVIOUS
  <2>4. s # 0 =>
         /\ \A k \in Nat : Pipeline(c)!LastOut(s, k) => Pipeline(c)!LastOut(s, k)'
         /\ Pipeline(c)!Read(s) => Pipeline(c)!Read(s)'
    <3>1. s # 0 => s \in 1 .. c.sources BY <2>2, <2>3, PipelineConstants
    <3> QED BY <1>11, <3>1
  <2>5. z.source # 0 =>
         /\ \A k \in Nat : Pipeline(c)!LastOut(z.source, k) => Pipeline(c)!LastOut(z.source, k)'
         /\ Pipeline(c)!Read(z.source) => Pipeline(c)!Read(z.source)'
    BY <2>3, <2>4
  <2>6. Pipeline(c)!Holds(z)' BY <1>9, <2>2, <2>5, HoldsOnward
  <2> QED BY <1>1, <2>1, <2>6
<1>16. ASSUME NEW s \in 1 .. c.sources, s > Pipeline(c)!Taken' PROVE received'[s] = 0
  <2>1. received[s] = 0 /\ s > Pipeline(c)!Taken BY <1>2, <1>9, <1>16
  <2>2. x.kind = "batch" => x.source # s BY <1>7, <1>9, <2>1
  <2> QED BY <1>5, <1>8, <2>1, <2>2
<1>17. ASSUME NEW i \in DOMAIN output', output'[i].kind # "end"
       PROVE  output'[i].source \in 1 .. Pipeline(c)!Taken'
  <2>1. i \in 1 .. n - 1 /\ i + 1 \in 1 .. n BY <1>6
  <2> QED BY <1>2, <1>3, <1>6, <1>9, <1>17, <2>1
<1>18. ASSUME Pipeline(c)!Ends' = Pipeline(c)!NumAgents, output' # <<>>
       PROVE  output'[Len(output')].kind = "end"
  <2>1. output[n].kind = "end" BY <1>1, <1>2, <1>3, <1>12, <1>18
  <2>2. n - 1 \in 1 .. n - 1 /\ n - 1 + 1 = n
    <3>1. output' \in Seq(Pipeline(c)!Item) BY <1>1, <1>5, Tailed
    <3>2. Len(output') # 0 BY <1>18, <3>1
    <3> QED BY <1>6, <3>2
  <2> QED BY <1>6, <2>1, <2>2
<1>19. consumer' = "finished" <=> finished' = Pipeline(c)!NumAgents
  <2>1. CASE x.kind = "end" BY <1>8, <2>1
  <2>2. CASE x.kind # "end" BY <1>2, <1>8, <2>2
  <2> QED BY <2>1, <2>2
<1>20. ASSUME consumer' = "finished" PROVE output' = <<>>
  <2>1. finished' = Pipeline(c)!NumAgents BY <1>19, <1>20
  <2>2. PICK e : e = Pipeline(c)!Ends' OBVIOUS
  <2>3. /\ e <= Pipeline(c)!NumAgents /\ e \in Nat
    <3>1. PICK g : g = Cardinality(Pipeline(c)!Gone) OBVIOUS
    <3>2. g \in Nat /\ g <= Pipeline(c)!NumAgents BY <3>1, GoneAgents
    <3>3. e <= g /\ e \in Nat BY <1>2, <1>5, <1>12, <2>2, <3>1, EndsOf
    <3> QED BY <1>5, <3>2, <3>3
  <2>4. PICK t : t = output' OBVIOUS
  <2>5. t \in Seq(Pipeline(c)!Item) BY <1>1, <1>5, <2>4, Tailed
  <2>6. PICK m : m = Cardinality({i \in 1 .. Len(t) : t[i] \in {y \in Pipeline(c)!Item : y.kind = "end"}})
    OBVIOUS
  <2>7. e = Pipeline(c)!NumAgents + m /\ m \in Nat
    <3>1. Pipeline(c)!EndsIn(output)'
            = {i \in 1 .. Len(t) : t[i] \in {y \in Pipeline(c)!Item : y.kind = "end"}}
      BY <2>4, <2>5 DEF Pipeline!EndsIn
    <3>2. e = finished' + m BY <2>2, <2>6, <3>1, SameInPipeline DEF Pipeline!Ends
    <3>3. m \in Nat BY <2>5, <2>6, CountOf
    <3> QED BY <2>1, <3>2, <3>3
  <2>8. m = 0 /\ e = Pipeline(c)!NumAgents BY <1>5, <2>3, <2>7
  <2>9. \A i \in 1 .. Len(t) : t[i].kind # "end"
    <3>1. \A i \in 1 .. Len(t) : t[i] \notin {y \in Pipeline(c)!Item : y.kind = "end"}
      BY <2>5, <2>6, <2>8, CountOf
    <3> QED BY <2>5, <3>1
  <2>10. ASSUME t # <<>> PROVE FALSE
    <3>1. t[Len(t)].kind = "end" BY <1>18, <2>2, <2>4, <2>8, <2>10
    <3>2. Len(t) \in 1 .. Len(t) BY <2>5, <2>10
    <3> QED BY <2>9, <3>1, <3>2
  <2> QED BY <2>4, <2>10
<1>21. /\ Pipeline(c)!Ends' <= Cardinality(Pipeline(c)!Gone')
       /\ Pipeline(c)!Ends' > 0 => Pipeline(c)!Taken' >= c.sources
       /\ \A u \in c.agents : agent'[u].at = "putting" /\ agent'[u].item.kind = "end"
             => Pipeline(c)!Taken' >= c.sources
       /\ \A u, w \in c.agents : agent'[u].source # 0 /\ agent'[u].source = agent'[w].source => u = w
  BY <1>1, <1>2, <1>9, <1>12, <1>13
<1>22. Pipeline(c)!PipelineInv'
  BY <1>10, <1>11, <1>14, <1>15, <1>16, <1>17, <1>18, <1>19, <1>20, <1>21, PipelineAgain
<1> QED BY <1>11, <1>22

LEMMA PipelineStep ==
    ASSUME NEW c, Pipeline(c)!PipelineConstantsOK, Pipeline(c)!PipelineInv,
           Pipeline(c)!Next \/ UNCHANGED pipelineVars
    PROVE  Pipeline(c)!PipelineInv' /\ (Pipeline(c)!InOrder \/ UNCHANGED pipelineVars)
<1>1. Pipeline(c)!TypeOK' BY PipelineTypes
<1>2. Pipeline(c)!Adapters = 1 .. c.sources BY PipelineConstants
<1>3. Pipeline(c)!TypeOK BY DEF Pipeline!PipelineInv
<1>4. received' = received => Pipeline(c)!InOrder BY DEF Pipeline!InOrder
<1>5. CASE consumer' = "canceled" /\ received' = received
  BY <1>1, <1>4, <1>5 DEF Pipeline!PipelineInv
<1>6. CASE consumer = "canceled"
  <2>1. consumer' = "canceled" /\ received' = received
    BY <1>6 DEF Pipeline!Next, Pipeline!Progress, Pipeline!Produce, Pipeline!Consume,
           Pipeline!CallerReturns, Pipeline!GetAdapter, Pipeline!PutOutput, Pipeline!AdapterYields,
           Pipeline!AdapterEnds, Pipeline!AdapterRaises, Pipeline!CancelRefresh,
           Pipeline!TimeoutWhileBlocked, Pipeline!Unshared, pipelineVars
  <2> QED BY <1>5, <2>1
<1>7. CASE consumer # "canceled"
  <2>1. CASE Pipeline(c)!Produce
    <3>1. received' = received BY <2>1 DEF Pipeline!Produce
    <3> QED BY <1>1, <1>4, <2>1, <3>1, ProduceKeeps
  <2>2. CASE Pipeline(c)!Consume BY <1>1, <1>2, <2>2, ConsumeKeeps DEF Pipeline!InOrder
  <2>3. CASE Pipeline(c)!CallerReturns \/ UNCHANGED pipelineVars
    <3>1. /\ UNCHANGED <<producer, queue, output, agent, finished, received, errors>>
          /\ consumer' = "finished" <=> consumer = "finished"
      BY <2>3 DEF Pipeline!CallerReturns, pipelineVars
    <3>2. Pipeline(c)!InQueue BY <1>7, PipelineParts
    <3>3. Pipeline(c)!Taken' = Pipeline(c)!Taken BY <3>1 DEF Pipeline!Taken
    <3>4. Pipeline(c)!InQueue' BY <3>1, <3>2, <3>3 DEF Pipeline!InQueue
    <3> QED BY <1>1, <1>4, <1>7, <3>1, <3>3, <3>4, PipelineStays
  <2>4. ASSUME NEW v \in c.agents, Pipeline(c)!GetAdapter(v)
        PROVE  Pipeline(c)!PipelineInv' /\ Pipeline(c)!InOrder
    <3>1. received' = received BY <2>4 DEF Pipeline!GetAdapter, Pipeline!Unshared
    <3> QED BY <1>1, <1>4, <1>7, <2>4, <3>1, GetAdapterKeeps
  <2>5. ASSUME NEW v \in c.agents, Pipeline(c)!PutOutput(v)
        PROVE  Pipeline(c)!PipelineInv' /\ Pipeline(c)!InOrder
    <3>1. received' = received BY <2>5 DEF Pipeline!PutOutput, Pipeline!Unshared
    <3> QED BY <1>1, <1>4, <1>7, <2>5, <3>1, PutOutputKeeps
  <2>6. ASSUME NEW v \in c.agents,
               \/ Pipeline(c)!AdapterYields(v) \/ Pipeline(c)!AdapterEnds(v)
               \/ Pipeline(c)!AdapterRaises(v) \/ Pipeline(c)!TimeoutWhileBlocked(v)
        PROVE  Pipeline(c)!PipelineInv' /\ Pipeline(c)!InOrder
    <3>1. received' = received
      BY <2>6 DEF Pipeline!AdapterYields, Pipeline!AdapterEnds, Pipeline!AdapterRaises,
                  Pipeline!TimeoutWhileBlocked, Pipeline!Unshared
    <3> QED BY <1>1, <1>4, <1>7, <2>6, <3>1, AdapterKeeps
  <2>7. CASE Pipeline(c)!CancelRefresh
    <3>1. consumer' = "canceled" /\ received' = received BY <2>7 DEF Pipeline!CancelRefresh
    <3> QED BY <1>5, <3>1
  <2> QED BY <2>1, <2>2, <2>3, <2>4, <2>5, <2>6, <2>7 DEF Pipeline!Next, Pipeline!Progress
<1> QED BY <1>6, <1>7

\* What the invariant says of a refresh that has ended.
LEMMA PipelineKept ==
    ASSUME NEW c, Pipeline(c)!PipelineConstantsOK, Pipeline(c)!PipelineInv
    PROVE  Pipeline(c)!TypeOK /\ Pipeline(c)!SuccessIsComplete
<1>1. Pipeline(c)!TypeOK BY DEF Pipeline!PipelineInv
<1>2. ASSUME consumer = "finished", NEW s \in 1 .. c.sources, s \notin errors
      PROVE  received[s] = c.batches
  <2>1. /\ Pipeline(c)!Ends <= Cardinality(Pipeline(c)!Gone)
        /\ Pipeline(c)!Unheld(s) /\ ~Pipeline(c)!Read(s)
              => Pipeline(c)!Ends < Cardinality(Pipeline(c)!Gone)
        /\ Pipeline(c)!Ends > 0 => Pipeline(c)!Taken >= c.sources
        /\ finished = Pipeline(c)!NumAgents /\ output = <<>> /\ Pipeline(c)!InQueue
        /\ \A u \in c.agents : Pipeline(c)!Holds(agent[u])
    BY <1>2, PipelineParts
  <2>2. PICK e : e = Pipeline(c)!Ends OBVIOUS
  <2>3. PICK g : g = Cardinality(Pipeline(c)!Gone) OBVIOUS
  <2>4. /\ e \in Nat /\ g \in Nat /\ e >= Pipeline(c)!NumAgents /\ g <= Pipeline(c)!NumAgents
        /\ Pipeline(c)!NumAgents \in Nat \ {0}
    <3>1. output \in Seq(Pipeline(c)!Item) /\ finished \in Nat BY <1>1, <2>1, PipelineTyped, PipelineConstants
    <3> QED BY <2>1, <2>2, <2>3, <3>1, EndsOf, GoneAgents, PipelineConstants
  <2>5. e = Pipeline(c)!NumAgents /\ g = Pipeline(c)!NumAgents /\ e > 0 BY <2>1, <2>2, <2>3, <2>4
  <2>6. \A v \in c.agents : agent[v].source = 0
    <3>1. \A v \in c.agents : agent[v].at = "done" BY <2>3, <2>5, GoneAgents
    <3> QED BY <2>1, <3>1 DEF Pipeline!Holds
  <2>7. Pipeline(c)!Unheld(s)
    <3>1. Pipeline(c)!Taken \in Nat /\ c.sources \in Nat BY <1>1, <2>1, PipelineTaken, PipelineConstants
    <3>2. s <= Pipeline(c)!Taken BY <2>1, <2>2, <2>5, <3>1
    <3> QED BY <2>6, <3>2 DEF Pipeline!Unheld
  <2>8. Pipeline(c)!Read(s) BY <2>1, <2>2, <2>3, <2>5, <2>7, PipelineConstants
  <2>9. DOMAIN output = {} BY <2>1
  <2>10. Pipeline(c)!LastOut(s, c.batches) BY <1>2, <2>8, <2>9 DEF Pipeline!Read
  <2> QED BY <2>9, <2>10 DEF Pipeline!LastOut, Pipeline!BatchesOf
<1>3. Pipeline(c)!SuccessIsComplete BY <1>2, PipelineConstants DEF Pipeline!SuccessIsComplete
<1> QED BY <1>1, <1>3

-----------------------------------------------------------------------------
(* The requests of a client, for any requests, sources and limits *)

States == Ended \union HoldsSlot \union {"start", "asleep", "rejected", "backoff"}
Limiter == [current : MinSlots .. MaxSlots, streak : 0 .. SuccessWindow, used : 0 .. MaxSlots]

GateHolders == {r \in Requests : at[r] \in HoldsGate}
SlotHolders(s) == {r \in Requests : SourceOf[r] = s /\ at[r] \in HoldsSlot}

\* TypeOK with what a limiter has besides its three numbers: nothing.
Typed ==
    /\ TypeOK
    /\ limiter \in [Sources -> Limiter]

\* A request that waits to be sent again has yielded nothing and has an
\* attempt left.
WaitsUnyielded == \A r \in Requests : at[r] = "backoff" => ~yielded[r] /\ attempt[r] < Attempts

IInv == Typed /\ PermitsAccounted /\ WaitsUnyielded

USE DEF HoldsSlot, HoldsGate, Ended

LEMMA Numbers ==
    /\ Attempts \in Nat \ {0} /\ Concurrency \in Nat \ {0} /\ MinSlots \in Nat \ {0}
    /\ MaxSlots \in Nat \ {0} /\ SuccessWindow \in Nat \ {0} /\ MaxBackoff \in Nat
BY HttpConstantsOK

LEMMA Holders ==
    /\ IsFiniteSet(GateHolders)
    /\ \A s \in Sources : IsFiniteSet(SlotHolders(s))
BY HttpConstantsOK, FS_Subset DEF GateHolders, SlotHolders

\* How the holders of a source's slots, and of the gate's permits, change
\* when one request goes from one state to another.
LEMMA SlotsChange ==
    ASSUME NEW f, NEW r \in Requests, NEW s \in Sources, at' = f,
           \A q \in Requests \ {r} : (f[q] \in HoldsSlot <=> at[q] \in HoldsSlot)
    PROVE  /\ SourceOf[r] # s \/ (f[r] \in HoldsSlot <=> at[r] \in HoldsSlot)
                => SlotHolders(s)' = SlotHolders(s)
           /\ SourceOf[r] = s /\ f[r] \in HoldsSlot /\ at[r] \notin HoldsSlot
                => Cardinality(SlotHolders(s)') = Cardinality(SlotHolders(s)) + 1
           /\ SourceOf[r] = s /\ f[r] \notin HoldsSlot /\ at[r] \in HoldsSlot
                => /\ Cardinality(SlotHolders(s)') = Cardinality(SlotHolders(s)) - 1
                   /\ Cardinality(SlotHolders(s)) > 0
<1>1. SourceOf[r] # s \/ (f[r] \in HoldsSlot <=> at[r] \in HoldsSlot)
        => SlotHolders(s)' = SlotHolders(s)
  BY DEF SlotHolders
<1>2. ASSUME SourceOf[r] = s, f[r] \in HoldsSlot, at[r] \notin HoldsSlot
      PROVE  Cardinality(SlotHolders(s)') = Cardinality(SlotHolders(s)) + 1
  <2>1. SlotHolders(s)' = SlotHolders(s) \cup {r} /\ r \notin SlotHolders(s)
    BY <1>2 DEF SlotHolders
  <2> QED BY <2>1, Holders, FS_AddElement
<1>3. ASSUME SourceOf[r] = s, f[r] \notin HoldsSlot, at[r] \in HoldsSlot
      PROVE  /\ Cardinality(SlotHolders(s)') = Cardinality(SlotHolders(s)) - 1
             /\ Cardinality(SlotHolders(s)) > 0
  <2>1. SlotHolders(s)' = SlotHolders(s) \ {r} /\ r \in SlotHolders(s)
    BY <1>3 DEF SlotHolders
  <2>2. Cardinality(SlotHolders(s)') = Cardinality(SlotHolders(s)) - 1
    BY <2>1, Holders, FS_RemoveElement
  <2>3. Cardinality(SlotHolders(s)) \in Nat /\ Cardinality(SlotHolders(s)) # 0
    BY <2>1, Holders, FS_CardinalityType, FS_EmptySet
  <2> QED BY <2>2, <2>3
<1> QED BY <1>1, <1>2, <1>3

LEMMA GateChange ==
    ASSUME NEW f, NEW r \in Requests, at' = f,
           \A q \in Requests \ {r} : (f[q] \in HoldsGate <=> at[q] \in HoldsGate)
    PROVE  /\ (f[r] \in HoldsGate <=> at[r] \in HoldsGate) => GateHolders' = GateHolders
           /\ f[r] \in HoldsGate /\ at[r] \notin HoldsGate
                => Cardinality(GateHolders') = Cardinality(GateHolders) + 1
           /\ f[r] \notin HoldsGate /\ at[r] \in HoldsGate
                => /\ Cardinality(GateHolders') = Cardinality(GateHolders) - 1
                   /\ Cardinality(GateHolders) > 0
<1>1. (f[r] \in HoldsGate <=> at[r] \in HoldsGate) => GateHolders' = GateHolders
  BY DEF GateHolders
<1>2. ASSUME f[r] \in HoldsGate, at[r] \notin HoldsGate
      PROVE  Cardinality(GateHolders') = Cardinality(GateHolders) + 1
  <2>1. GateHolders' = GateHolders \cup {r} /\ r \notin GateHolders BY <1>2 DEF GateHolders
  <2> QED BY <2>1, Holders, FS_AddElement
<1>3. ASSUME f[r] \notin HoldsGate, at[r] \in HoldsGate
      PROVE  /\ Cardinality(GateHolders') = Cardinality(GateHolders) - 1
             /\ Cardinality(GateHolders) > 0
  <2>1. GateHolders' = GateHolders \ {r} /\ r \in GateHolders BY <1>3 DEF GateHolders
  <2>2. Cardinality(GateHolders') = Cardinality(GateHolders) - 1
    BY <2>1, Holders, FS_RemoveElement
  <2>3. Cardinality(GateHolders) \in Nat /\ Cardinality(GateHolders) # 0
    BY <2>1, Holders, FS_CardinalityType, FS_EmptySet
  <2> QED BY <2>2, <2>3
<1> QED BY <1>1, <1>2, <1>3

\* The accounts in the names used here.
LEMMA Accounts ==
    PermitsAccounted <=> /\ gate = Cardinality(GateHolders)
                         /\ \A s \in Sources : limiter[s].used = Cardinality(SlotHolders(s))
BY DEF PermitsAccounted, GateHolders, SlotHolders

\* A slot or permit that a request holds is one of those in use.
LEMMA HeldIsUsed ==
    ASSUME IInv, NEW r \in Requests
    PROVE  /\ at[r] \in HoldsSlot => limiter[SourceOf[r]].used > 0
           /\ at[r] \in HoldsGate => gate > 0
<1>1. SourceOf[r] \in Sources BY HttpConstantsOK
<1>2. ASSUME at[r] \in HoldsSlot PROVE limiter[SourceOf[r]].used > 0
  <2> DEFINE S == SlotHolders(SourceOf[r])
  <2>1. S # {} /\ IsFiniteSet(S) BY <1>1, <1>2, Holders DEF SlotHolders
  <2>2. Cardinality(S) \in Nat /\ Cardinality(S) # 0 BY <2>1, FS_CardinalityType, FS_EmptySet
  <2> QED BY <1>1, <2>2, Accounts DEF IInv
<1>3. ASSUME at[r] \in HoldsGate PROVE gate > 0
  <2>1. GateHolders # {} /\ IsFiniteSet(GateHolders) BY <1>3, Holders DEF GateHolders
  <2>2. Cardinality(GateHolders) \in Nat /\ Cardinality(GateHolders) # 0
    BY <2>1, FS_CardinalityType, FS_EmptySet
  <2> QED BY <2>2, Accounts DEF IInv
<1> QED BY <1>2, <1>3

\* A limiter without a slot that was given back is a limiter.
LEMMA FreedType ==
    ASSUME IInv, NEW r \in Requests
    PROVE  /\ SlotsFreed(r) \in [Sources -> Limiter]
           /\ \A s \in Sources : SlotsFreed(r)[s].used =
                IF s = SourceOf[r] /\ at[r] \in HoldsSlot THEN limiter[s].used - 1 ELSE limiter[s].used
           /\ \A s \in Sources : /\ SlotsFreed(r)[s].current = limiter[s].current
                                 /\ SlotsFreed(r)[s].streak = limiter[s].streak
<1>1. limiter \in [Sources -> Limiter] /\ SourceOf[r] \in Sources
  BY HttpConstantsOK DEF IInv, Typed
<1>2. \A s \in Sources : limiter[s].used \in 0 .. MaxSlots BY <1>1 DEF Limiter
<1>3. at[r] \in HoldsSlot => limiter[SourceOf[r]].used - 1 \in 0 .. MaxSlots
  BY <1>1, <1>2, HeldIsUsed, HttpConstantsOK
<1>4. CASE at[r] \in HoldsSlot
  <2>1. SlotsFreed(r) = [limiter EXCEPT ![SourceOf[r]].used = @ - 1] BY <1>4 DEF SlotsFreed
  <2> QED BY <1>1, <1>3, <1>4, <2>1 DEF Limiter
<1>5. CASE at[r] \notin HoldsSlot
  <2>1. SlotsFreed(r) = limiter BY <1>1, <1>5 DEF SlotsFreed, Limiter
  <2> QED BY <1>1, <1>5, <2>1
<1> QED BY <1>4, <1>5

\* Whoever leaves gives back what it held, no more and no less.
LEMMA LeaveKeeps ==
    ASSUME IInv, NEW r \in Requests, NEW st \in Ended \cup {"rejected"}, Leave(r, st),
           \A s \in Sources : limiter'[s].used = SlotsFreed(r)[s].used
    PROVE  /\ PermitsAccounted'
           /\ at' \in [Requests -> States] /\ gate' \in 0 .. Concurrency
           /\ at'[r] = st /\ \A q \in Requests \ {r} : at'[q] = "backoff" => at[q] = "backoff"
<1>1. at \in [Requests -> States] /\ gate \in 0 .. Concurrency
  BY DEF IInv, Typed, TypeOK, States
<1>2. /\ at' \in [Requests -> States] /\ at'[r] = st
      /\ \A q \in Requests \ {r} : at'[q] = at[q] \/ (at[q] = "asleep" /\ at'[q] = "start")
  BY <1>1 DEF Leave, Notified, States
<1>3. at'[r] \notin HoldsSlot /\ at'[r] \notin HoldsGate BY <1>2
<1>4. \A q \in Requests \ {r} : /\ at'[q] \in HoldsSlot <=> at[q] \in HoldsSlot
                                /\ at'[q] \in HoldsGate <=> at[q] \in HoldsGate
  BY <1>2
<1>5. gate' = Cardinality(GateHolders') /\ gate' \in 0 .. Concurrency
  <2>1. CASE at[r] \in HoldsGate
    <3>1. Cardinality(GateHolders') = Cardinality(GateHolders) - 1 BY <1>3, <1>4, <2>1, GateChange
    <3>2. gate' = gate - 1 /\ gate > 0 BY <2>1, HeldIsUsed DEF Leave
    <3> QED BY <1>1, <3>1, <3>2, Accounts, HttpConstantsOK DEF IInv
  <2>2. CASE at[r] \notin HoldsGate
    <3>1. GateHolders' = GateHolders BY <1>3, <1>4, <2>2, GateChange
    <3>2. gate' = gate BY <2>2 DEF Leave
    <3> QED BY <1>1, <3>1, <3>2, Accounts DEF IInv
  <2> QED BY <2>1, <2>2
<1>6. ASSUME NEW s \in Sources PROVE limiter'[s].used = Cardinality(SlotHolders(s)')
  <2>1. limiter'[s].used = IF s = SourceOf[r] /\ at[r] \in HoldsSlot
                           THEN limiter[s].used - 1 ELSE limiter[s].used
    BY FreedType
  <2>2. limiter[s].used = Cardinality(SlotHolders(s)) BY Accounts DEF IInv
  <2>3. CASE s = SourceOf[r] /\ at[r] \in HoldsSlot
    BY <1>3, <1>4, <2>1, <2>2, <2>3, SlotsChange
  <2>4. CASE ~(s = SourceOf[r] /\ at[r] \in HoldsSlot)
    <3>1. SlotHolders(s)' = SlotHolders(s) BY <1>3, <1>4, <2>4, SlotsChange
    <3> QED BY <2>1, <2>2, <2>4, <3>1
  <2> QED BY <2>3, <2>4
<1>7. PermitsAccounted' BY <1>5, <1>6 DEF PermitsAccounted, GateHolders, SlotHolders
<1> QED BY <1>1, <1>2, <1>5, <1>7

\* A step by which nobody takes or gives back anything.
LEMMA NeutralKeeps ==
    ASSUME IInv, gate' = gate, \A s \in Sources : limiter'[s].used = limiter[s].used,
           \A q \in Requests : /\ at'[q] \in HoldsSlot <=> at[q] \in HoldsSlot
                               /\ at'[q] \in HoldsGate <=> at[q] \in HoldsGate
    PROVE  PermitsAccounted'
<1>1. GateHolders' = GateHolders /\ \A s \in Sources : SlotHolders(s)' = SlotHolders(s)
  BY DEF GateHolders, SlotHolders
<1> QED BY <1>1, Accounts DEF IInv, PermitsAccounted, GateHolders, SlotHolders

LEMMA IInvInit == Init => IInv
<1> SUFFICES ASSUME Init PROVE IInv OBVIOUS
<1>1. GateHolders = {} /\ \A s \in Sources : SlotHolders(s) = {}
  BY DEF Init, GateHolders, SlotHolders
<1>2. PermitsAccounted BY <1>1, FS_EmptySet, Accounts DEF Init
<1>3. limiter \in [Sources -> Limiter] BY Numbers, HttpConstantsOK DEF Init, Limiter
<1>4. Typed BY <1>3, Numbers DEF Init, Typed, TypeOK, Limiter
<1>5. WaitsUnyielded BY DEF Init, WaitsUnyielded
<1> QED BY <1>2, <1>4, <1>5 DEF IInv

LEMMA TakeSlotKeeps == ASSUME IInv, NEW r \in Requests, TakeSlot(r) PROVE IInv'
<1> DEFINE s == SourceOf[r]
<1>1. /\ at \in [Requests -> States] /\ limiter \in [Sources -> Limiter] /\ s \in Sources
      /\ at[r] = "start" /\ UNCHANGED <<attempt, yielded, delay, asked, gate>>
  BY HttpConstantsOK DEF IInv, Typed, TypeOK, States, TakeSlot
<1>2. CASE limiter[s].used < limiter[s].current
  <2>1. at' = [at EXCEPT ![r] = "gate"] /\ limiter' = [limiter EXCEPT ![s].used = @ + 1]
    BY <1>2 DEF TakeSlot
  <2>2. limiter' \in [Sources -> Limiter] BY <1>1, <1>2, <2>1, Numbers DEF Limiter
  <2>3. Typed' BY <1>1, <2>1, <2>2 DEF IInv, Typed, TypeOK, Limiter
  <2>4. ASSUME NEW q \in Sources PROVE limiter'[q].used = Cardinality(SlotHolders(q)')
    <3>1. limiter[q].used = Cardinality(SlotHolders(q)) BY Accounts DEF IInv
    <3>2. limiter'[q].used = IF q = s THEN limiter[q].used + 1 ELSE limiter[q].used
      BY <1>1, <2>1 DEF Limiter
    <3>3. at'[r] \in HoldsSlot /\ at[r] \notin HoldsSlot /\ \A x \in Requests \ {r} : at'[x] = at[x]
      BY <1>1, <2>1
    <3>4. CASE q = s BY <3>1, <3>2, <3>3, <3>4, SlotsChange
    <3>5. CASE q # s
      <4>1. SlotHolders(q)' = SlotHolders(q) BY <3>3, <3>5, SlotsChange
      <4> QED BY <3>1, <3>2, <3>5, <4>1
    <3> QED BY <3>4, <3>5
  <2>5. GateHolders' = GateHolders BY <1>1, <2>1, GateChange
  <2>6. PermitsAccounted'
    BY <1>1, <2>4, <2>5, Accounts DEF IInv, PermitsAccounted, GateHolders, SlotHolders
  <2> QED BY <1>1, <2>1, <2>3, <2>6 DEF IInv, WaitsUnyielded
<1>3. CASE ~(limiter[s].used < limiter[s].current)
  <2>1. at' = [at EXCEPT ![r] = "asleep"] /\ UNCHANGED limiter BY <1>3 DEF TakeSlot
  <2>2. PermitsAccounted' BY <1>1, <2>1, NeutralKeeps
  <2>3. Typed' BY <1>1, <2>1 DEF IInv, Typed, TypeOK, Limiter
  <2> QED BY <1>1, <2>1, <2>2, <2>3 DEF IInv, WaitsUnyielded
<1> QED BY <1>2, <1>3

LEMMA TakeGateKeeps == ASSUME IInv, NEW r \in Requests, TakeGate(r) PROVE IInv'
<1>1. /\ at \in [Requests -> States] /\ at[r] = "gate" /\ gate \in 0 .. Concurrency
      /\ gate < Concurrency /\ at' = [at EXCEPT ![r] = "sent"] /\ gate' = gate + 1
      /\ UNCHANGED <<attempt, yielded, delay, asked, limiter>>
  BY DEF IInv, Typed, TypeOK, States, TakeGate
<1>2. Typed' BY <1>1, Numbers DEF IInv, Typed, TypeOK, Limiter
<1>3. gate' = Cardinality(GateHolders') BY <1>1, GateChange, Accounts DEF IInv
<1>4. \A s \in Sources : SlotHolders(s)' = SlotHolders(s) BY <1>1, SlotsChange
<1>5. PermitsAccounted'
  BY <1>1, <1>3, <1>4, Accounts DEF IInv, PermitsAccounted, GateHolders, SlotHolders
<1> QED BY <1>1, <1>2, <1>5 DEF IInv, WaitsUnyielded

\* An answer that ends the request, or its end for another reason.
LEMMA LeavesKeep ==
    ASSUME IInv, NEW r \in Requests, NEW st \in Ended \cup {"rejected"}, Leave(r, st),
           limiter' \in [Sources -> Limiter],
           \A s \in Sources : limiter'[s].used = SlotsFreed(r)[s].used,
           asked' \in [Requests -> Nat],
           UNCHANGED <<attempt, yielded, delay>>
    PROVE  IInv'
<1>1. st \in States BY DEF States
<1>2. /\ PermitsAccounted' /\ at' \in [Requests -> States] /\ gate' \in 0 .. Concurrency
      /\ at'[r] = st /\ \A q \in Requests \ {r} : at'[q] = "backoff" => at[q] = "backoff"
  BY LeaveKeeps
<1>3. Typed' BY <1>2 DEF IInv, Typed, TypeOK, Limiter, States
<1>4. WaitsUnyielded' BY <1>2 DEF IInv, WaitsUnyielded
<1> QED BY <1>2, <1>3, <1>4 DEF IInv

LEMMA GrownType ==
    ASSUME NEW l \in Limiter, NEW healthy \in BOOLEAN
    PROVE  Grown(l, healthy) \in Limiter /\ Grown(l, healthy).used = l.used
<1>1. l.current \in MinSlots .. MaxSlots /\ l.streak \in 0 .. SuccessWindow BY DEF Limiter
<1>2. (IF l.streak < SuccessWindow THEN l.streak + 1 ELSE l.streak) \in 0 .. SuccessWindow
  BY <1>1, Numbers
<1>3. l.current < MaxSlots => l.current + 1 \in MinSlots .. MaxSlots BY <1>1, Numbers
<1>4. 0 \in 0 .. SuccessWindow BY Numbers
<1> DEFINE k == IF l.streak < SuccessWindow THEN l.streak + 1 ELSE l.streak
           c == l.current + 1
<1>5. Grown(l, healthy) = IF l.streak + 1 >= SuccessWindow /\ l.current < MaxSlots /\ healthy
                          THEN [l EXCEPT !.current = c, !.streak = 0] ELSE [l EXCEPT !.streak = k]
  BY DEF Grown
<1>6. k \in 0 .. SuccessWindow /\ (l.current < MaxSlots => c \in MinSlots .. MaxSlots) BY <1>2, <1>3
<1> HIDE DEF c, k
<1>7. /\ [l EXCEPT !.streak = k] \in Limiter /\ [l EXCEPT !.streak = k].used = l.used
      /\ l.current < MaxSlots => /\ [l EXCEPT !.current = c, !.streak = 0] \in Limiter
                                /\ [l EXCEPT !.current = c, !.streak = 0].used = l.used
  BY <1>4, <1>6 DEF Limiter
<1> QED BY <1>5, <1>7

LEMMA HalvedType ==
    ASSUME NEW l \in Limiter
    PROVE  Halved(l) \in Limiter /\ Halved(l).used = l.used
<1> DEFINE c == IF MinSlots > l.current \div 2 THEN MinSlots ELSE l.current \div 2
<1>1. l.current \in Nat /\ l.current <= MaxSlots BY Numbers DEF Limiter
<1>2. l.current \div 2 \in Nat /\ l.current \div 2 <= l.current BY <1>1
<1>3. c \in MinSlots .. MaxSlots BY <1>1, <1>2, Numbers, HttpConstantsOK
<1>4. 0 \in 0 .. SuccessWindow BY Numbers
<1>5. Halved(l) = [l EXCEPT !.streak = 0, !.current = c] BY DEF Halved
<1> HIDE DEF c
<1>6. /\ [l EXCEPT !.streak = 0, !.current = c] \in Limiter
      /\ [l EXCEPT !.streak = 0, !.current = c].used = l.used
  BY <1>3, <1>4 DEF Limiter
<1> QED BY <1>5, <1>6

LEMMA SucceedKeeps == ASSUME IInv, NEW r \in Requests, Succeed(r) PROVE IInv'
<1>1. PICK healthy \in BOOLEAN :
          limiter' = [SlotsFreed(r) EXCEPT ![SourceOf[r]] = Grown(@, healthy)]
  BY DEF Succeed
<1>2. SlotsFreed(r) \in [Sources -> Limiter] /\ SourceOf[r] \in Sources
  BY FreedType, HttpConstantsOK
<1>3. limiter' \in [Sources -> Limiter] /\ \A s \in Sources : limiter'[s].used = SlotsFreed(r)[s].used
  BY <1>1, <1>2, GrownType
<1>4. asked' \in [Requests -> Nat] BY DEF Succeed, IInv, Typed, TypeOK
<1> QED BY <1>3, <1>4, LeavesKeep DEF Succeed

LEMMA RejectKeeps == ASSUME IInv, NEW r \in Requests, Reject(r) PROVE IInv'
<1>1. asked' \in [Requests -> Nat] BY HttpConstantsOK DEF Reject, IInv, Typed, TypeOK
<1>2. limiter' = SlotsFreed(r) /\ limiter' \in [Sources -> Limiter] BY FreedType DEF Reject
<1> QED BY <1>1, <1>2, LeavesKeep DEF Reject

LEMMA EndsKeep == ASSUME IInv, NEW r \in Requests, Fatal(r) \/ Cancel(r) PROVE IInv'
<1>1. limiter' = SlotsFreed(r) /\ limiter' \in [Sources -> Limiter] BY FreedType DEF Fatal, Cancel
<1>2. asked' \in [Requests -> Nat] BY DEF Fatal, Cancel, IInv, Typed, TypeOK
<1>3. CASE Fatal(r) BY <1>1, <1>2, <1>3, LeavesKeep DEF Fatal
<1>4. CASE Cancel(r) BY <1>1, <1>2, <1>4, LeavesKeep DEF Cancel
<1> QED BY <1>3, <1>4

LEMMA DelayType == ASSUME NEW ra \in Nat PROVE Delay(ra) \in 0 .. MaxBackoff
BY Numbers, HttpConstantsOK DEF Delay

LEMMA ObserveKeeps == ASSUME IInv, NEW r \in Requests, Observe(r) PROVE IInv'
<1>1. /\ at \in [Requests -> States] /\ limiter \in [Sources -> Limiter]
      /\ SourceOf[r] \in Sources /\ at[r] = "rejected"
      /\ limiter' = [limiter EXCEPT ![SourceOf[r]] = Halved(@)]
      /\ UNCHANGED <<attempt, yielded, asked, gate>>
  BY HttpConstantsOK DEF IInv, Typed, TypeOK, States, Observe
<1>2. limiter' \in [Sources -> Limiter] /\ \A s \in Sources : limiter'[s].used = limiter[s].used
  BY <1>1, HalvedType
<1>3. /\ at' \in [Requests -> States] /\ delay' \in [Requests -> 0 .. MaxBackoff]
      /\ at' = [at EXCEPT ![r] = IF Final(r) THEN "failed" ELSE "backoff"]
  <2>1. asked[r] \in Nat /\ delay \in [Requests -> 0 .. MaxBackoff] BY DEF IInv, Typed, TypeOK
  <2> QED BY <1>1, <2>1, DelayType DEF Observe, States
<1>4. PermitsAccounted' BY <1>1, <1>2, <1>3, NeutralKeeps
<1>5. Typed' BY <1>1, <1>2, <1>3 DEF IInv, Typed, TypeOK, Limiter, States
<1>6. WaitsUnyielded' BY <1>1, <1>3, Numbers DEF IInv, Typed, TypeOK, WaitsUnyielded, Final
<1> QED BY <1>4, <1>5, <1>6 DEF IInv

LEMMA StreamKeeps == ASSUME IInv, NEW r \in Requests, Yield(r) \/ Resume(r) PROVE IInv'
<1>1. /\ at \in [Requests -> States] /\ at' \in [Requests -> States]
      /\ at[r] \in {"sent", "yield"} /\ at'[r] \in {"sent", "yield"}
      /\ \A q \in Requests \ {r} : at'[q] = at[q]
      /\ UNCHANGED <<attempt, delay, asked, limiter, gate>>
  BY DEF IInv, Typed, TypeOK, States, Yield, Resume
<1>2. PermitsAccounted' BY <1>1, NeutralKeeps
<1>3. /\ yielded' \in [Requests -> BOOLEAN] /\ \A q \in Requests : yielded'[q] => q \in Streams
      /\ \A q \in Requests \ {r} : yielded'[q] = yielded[q]
  BY DEF IInv, Typed, TypeOK, Yield, Resume
<1>4. Typed' BY <1>1, <1>3 DEF IInv, Typed, TypeOK, Limiter, States
<1>5. WaitsUnyielded' BY <1>1, <1>3 DEF IInv, WaitsUnyielded
<1> QED BY <1>2, <1>4, <1>5 DEF IInv

LEMMA WakeKeeps == ASSUME IInv, NEW r \in Requests, Wake(r) PROVE IInv'
<1>1. /\ at \in [Requests -> States] /\ at[r] = "backoff" /\ at' = [at EXCEPT ![r] = "start"]
      /\ UNCHANGED <<yielded, delay, asked, limiter, gate>>
  BY DEF IInv, Typed, TypeOK, States, Wake
<1>2. PermitsAccounted' BY <1>1, NeutralKeeps
<1>3. attempt' = [attempt EXCEPT ![r] = @ + 1] /\ attempt[r] < Attempts
  BY <1>1 DEF Wake, IInv, WaitsUnyielded
<1>4. Typed' BY <1>1, <1>3, Numbers DEF IInv, Typed, TypeOK, Limiter
<1> QED BY <1>1, <1>2, <1>3, <1>4 DEF IInv, WaitsUnyielded, Typed, TypeOK

\* Time only changes what is left of delays.
LEMMA TickKeeps == ASSUME IInv, Tick PROVE IInv'
<1>1. \A n \in Nat : Sooner(n) \in Nat /\ Sooner(n) <= n BY DEF Sooner
<1>2. /\ delay' \in [Requests -> 0 .. MaxBackoff] /\ asked' \in [Requests -> Nat]
      /\ UNCHANGED <<at, attempt, yielded, limiter, gate>>
  BY <1>1, Numbers DEF Tick, IInv, Typed, TypeOK
<1>3. PermitsAccounted' BY <1>2, NeutralKeeps
<1>4. Typed' BY <1>2 DEF IInv, Typed, TypeOK, Limiter
<1> QED BY <1>2, <1>3, <1>4 DEF IInv, WaitsUnyielded

LEMMA StepKeeps == ASSUME IInv, NEW r \in Requests, Step(r) PROVE IInv'
BY TakeSlotKeeps, TakeGateKeeps, SucceedKeeps, StreamKeeps, RejectKeeps, ObserveKeeps,
   WakeKeeps, EndsKeep DEF Step

LEMMA IInvInvariant == Spec => []IInv
<1>1. ASSUME IInv, UNCHANGED vars PROVE IInv'
  <2>1. UNCHANGED <<at, attempt, yielded, delay, asked, limiter, gate>> BY <1>1 DEF vars
  <2>2. PermitsAccounted' BY <1>1, <2>1, NeutralKeeps
  <2> QED BY <1>1, <2>1, <2>2 DEF IInv, Typed, TypeOK, WaitsUnyielded
<1>2. IInv /\ [Next]_vars => IInv' BY <1>1, TickKeeps, StepKeeps DEF Next
<1> QED BY <1>2, IInvInit, PTL DEF Spec

\* States, counters and limiters are of their types: no slot is given back
\* that was not taken.
THEOREM TypeCorrect == Spec => []TypeOK
BY IInvInvariant, PTL DEF IInv, Typed

\* The slots and permits in use are those that requests hold, however many
\* requests there are and however each of them ends.
THEOREM NoPermitLost == Spec => []PermitsAccounted
BY IInvInvariant, PTL DEF IInv

\* A feed that has yielded an item is never requested again.
THEOREM ItemsOnce == Spec => NoItemTwice
<1> DEFINE Once == \A r \in Requests : yielded[r] => attempt'[r] = attempt[r]
<1>1. ASSUME IInv, Next PROVE Once
  <2> SUFFICES ASSUME NEW r \in Requests, yielded[r] PROVE attempt'[r] = attempt[r]
    OBVIOUS
  <2>1. attempt \in [Requests -> 1 .. Attempts] BY <1>1 DEF IInv, Typed, TypeOK
  <2>2. CASE Tick BY <2>2 DEF Tick
  <2>3. ASSUME NEW q \in Requests, Step(q) PROVE attempt'[r] = attempt[r]
    <3>1. CASE Wake(q)
      <4>1. q # r BY <1>1, <3>1 DEF Wake, IInv, WaitsUnyielded
      <4> QED BY <2>1, <3>1, <4>1 DEF Wake
    <3>2. CASE ~Wake(q)
      BY <2>3, <3>2 DEF Step, TakeSlot, TakeGate, Succeed, Yield, Resume, Reject, Observe, Fatal, Cancel
    <3> QED BY <3>1, <3>2
  <2> QED BY <1>1, <2>2, <2>3 DEF Next
<1>2. IInv /\ [Next]_vars => [Once]_vars BY <1>1
<1> QED BY <1>2, IInvInvariant, PTL DEF Spec, NoItemTwice

\* When no server asks for more than the longest delay, what it asked for is
\* over before a request is tried again.
AskedWithin ==
    \A r \in Requests :
        /\ at[r] \in {"start", "asleep", "gate", "sent", "yield"} => asked[r] = 0
        /\ at[r] = "backoff" => asked[r] <= delay[r]
        /\ at[r] = "rejected" => asked[r] <= MaxBackoff

LEMMA AskedInit == Init => AskedWithin
BY DEF Init, AskedWithin

\* A request that leaves with nothing asked of it, or with what a server asked.
LEMMA AskedLeave ==
    ASSUME TypeOK, AskedWithin, NEW r \in Requests, NEW st \in Ended \cup {"rejected"}, Leave(r, st),
           delay' = delay, asked' \in [Requests -> Nat], st = "rejected" => asked'[r] <= MaxBackoff,
           \A q \in Requests \ {r} : asked'[q] = asked[q]
    PROVE  AskedWithin'
<1>1. at \in [Requests -> States] BY DEF TypeOK, States
<1>2. /\ at'[r] = st
      /\ \A q \in Requests \ {r} : at'[q] = at[q] \/ (at[q] = "asleep" /\ at'[q] = "start")
  BY <1>1 DEF Leave, Notified, States
<1>3. ASSUME NEW q \in Requests
      PROVE  /\ at'[q] \in {"start", "asleep", "gate", "sent", "yield"} => asked'[q] = 0
             /\ at'[q] = "backoff" => asked'[q] <= delay'[q]
             /\ at'[q] = "rejected" => asked'[q] <= MaxBackoff
  <2>1. CASE q = r BY <1>2, <2>1
  <2>2. CASE q # r BY <1>2, <2>2 DEF AskedWithin
  <2> QED BY <2>1, <2>2
<1> QED BY <1>3 DEF AskedWithin

LEMMA AskedStep ==
    ASSUME RetryAfters \subseteq 0 .. MaxBackoff, TypeOK, AskedWithin, NEW r \in Requests, Step(r)
    PROVE  AskedWithin'
<1>1. /\ at \in [Requests -> States] /\ asked \in [Requests -> Nat]
      /\ delay \in [Requests -> 0 .. MaxBackoff]
  BY DEF TypeOK, States
<1>2. CASE Succeed(r) \/ Fatal(r) \/ Cancel(r)
  <2>1. PICK st \in Ended : Leave(r, st) /\ UNCHANGED <<delay, asked>>
    BY <1>2 DEF Succeed, Fatal, Cancel
  <2> QED BY <1>1, <2>1, AskedLeave
<1>3. CASE Reject(r)
  <2>1. PICK ra \in RetryAfters : asked' = [asked EXCEPT ![r] = ra] BY <1>3 DEF Reject
  <2>2. Leave(r, "rejected") /\ delay' = delay BY <1>3 DEF Reject
  <2>3. ra \in Nat /\ ra <= MaxBackoff BY Numbers
  <2>4. asked' \in [Requests -> Nat] /\ asked'[r] <= MaxBackoff
        /\ \A q \in Requests \ {r} : asked'[q] = asked[q]
    BY <1>1, <2>1, <2>3
  <2> QED BY <2>2, <2>4, AskedLeave
<1>4. CASE TakeSlot(r) \/ TakeGate(r) \/ Yield(r) \/ Resume(r)
  <2>1. /\ UNCHANGED <<delay, asked>> /\ at[r] \in {"start", "gate", "sent", "yield"}
        /\ at'[r] \in {"gate", "asleep", "sent", "yield"} /\ \A q \in Requests \ {r} : at'[q] = at[q]
    BY <1>1, <1>4 DEF TakeSlot, TakeGate, Yield, Resume
  <2>2. asked[r] = 0 BY <2>1 DEF AskedWithin
  <2>3. ASSUME NEW q \in Requests
        PROVE  /\ at'[q] \in {"start", "asleep", "gate", "sent", "yield"} => asked'[q] = 0
               /\ at'[q] = "backoff" => asked'[q] <= delay'[q]
               /\ at'[q] = "rejected" => asked'[q] <= MaxBackoff
    <3>1. CASE q = r BY <2>1, <2>2, <3>1
    <3>2. CASE q # r BY <2>1, <3>2 DEF AskedWithin
    <3> QED BY <3>1, <3>2
  <2> QED BY <2>3 DEF AskedWithin
<1>5. CASE Observe(r)
  <2>1. /\ at[r] = "rejected" /\ asked' = asked /\ \A q \in Requests \ {r} : at'[q] = at[q]
        /\ \/ at'[r] = "failed" /\ delay' = delay
           \/ at'[r] = "backoff" /\ delay' = [delay EXCEPT ![r] = Delay(asked[r])]
    BY <1>1, <1>5 DEF Observe
  <2>2. asked[r] \in Nat /\ asked[r] <= MaxBackoff BY <1>1, <2>1 DEF AskedWithin
  <2>3. asked[r] <= Delay(asked[r]) BY <2>2, Numbers, HttpConstantsOK DEF Delay
  <2>4. ASSUME NEW q \in Requests
        PROVE  /\ at'[q] \in {"start", "asleep", "gate", "sent", "yield"} => asked'[q] = 0
               /\ at'[q] = "backoff" => asked'[q] <= delay'[q]
               /\ at'[q] = "rejected" => asked'[q] <= MaxBackoff
    <3>1. CASE q = r BY <1>1, <2>1, <2>3, <3>1
    <3>2. CASE q # r BY <1>1, <2>1, <3>2 DEF AskedWithin
    <3> QED BY <3>1, <3>2
  <2> QED BY <2>4 DEF AskedWithin
<1>6. CASE Wake(r)
  <2>1. /\ at[r] = "backoff" /\ delay[r] = 0 /\ UNCHANGED <<delay, asked>>
        /\ at'[r] = "start" /\ \A q \in Requests \ {r} : at'[q] = at[q]
    BY <1>1, <1>6 DEF Wake
  <2>2. asked[r] <= 0 BY <2>1 DEF AskedWithin
  <2>3. asked[r] = 0 BY <1>1, <2>2
  <2>4. ASSUME NEW q \in Requests
        PROVE  /\ at'[q] \in {"start", "asleep", "gate", "sent", "yield"} => asked'[q] = 0
               /\ at'[q] = "backoff" => asked'[q] <= delay'[q]
               /\ at'[q] = "rejected" => asked'[q] <= MaxBackoff
    <3>1. CASE q = r BY <2>1, <2>3, <3>1
    <3>2. CASE q # r BY <2>1, <3>2 DEF AskedWithin
    <3> QED BY <3>1, <3>2
  <2> QED BY <2>4 DEF AskedWithin
<1> QED BY <1>2, <1>3, <1>4, <1>5, <1>6 DEF Step

LEMMA AskedTick == ASSUME TypeOK, AskedWithin, Tick PROVE AskedWithin'
<1>1. /\ asked \in [Requests -> Nat] /\ delay \in [Requests -> 0 .. MaxBackoff] /\ MaxBackoff \in Nat
  BY Numbers DEF TypeOK
<1>2. /\ at' = at /\ delay' = [q \in Requests |-> Sooner(delay[q])]
      /\ asked' = [q \in Requests |-> IF at[q] = "rejected" THEN asked[q] ELSE Sooner(asked[q])]
  BY DEF Tick
<1>3. \A n, m \in Nat : n <= m => Sooner(n) <= Sooner(m) BY DEF Sooner
<1>4. Sooner(0) = 0 BY DEF Sooner
<1>5. ASSUME NEW q \in Requests
      PROVE  /\ at'[q] \in {"start", "asleep", "gate", "sent", "yield"} => asked'[q] = 0
             /\ at'[q] = "backoff" => asked'[q] <= delay'[q]
             /\ at'[q] = "rejected" => asked'[q] <= MaxBackoff
  <2>1. asked[q] \in Nat /\ delay[q] \in Nat BY <1>1
  <2>2. /\ delay'[q] = Sooner(delay[q])
        /\ asked'[q] = IF at[q] = "rejected" THEN asked[q] ELSE Sooner(asked[q])
    BY <1>2
  <2> QED BY <1>2, <1>3, <1>4, <2>1, <2>2 DEF AskedWithin
<1> QED BY <1>5 DEF AskedWithin

LEMMA AskedInvariant ==
    ASSUME RetryAfters \subseteq 0 .. MaxBackoff
    PROVE  Spec => [](TypeOK /\ AskedWithin)
<1>1. Init => TypeOK /\ AskedWithin BY IInvInit, AskedInit DEF IInv, Typed
<1>2. ASSUME TypeOK, AskedWithin, UNCHANGED vars PROVE AskedWithin'
  BY <1>2 DEF vars, AskedWithin
<1>3. TypeOK /\ AskedWithin /\ [Next]_vars => AskedWithin'
  BY <1>2, AskedStep, AskedTick DEF Next
<1> QED BY <1>1, <1>3, IInvInvariant, PTL DEF Spec, IInv, Typed

\* A request is sent again only when the time its server asked for is over, if
\* no server asks for more than the longest delay.
THEOREM RetryAfterHonored ==
    ASSUME RetryAfters \subseteq 0 .. MaxBackoff
    PROVE  Spec => [][HonorsRetryAfter]_vars
<1>1. AskedWithin => HonorsRetryAfter BY DEF AskedWithin, HonorsRetryAfter
<1> QED BY <1>1, AskedInvariant, PTL DEF Spec

HIDE DEF HoldsSlot, HoldsGate, Ended

-----------------------------------------------------------------------------
(* The parts of any configuration *)

\* In every configuration of a pipeline and however its adapters fail, a refresh
\* that ends has received every source without an error to its last batch: no
\* batch is lost between agents and queues, and no source that was not read is
\* taken for one that lost its listings (stream, agent_worker).
THEOREM PipelineCorrect ==
    ASSUME NEW c, Pipeline(c)!PipelineConstantsOK
    PROVE  Pipeline(c)!Spec => []Pipeline(c)!TypeOK /\ []Pipeline(c)!SuccessIsComplete
<1>1. Pipeline(c)!Init => Pipeline(c)!PipelineInv BY PipelineInit
<1>2. UNCHANGED Pipeline(c)!vars => UNCHANGED pipelineVars BY DEF Pipeline!vars, pipelineVars
<1>3. [Pipeline(c)!Next]_(Pipeline(c)!vars) => [Pipeline(c)!Next]_pipelineVars BY <1>2
<1>4. Pipeline(c)!PipelineInv /\ [Pipeline(c)!Next]_pipelineVars => Pipeline(c)!PipelineInv'
  BY PipelineStep
<1>5. Pipeline(c)!PipelineInv => Pipeline(c)!TypeOK /\ Pipeline(c)!SuccessIsComplete
  BY PipelineKept
<1> QED BY <1>1, <1>3, <1>4, <1>5, PTL DEF Pipeline!Spec

\* In every configuration the consumer gets the batches of a source once and in
\* their order, whichever agents and queues they went through.
THEOREM BatchesInOrder ==
    ASSUME NEW c, Pipeline(c)!PipelineConstantsOK
    PROVE  Pipeline(c)!Spec => [][Pipeline(c)!InOrder]_pipelineVars
<1> DEFINE Kept == Pipeline(c)!InOrder
<1>1. Pipeline(c)!Init => Pipeline(c)!PipelineInv BY PipelineInit
<1>2. UNCHANGED Pipeline(c)!vars => UNCHANGED pipelineVars BY DEF Pipeline!vars, pipelineVars
<1>3. [Pipeline(c)!Next]_(Pipeline(c)!vars) => [Pipeline(c)!Next]_pipelineVars BY <1>2
<1>4. Pipeline(c)!PipelineInv /\ [Pipeline(c)!Next]_pipelineVars
        => Pipeline(c)!PipelineInv' /\ [Kept]_pipelineVars
  BY PipelineStep
<1> HIDE DEF Kept
<1>5. Pipeline(c)!Spec => [][Kept]_pipelineVars BY <1>1, <1>3, <1>4, PTL DEF Pipeline!Spec
<1> QED BY <1>5 DEF Kept

\* In every configuration of a pool, every page is answered for when its generator
\* is exhausted, and the source counts as polled only if no page failed
\* (CachedJsonLdProductAdapter), or, of a pool that tolerates failures, if at least
\* one page was read (PublicWebDiscoveryAdapter).
THEOREM PoolCorrect ==
    ASSUME NEW c, Pool(c)!PoolConstantsOK
    PROVE  Pool(c)!Spec => /\ []Pool(c)!TypeOK /\ []Pool(c)!EveryPageAnswered
                           /\ []Pool(c)!PolledIsRead
<1>1. Pool(c)!Init => Pool(c)!PoolInv BY PoolInit
<1>2. UNCHANGED Pool(c)!vars => UNCHANGED poolVars BY DEF Pool!vars, poolVars
<1>3. [Pool(c)!Next]_(Pool(c)!vars) => [Pool(c)!Next]_poolVars BY <1>2
<1>4. Pool(c)!PoolInv /\ [Pool(c)!Next]_poolVars => Pool(c)!PoolInv' BY PoolStep
<1>5. Pool(c)!PoolInv => /\ Pool(c)!TypeOK /\ Pool(c)!EveryPageAnswered
                         /\ Pool(c)!PolledIsRead
  BY PoolKept
<1> QED BY <1>1, <1>3, <1>4, <1>5, PTL DEF Pool!Spec

\* In every configuration of a crawl that stays on the seeds' hosts, one that ends
\* within its bounds has found every page the sitemaps lead to, none out of
\* scope, and has visited the seeds before their children (discover_urls).
THEOREM CrawlCorrect ==
    ASSUME NEW c, Crawl(c)!CrawlConstantsOK
    PROVE  Crawl(c)!Spec => /\ []Crawl(c)!TypeOK /\ []Crawl(c)!NothingMissed
                            /\ []Crawl(c)!SeedsFirst /\ []Crawl(c)!StaysInScope
<1>1. Crawl(c)!Init => Crawl(c)!CrawlInv BY CrawlInit
<1>2. UNCHANGED Crawl(c)!vars => UNCHANGED crawlVars BY DEF Crawl!vars, crawlVars
<1>3. [Crawl(c)!Next]_(Crawl(c)!vars) => [Crawl(c)!Next]_crawlVars BY <1>2
<1>4. Crawl(c)!CrawlInv /\ [Crawl(c)!Next]_crawlVars => Crawl(c)!CrawlInv' BY CrawlStep
<1>5. Crawl(c)!CrawlInv => /\ Crawl(c)!TypeOK /\ Crawl(c)!NothingMissed
                           /\ Crawl(c)!SeedsFirst /\ Crawl(c)!StaysInScope
  BY CrawlKept
<1> QED BY <1>1, <1>3, <1>4, <1>5, PTL DEF Crawl!Spec

\* In every configuration of a feed, one that ends without an error was yielded
\* whole, and the cache keeps all of it or nothing (CachedJsonFeedAdapter).
THEOREM FeedCorrect ==
    ASSUME NEW c, Feed(c)!FeedConstantsOK
    PROVE  Feed(c)!Spec => []Feed(c)!TypeOK /\ []Feed(c)!FeedIsWhole
<1>1. Feed(c)!Init => Feed(c)!FeedInv BY FeedInit
<1>2. UNCHANGED Feed(c)!vars => UNCHANGED feedVars BY DEF Feed!vars, feedVars
<1>3. [Feed(c)!Next]_(Feed(c)!vars) => [Feed(c)!Next]_feedVars BY <1>2
<1>4. Feed(c)!FeedInv /\ [Feed(c)!Next]_feedVars => Feed(c)!FeedInv' BY FeedStep
<1>5. Feed(c)!FeedInv => Feed(c)!TypeOK /\ Feed(c)!FeedIsWhole BY DEF Feed!FeedInv
<1> QED BY <1>1, <1>3, <1>4, <1>5, PTL DEF Feed!Spec

-----------------------------------------------------------------------------
(* All parts *)

PipelinesInv ==
    /\ part = "local" => Pipeline(Local)!PipelineInv
    /\ part = "timed" => Pipeline(Timed)!PipelineInv
PoolsInv ==
    /\ part = "narrow" => Pool(Narrow)!PoolInv
    /\ part = "wide" => Pool(Wide)!PoolInv
    /\ part = "public" => Pool(Public)!PoolInv
CrawlsInv ==
    /\ part = "bounded" => Crawl(Bounded)!CrawlInv
    /\ part = "whole" => Crawl(Whole)!CrawlInv
FeedsInv ==
    /\ part = "feed" => Feed(Long)!FeedInv
    /\ part = "left" => Feed(Left)!FeedInv

PartsInv == PipelinesInv /\ PoolsInv /\ CrawlsInv /\ FeedsInv

LEMMA ConfigurationsOK ==
    /\ Pipeline(Local)!PipelineConstantsOK /\ Pipeline(Timed)!PipelineConstantsOK
    /\ Pool(Narrow)!PoolConstantsOK /\ Pool(Wide)!PoolConstantsOK
    /\ Pool(Public)!PoolConstantsOK
    /\ Crawl(Bounded)!CrawlConstantsOK /\ Crawl(Whole)!CrawlConstantsOK
    /\ Feed(Long)!FeedConstantsOK /\ Feed(Left)!FeedConstantsOK
BY PartsOK

LEMMA PartsInit == PartInit => PartsInv
<1> SUFFICES ASSUME PartInit PROVE PartsInv OBVIOUS
<1>1. PipelinesInv BY ConfigurationsOK, PipelineInit DEF PartInit, PipelinesInv
<1>2. PoolsInv BY ConfigurationsOK, PoolInit DEF PartInit, PoolsInv
<1>3. CrawlsInv BY ConfigurationsOK, CrawlInit DEF PartInit, CrawlsInv
<1>4. FeedsInv BY ConfigurationsOK, FeedInit DEF PartInit, FeedsInv
<1> QED BY <1>1, <1>2, <1>3, <1>4 DEF PartsInv

\* A step of the whole is one of its part.
LEMMA PartSteps ==
    ASSUME [PartNext]_all
    PROVE  /\ part' = part
           /\ Next \/ UNCHANGED vars
           /\ part = "local" => Pipeline(Local)!Next \/ UNCHANGED pipelineVars
           /\ part = "timed" => Pipeline(Timed)!Next \/ UNCHANGED pipelineVars
           /\ part = "narrow" => Pool(Narrow)!Next \/ UNCHANGED poolVars
           /\ part = "wide" => Pool(Wide)!Next \/ UNCHANGED poolVars
           /\ part = "public" => Pool(Public)!Next \/ UNCHANGED poolVars
           /\ part = "bounded" => Crawl(Bounded)!Next \/ UNCHANGED crawlVars
           /\ part = "whole" => Crawl(Whole)!Next \/ UNCHANGED crawlVars
           /\ part = "feed" => Feed(Long)!Next \/ UNCHANGED feedVars
           /\ part = "left" => Feed(Left)!Next \/ UNCHANGED feedVars
<1>1. CASE UNCHANGED all BY <1>1 DEF all
<1>2. CASE PartNext
  BY <1>2 DEF PartNext, OnlyPipeline, OnlyPool, OnlyCrawl, OnlyFeed, OnlyHttp
<1> QED BY <1>1, <1>2

LEMMA PartsStep == PartsInv /\ [PartNext]_all => PartsInv'
<1> SUFFICES ASSUME PartsInv, [PartNext]_all PROVE PartsInv' OBVIOUS
<1>1. PipelinesInv' BY PartSteps, ConfigurationsOK, PipelineStep DEF PartsInv, PipelinesInv
<1>2. PoolsInv' BY PartSteps, ConfigurationsOK, PoolStep DEF PartsInv, PoolsInv
<1>3. CrawlsInv' BY PartSteps, ConfigurationsOK, CrawlStep DEF PartsInv, CrawlsInv
<1>4. FeedsInv' BY PartSteps, ConfigurationsOK, FeedStep DEF PartsInv, FeedsInv
<1> QED BY <1>1, <1>2, <1>3, <1>4 DEF PartsInv

LEMMA PartsInvariant == PartSpec => []PartsInv
BY PartsInit, PartsStep, PTL DEF PartSpec

\* The requests as a part of the whole.
LEMMA RequestsPart == PartSpec => Spec
<1>1. PartInit => Init BY DEF PartInit
<1>2. [PartNext]_all => [Next]_vars BY PartSteps
<1> QED BY <1>1, <1>2, PTL DEF PartSpec, Spec

\* No slot and no permit is lost, and no item of a feed is given twice: the run's
\* properties of the requests.
THEOREM RequestsKeep == PartSpec => []PermitsAccounted /\ NoItemTwice
BY RequestsPart, NoPermitLost, ItemsOnce, PTL

\* What was read is whole, on every level, and a source counts as polled only if
\* its pages were read, all of them or, of a crawled source, at least one: the
\* invariant of the run.
THEOREM ReadIsWhole == PartSpec => []ReadWhole
<1>1. PartsInv => /\ PartsTyped /\ SuccessIsComplete /\ EveryPageAnswered /\ PolledIsRead
                  /\ NothingMissed /\ StaysInScope /\ SeedsFirst /\ FeedIsWhole
  <2> SUFFICES ASSUME PartsInv
               PROVE  /\ PartsTyped /\ SuccessIsComplete /\ EveryPageAnswered /\ PolledIsRead
                      /\ NothingMissed /\ StaysInScope /\ SeedsFirst /\ FeedIsWhole
    OBVIOUS
  <2>1. /\ part = "local" => Pipeline(Local)!TypeOK /\ Pipeline(Local)!SuccessIsComplete
        /\ part = "timed" => Pipeline(Timed)!TypeOK /\ Pipeline(Timed)!SuccessIsComplete
    BY ConfigurationsOK, PipelineKept DEF PartsInv, PipelinesInv
  <2>2. /\ part = "narrow" => /\ Pool(Narrow)!TypeOK /\ Pool(Narrow)!EveryPageAnswered
                              /\ Pool(Narrow)!PolledIsRead
        /\ part = "wide" => /\ Pool(Wide)!TypeOK /\ Pool(Wide)!EveryPageAnswered
                            /\ Pool(Wide)!PolledIsRead
        /\ part = "public" => /\ Pool(Public)!TypeOK /\ Pool(Public)!EveryPageAnswered
                              /\ Pool(Public)!PolledIsRead
    BY ConfigurationsOK, PoolKept DEF PartsInv, PoolsInv
  <2>3. /\ part = "bounded" => Crawl(Bounded)!TypeOK /\ Crawl(Bounded)!SeedsFirst
        /\ part = "whole" => /\ Crawl(Whole)!TypeOK /\ Crawl(Whole)!NothingMissed
                             /\ Crawl(Whole)!SeedsFirst /\ Crawl(Whole)!StaysInScope
    BY ConfigurationsOK, CrawlKept DEF PartsInv, CrawlsInv
  <2>4. /\ part = "feed" => Feed(Long)!TypeOK /\ Feed(Long)!FeedIsWhole
        /\ part = "left" => Feed(Left)!TypeOK /\ Feed(Left)!FeedIsWhole
    BY DEF PartsInv, FeedsInv, Feed!FeedInv
  <2>5. PartsTyped BY <2>1, <2>2, <2>3, <2>4 DEF PartsTyped
  <2>6. SuccessIsComplete BY <2>1 DEF SuccessIsComplete
  <2>7. EveryPageAnswered /\ PolledIsRead BY <2>2 DEF EveryPageAnswered, PolledIsRead
  <2>8. NothingMissed /\ StaysInScope /\ SeedsFirst BY <2>3 DEF NothingMissed, StaysInScope, SeedsFirst
  <2>9. FeedIsWhole BY <2>4 DEF FeedIsWhole
  <2> QED BY <2>5, <2>6, <2>7, <2>8, <2>9
<1>2. PartSpec => []TypeOK BY RequestsPart, TypeCorrect, PTL
<1>3. TypeOK /\ PartsInv => ReadWhole BY <1>1 DEF ReadWhole
<1> QED BY <1>2, <1>3, PartsInvariant, PTL

\* Nothing comes before its turn: the action property of the run, if no server
\* asks for more than the longest delay, which the run's do not.
THEOREM InTurnKept ==
    ASSUME RetryAfters \subseteq 0 .. MaxBackoff
    PROVE  PartSpec => InTurn
<1> DEFINE Kept == /\ part = "local" => Pipeline(Local)!InOrder
                   /\ part = "timed" => Pipeline(Timed)!InOrder
                   /\ part = "http" => HonorsRetryAfter
<1>1. ASSUME PartsInv, AskedWithin, [PartNext]_all
      PROVE  [Kept]_<<vars, pipelineVars>>
  <2>1. part = "local" => Pipeline(Local)!InOrder \/ UNCHANGED pipelineVars
    BY <1>1, PartSteps, ConfigurationsOK, PipelineStep DEF PartsInv, PipelinesInv
  <2>2. part = "timed" => Pipeline(Timed)!InOrder \/ UNCHANGED pipelineVars
    BY <1>1, PartSteps, ConfigurationsOK, PipelineStep DEF PartsInv, PipelinesInv
  <2>3. HonorsRetryAfter BY <1>1 DEF AskedWithin, HonorsRetryAfter
  <2>4. UNCHANGED pipelineVars => Pipeline(Local)!InOrder /\ Pipeline(Timed)!InOrder
    BY DEF pipelineVars, Pipeline!InOrder
  <2> QED BY <2>1, <2>2, <2>3, <2>4
<1>2. PartsInv /\ AskedWithin /\ [PartNext]_all => [Kept]_<<vars, pipelineVars>> BY <1>1
<1> HIDE DEF Kept
<1>3. PartSpec => []AskedWithin BY RequestsPart, AskedInvariant, PTL
<1>4. PartSpec => [][Kept]_<<vars, pipelineVars>> BY <1>2, <1>3, PartsInvariant, PTL DEF PartSpec
<1> QED BY <1>4 DEF Kept, InTurn
=============================================================================
