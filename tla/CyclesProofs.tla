---------------------------- MODULE CyclesProofs ----------------------------
(***************************************************************************)
(* Proofs about CyclesMC and its parts: the replay window, cycles run by   *)
(* remote workers, and the compacted history, for all requests, sources,   *)
(* workers, pages, listings, payloads and bounds that their assumptions    *)
(* allow.                                                                  *)
(***************************************************************************)
EXTENDS CyclesMC, FiniteSetTheorems, TLAPS

-----------------------------------------------------------------------------
(* The window: a request is executed once, or twice when stamped far ahead *)

\* A request was last accepted at t or later: it is remembered from then, or was
\* forgotten when the window's age had passed.
Since(r, t) == IF window[r] # None THEN window[r] >= t ELSE now > t + MaxAge

\* A request that was executed was accepted after it was sent, and within the skew
\* before its stamp; one that was executed twice, the window's age after that.
\* ExecutedOnce alone is not inductive: it says nothing of what became of the nonce.
AcceptedSince ==
    \A r \in Requests : executed[r] # 0 =>
        /\ stamp[r] # None
        /\ executed[r] = 1 => Since(r, sent[r]) /\ Since(r, stamp[r] - MaxSkew)
        /\ executed[r] = 2 => Since(r, stamp[r] - MaxSkew + MaxAge + 1)
        /\ executed[r] \in 1 .. 2

WindowInv == TypeOK /\ AcceptedSince /\ ExecutedOnce

LEMMA WindowInvInit == Init => WindowInv
BY WindowConstantsOK DEF Init, WindowInv, TypeOK, AcceptedSince, ExecutedOnce, Times

\* What the types say of one request.
LEMMA WindowNumbers ==
    ASSUME TypeOK, NEW r \in Requests
    PROVE  /\ now \in Nat /\ sent[r] \in Nat /\ sent[r] <= now /\ executed[r] \in Nat
           /\ stamp[r] # None => stamp[r] \in Nat
           /\ window[r] # None => window[r] \in Nat /\ window[r] <= now
           /\ MaxAge \in Nat /\ MaxSkew \in Nat /\ MaxSkew <= MaxAge
BY WindowConstantsOK DEF TypeOK, Times

LEMMA TickKeeps == ASSUME WindowInv, Tick PROVE WindowInv'
<1>1. now' = now + 1 /\ now' \in Times /\ now \in Nat /\ UNCHANGED <<stamp, sent, window, executed>>
  BY WindowConstantsOK DEF WindowInv, TypeOK, Tick, Times
<1>2. TypeOK' BY <1>1, WindowConstantsOK DEF WindowInv, TypeOK, Times
<1>3. ASSUME NEW r \in Requests, NEW t \in Int, Since(r, t) PROVE Since(r, t)'
  BY <1>1, <1>3, WindowConstantsOK DEF Since
<1>4. AcceptedSince'
  <2> SUFFICES ASSUME NEW r \in Requests, executed[r] # 0
               PROVE  /\ stamp[r] # None
                      /\ executed[r] = 1 => Since(r, sent[r])' /\ Since(r, stamp[r] - MaxSkew)'
                      /\ executed[r] = 2 => Since(r, stamp[r] - MaxSkew + MaxAge + 1)'
                      /\ executed[r] \in 1 .. 2
    BY <1>1 DEF AcceptedSince, Since
  <2>1. /\ stamp[r] # None /\ executed[r] \in 1 .. 2
        /\ executed[r] = 1 => Since(r, sent[r]) /\ Since(r, stamp[r] - MaxSkew)
        /\ executed[r] = 2 => Since(r, stamp[r] - MaxSkew + MaxAge + 1)
    BY DEF WindowInv, AcceptedSince
  <2>2. sent[r] \in Int /\ stamp[r] - MaxSkew \in Int /\ stamp[r] - MaxSkew + MaxAge + 1 \in Int
    BY <2>1, WindowNumbers DEF WindowInv
  <2>3. executed[r] = 1 => Since(r, sent[r])' /\ Since(r, stamp[r] - MaxSkew)'
    BY <1>1, <1>3, <2>1, <2>2 DEF Since
  <2>4. executed[r] = 2 => Since(r, stamp[r] - MaxSkew + MaxAge + 1)'
    BY <1>1, <1>3, <2>1, <2>2 DEF Since
  <2> QED BY <2>1, <2>3, <2>4
<1> QED BY <1>1, <1>2, <1>4 DEF WindowInv, ExecutedOnce, Near

LEMMA RestartKeeps == ASSUME WindowInv, Restart PROVE WindowInv'
BY WindowConstantsOK DEF WindowInv, TypeOK, AcceptedSince, ExecutedOnce, Restart

LEMMA SignKeeps == ASSUME WindowInv, NEW r \in Requests, Sign(r) PROVE WindowInv'
<1>1. PICK ahead \in -MaxSkew .. MaxAhead :
          now + ahead >= 0 /\ stamp' = [stamp EXCEPT ![r] = now + ahead]
  BY DEF Sign
<1>2. stamp[r] = None /\ UNCHANGED <<now, window, executed>> /\ sent' = [sent EXCEPT ![r] = now]
  BY DEF Sign
<1>3. executed[r] = 0 BY <1>2 DEF WindowInv, AcceptedSince
<1>4. ahead \in Int /\ ahead <= MaxAhead /\ now + ahead \in 0 .. EndOfTime + MaxAhead
  BY <1>1, WindowConstantsOK DEF WindowInv, TypeOK, Times
<1>5. now \in 0 .. now BY WindowConstantsOK DEF WindowInv, TypeOK, Times
<1>6. TypeOK' BY <1>1, <1>2, <1>4, <1>5 DEF WindowInv, TypeOK
<1>7. \A q \in Requests \ {r} : stamp'[q] = stamp[q] /\ sent'[q] = sent[q]
  BY <1>1, <1>2 DEF WindowInv, TypeOK
<1>8. AcceptedSince' BY <1>2, <1>3, <1>7 DEF WindowInv, AcceptedSince, Since
<1>9. ExecutedOnce'
  <2> SUFFICES ASSUME NEW q \in Requests, stamp'[q] # None
               PROVE  executed[q] <= IF Near(q)' THEN 1 ELSE 2
    BY <1>2 DEF ExecutedOnce
  <2>1. CASE q = r BY <2>1, <1>3
  <2>2. CASE q # r BY <2>2, <1>7 DEF WindowInv, ExecutedOnce, Near
  <2> QED BY <2>1, <2>2
<1> QED BY <1>6, <1>8, <1>9 DEF WindowInv

\* What was accepted at t or later, and is not remembered, has been forgotten.
LEMMA Forgotten ==
    ASSUME TypeOK, NEW r \in Requests, NEW t \in Int, Since(r, t), ~Remembered(r)
    PROVE  now > t + MaxAge
BY WindowNumbers DEF Since, Remembered

\* A request that is in time and not remembered was never executed, or once, when
\* its stamp was further ahead than the window's age exceeds the skew.
LEMMA InTimeIsNew ==
    ASSUME WindowInv, NEW r \in Requests, stamp[r] # None, InTime(r), ~Remembered(r)
    PROVE  executed[r] = 0 \/ (executed[r] = 1 /\ ~Near(r) /\ now > stamp[r] - MaxSkew + MaxAge)
<1>1. /\ stamp[r] \in Nat /\ now \in Nat /\ sent[r] \in Nat /\ TypeOK
      /\ MaxAge \in Nat /\ MaxSkew \in Nat /\ MaxSkew <= MaxAge
  BY WindowNumbers DEF WindowInv
<1>2. now <= stamp[r] + MaxSkew BY <1>1 DEF InTime
<1>3. CASE executed[r] = 1
  <2>1. Since(r, sent[r]) /\ Since(r, stamp[r] - MaxSkew) BY <1>3 DEF WindowInv, AcceptedSince
  <2>2. now > sent[r] + MaxAge /\ now > stamp[r] - MaxSkew + MaxAge BY <1>1, <2>1, Forgotten
  <2> QED BY <1>1, <1>2, <1>3, <2>2 DEF Near
<1>4. CASE executed[r] = 2
  <2>1. Since(r, stamp[r] - MaxSkew + MaxAge + 1) BY <1>4 DEF WindowInv, AcceptedSince
  <2>2. now > stamp[r] - MaxSkew + MaxAge + 1 + MaxAge BY <1>1, <2>1, Forgotten
  <2> QED BY <1>1, <1>2, <2>2
<1> QED BY <1>3, <1>4 DEF WindowInv, AcceptedSince

LEMMA DeliverKeeps == ASSUME WindowInv, NEW r \in Requests, Deliver(r) PROVE WindowInv'
<1>1. /\ stamp[r] # None /\ InTime(r) /\ UNCHANGED <<now, stamp, sent>>
      /\ window' = Accepted(r) /\ executed' = [executed EXCEPT ![r] = @ + 1]
      /\ executed[r] = 0 \/ (executed[r] = 1 /\ ~Near(r) /\ now > stamp[r] - MaxSkew + MaxAge)
  BY InTimeIsNew DEF Deliver
<1>2. now \in Times /\ now \in Nat BY WindowConstantsOK DEF WindowInv, TypeOK, Times
<1>3. TypeOK' BY <1>1, <1>2 DEF WindowInv, TypeOK, Accepted
<1>4. window'[r] = now /\ executed'[r] = executed[r] + 1 BY <1>1 DEF Accepted, WindowInv, TypeOK
<1>5. /\ stamp[r] \in Nat /\ sent[r] \in Nat /\ sent[r] <= now /\ MaxAge \in Nat /\ MaxSkew \in Nat
      /\ stamp[r] - MaxSkew <= now /\ now # None
  BY <1>1, <1>2, WindowNumbers, WindowConstantsOK DEF InTime, WindowInv
<1>6. ASSUME NEW q \in Requests \ {r}
      PROVE  /\ executed'[q] = executed[q]
             /\ \A t \in Int : Since(q, t) => IF window'[q] # None THEN window'[q] >= t
                                              ELSE now > t + MaxAge
  <2>1. window'[q] = (IF Remembered(q) THEN window[q] ELSE None) /\ executed'[q] = executed[q]
    BY <1>1, <1>6 DEF Accepted, WindowInv, TypeOK
  <2> SUFFICES ASSUME NEW t \in Int, Since(q, t)
               PROVE  IF window'[q] # None THEN window'[q] >= t ELSE now > t + MaxAge
    BY <2>1
  <2>2. CASE Remembered(q) BY <2>1, <2>2 DEF Since, Remembered
  <2>3. CASE ~Remembered(q) BY <2>1, <2>3, Forgotten DEF WindowInv
  <2> QED BY <2>2, <2>3
<1>7. AcceptedSince'
  <2> SUFFICES ASSUME NEW q \in Requests, executed'[q] # 0
               PROVE  /\ stamp[q] # None
                      /\ executed'[q] = 1 => Since(q, sent[q])' /\ Since(q, stamp[q] - MaxSkew)'
                      /\ executed'[q] = 2 => Since(q, stamp[q] - MaxSkew + MaxAge + 1)'
                      /\ executed'[q] \in 1 .. 2
    BY <1>1 DEF AcceptedSince, Since
  <2>1. CASE q = r
    <3>1. executed'[r] = 1 => Since(r, sent[r])' /\ Since(r, stamp[r] - MaxSkew)'
      BY <1>1, <1>2, <1>4, <1>5 DEF Since
    <3>2. executed'[r] = 2 => Since(r, stamp[r] - MaxSkew + MaxAge + 1)'
      BY <1>1, <1>2, <1>4, <1>5 DEF Since
    <3> QED BY <1>1, <1>4, <2>1, <3>1, <3>2
  <2>2. CASE q # r
    <3>1. executed[q] # 0 BY <1>6, <2>2
    <3>2. /\ stamp[q] # None /\ executed[q] \in 1 .. 2
          /\ executed[q] = 1 => Since(q, sent[q]) /\ Since(q, stamp[q] - MaxSkew)
          /\ executed[q] = 2 => Since(q, stamp[q] - MaxSkew + MaxAge + 1)
      BY <3>1 DEF WindowInv, AcceptedSince
    <3>3. sent[q] \in Int /\ stamp[q] - MaxSkew \in Int /\ stamp[q] - MaxSkew + MaxAge + 1 \in Int
      BY <3>2, WindowNumbers DEF WindowInv
    <3>4. executed[q] = 1 => Since(q, sent[q])' /\ Since(q, stamp[q] - MaxSkew)'
      BY <1>1, <1>6, <2>2, <3>2, <3>3 DEF Since
    <3>5. executed[q] = 2 => Since(q, stamp[q] - MaxSkew + MaxAge + 1)'
      BY <1>1, <1>6, <2>2, <3>2, <3>3 DEF Since
    <3> QED BY <1>6, <2>2, <3>2, <3>4, <3>5
  <2> QED BY <2>1, <2>2
<1>8. ExecutedOnce'
  <2> SUFFICES ASSUME NEW q \in Requests, stamp[q] # None
               PROVE  executed'[q] <= IF Near(q) THEN 1 ELSE 2
    BY <1>1 DEF ExecutedOnce, Near
  <2>1. CASE q = r BY <1>1, <1>4, <2>1
  <2>2. CASE q # r BY <1>6, <2>2 DEF WindowInv, ExecutedOnce
  <2> QED BY <2>1, <2>2
<1> QED BY <1>3, <1>7, <1>8 DEF WindowInv

LEMMA WindowInvStep == WindowInv /\ [Next]_vars => WindowInv'
<1>1. WindowInv /\ UNCHANGED vars => WindowInv'
  BY DEF WindowInv, TypeOK, AcceptedSince, Since, ExecutedOnce, Near, vars
<1> QED BY <1>1, TickKeeps, RestartKeeps, SignKeeps, DeliverKeeps DEF Next

-----------------------------------------------------------------------------
(* Remote cycles: a completed task is whole *)

\* Types, with those of the ledger and the history written out.
CycleTyped ==
    /\ phase \in [Remote!Tasks -> Remote!Ledger!Phases]
    /\ holder \in [Remote!Tasks -> Workers \cup {None}]
    /\ closed \subseteq Remote!Cycles
    /\ stored \in [Remote!Tasks -> [Remote!Indices -> Remote!Pages \cup {None}]]
    /\ attempts \in [Remote!Tasks -> 0 .. MaxLeases]
    /\ exec \in [Workers -> Remote!Execution \cup {Remote!Idle}]
    /\ wire \subseteq Remote!Request
    /\ cycle \in 0 .. MaxCycles
    /\ collector \in {"idle", "waiting", "collecting"}
    /\ unread \subseteq Remote!Tasks \X Remote!Indices
    /\ offered \subseteq Remote!Listings
    /\ mixed \subseteq Remote!Tasks
    /\ listing \in [Remote!Listings -> Remote!History!Row]
    /\ run \in {"none", "running"}
    /\ seen \subseteq Remote!Listings

LEMMA CycleTypes == (Remote!TypeOK <=> CycleTyped) /\ (Remote!TypeOK' <=> CycleTyped')
BY DEF Remote!TypeOK, CycleTyped, Remote!Ledger!TypeOK, Remote!History!HistoryTypeOK

LEMMA CycleConstants ==
    /\ None \notin Workers /\ None \notin Int /\ None \notin Remote!Tasks
    /\ None \notin {"batch", "complete", "fail", "requeue"}
    /\ NumPages \in Nat \ {0} /\ MaxAttempts \in Nat \ {0} /\ DisappearAfter \in Nat \ {0}
    /\ MaxCycles \in Nat /\ MaxLeases \in Nat /\ MaxWire \in Nat
BY PartsOK DEF Remote!ConstantsOK, Remote!Tasks, Remote!Cycles, Remote!Kinds

LEMMA SameCard == \A S : Remote!Cardinality(S) = Cardinality(S)
BY DEF Remote!Cardinality, Cardinality

LEMMA PagesFinite ==
    /\ IsFiniteSet(Remote!Pages) /\ Cardinality(Remote!Pages) = NumPages
    /\ \A S \in SUBSET Remote!Pages : IsFiniteSet(S) /\ Cardinality(S) \in Nat
<1>1. 1 \in Int /\ NumPages \in Int BY CycleConstants
<1>2. IsFiniteSet(Remote!Pages) /\ Cardinality(Remote!Pages) = NumPages
  BY <1>1, FS_Interval, CycleConstants DEF Remote!Pages
<1> QED BY <1>2, FS_Subset, FS_CardinalityType

\* An index is a rank: it tells pages on offer apart, and there is one for each.
LEMMA RankIsIndex ==
    ASSUME NEW s, NEW p \in Remote!Pages
    PROVE  Remote!Rank(s, p) \in Remote!Indices
<1> DEFINE R == {q \in Remote!Offers(s) : q < p}
<1>1. p \in Nat /\ 1 <= p /\ p <= NumPages /\ NumPages \in Nat
  BY CycleConstants DEF Remote!Pages
<1>2. IsFiniteSet(1 .. p - 1) /\ Cardinality(1 .. p - 1) = p - 1
  <2>1. 1 \in Int /\ p - 1 \in Int BY <1>1
  <2>2. Cardinality(1 .. p - 1) = IF 1 > p - 1 THEN 0 ELSE (p - 1) - 1 + 1
    BY <2>1, FS_Interval
  <2> QED BY <1>1, <2>1, <2>2, FS_Interval
<1>3. R \subseteq 1 .. p - 1 BY <1>1 DEF Remote!Offers, Remote!Pages
<1>4. Cardinality(R) \in Nat /\ Cardinality(R) <= p - 1
  BY <1>2, <1>3, FS_Subset, FS_CardinalityType
<1> HIDE DEF R
<1>5. Remote!Rank(s, p) = Cardinality(R) BY SameCard DEF R, Remote!Rank
<1> QED BY <1>1, <1>4, <1>5 DEF Remote!Indices

LEMMA RankGrows ==
    ASSUME NEW s, NEW p \in Remote!Offers(s), NEW q \in Remote!Offers(s), p < q
    PROVE  Remote!Rank(s, p) < Remote!Rank(s, q)
<1> DEFINE R(r) == {x \in Remote!Offers(s) : x < r}
<1>1. /\ R(p) \subseteq Remote!Pages /\ R(q) \subseteq Remote!Pages
      /\ R(p) \cup {p} \subseteq R(q) /\ p \notin R(p) /\ R(p) \cup {p} \subseteq Remote!Pages
  BY CycleConstants DEF Remote!Offers, Remote!Pages
<1>2. Remote!Rank(s, p) = Cardinality(R(p)) /\ Remote!Rank(s, q) = Cardinality(R(q))
  BY SameCard DEF Remote!Rank
<1> HIDE DEF R
<1>3. Cardinality(R(p) \cup {p}) = Cardinality(R(p)) + 1
  BY <1>1, PagesFinite, FS_AddElement
<1>4. Cardinality(R(p) \cup {p}) <= Cardinality(R(q)) BY <1>1, PagesFinite, FS_Subset
<1>5. Cardinality(R(p)) \in Nat /\ Cardinality(R(q)) \in Nat BY <1>1, PagesFinite
<1> QED BY <1>2, <1>3, <1>4, <1>5

LEMMA RankInjective ==
    ASSUME NEW s, NEW p \in Remote!Offers(s), NEW q \in Remote!Offers(s),
           Remote!Rank(s, p) = Remote!Rank(s, q)
    PROVE  p = q
<1>1. p \in Int /\ q \in Int /\ p \in Remote!Pages /\ q \in Remote!Pages
  BY DEF Remote!Offers, Remote!Pages
<1>2. Remote!Rank(s, p) \in Int /\ Remote!Rank(s, q) \in Int
  BY <1>1, RankIsIndex DEF Remote!Indices
<1> QED BY <1>1, <1>2, RankGrows

\* An attempt takes the pages in order: the next one's rank is the number of those
\* it has sent.
LEMMA NextRank ==
    ASSUME NEW s, NEW todo \in SUBSET Remote!Pages, NEW p \in todo,
           \A q \in todo : p <= q, \A q \in Remote!Pages : p < q => q \in todo
    PROVE  /\ Remote!Rank(s, p) = Remote!Cardinality(Remote!Offers(s) \ todo)
           /\ Remote!Cardinality(todo \ {p}) + 1 = Remote!Cardinality(todo)
           /\ Remote!Cardinality(todo \ {p}) \in Nat
           /\ p \in Remote!Offers(s) =>
                 Remote!Cardinality(Remote!Offers(s) \ (todo \ {p}))
                   = Remote!Cardinality(Remote!Offers(s) \ todo) + 1
           /\ p \notin Remote!Offers(s) =>
                 Remote!Cardinality(Remote!Offers(s) \ (todo \ {p}))
                   = Remote!Cardinality(Remote!Offers(s) \ todo)
<1> DEFINE R == {q \in Remote!Offers(s) : q < p}
           O == Remote!Offers(s)
<1>0. /\ O \subseteq Remote!Pages /\ todo \subseteq Remote!Pages /\ Remote!Pages \subseteq Int
      /\ p \in Remote!Pages
  BY DEF Remote!Offers, Remote!Pages
<1>1. R = O \ todo
  <2>1. ASSUME NEW q \in O PROVE q < p <=> q \notin todo
    <3>1. q \in Remote!Pages /\ q \in Int /\ p \in Int BY <1>0
    <3>2. q \in todo => p <= q OBVIOUS
    <3>3. q \notin todo => q <= p BY <3>1
    <3>4. q = p => q \in todo OBVIOUS
    <3> QED BY <3>1, <3>2, <3>3, <3>4
  <2> HIDE DEF O
  <2>2. R = {q \in O : q < p} BY DEF O
  <2> QED BY <2>1, <2>2
<1>2. Remote!Rank(s, p) = Remote!Cardinality(R) BY DEF Remote!Rank
<1>3. O \subseteq Remote!Pages BY DEF Remote!Offers
<1> HIDE DEF O, R
<1>4. Cardinality(todo \ {p}) = Cardinality(todo) - 1 /\ Cardinality(todo) \in Nat
      /\ Cardinality(todo \ {p}) \in Nat
  BY PagesFinite, FS_RemoveElement
<1>5. ASSUME p \in O PROVE Cardinality(O \ (todo \ {p})) = Cardinality(O \ todo) + 1
  <2>1. O \ (todo \ {p}) = (O \ todo) \cup {p} /\ p \notin O \ todo BY <1>5
  <2>2. IsFiniteSet(O \ todo)
    <3>1. O \ todo \in SUBSET Remote!Pages BY <1>3
    <3> QED BY <3>1, PagesFinite
  <2> QED BY <2>1, <2>2, FS_AddElement
<1>6. p \notin O => O \ (todo \ {p}) = O \ todo BY <1>3
<1>7. /\ Remote!Cardinality(todo \ {p}) = Cardinality(todo \ {p})
      /\ Remote!Cardinality(todo) = Cardinality(todo)
      /\ Remote!Cardinality(O \ (todo \ {p})) = Cardinality(O \ (todo \ {p}))
      /\ Remote!Cardinality(O \ todo) = Cardinality(O \ todo)
  BY SameCard
<1>8. /\ Remote!Rank(s, p) = Remote!Cardinality(O \ todo)
      /\ Remote!Cardinality(todo \ {p}) + 1 = Remote!Cardinality(todo)
      /\ Remote!Cardinality(todo \ {p}) \in Nat
  BY <1>1, <1>2, <1>4, <1>7
<1>9. /\ p \in O => Remote!Cardinality(O \ (todo \ {p})) = Remote!Cardinality(O \ todo) + 1
      /\ p \notin O => Remote!Cardinality(O \ (todo \ {p})) = Remote!Cardinality(O \ todo)
  BY <1>5, <1>6, <1>7
<1> QED BY <1>8, <1>9 DEF O
\* The part of the invariant that the workers and the coordinator keep.
WorkInv ==
    /\ Remote!InPageOrder /\ Remote!OneOutstanding /\ Remote!StoredInPlace
    /\ Remote!SentInPlace /\ Remote!SentIsStored

LEMMA CycleInit == Remote!Init => Remote!CycleInv
<1> SUFFICES ASSUME Remote!Init PROVE Remote!CycleInv OBVIOUS
<1>0. /\ stored = [t \in Remote!Tasks |-> [i \in Remote!Indices |-> None]]
      /\ phase = [t \in Remote!Tasks |-> "absent"]
      /\ holder = [t \in Remote!Tasks |-> None]
      /\ closed = {} /\ attempts = [t \in Remote!Tasks |-> 0]
      /\ exec = [w \in Workers |-> Remote!Idle] /\ wire = {} /\ cycle = 0
      /\ collector = "idle" /\ unread = {} /\ offered = Remote!Listings /\ mixed = {}
      /\ run = "none" /\ seen = {}
  BY DEF Remote!Init, Remote!Ledger!Init, Remote!History!HistoryInit
<1>1. PICK known \in SUBSET Remote!Listings :
          listing = [l \in Remote!Listings |->
                        [known |-> l \in known, missing |-> 0, gone |-> FALSE]]
  BY DEF Remote!Init, Remote!History!HistoryInit
<1>2. listing \in [Remote!Listings -> Remote!History!Row]
  BY <1>1, CycleConstants DEF Remote!History!Row
<1>3. Remote!TypeOK
  BY <1>0, <1>2, CycleTypes, CycleConstants DEF CycleTyped, Remote!Ledger!Phases
<1>4. \A w \in Workers : ~Remote!Busy(w) BY <1>0 DEF Remote!Busy, Remote!Idle
<1>5. WorkInv
  BY <1>0, <1>4 DEF WorkInv, Remote!InPageOrder, Remote!OneOutstanding, Remote!StoredInPlace,
     Remote!SentInPlace, Remote!SentIsStored
<1>6. Remote!CompletedIsWhole /\ Remote!CollectedIsSeen
  BY <1>0 DEF Remote!CompletedIsWhole, Remote!CollectedIsSeen
<1>7. Remote!NoFalseDisappearance BY <1>0, <1>1 DEF Remote!NoFalseDisappearance
<1> QED BY <1>3, <1>5, <1>6, <1>7 DEF WorkInv, Remote!CycleInv

LEMMA RankStays ==
    ASSUME UNCHANGED offered
    PROVE  /\ \A s : Remote!Offers(s)' = Remote!Offers(s)
           /\ \A s, p : Remote!Rank(s, p)' = Remote!Rank(s, p)
BY DEF Remote!Offers, Remote!Rank

\* A step that gives no worker a task, and stores nothing.
LEMMA LosingKeepsWork ==
    ASSUME WorkInv, UNCHANGED <<stored, exec, wire, offered, mixed>>,
           \A t \in Remote!Tasks, w \in Workers : Remote!Ours(t, w)' => Remote!Ours(t, w),
           \A t \in Remote!Tasks :
              /\ phase'[t] = "absent" => phase[t] = "absent"
              /\ phase'[t] \in {"queued", "leased"} =>
                    phase[t] \in {"absent", "queued", "leased"},
           Remote!TypeOK
    PROVE  WorkInv'
<1>0. CycleTyped BY CycleTypes
<1>1. /\ \A s : Remote!Offers(s)' = Remote!Offers(s)
      /\ \A s, p : Remote!Rank(s, p)' = Remote!Rank(s, p)
  BY RankStays
<1>2. \A w \in Workers : Remote!Busy(w) => exec[w].task \in Remote!Tasks
  BY <1>0 DEF CycleTyped, Remote!Busy, Remote!Idle, Remote!Execution
<1>3. \A w \in Workers : Remote!Busy(w)' = Remote!Busy(w) BY DEF Remote!Busy
<1>4. \A r \in wire : r.task \in Remote!Tasks /\ r.worker \in Workers
  BY <1>0 DEF CycleTyped, Remote!Request
<1>5. Remote!InPageOrder' BY <1>1, <1>2, <1>3 DEF WorkInv, Remote!InPageOrder
<1>6. Remote!OneOutstanding' BY DEF WorkInv, Remote!OneOutstanding, Remote!About, Remote!Busy, Remote!Waiting
<1>7. Remote!StoredInPlace' BY <1>1 DEF WorkInv, Remote!StoredInPlace
<1>8. Remote!SentInPlace' BY <1>1, <1>4 DEF WorkInv, Remote!SentInPlace
<1>9. Remote!SentIsStored' BY <1>1, <1>2, <1>3 DEF WorkInv, Remote!SentIsStored
<1> QED BY <1>5, <1>6, <1>7, <1>8, <1>9 DEF WorkInv

\* What the collector has, and what is whole, is about tasks that are over: steps
\* that leave these alone, and the collector, disturb neither.
LEMMA WorkKeepsCollected ==
    ASSUME Remote!TypeOK, Remote!CompletedIsWhole, Remote!CollectedIsSeen,
           Remote!NoFalseDisappearance,
           UNCHANGED <<cycle, collector, unread, seen, listing>>, offered' \subseteq offered,
           mixed \subseteq mixed',
           \A t \in Remote!Tasks : phase[t] \in Remote!Terminal =>
              phase'[t] = phase[t] /\ stored'[t] = stored[t],
           \A t \in Remote!Tasks : \A i \in Remote!Indices :
              stored[t][i] # None => stored'[t][i] # None,
           \A t \in Remote!Tasks \ mixed' : phase'[t] = "completed" /\ phase[t] # "completed" =>
              \A l \in offered : l[1] = t[1] =>
                 \E i \in Remote!Indices : stored'[t][i] = l[2]
    PROVE  Remote!CompletedIsWhole' /\ Remote!CollectedIsSeen' /\ Remote!NoFalseDisappearance'
<1>0. unread \subseteq Remote!Tasks \X Remote!Indices BY CycleTypes DEF CycleTyped
<1>1. Remote!CompletedIsWhole' BY DEF Remote!CompletedIsWhole, Remote!Terminal
<1>2. Remote!CycleTasks' = Remote!CycleTasks /\ Remote!CycleTasks \subseteq Remote!Tasks
  BY DEF Remote!CycleTasks
<1>3. \A b \in unread' : stored'[b[1]][b[2]] # None BY <1>0 DEF Remote!CollectedIsSeen
<1>4. Remote!CollectedIsSeen' BY <1>2, <1>3 DEF Remote!CollectedIsSeen
<1>5. Remote!NoFalseDisappearance' BY DEF Remote!NoFalseDisappearance
<1> QED BY <1>1, <1>4, <1>5
\* Steps of the ledger alone, and of the collector.
LEMMA ReclaimKeeps ==
    ASSUME Remote!CycleInv, NEW u \in Remote!Tasks, Remote!ReclaimExpired(u)
    PROVE  Remote!CycleInv'
<1>0. CycleTyped /\ Remote!TypeOK /\ WorkInv BY CycleTypes DEF Remote!CycleInv, WorkInv
<1>1. /\ phase[u] = "leased"
      /\ phase' = [t \in Remote!Tasks |-> IF t = u THEN "queued" ELSE phase[t]]
      /\ holder' = [t \in Remote!Tasks |-> IF t = u THEN None ELSE holder[t]]
      /\ UNCHANGED <<closed, stored, attempts, exec, wire, offered, mixed>>
      /\ UNCHANGED <<cycle, collector, unread, listing, run, seen>>
  BY DEF Remote!ReclaimExpired, Remote!Ledger!Assign, Remote!collectorVars
<1>2. CycleTyped' BY <1>0, <1>1 DEF CycleTyped, Remote!Ledger!Phases
<1>3. \A t \in Remote!Tasks, w \in Workers : Remote!Ours(t, w)' => Remote!Ours(t, w)
  BY <1>1, CycleConstants DEF Remote!Ours
<1>4. WorkInv' BY <1>0, <1>1, <1>3, LosingKeepsWork
<1>5. Remote!CompletedIsWhole' /\ Remote!CollectedIsSeen' /\ Remote!NoFalseDisappearance'
  <2>1. /\ \A t \in Remote!Tasks : phase[t] \in Remote!Terminal =>
              phase'[t] = phase[t] /\ stored'[t] = stored[t]
        /\ \A t \in Remote!Tasks : phase'[t] = "completed" => phase[t] = "completed"
    BY <1>1 DEF Remote!Terminal
  <2> QED BY <1>0, <1>1, <2>1, WorkKeepsCollected DEF Remote!CycleInv
<1> QED BY <1>2, <1>4, <1>5, CycleTypes DEF Remote!CycleInv, WorkInv

LEMMA SubmitKeeps == ASSUME Remote!CycleInv, Remote!SubmitCycle PROVE Remote!CycleInv'
<1>0. CycleTyped /\ Remote!TypeOK /\ WorkInv BY CycleTypes DEF Remote!CycleInv, WorkInv
<1> DEFINE New == {t \in Remote!Tasks : t[2] = cycle + 1}
<1>1. /\ cycle < MaxCycles /\ cycle' = cycle + 1 /\ collector' = "waiting"
      /\ \A t \in New : phase[t] = "absent"
      /\ phase' = [t \in Remote!Tasks |-> IF t \in New THEN "queued" ELSE phase[t]]
      /\ UNCHANGED <<holder, closed, stored, attempts, exec, wire, offered, mixed>>
      /\ UNCHANGED <<unread, listing, run, seen>>
  BY DEF Remote!SubmitCycle, Remote!Ledger!Submit
<1> HIDE DEF New
<1>2. CycleTyped'
  <2>1. phase' \in [Remote!Tasks -> Remote!Ledger!Phases]
    BY <1>0, <1>1 DEF CycleTyped, Remote!Ledger!Phases
  <2>2. cycle' \in 0 .. MaxCycles BY <1>0, <1>1, CycleConstants DEF CycleTyped
  <2> QED BY <1>0, <1>1, <2>1, <2>2 DEF CycleTyped
<1>3. \A t \in Remote!Tasks, w \in Workers : Remote!Ours(t, w)' => Remote!Ours(t, w)
  BY <1>1 DEF Remote!Ours
<1>4. WorkInv' BY <1>0, <1>1, <1>3, LosingKeepsWork
<1>5. Remote!CompletedIsWhole'
  <2>1. \A t \in Remote!Tasks : phase'[t] = "completed" => phase[t] = "completed" BY <1>1
  <2> QED BY <1>1, <2>1 DEF Remote!CycleInv, Remote!CompletedIsWhole
<1>6. Remote!CollectedIsSeen' /\ Remote!NoFalseDisappearance'
  BY <1>1 DEF Remote!CycleInv, Remote!CollectedIsSeen, Remote!NoFalseDisappearance
<1> QED BY <1>2, <1>4, <1>5, <1>6, CycleTypes DEF Remote!CycleInv, WorkInv

LEMMA CancelKeeps == ASSUME Remote!CycleInv, Remote!CancelCycle PROVE Remote!CycleInv'
<1>0. CycleTyped /\ Remote!TypeOK /\ WorkInv BY CycleTypes DEF Remote!CycleInv, WorkInv
<1> DEFINE Dropped == {t \in Remote!Tasks : /\ Remote!CycleOf[t] = cycle
                                            /\ phase[t] \in {"queued", "leased"}}
<1>1. /\ collector = "waiting" /\ collector' = "idle"
      /\ closed' = closed \cup {cycle}
      /\ phase' = [t \in Remote!Tasks |-> IF t \in Dropped THEN "canceled" ELSE phase[t]]
      /\ holder' = [t \in Remote!Tasks |-> IF t \in Dropped THEN None ELSE holder[t]]
      /\ UNCHANGED <<stored, attempts, exec, wire, offered, mixed>>
      /\ UNCHANGED <<cycle, unread, listing, run, seen>>
  BY DEF Remote!CancelCycle, Remote!Ledger!Cancel
<1>2. ~Remote!Done BY DEF Remote!CancelCycle
<1>3. \A t \in Dropped : phase[t] \in {"queued", "leased"} OBVIOUS
<1> HIDE DEF Dropped
<1>4. CycleTyped'
  <2>1. /\ phase' \in [Remote!Tasks -> Remote!Ledger!Phases]
        /\ holder' \in [Remote!Tasks -> Workers \cup {None}]
    BY <1>0, <1>1 DEF CycleTyped, Remote!Ledger!Phases
  <2>2. cycle \in Remote!Cycles
    <3>1. PICK t \in Remote!CycleTasks : phase[t] \notin Remote!Terminal
      BY <1>2 DEF Remote!Done
    <3> QED BY <3>1 DEF Remote!CycleTasks, Remote!Tasks
  <2> QED BY <1>0, <1>1, <2>1, <2>2 DEF CycleTyped
<1>5. \A t \in Remote!Tasks, w \in Workers : Remote!Ours(t, w)' => Remote!Ours(t, w)
  BY <1>1, CycleConstants DEF Remote!Ours
<1>6. WorkInv'
  <2>1. \A t \in Remote!Tasks :
            /\ phase'[t] = "absent" => phase[t] = "absent"
            /\ phase'[t] \in {"queued", "leased"} => phase[t] \in {"queued", "leased"}
    BY <1>1, <1>3
  <2> QED BY <1>0, <1>1, <1>5, <2>1, LosingKeepsWork
<1>7. Remote!CompletedIsWhole'
  <2>1. \A t \in Remote!Tasks : phase'[t] = "completed" => phase[t] = "completed" BY <1>1
  <2> QED BY <1>1, <2>1 DEF Remote!CycleInv, Remote!CompletedIsWhole
<1>8. Remote!CollectedIsSeen' /\ Remote!NoFalseDisappearance'
  BY <1>1 DEF Remote!CycleInv, Remote!CollectedIsSeen, Remote!NoFalseDisappearance
<1> QED BY <1>4, <1>6, <1>7, <1>8, CycleTypes DEF Remote!CycleInv, WorkInv

\* Workers and tasks do not see the collector.
LEMMA CollectorKeepsWork ==
    ASSUME Remote!CycleInv,
           UNCHANGED <<phase, holder, closed, stored, attempts, exec, wire, offered, mixed>>
    PROVE  WorkInv' /\ Remote!CompletedIsWhole'
<1>1. \A t \in Remote!Tasks, w \in Workers : Remote!Ours(t, w)' => Remote!Ours(t, w)
  BY DEF Remote!Ours
<1>2. WorkInv' BY <1>1, LosingKeepsWork DEF Remote!CycleInv, WorkInv
<1> QED BY <1>2 DEF Remote!CycleInv, Remote!CompletedIsWhole

LEMMA CollectKeeps == ASSUME Remote!CycleInv, Remote!Collect PROVE Remote!CycleInv'
<1>0. CycleTyped BY CycleTypes DEF Remote!CycleInv
<1>1. CASE Remote!SubmitCycle BY <1>1, SubmitKeeps
<1>2. CASE Remote!CancelCycle BY <1>2, CancelKeeps
<1>3. CASE Remote!AbandonCycle
  <2>1. /\ collector' = "idle"
        /\ UNCHANGED <<phase, holder, closed, stored, attempts, exec, wire, offered, mixed>>
        /\ UNCHANGED <<cycle, unread, listing, run, seen>>
    BY <1>3 DEF Remote!AbandonCycle, Remote!ledgerVars
  <2>2. CycleTyped' BY <1>0, <2>1 DEF CycleTyped
  <2>3. Remote!CollectedIsSeen' /\ Remote!NoFalseDisappearance'
    BY <2>1 DEF Remote!CycleInv, Remote!CollectedIsSeen, Remote!NoFalseDisappearance
  <2> QED BY <2>1, <2>2, <2>3, CollectorKeepsWork, CycleTypes DEF Remote!CycleInv, WorkInv
<1>4. CASE Remote!BeginCollect
  <2>1. /\ collector' = "collecting" /\ Remote!Done
        /\ unread' = {b \in Remote!CycleTasks \X Remote!Indices : stored[b[1]][b[2]] # None}
        /\ run' = "running" /\ seen' = {}
        /\ UNCHANGED <<phase, holder, closed, stored, attempts, exec, wire, offered, mixed>>
        /\ UNCHANGED <<cycle, listing>>
    BY <1>4 DEF Remote!BeginCollect, Remote!ledgerVars, Remote!History!BeginRefresh
  <2>2. CycleTyped' BY <1>0, <2>1 DEF CycleTyped, Remote!CycleTasks
  <2>3. Remote!CollectedIsSeen'
    <3>1. Remote!CycleTasks' = Remote!CycleTasks BY <2>1 DEF Remote!CycleTasks
    <3>2. \A t \in Remote!CycleTasks : phase'[t] \in Remote!Terminal BY <2>1 DEF Remote!Done
    <3>3. \A t \in Remote!CycleTasks : \A i \in Remote!Indices :
              stored'[t][i] # None => <<t, i>> \in unread'
      BY <2>1
    <3>4. \A b \in unread' : stored'[b[1]][b[2]] # None BY <2>1
    <3> QED BY <3>1, <3>2, <3>3, <3>4 DEF Remote!CollectedIsSeen
  <2>4. Remote!NoFalseDisappearance'
    BY <2>1 DEF Remote!CycleInv, Remote!NoFalseDisappearance
  <2> QED BY <2>1, <2>2, <2>3, <2>4, CollectorKeepsWork, CycleTypes DEF Remote!CycleInv, WorkInv
<1>5. ASSUME NEW b \in unread, Remote!CollectBatch(b) PROVE Remote!CycleInv'
  <2> DEFINE l == <<b[1][1], stored[b[1]][b[2]]>>
  <2>1. /\ unread' = unread \ {b} /\ seen' = seen \cup {l} /\ run = "running"
        /\ listing' = [x \in Remote!Listings |->
                          IF x \in {l} THEN [known |-> TRUE, missing |-> 0, gone |-> FALSE]
                          ELSE listing[x]]
        /\ UNCHANGED <<phase, holder, closed, stored, attempts, exec, wire, offered, mixed>>
        /\ UNCHANGED <<cycle, collector, run>>
    BY <1>5 DEF Remote!CollectBatch, Remote!ledgerVars, Remote!History!RecordBatch
  <2>2. b \in Remote!Tasks \X Remote!Indices /\ stored[b[1]][b[2]] # None
    BY <1>0 DEF CycleTyped, Remote!CycleInv, Remote!CollectedIsSeen
  <2>3. l \in Remote!Listings
    BY <1>0, <2>2 DEF CycleTyped, Remote!Tasks, Remote!Listings
  <2> HIDE DEF l
  <2>4. CycleTyped'
    <3>1. listing' \in [Remote!Listings -> Remote!History!Row]
      BY <1>0, <2>1, CycleConstants DEF CycleTyped, Remote!History!Row
    <3> QED BY <1>0, <2>1, <2>3, <3>1 DEF CycleTyped
  <2>5. Remote!CollectedIsSeen'
    <3>1. Remote!CycleTasks' = Remote!CycleTasks /\ Remote!CycleTasks \subseteq Remote!Tasks
      BY <2>1 DEF Remote!CycleTasks
    <3>2. \A x \in unread' : stored'[x[1]][x[2]] # None
      BY <2>1 DEF Remote!CycleInv, Remote!CollectedIsSeen
    <3>3. ASSUME collector' = "collecting", NEW t \in Remote!CycleTasks
          PROVE  /\ phase'[t] \in Remote!Terminal
                 /\ \A i \in Remote!Indices : stored'[t][i] # None =>
                       <<t, i>> \in unread' \/ <<t[1], stored'[t][i]>> \in seen'
      <4>1. phase'[t] \in Remote!Terminal
        BY <2>1, <3>3 DEF Remote!CycleInv, Remote!CollectedIsSeen
      <4>2. ASSUME NEW i \in Remote!Indices, stored[t][i] # None
            PROVE  <<t, i>> \in unread' \/ <<t[1], stored[t][i]>> \in seen'
        <5>1. <<t, i>> \in unread \/ <<t[1], stored[t][i]>> \in seen
          BY <2>1, <3>3, <4>2 DEF Remote!CycleInv, Remote!CollectedIsSeen
        <5>2. <<t, i>> = b => <<t[1], stored[t][i]>> = l BY <2>2 DEF l
        <5> QED BY <2>1, <5>1, <5>2
      <4> QED BY <2>1, <4>1, <4>2
    <3> QED BY <3>1, <3>2, <3>3 DEF Remote!CollectedIsSeen
  <2>6. Remote!NoFalseDisappearance'
    BY <1>0, <2>1 DEF CycleTyped, Remote!CycleInv, Remote!NoFalseDisappearance
  <2> QED BY <2>1, <2>4, <2>5, <2>6, CollectorKeepsWork, CycleTypes DEF Remote!CycleInv, WorkInv
<1>6. CASE Remote!FinishCollect
  <2> DEFINE Polled == {t[1] : t \in {s \in Remote!CycleTasks : phase[s] = "completed"}}
  <2>1. /\ collector = "collecting" /\ collector' = "idle" /\ unread = {} /\ run' = "none"
        /\ seen' = {}
        /\ listing' = [l \in Remote!Listings |->
                          IF /\ Remote!SourceOf[l] \in Polled
                             /\ listing[l].known /\ l \notin seen
                          THEN Remote!History!Missed(listing[l]) ELSE listing[l]]
        /\ UNCHANGED <<phase, holder, closed, stored, attempts, exec, wire, offered, mixed>>
        /\ UNCHANGED <<cycle, unread>>
    BY <1>6 DEF Remote!FinishCollect, Remote!ledgerVars, Remote!History!FinishRefresh
  <2>2. \A l \in Remote!Listings : Remote!SourceOf[l] = l[1] BY DEF Remote!SourceOf
  <2>3. ASSUME NEW row \in Remote!History!Row
        PROVE  Remote!History!Missed(row) \in Remote!History!Row
    <3> DEFINE m == IF row.missing < DisappearAfter THEN row.missing + 1 ELSE row.missing
    <3>1. /\ row = [known |-> row.known, missing |-> row.missing, gone |-> row.gone]
          /\ row.known \in BOOLEAN /\ row.missing \in 0 .. DisappearAfter
      BY DEF Remote!History!Row
    <3>2. m \in 0 .. DisappearAfter BY <3>1, CycleConstants
    <3>3. Remote!History!Missed(row) = [row EXCEPT !.missing = m, !.gone = m >= DisappearAfter]
      BY DEF Remote!History!Missed
    <3> HIDE DEF m
    <3>4. (m >= DisappearAfter) \in BOOLEAN OBVIOUS
    <3> DEFINE g == m >= DisappearAfter
    <3>5. Remote!History!Missed(row) = [known |-> row.known, missing |-> m, gone |-> g]
      BY <3>1, <3>3
    <3> HIDE DEF g
    <3>6. g \in BOOLEAN BY <3>4 DEF g
    <3> QED BY <3>1, <3>2, <3>5, <3>6 DEF Remote!History!Row
  <2>4. CycleTyped'
    <3>1. listing' \in [Remote!Listings -> Remote!History!Row]
      BY <1>0, <2>1, <2>3 DEF CycleTyped
    <3> QED BY <1>0, <2>1, <3>1 DEF CycleTyped
  <2>5. \* what a polled source still offers was seen
        ASSUME NEW l \in offered, Remote!SourceOf[l] \in Polled, \A t \in mixed : t[1] # l[1]
        PROVE  l \in seen
    <3>0. l \in Remote!Listings BY <1>0 DEF CycleTyped
    <3>1. PICK t \in Remote!CycleTasks : phase[t] = "completed" /\ t[1] = Remote!SourceOf[l]
      BY <2>5
    <3>2. t \in Remote!Tasks /\ l[1] = t[1] BY <2>2, <3>0, <3>1 DEF Remote!CycleTasks
    <3>3. PICK i \in Remote!Indices : stored[t][i] = l[2]
      BY <2>5, <3>1, <3>2 DEF Remote!CycleInv, Remote!CompletedIsWhole
    <3>4. stored[t][i] # None
      BY <3>0, <3>3, CycleConstants DEF Remote!Listings, Remote!Pages
    <3>5. <<t[1], stored[t][i]>> \in seen
      BY <2>1, <3>1, <3>4 DEF Remote!CycleInv, Remote!CollectedIsSeen
    <3> QED BY <3>0, <3>2, <3>3, <3>5 DEF Remote!Listings
  <2> HIDE DEF Polled
  <2>6. Remote!CollectedIsSeen' BY <2>1 DEF Remote!CollectedIsSeen
  <2>7. Remote!NoFalseDisappearance'
    <3>1. \A l \in offered : l \in Remote!Listings BY <1>0 DEF CycleTyped
    <3>2. ASSUME NEW l \in offered, \A t \in mixed : t[1] # l[1] PROVE listing'[l] = listing[l]
      <4>1. l \in Remote!Listings BY <3>1
      <4>2. Remote!SourceOf[l] \in Polled => l \in seen BY <2>5, <3>2
      <4> QED BY <2>1, <4>1, <4>2
    <3>3. \A l \in offered : (\A t \in mixed : t[1] # l[1]) => ~listing[l].gone
      BY DEF Remote!CycleInv, Remote!NoFalseDisappearance
    <3> QED BY <2>1, <3>2, <3>3 DEF Remote!NoFalseDisappearance
  <2> QED BY <2>1, <2>4, <2>6, <2>7, CollectorKeepsWork, CycleTypes DEF Remote!CycleInv, WorkInv
<1>7. CASE Remote!AbortCollect
  <2>1. /\ collector' = "idle" /\ unread' = {} /\ run' = "none" /\ seen' = {}
        /\ UNCHANGED <<phase, holder, closed, stored, attempts, exec, wire, offered, mixed>>
        /\ UNCHANGED <<cycle, listing>>
    BY <1>7 DEF Remote!AbortCollect, Remote!ledgerVars, Remote!History!AbortRefresh
  <2>2. CycleTyped' BY <1>0, <2>1 DEF CycleTyped
  <2>3. Remote!CollectedIsSeen' /\ Remote!NoFalseDisappearance'
    BY <2>1 DEF Remote!CycleInv, Remote!CollectedIsSeen, Remote!NoFalseDisappearance
  <2> QED BY <2>1, <2>2, <2>3, CollectorKeepsWork, CycleTypes DEF Remote!CycleInv, WorkInv
<1> QED BY <1>1, <1>2, <1>3, <1>4, <1>5, <1>6, <1>7 DEF Remote!Collect
\* The invariant, worker by worker.
OrderOf(w) == Remote!Busy(w) =>
    /\ Remote!Cardinality(exec[w].todo) + exec[w].index <= NumPages
    /\ exec[w].task \notin mixed =>
          /\ \A p \in exec[w].todo : \A q \in Remote!Pages : p < q => q \in exec[w].todo
          /\ Remote!Ours(exec[w].task, w) =>
                exec[w].index = Remote!Cardinality(Remote!Offers(exec[w].task[1]) \ exec[w].todo)

OutstandingOf(w) == \A r \in wire :
    Remote!Busy(w) /\ Remote!About(r, w) /\ r.task \notin mixed =>
      /\ exec[w].awaits # None
      /\ exec[w].awaits \in {"batch", "complete"} =>
            Remote!Waiting(r) /\ \A q \in wire : Remote!About(q, w) => q = r
      /\ r.kind = "batch" /\ Remote!Waiting(r) => r.index + 1 = exec[w].index

SentOf(w) == \A r \in wire : r.worker = w /\ r.task \notin mixed /\ Remote!Ours(r.task, w) =>
    /\ r.kind = "batch" =>
          r.page \in Remote!Offers(r.task[1]) /\ r.index = Remote!Rank(r.task[1], r.page)
    /\ r.kind = "complete" =>
          \A p \in Remote!Offers(r.task[1]) : stored[r.task][Remote!Rank(r.task[1], p)] # None

StoredOf(w) == Remote!Busy(w) /\ exec[w].task \notin mixed /\ Remote!Ours(exec[w].task, w) =>
    \A p \in Remote!Offers(exec[w].task[1]) \ exec[w].todo :
        \/ stored[exec[w].task][Remote!Rank(exec[w].task[1], p)] # None
        \/ exec[w].awaits \in {"fail", "requeue"}
        \/ /\ exec[w].awaits = "batch"
           /\ Remote!Rank(exec[w].task[1], p) + 1 = exec[w].index

WorkerInv(w) == OrderOf(w) /\ OutstandingOf(w) /\ SentOf(w) /\ StoredOf(w)

LEMMA EachWorker ==
    ASSUME wire \subseteq Remote!Request
    PROVE  WorkInv <=> Remote!StoredInPlace /\ \A w \in Workers : WorkerInv(w)
<1>1. \A r \in wire : r.worker \in Workers BY DEF Remote!Request
<1>2. Remote!InPageOrder <=> \A w \in Workers : OrderOf(w) BY DEF Remote!InPageOrder, OrderOf
<1>3. Remote!OneOutstanding <=> \A w \in Workers : OutstandingOf(w)
  BY <1>1 DEF Remote!OneOutstanding, OutstandingOf, Remote!About
<1>4. Remote!SentInPlace <=> \A w \in Workers : SentOf(w)
  BY <1>1 DEF Remote!SentInPlace, SentOf
<1>5. Remote!SentIsStored <=> \A w \in Workers : StoredOf(w)
  BY DEF Remote!SentIsStored, StoredOf
<1> QED BY <1>2, <1>3, <1>4, <1>5 DEF WorkInv, WorkerInv

LEMMA EachWorkerNext ==
    ASSUME wire' \subseteq Remote!Request
    PROVE  WorkInv' <=> Remote!StoredInPlace' /\ \A w \in Workers : WorkerInv(w)'
<1>1. \A r \in wire' : r.worker \in Workers BY DEF Remote!Request
<1>2. Remote!InPageOrder' <=> \A w \in Workers : OrderOf(w)'
  BY DEF Remote!InPageOrder, OrderOf
<1>3. Remote!OneOutstanding' <=> \A w \in Workers : OutstandingOf(w)'
  BY <1>1 DEF Remote!OneOutstanding, OutstandingOf, Remote!About
<1>4. Remote!SentInPlace' <=> \A w \in Workers : SentOf(w)'
  BY <1>1 DEF Remote!SentInPlace, SentOf
<1>5. Remote!SentIsStored' <=> \A w \in Workers : StoredOf(w)'
  BY DEF Remote!SentIsStored, StoredOf
<1> QED BY <1>2, <1>3, <1>4, <1>5 DEF WorkInv, WorkerInv

\* A step of one worker, or for it, leaves the others as they were: they may only
\* lose a lease, and see more stored.
LEMMA OthersKeep ==
    ASSUME Remote!TypeOK, NEW v \in Workers, WorkerInv(v), UNCHANGED offered,
           mixed \subseteq mixed', exec'[v] = exec[v],
           \A t \in Remote!Tasks : Remote!Ours(t, v)' => Remote!Ours(t, v),
           \A r \in wire' : r.worker = v => r \in wire,
           \A t \in Remote!Tasks : \A i \in Remote!Indices :
              stored[t][i] # None => stored'[t][i] # None
    PROVE  WorkerInv(v)'
<1>0. CycleTyped BY CycleTypes
<1>1. /\ \A s : Remote!Offers(s)' = Remote!Offers(s)
      /\ \A s, p : Remote!Rank(s, p)' = Remote!Rank(s, p)
  BY RankStays
<1>2. Remote!Busy(v)' = Remote!Busy(v) BY DEF Remote!Busy
<1>3. Remote!Busy(v) => exec[v].task \in Remote!Tasks
  BY <1>0 DEF CycleTyped, Remote!Busy, Remote!Idle, Remote!Execution
<1>4. \A r \in wire : r.task \in Remote!Tasks BY <1>0 DEF CycleTyped, Remote!Request
<1>5. \A s : \A p \in Remote!Offers(s) : Remote!Rank(s, p) \in Remote!Indices
  BY RankIsIndex DEF Remote!Offers
<1>6. OrderOf(v)' BY <1>1, <1>2, <1>3 DEF WorkerInv, OrderOf
<1>7. OutstandingOf(v)'
  BY <1>2 DEF WorkerInv, OutstandingOf, Remote!Waiting, Remote!About
<1>8. SentOf(v)' BY <1>1, <1>4, <1>5 DEF WorkerInv, SentOf
<1>9. StoredOf(v)' BY <1>1, <1>2, <1>3, <1>5 DEF WorkerInv, StoredOf
<1> QED BY <1>6, <1>7, <1>8, <1>9 DEF WorkerInv
LEMMA BusyTyped ==
    ASSUME Remote!TypeOK, NEW w \in Workers, Remote!Busy(w)
    PROVE  /\ exec[w] \in Remote!Execution
           /\ exec[w].task \in Remote!Tasks /\ exec[w].task # None
           /\ exec[w].attempt \in 1 .. MaxLeases /\ exec[w].todo \subseteq Remote!Pages
           /\ exec[w].index \in 0 .. NumPages
           /\ exec[w].awaits \in {"batch", "complete", "fail", "requeue", None}
<1>1. exec[w] \in Remote!Execution
  BY CycleTypes DEF CycleTyped, Remote!Busy, Remote!Idle
<1> QED BY <1>1, CycleConstants DEF Remote!Execution, Remote!Kinds

LEMMA IdleIsTyped == /\ Remote!Idle.task = None
                     /\ Remote!Idle \in Remote!Execution \cup {Remote!Idle}
BY DEF Remote!Idle

\* A step of a worker that keeps its place in the source: what is new on the wire
\* asks for its lease to be given up.
LEMMA WorkerKeeps ==
    ASSUME Remote!CycleInv, NEW w \in Workers, NEW e,
           UNCHANGED <<phase, holder, closed, stored, attempts, offered>>,
           mixed \subseteq mixed', mixed' \subseteq Remote!Tasks,
           UNCHANGED <<cycle, collector, unread, listing, run, seen>>,
           exec' = [exec EXCEPT ![w] = e], e \in Remote!Execution \cup {Remote!Idle},
           wire' \subseteq Remote!Request,
           \A r \in wire' : r \in wire \/ r.worker = w,
           WorkerInv(w)'
    PROVE  Remote!CycleInv'
<1>0. CycleTyped /\ Remote!TypeOK /\ WorkInv BY CycleTypes DEF Remote!CycleInv, WorkInv
<1>1. CycleTyped' BY <1>0 DEF CycleTyped
<1>2. wire \subseteq Remote!Request BY <1>0 DEF CycleTyped
<1>3. \A v \in Workers : WorkerInv(v) BY <1>0, <1>2, EachWorker
<1>4. \A t \in Remote!Tasks, v \in Workers : Remote!Ours(t, v)' => Remote!Ours(t, v)
  BY DEF Remote!Ours
<1>5. ASSUME NEW v \in Workers PROVE WorkerInv(v)'
  <2>1. CASE v = w BY <2>1
  <2>2. CASE v # w
    <3>1. exec'[v] = exec[v] BY <1>0, <2>2 DEF CycleTyped
    <3> QED BY <1>0, <1>3, <1>4, <2>2, <3>1, OthersKeep
  <2> QED BY <2>1, <2>2
<1>6. Remote!StoredInPlace'
  BY RankStays DEF Remote!CycleInv, Remote!StoredInPlace
<1>7. WorkInv' BY <1>5, <1>6, EachWorkerNext
<1>8. Remote!CompletedIsWhole' /\ Remote!CollectedIsSeen' /\ Remote!NoFalseDisappearance'
  BY <1>0, WorkKeepsCollected DEF Remote!CycleInv
<1> QED BY <1>1, <1>7, <1>8, CycleTypes DEF Remote!CycleInv, WorkInv

LEMMA SentIsTyped ==
    ASSUME Remote!TypeOK, NEW w \in Workers, Remote!Busy(w),
           NEW kind \in {"batch", "complete", "fail", "requeue"},
           NEW index \in Remote!Indices \cup {None}, NEW page \in Remote!Pages \cup {None}
    PROVE  /\ Remote!Sent(w, kind, index, page) \subseteq Remote!Request
           /\ \A r \in Remote!Sent(w, kind, index, page) :
                 r \in wire \/ r = [kind |-> kind, task |-> exec[w].task, worker |-> w,
                                    attempt |-> exec[w].attempt, index |-> index,
                                    page |-> page]
BY BusyTyped, CycleTypes DEF CycleTyped, Remote!Sent, Remote!Request, Remote!Kinds

\* Whatever it waits for, a worker that crashes or gives up does no harm.
LEMMA IdleKeeps ==
    ASSUME Remote!CycleInv, NEW w \in Workers,
           UNCHANGED <<phase, holder, closed, stored, attempts, offered, mixed, wire>>,
           UNCHANGED <<cycle, collector, unread, listing, run, seen>>,
           exec' = [exec EXCEPT ![w] = Remote!Idle]
    PROVE  Remote!CycleInv'
<1>0. CycleTyped /\ Remote!TypeOK BY CycleTypes DEF Remote!CycleInv
<1>1. wire \subseteq Remote!Request BY <1>0 DEF CycleTyped
<1>2. ~Remote!Busy(w)' BY <1>0, IdleIsTyped DEF CycleTyped, Remote!Busy
<1>3. SentOf(w) BY <1>1, EachWorker DEF Remote!CycleInv, WorkInv, WorkerInv
<1>4. SentOf(w)' BY <1>3, RankStays DEF SentOf, Remote!Ours
<1>5. WorkerInv(w)' BY <1>2, <1>4 DEF WorkerInv, OrderOf, OutstandingOf, StoredOf
<1>6. mixed \subseteq mixed' /\ mixed' \subseteq Remote!Tasks BY <1>0 DEF CycleTyped
<1> QED BY <1>1, <1>5, <1>6, IdleIsTyped, WorkerKeeps

\* `fail` is sent.
LEMMA FailingKeeps ==
    ASSUME Remote!CycleInv, NEW w \in Workers, Remote!Busy(w),
           UNCHANGED <<phase, holder, closed, stored, attempts, offered, mixed>>,
           UNCHANGED <<cycle, collector, unread, listing, run, seen>>,
           wire' = Remote!Sent(w, Remote!FailKind(w), None, None),
           exec' = [exec EXCEPT ![w].awaits = Remote!FailKind(w)]
    PROVE  Remote!CycleInv'
<1>0. CycleTyped /\ Remote!TypeOK BY CycleTypes DEF Remote!CycleInv
<1> DEFINE e == [exec[w] EXCEPT !.awaits = Remote!FailKind(w)]
<1>1. Remote!FailKind(w) \in {"fail", "requeue"} BY DEF Remote!FailKind
<1>2. /\ exec[w] \in Remote!Execution /\ exec[w].task \in Remote!Tasks
  BY <1>0, BusyTyped
<1>3. /\ exec' = [exec EXCEPT ![w] = e] /\ e \in Remote!Execution
      /\ e.task = exec[w].task /\ e.attempt = exec[w].attempt /\ e.todo = exec[w].todo
      /\ e.index = exec[w].index /\ e.awaits = Remote!FailKind(w)
  BY <1>1, <1>2 DEF Remote!Execution, Remote!Kinds
<1> HIDE DEF e
<1>4. exec'[w] = e BY <1>0, <1>3 DEF CycleTyped
<1>5. /\ wire' \subseteq Remote!Request
      /\ \A r \in wire' : r \in wire \/ (r.worker = w /\ r.kind = Remote!FailKind(w))
  BY <1>0, <1>1, SentIsTyped
<1>6. WorkerInv(w)
  BY <1>0, EachWorker DEF CycleTyped, Remote!CycleInv, WorkInv
<1>7. /\ \A s : Remote!Offers(s)' = Remote!Offers(s)
      /\ \A s, p : Remote!Rank(s, p)' = Remote!Rank(s, p)
      /\ \A t : Remote!Ours(t, w)' = Remote!Ours(t, w)
      /\ Remote!Busy(w)' = Remote!Busy(w)
  BY <1>3, <1>4, RankStays DEF Remote!Ours, Remote!Busy
<1>8. OrderOf(w)' BY <1>3, <1>4, <1>6, <1>7 DEF WorkerInv, OrderOf
<1>9. OutstandingOf(w)'
  BY <1>1, <1>3, <1>4, CycleConstants DEF OutstandingOf, Remote!Waiting, Remote!About
<1>10. SentOf(w)' BY <1>1, <1>5, <1>6, <1>7 DEF WorkerInv, SentOf
<1>11. StoredOf(w)' BY <1>1, <1>3, <1>4, <1>6, <1>7 DEF WorkerInv, StoredOf
<1>12. WorkerInv(w)' BY <1>8, <1>9, <1>10, <1>11 DEF WorkerInv
<1>13. mixed \subseteq mixed' /\ mixed' \subseteq Remote!Tasks BY <1>0 DEF CycleTyped
<1> QED BY <1>3, <1>5, <1>12, <1>13, WorkerKeeps

LEMMA SendCompleteKeeps ==
    ASSUME Remote!CycleInv, NEW w \in Workers, Remote!SendComplete(w)
    PROVE  Remote!CycleInv'
<1>0. CycleTyped /\ Remote!TypeOK BY CycleTypes DEF Remote!CycleInv
<1> DEFINE e == [exec[w] EXCEPT !.awaits = "complete"]
<1>1. /\ Remote!Busy(w) /\ exec[w].awaits = None /\ exec[w].todo = {}
      /\ wire' = Remote!Sent(w, "complete", None, None)
      /\ exec' = [exec EXCEPT ![w] = e]
      /\ UNCHANGED <<phase, holder, closed, stored, attempts, offered, mixed>>
      /\ UNCHANGED <<cycle, collector, unread, listing, run, seen>>
  BY DEF Remote!SendComplete, Remote!Free, Remote!ledgerVars, Remote!collectorVars
<1>2. /\ exec[w] \in Remote!Execution /\ exec[w].task \in Remote!Tasks
  BY <1>0, <1>1, BusyTyped
<1>3. /\ e \in Remote!Execution
      /\ e.task = exec[w].task /\ e.attempt = exec[w].attempt /\ e.todo = exec[w].todo
      /\ e.index = exec[w].index /\ e.awaits = "complete"
  BY <1>2 DEF Remote!Execution, Remote!Kinds
<1> HIDE DEF e
<1>4. exec'[w] = e BY <1>0, <1>1 DEF CycleTyped
<1> DEFINE new == [kind |-> "complete", task |-> exec[w].task, worker |-> w,
                   attempt |-> exec[w].attempt, index |-> None, page |-> None]
<1>5. wire' \subseteq Remote!Request /\ \A r \in wire' : r \in wire \/ r = new
  BY <1>0, <1>1, SentIsTyped
<1>6. WorkerInv(w)
  BY <1>0, EachWorker DEF CycleTyped, Remote!CycleInv, WorkInv
<1>7. /\ \A s : Remote!Offers(s)' = Remote!Offers(s)
      /\ \A s, p : Remote!Rank(s, p)' = Remote!Rank(s, p)
      /\ \A t : Remote!Ours(t, w)' = Remote!Ours(t, w)
      /\ Remote!Busy(w)' = Remote!Busy(w)
  BY <1>1, <1>3, <1>4, RankStays DEF Remote!Ours, Remote!Busy
<1>8. exec[w].task \notin mixed => \A r \in wire' : Remote!About(r, w) => r = new
  BY <1>1, <1>5, <1>6 DEF WorkerInv, OutstandingOf, Remote!About
<1>9. new.task = exec[w].task /\ new.attempt = exec[w].attempt /\ new.kind = "complete"
      /\ new.worker = w
  OBVIOUS
<1> HIDE DEF new
<1>10. OrderOf(w)' BY <1>1, <1>3, <1>4, <1>6, <1>7 DEF WorkerInv, OrderOf
<1>11. OutstandingOf(w)'
  BY <1>1, <1>3, <1>4, <1>8, <1>9, CycleConstants DEF OutstandingOf, Remote!Waiting, Remote!About
<1>12. SentOf(w)'
  <2>1. ASSUME exec[w].task \notin mixed, Remote!Ours(exec[w].task, w),
               NEW p \in Remote!Offers(exec[w].task[1])
        PROVE  stored[exec[w].task][Remote!Rank(exec[w].task[1], p)] # None
    BY <1>1, <1>6, <2>1, CycleConstants DEF WorkerInv, StoredOf
  <2>2. ASSUME NEW r \in wire', r.worker = w, r.task \notin mixed, Remote!Ours(r.task, w), r # new
        PROVE  r \in wire
    BY <1>5, <2>2
  <2> QED BY <1>1, <1>6, <1>7, <1>9, <2>1, <2>2 DEF WorkerInv, SentOf
<1>13. StoredOf(w)' BY <1>1, <1>3, <1>4, <1>6, <1>7, CycleConstants DEF WorkerInv, StoredOf
<1>14. WorkerInv(w)' BY <1>10, <1>11, <1>12, <1>13 DEF WorkerInv
<1>15. mixed \subseteq mixed' /\ mixed' \subseteq Remote!Tasks BY <1>0, <1>1 DEF CycleTyped
<1> QED BY <1>1, <1>3, <1>5, <1>9, <1>14, <1>15, WorkerKeeps
LEMMA FetchKeeps ==
    ASSUME Remote!CycleInv, NEW w \in Workers, NEW p \in Remote!Pages, Remote!FetchPage(w, p)
    PROVE  Remote!CycleInv'
<1>0. CycleTyped /\ Remote!TypeOK BY CycleTypes DEF Remote!CycleInv
<1> DEFINE l == <<exec[w].task[1], p>>
           s == exec[w].task[1]
<1>1. /\ Remote!Busy(w) /\ exec[w].awaits = None /\ p \in exec[w].todo
      /\ mixed' = IF \E q \in exec[w].todo : q < p THEN mixed \cup {exec[w].task} ELSE mixed
      /\ UNCHANGED <<phase, holder, closed, stored, attempts, offered>>
      /\ UNCHANGED <<cycle, collector, unread, listing, run, seen>>
  BY DEF Remote!FetchPage, Remote!Mixed, Remote!Free, Remote!ledgerVars, Remote!collectorVars
<1>2. /\ exec[w] \in Remote!Execution /\ exec[w].task \in Remote!Tasks
      /\ exec[w].todo \subseteq Remote!Pages /\ exec[w].index \in 0 .. NumPages
  BY <1>0, <1>1, BusyTyped
<1>3. WorkerInv(w)
  BY <1>0, EachWorker DEF CycleTyped, Remote!CycleInv, WorkInv
<1>4. /\ \A x : Remote!Offers(x)' = Remote!Offers(x)
      /\ \A x, q : Remote!Rank(x, q)' = Remote!Rank(x, q)
      /\ \A t : Remote!Ours(t, w)' = Remote!Ours(t, w)
  BY <1>1, RankStays DEF Remote!Ours
<1> DEFINE Plain == exec[w].task \notin mixed'
<1>51. mixed \subseteq mixed' /\ mixed' \subseteq Remote!Tasks
  BY <1>0, <1>1, <1>2 DEF CycleTyped
<1>52. Plain => \A q \in exec[w].todo : p <= q
  <2> SUFFICES ASSUME Plain, NEW q \in exec[w].todo PROVE p <= q OBVIOUS
  <2>1. p \in Int /\ q \in Int BY <1>1, <1>2 DEF Remote!Pages
  <2>2. ~(q < p) BY <1>1
  <2> QED BY <2>1, <2>2
<1>5. Plain => exec[w].task \notin mixed /\ \A q \in Remote!Pages : p < q => q \in exec[w].todo
  BY <1>1, <1>3, <1>51 DEF WorkerInv, OrderOf
<1>53. /\ Remote!Cardinality(exec[w].todo \ {p}) + 1 = Remote!Cardinality(exec[w].todo)
       /\ Remote!Cardinality(exec[w].todo \ {p}) \in Nat
  <2>1. exec[w].todo \in SUBSET Remote!Pages BY <1>2
  <2>2. /\ IsFiniteSet(exec[w].todo) /\ Cardinality(exec[w].todo) \in Nat
        /\ Cardinality(exec[w].todo \ {p}) \in Nat
    BY <2>1, PagesFinite
  <2>3. Cardinality(exec[w].todo \ {p}) = Cardinality(exec[w].todo) - 1
    BY <1>1, <2>2, FS_RemoveElement
  <2> QED BY <2>2, <2>3, SameCard
<1>6. Plain =>
      /\ Remote!Rank(s, p) = Remote!Cardinality(Remote!Offers(s) \ exec[w].todo)
      /\ p \in Remote!Offers(s) =>
            Remote!Cardinality(Remote!Offers(s) \ (exec[w].todo \ {p}))
              = Remote!Cardinality(Remote!Offers(s) \ exec[w].todo) + 1
      /\ p \notin Remote!Offers(s) =>
            Remote!Cardinality(Remote!Offers(s) \ (exec[w].todo \ {p}))
              = Remote!Cardinality(Remote!Offers(s) \ exec[w].todo)
  <2> SUFFICES ASSUME Plain
               PROVE
          /\ Remote!Rank(s, p) = Remote!Cardinality(Remote!Offers(s) \ exec[w].todo)
          /\ p \in Remote!Offers(s) =>
                Remote!Cardinality(Remote!Offers(s) \ (exec[w].todo \ {p}))
                  = Remote!Cardinality(Remote!Offers(s) \ exec[w].todo) + 1
          /\ p \notin Remote!Offers(s) =>
                Remote!Cardinality(Remote!Offers(s) \ (exec[w].todo \ {p}))
                  = Remote!Cardinality(Remote!Offers(s) \ exec[w].todo)
    OBVIOUS
  <2> DEFINE T == exec[w].todo
             S == exec[w].task[1]
  <2>1. T \in SUBSET Remote!Pages /\ p \in T BY <1>1, <1>2
  <2>2. \A q \in T : p <= q BY <1>52
  <2>22. \A q \in Remote!Pages : p < q => q \in T BY <1>5
  <2> HIDE DEF Plain, T, S
  <2>3. /\ Remote!Rank(S, p) = Remote!Cardinality(Remote!Offers(S) \ T)
        /\ Remote!Cardinality(T \ {p}) + 1 = Remote!Cardinality(T)
        /\ Remote!Cardinality(T \ {p}) \in Nat
        /\ p \in Remote!Offers(S) =>
              Remote!Cardinality(Remote!Offers(S) \ (T \ {p}))
                = Remote!Cardinality(Remote!Offers(S) \ T) + 1
        /\ p \notin Remote!Offers(S) =>
              Remote!Cardinality(Remote!Offers(S) \ (T \ {p}))
                = Remote!Cardinality(Remote!Offers(S) \ T)
    BY <2>1, <2>2, <2>22, NextRank
  <2> QED BY <2>3 DEF T, S
<1>7. Remote!Cardinality(exec[w].todo) + exec[w].index <= NumPages
  BY <1>1, <1>3 DEF WorkerInv, OrderOf
<1>8. l \in offered <=> p \in Remote!Offers(s) BY DEF Remote!Offers
<1>9. Plain => \A r \in wire : ~Remote!About(r, w)
  BY <1>1, <1>3, <1>5 DEF WorkerInv, OutstandingOf, Remote!About
<1> HIDE DEF Plain
<1>91. ASSUME NEW r \in wire, r.worker = w, r.task \notin mixed', Remote!Ours(r.task, w)
       PROVE  /\ r.kind = "batch" =>
                    r.page \in Remote!Offers(r.task[1]) /\ r.index = Remote!Rank(r.task[1], r.page)
              /\ r.kind = "complete" => \A x \in Remote!Offers(r.task[1]) :
                    stored[r.task][Remote!Rank(r.task[1], x)] # None
  BY <1>3, <1>51, <1>91 DEF WorkerInv, SentOf
<1>10. CASE l \notin offered
  <2> DEFINE e == [exec[w] EXCEPT !.todo = @ \ {p}]
  <2>1. exec' = [exec EXCEPT ![w] = e] /\ wire' = wire BY <1>10 DEF Remote!FetchPage
  <2>2. /\ e \in Remote!Execution /\ e.task = exec[w].task /\ e.attempt = exec[w].attempt
        /\ e.todo = exec[w].todo \ {p} /\ e.index = exec[w].index /\ e.awaits = None
    BY <1>1, <1>2 DEF Remote!Execution
  <2> HIDE DEF e
  <2>3. exec'[w] = e BY <1>0, <2>1 DEF CycleTyped
  <2>4. Remote!Busy(w)' = Remote!Busy(w) BY <2>2, <2>3 DEF Remote!Busy
  <2>5. Remote!Offers(s) \ e.todo = Remote!Offers(s) \ exec[w].todo
    BY <1>8, <1>10, <2>2
  <2>6. OrderOf(w)'
    <3>1. Remote!Cardinality(e.todo) + e.index <= NumPages
      BY <1>2, <1>53, <1>7, <2>2, CycleConstants
    <3>2. Plain => \A x \in e.todo : \A q \in Remote!Pages : x < q => q \in e.todo
      <4> SUFFICES ASSUME Plain, NEW x \in e.todo, NEW q \in Remote!Pages, x < q
                   PROVE  q \in e.todo
        OBVIOUS
      <4>1. x \in exec[w].todo /\ p <= x /\ x \in Int /\ p \in Int /\ q \in Int
        BY <1>1, <1>2, <1>52, <2>2 DEF Remote!Pages
      <4>2. q \in exec[w].todo BY <1>1, <1>3, <1>5, <4>1 DEF WorkerInv, OrderOf
      <4> QED BY <2>2, <4>1, <4>2
    <3>3. Plain /\ Remote!Ours(e.task, w) =>
              e.index = Remote!Cardinality(Remote!Offers(e.task[1]) \ e.todo)
      BY <1>1, <1>3, <1>5, <2>2, <2>5 DEF WorkerInv, OrderOf
    <3> QED BY <1>4, <2>2, <2>3, <3>1, <3>2, <3>3 DEF OrderOf, Plain
  <2>7. OutstandingOf(w)' BY <1>9, <2>1, <2>2, <2>3 DEF OutstandingOf, Remote!About, Plain
  <2>71. SentOf(w)' BY <1>1, <1>4, <1>91, <2>1 DEF SentOf
  <2>8. StoredOf(w)'
    <3>1. ASSUME Plain, Remote!Ours(e.task, w), NEW q \in Remote!Offers(e.task[1]) \ e.todo
          PROVE  stored[e.task][Remote!Rank(e.task[1], q)] # None
      BY <1>1, <1>3, <1>5, <2>2, <2>5, <3>1, CycleConstants DEF WorkerInv, StoredOf
    <3> QED BY <1>1, <1>4, <2>2, <2>3, <3>1 DEF StoredOf, Plain
  <2>9. wire' \subseteq Remote!Request BY <1>0, <2>1 DEF CycleTyped
  <2>10. WorkerInv(w)' BY <2>6, <2>7, <2>71, <2>8 DEF WorkerInv
  <2> QED BY <1>1, <1>51, <2>1, <2>2, <2>9, <2>10, WorkerKeeps
<1>11. CASE l \in offered
  <2> DEFINE e == [exec[w] EXCEPT !.todo = @ \ {p}, !.index = @ + 1, !.awaits = "batch"]
             new == [kind |-> "batch", task |-> exec[w].task, worker |-> w,
                     attempt |-> exec[w].attempt, index |-> exec[w].index, page |-> p]
  <2>1. exec' = [exec EXCEPT ![w] = e] /\ wire' = Remote!Sent(w, "batch", exec[w].index, p)
    BY <1>11 DEF Remote!FetchPage
  <2>2. exec[w].index + 1 \in 0 .. NumPages /\ exec[w].index \in Remote!Indices
    BY <1>2, <1>53, <1>7, CycleConstants DEF Remote!Indices
  <2>3. /\ e \in Remote!Execution /\ e.task = exec[w].task /\ e.attempt = exec[w].attempt
        /\ e.todo = exec[w].todo \ {p} /\ e.index = exec[w].index + 1 /\ e.awaits = "batch"
    BY <1>2, <2>2 DEF Remote!Execution, Remote!Kinds
  <2>4. wire' \subseteq Remote!Request /\ \A r \in wire' : r \in wire \/ r = new
    BY <1>0, <1>1, <2>1, <2>2, SentIsTyped
  <2>5. /\ new.kind = "batch" /\ new.task = exec[w].task /\ new.attempt = exec[w].attempt
        /\ new.index = exec[w].index /\ new.page = p /\ new.worker = w
    OBVIOUS
  <2> HIDE DEF e, new
  <2>6. exec'[w] = e BY <1>0, <2>1 DEF CycleTyped
  <2>7. Remote!Busy(w)' = Remote!Busy(w) BY <2>3, <2>6 DEF Remote!Busy
  <2>8. Plain => \A r \in wire' : Remote!About(r, w) => r = new BY <1>9, <2>4
  <2>9. Plain /\ Remote!Ours(exec[w].task, w) => exec[w].index = Remote!Rank(s, p)
    BY <1>1, <1>3, <1>5, <1>6 DEF WorkerInv, OrderOf
  <2>10. OrderOf(w)'
    <3>1. Remote!Cardinality(e.todo) + e.index <= NumPages
      BY <1>2, <1>53, <1>7, <2>3, CycleConstants
    <3>2. Plain => \A x \in e.todo : \A q \in Remote!Pages : x < q => q \in e.todo
      <4> SUFFICES ASSUME Plain, NEW x \in e.todo, NEW q \in Remote!Pages, x < q
                   PROVE  q \in e.todo
        OBVIOUS
      <4>1. x \in exec[w].todo /\ p <= x /\ x \in Int /\ p \in Int /\ q \in Int
        BY <1>1, <1>2, <1>52, <2>3 DEF Remote!Pages
      <4>2. q \in exec[w].todo BY <1>1, <1>3, <1>5, <4>1 DEF WorkerInv, OrderOf
      <4> QED BY <2>3, <4>1, <4>2
    <3>3. Plain /\ Remote!Ours(e.task, w) =>
              e.index = Remote!Cardinality(Remote!Offers(e.task[1]) \ e.todo)
      BY <1>6, <1>8, <1>11, <2>3, <2>9
    <3> QED BY <1>4, <2>3, <2>6, <3>1, <3>2, <3>3 DEF OrderOf, Plain
  <2>11. OutstandingOf(w)'
    <3>1. \A r \in wire' : Remote!About(r, w)' => Remote!About(r, w)
      BY <2>3, <2>6 DEF Remote!About
    <3> QED BY <2>3, <2>5, <2>6, <2>8, <3>1, CycleConstants
            DEF OutstandingOf, Remote!Waiting, Remote!About, Plain
  <2>12. SentOf(w)'
    <3>1. Plain /\ Remote!Ours(new.task, w) =>
              new.page \in Remote!Offers(new.task[1])
              /\ new.index = Remote!Rank(new.task[1], new.page)
      BY <1>8, <1>11, <2>5, <2>9
    <3> QED BY <1>1, <1>4, <1>91, <2>4, <2>5, <3>1 DEF SentOf, Plain
  <2>13. StoredOf(w)'
    <3>1. ASSUME Plain, Remote!Ours(e.task, w), NEW q \in Remote!Offers(e.task[1]) \ e.todo
          PROVE  \/ stored[e.task][Remote!Rank(e.task[1], q)] # None
                 \/ Remote!Rank(e.task[1], q) + 1 = e.index
      <4>1. CASE q = p BY <2>3, <2>9, <3>1, <4>1
      <4>2. CASE q # p
        BY <1>1, <1>3, <1>5, <2>3, <3>1, <4>2, CycleConstants DEF WorkerInv, StoredOf
      <4> QED BY <4>1, <4>2
    <3> QED BY <1>1, <1>4, <2>3, <2>6, <3>1 DEF StoredOf, Plain
  <2>14. WorkerInv(w)' BY <2>10, <2>11, <2>12, <2>13 DEF WorkerInv
  <2> QED BY <1>1, <1>51, <2>1, <2>3, <2>4, <2>5, <2>14, WorkerKeeps
<1> QED BY <1>10, <1>11

LEMMA LeaseKeeps ==
    ASSUME Remote!CycleInv, NEW w \in Workers, NEW u \in Remote!Tasks, Remote!LeaseTask(w, u)
    PROVE  Remote!CycleInv'
<1>0. CycleTyped /\ Remote!TypeOK /\ WorkInv BY CycleTypes DEF Remote!CycleInv, WorkInv
<1> DEFINE e == [task |-> u, attempt |-> attempts[u] + 1, todo |-> Remote!Pages,
                 index |-> 0, awaits |-> None]
<1>1. PICK back \in SUBSET {t \in Remote!Tasks : phase[t] = "leased"} :
          Remote!Ledger!Assign(back, [t \in {u} |-> w])
  BY DEF Remote!LeaseTask
<1>2. /\ ~Remote!Busy(w)
      /\ mixed' = IF \E r \in wire : r.worker = w /\ r.task = u THEN mixed \cup {u} ELSE mixed
      /\ attempts[u] < MaxLeases
      /\ attempts' = [attempts EXCEPT ![u] = @ + 1]
      /\ exec' = [exec EXCEPT ![w] = e]
      /\ UNCHANGED <<stored, wire, offered, cycle, collector, unread, listing, run, seen>>
  BY DEF Remote!LeaseTask, Remote!Mixed, Remote!collectorVars
<1>21. mixed \subseteq mixed' /\ mixed' \subseteq Remote!Tasks BY <1>0, <1>2 DEF CycleTyped
<1>3. /\ \A t \in back : t \in Remote!Tasks /\ phase[t] = "leased"
      /\ phase[u] = "queued" \/ u \in back
      /\ phase' = [t \in Remote!Tasks |-> IF t = u THEN "leased"
                                          ELSE IF t \in back THEN "queued" ELSE phase[t]]
      /\ holder' = [t \in Remote!Tasks |-> IF t = u THEN w
                                           ELSE IF t \in back THEN None ELSE holder[t]]
      /\ closed' = closed
  BY <1>1 DEF Remote!Ledger!Assign
<1>4. attempts[u] + 1 \in 1 .. MaxLeases
  BY <1>0, <1>2, CycleConstants DEF CycleTyped
<1>5. /\ e \in Remote!Execution /\ e.task = u /\ e.todo = Remote!Pages /\ e.index = 0
      /\ e.awaits = None
  BY <1>4, CycleConstants DEF Remote!Execution
<1> HIDE DEF e
<1>6. exec'[w] = e BY <1>0, <1>2 DEF CycleTyped
<1>7. CycleTyped'
  <2>1. attempts' \in [Remote!Tasks -> 0 .. MaxLeases]
    BY <1>0, <1>2, <1>4 DEF CycleTyped
  <2>2. /\ phase' \in [Remote!Tasks -> Remote!Ledger!Phases]
        /\ holder' \in [Remote!Tasks -> Workers \cup {None}]
    BY <1>0, <1>3 DEF CycleTyped, Remote!Ledger!Phases
  <2> QED BY <1>0, <1>2, <1>21, <1>3, <1>5, <2>1, <2>2 DEF CycleTyped
<1>8. wire \subseteq Remote!Request BY <1>0 DEF CycleTyped
<1>9. \A v \in Workers : WorkerInv(v) BY <1>0, <1>8, EachWorker
<1>10. /\ \A s : Remote!Offers(s)' = Remote!Offers(s)
       /\ \A s, p : Remote!Rank(s, p)' = Remote!Rank(s, p)
  BY <1>2, RankStays
<1>11. WorkerInv(w)'
  <2>1. Remote!Offers(u[1]) \ Remote!Pages = {} BY DEF Remote!Offers
  <2>2. Remote!Cardinality({}) = 0 /\ Remote!Cardinality(Remote!Pages) = NumPages
    BY SameCard, PagesFinite, FS_EmptySet
  <2>3. OrderOf(w)'
    <3>1. Remote!Cardinality(e.todo) + e.index <= NumPages
      BY <1>5, <2>2, CycleConstants
    <3>2. \A q \in Remote!Pages : q \in e.todo BY <1>5
    <3>3. e.index = Remote!Cardinality(Remote!Offers(e.task[1]) \ e.todo)
      BY <1>5, <2>1, <2>2
    <3> QED BY <1>6, <1>10, <3>1, <3>2, <3>3 DEF OrderOf
  <2>4. u \notin mixed' => \A r \in wire : ~(r.worker = w /\ r.task = u) BY <1>2
  <2>41. OutstandingOf(w)' BY <1>2, <1>5, <1>6, <2>4 DEF OutstandingOf, Remote!About
  <2>42. SentOf(w)'
    <3> SUFFICES ASSUME NEW r \in wire, r.worker = w, r.task \notin mixed', Remote!Ours(r.task, w)'
                 PROVE  /\ r.kind = "batch" =>
                              /\ r.page \in Remote!Offers(r.task[1])
                              /\ r.index = Remote!Rank(r.task[1], r.page)
                        /\ r.kind = "complete" => \A x \in Remote!Offers(r.task[1]) :
                              stored[r.task][Remote!Rank(r.task[1], x)] # None
      BY <1>2, <1>10 DEF SentOf
    <3>1. r.task # u /\ r.task \in Remote!Tasks BY <1>8, <2>4 DEF Remote!Request
    <3>2. Remote!Ours(r.task, w) BY <1>3, <3>1, CycleConstants DEF Remote!Ours
    <3> QED BY <1>9, <1>21, <3>2 DEF WorkerInv, SentOf
  <2>5. StoredOf(w)' BY <1>5, <1>6, <1>10, <2>1 DEF StoredOf
  <2> QED BY <2>3, <2>41, <2>42, <2>5 DEF WorkerInv
<1>12. ASSUME NEW v \in Workers PROVE WorkerInv(v)'
  <2>1. CASE v = w BY <1>11, <2>1
  <2>2. CASE v # w
    <3>1. exec'[v] = exec[v] BY <1>0, <1>2, <2>2 DEF CycleTyped
    <3>2. \A t \in Remote!Tasks : Remote!Ours(t, v)' => Remote!Ours(t, v)
      BY <1>3, <2>2, CycleConstants DEF Remote!Ours
    <3> QED BY <1>0, <1>2, <1>21, <1>9, <3>1, <3>2, OthersKeep
  <2> QED BY <2>1, <2>2
<1>13. Remote!StoredInPlace'
  <2>1. \A t \in Remote!Tasks :
            /\ phase'[t] = "absent" => phase[t] = "absent"
            /\ phase'[t] \in {"queued", "leased"} => phase[t] \in {"queued", "leased"}
    BY <1>3
  <2> QED BY <1>2, <1>21, <1>10, <2>1 DEF Remote!CycleInv, Remote!StoredInPlace
<1>14. WorkInv' BY <1>2, <1>8, <1>12, <1>13, EachWorkerNext
<1>15. Remote!CompletedIsWhole' /\ Remote!CollectedIsSeen' /\ Remote!NoFalseDisappearance'
  <2>1. /\ \A t \in Remote!Tasks : phase[t] \in Remote!Terminal =>
              phase'[t] = phase[t] /\ stored'[t] = stored[t]
        /\ \A t \in Remote!Tasks : phase'[t] = "completed" => phase[t] = "completed"
    BY <1>2, <1>3 DEF Remote!Terminal
  <2> QED BY <1>0, <1>2, <1>21, <2>1, WorkKeepsCollected DEF Remote!CycleInv
<1> QED BY <1>7, <1>14, <1>15, CycleTypes DEF Remote!CycleInv, WorkInv

LEMMA WorkKeeps ==
    ASSUME Remote!CycleInv, NEW w \in Workers, Remote!Work(w) PROVE Remote!CycleInv'
<1>1. CASE \E t \in Remote!Tasks : Remote!LeaseTask(w, t) BY <1>1, LeaseKeeps
<1>2. CASE \E p \in Remote!Pages : Remote!FetchPage(w, p) BY <1>2, FetchKeeps
<1>3. CASE Remote!SendComplete(w) BY <1>3, SendCompleteKeeps
<1>4. CASE Remote!SourceFails(w)
  BY <1>4, FailingKeeps DEF Remote!SourceFails, Remote!Free, Remote!ledgerVars,
     Remote!collectorVars
<1>5. CASE Remote!GiveUp(w)
  BY <1>5, FailingKeeps, IdleKeeps DEF Remote!GiveUp, Remote!ledgerVars, Remote!collectorVars
<1>6. CASE Remote!WorkerCrash(w)
  BY <1>6, IdleKeeps DEF Remote!WorkerCrash, Remote!ledgerVars, Remote!collectorVars
<1> QED BY <1>1, <1>2, <1>3, <1>4, <1>5, <1>6 DEF Remote!Work
\* What becomes of the sender when the coordinator has executed its request.
LEMMA ServedKeeps ==
    ASSUME Remote!CycleInv, NEW r \in wire, NEW e,
           UNCHANGED <<closed, attempts, offered, mixed>>,
           UNCHANGED <<cycle, collector, unread, listing, run, seen>>,
           phase' \in [Remote!Tasks -> Remote!Ledger!Phases],
           holder' \in [Remote!Tasks -> Workers \cup {None}],
           stored' \in [Remote!Tasks -> [Remote!Indices -> Remote!Pages \cup {None}]],
           \A t \in Remote!Tasks, v \in Workers : Remote!Ours(t, v)' => Remote!Ours(t, v),
           \A t \in Remote!Tasks : phase[t] \in Remote!Terminal =>
              phase'[t] = phase[t] /\ stored'[t] = stored[t],
           \A t \in Remote!Tasks : \A i \in Remote!Indices :
              stored[t][i] # None => stored'[t][i] # None,
           \A t \in Remote!Tasks \ mixed' : phase'[t] = "completed" /\ phase[t] # "completed" =>
              \A l \in offered : l[1] = t[1] =>
                 \E i \in Remote!Indices : stored'[t][i] = l[2],
           Remote!StoredInPlace',
           exec' = [exec EXCEPT ![r.worker] = e],
           e \in Remote!Execution \cup {Remote!Idle},
           wire' \subseteq Remote!Request,
           \A q \in wire' : q \in wire \/ q.worker = r.worker,
           WorkerInv(r.worker)'
    PROVE  Remote!CycleInv'
<1>0. CycleTyped /\ Remote!TypeOK /\ WorkInv BY CycleTypes DEF Remote!CycleInv, WorkInv
<1>1. CycleTyped' BY <1>0 DEF CycleTyped
<1>2. wire \subseteq Remote!Request BY <1>0 DEF CycleTyped
<1>3. r.worker \in Workers BY <1>2 DEF Remote!Request
<1>4. \A v \in Workers : WorkerInv(v) BY <1>0, <1>2, EachWorker
<1>5. ASSUME NEW v \in Workers PROVE WorkerInv(v)'
  <2>1. CASE v = r.worker BY <2>1
  <2>2. CASE v # r.worker
    <3>1. exec'[v] = exec[v] BY <1>0, <2>2 DEF CycleTyped
    <3> QED BY <1>0, <1>4, <2>2, <3>1, OthersKeep
  <2> QED BY <2>1, <2>2
<1>6. WorkInv' BY <1>5, EachWorkerNext
<1>7. Remote!CompletedIsWhole' /\ Remote!CollectedIsSeen' /\ Remote!NoFalseDisappearance'
  BY <1>0, WorkKeepsCollected DEF Remote!CycleInv
<1> QED BY <1>1, <1>6, <1>7, CycleTypes DEF Remote!CycleInv, WorkInv

LEMMA RequestTyped ==
    ASSUME Remote!TypeOK, NEW r \in wire
    PROVE  /\ r \in Remote!Request /\ r.worker \in Workers /\ r.task \in Remote!Tasks
           /\ r.kind \in {"batch", "complete", "fail", "requeue"}
           /\ r.attempt \in 1 .. MaxLeases
           /\ r.index \in Remote!Indices \cup {None} /\ r.page \in Remote!Pages \cup {None}
           /\ exec[r.worker] \in Remote!Execution \cup {Remote!Idle}
BY CycleTypes DEF CycleTyped, Remote!Request, Remote!Kinds

LEMMA WaitingIsBusy ==
    ASSUME Remote!TypeOK, NEW r \in wire, Remote!Waiting(r)
    PROVE  Remote!Busy(r.worker) /\ exec[r.worker].task = r.task
BY RequestTyped, CycleConstants DEF Remote!Waiting, Remote!Busy

\* A request that waits no longer, or was not waited for, is gone: what is left of
\* its worker's is as it was.
LEMMA RestKeeps ==
    ASSUME Remote!CycleInv, NEW r \in wire, NEW e,
           UNCHANGED <<offered, mixed>>,
           stored' \in [Remote!Tasks -> [Remote!Indices -> Remote!Pages \cup {None}]],
           \A t \in Remote!Tasks, v \in Workers : Remote!Ours(t, v)' => Remote!Ours(t, v),
           \A t \in Remote!Tasks : \A i \in Remote!Indices :
              stored[t][i] # None => stored'[t][i] # None,
           exec' = [exec EXCEPT ![r.worker] = e],
           e = exec[r.worker] \/ e = Remote!Idle,
           wire' = wire \ {r}
    PROVE  WorkerInv(r.worker)'
<1>0. CycleTyped /\ Remote!TypeOK /\ WorkInv BY CycleTypes DEF Remote!CycleInv, WorkInv
<1>1. r.worker \in Workers BY <1>0, RequestTyped
<1>2. WorkerInv(r.worker) BY <1>0, <1>1, EachWorker DEF CycleTyped
<1>3. exec'[r.worker] = e BY <1>0, <1>1 DEF CycleTyped
<1>4. CASE e = exec[r.worker] BY <1>0, <1>1, <1>2, <1>3, <1>4, OthersKeep
<1>5. CASE e = Remote!Idle
  <2>1. ~Remote!Busy(r.worker)' BY <1>3, <1>5, IdleIsTyped DEF Remote!Busy
  <2>2. /\ \A s : Remote!Offers(s)' = Remote!Offers(s)
        /\ \A s, p : Remote!Rank(s, p)' = Remote!Rank(s, p)
        /\ \A s : \A p \in Remote!Offers(s) : Remote!Rank(s, p) \in Remote!Indices
    BY RankStays, RankIsIndex DEF Remote!Offers
  <2>3. \A q \in wire' : q \in wire /\ q.task \in Remote!Tasks BY <1>0, RequestTyped
  <2>4. SentOf(r.worker)' BY <1>1, <1>2, <2>2, <2>3 DEF WorkerInv, SentOf
  <2> QED BY <2>1, <2>4 DEF WorkerInv, OrderOf, OutstandingOf, StoredOf
<1> QED BY <1>4, <1>5
LEMMA ServeBatchKeeps ==
    ASSUME Remote!CycleInv, NEW r \in wire, Remote!ServeBatch(r),
           UNCHANGED <<attempts, offered, mixed>>,
           UNCHANGED <<cycle, collector, unread, listing, run, seen>>
    PROVE  Remote!CycleInv'
<1>0. CycleTyped /\ Remote!TypeOK /\ WorkInv BY CycleTypes DEF Remote!CycleInv, WorkInv
<1> DEFINE w == r.worker
           u == r.task
           e == IF Remote!Waiting(r) THEN [exec[w] EXCEPT !.awaits = None] ELSE exec[w]
<1>1. /\ w \in Workers /\ u \in Remote!Tasks
      /\ r.index \in Remote!Indices \cup {None} /\ r.page \in Remote!Pages \cup {None}
  BY <1>0, RequestTyped
<1>2. WorkerInv(w) BY <1>0, <1>1, EachWorker DEF CycleTyped
<1>3. /\ r.kind = "batch" /\ wire' = wire \ {r}
      /\ UNCHANGED <<phase, holder, closed>>
      /\ stored' = IF Remote!LeaseValid(r) /\ stored[u][r.index] = None
                   THEN [stored EXCEPT ![u][r.index] = r.page] ELSE stored
      /\ exec' = IF Remote!Waiting(r) THEN [exec EXCEPT ![w] = [exec[w] EXCEPT !.awaits = None]]
                 ELSE exec
  BY DEF Remote!ServeBatch, Remote!Ledger!Deliver, Remote!Answered
<1>4. exec' = [exec EXCEPT ![w] = e]
  <2>1. CASE Remote!Waiting(r) BY <1>3, <2>1
  <2>2. CASE ~Remote!Waiting(r) BY <1>0, <1>1, <1>3, <2>2 DEF CycleTyped
  <2> QED BY <2>1, <2>2
<1>5. Remote!LeaseValid(r) <=> Remote!Ours(u, w) BY DEF Remote!LeaseValid, Remote!Ours
<1>6. Remote!LeaseValid(r) /\ u \notin mixed =>
          /\ r.page \in Remote!Offers(u[1]) /\ r.page \in Remote!Pages
          /\ r.index = Remote!Rank(u[1], r.page) /\ r.index \in Remote!Indices
  BY <1>2, <1>3, <1>5, RankIsIndex DEF WorkerInv, SentOf, Remote!Offers
<1>7. \A t \in Remote!Tasks : \A i \in Remote!Indices :
          \/ stored'[t][i] = stored[t][i]
          \/ Remote!LeaseValid(r) /\ t = u /\ i = r.index /\ stored'[t][i] = r.page
  <2>1. CASE Remote!LeaseValid(r) /\ stored[u][r.index] = None
    <3>1. stored' = [stored EXCEPT ![u][r.index] = r.page] BY <1>3, <2>1
    <3> QED BY <1>0, <1>1, <2>1, <3>1 DEF CycleTyped
  <2>2. CASE ~(Remote!LeaseValid(r) /\ stored[u][r.index] = None) BY <1>3, <2>2
  <2> QED BY <2>1, <2>2
<1>8. \A t \in Remote!Tasks : \A i \in Remote!Indices :
          stored[t][i] # None => stored'[t][i] # None
  <2>1. CASE Remote!LeaseValid(r) /\ stored[u][r.index] = None BY <1>7, <2>1
  <2>2. CASE ~(Remote!LeaseValid(r) /\ stored[u][r.index] = None) BY <1>3, <2>2
  <2> QED BY <2>1, <2>2
<1>9. Remote!LeaseValid(r) /\ u \notin mixed => stored'[u][r.index] # None
  <2> SUFFICES ASSUME Remote!LeaseValid(r), u \notin mixed PROVE stored'[u][r.index] # None OBVIOUS
  <2>1. r.page # None BY <1>6, CycleConstants DEF Remote!Pages
  <2>2. CASE stored[u][r.index] = None
    BY <1>0, <1>1, <1>3, <1>6, <2>1, <2>2 DEF CycleTyped
  <2>3. CASE stored[u][r.index] # None BY <1>1, <1>6, <1>8, <2>3
  <2> QED BY <2>2, <2>3
<1>10. stored' \in [Remote!Tasks -> [Remote!Indices -> Remote!Pages \cup {None}]]
  <2>1. CASE Remote!LeaseValid(r) /\ stored[u][r.index] = None
    BY <1>0, <1>1, <1>3, <2>1 DEF CycleTyped
  <2>2. CASE ~(Remote!LeaseValid(r) /\ stored[u][r.index] = None)
    BY <1>0, <1>3, <2>2 DEF CycleTyped
  <2> QED BY <2>1, <2>2
<1>11. \A t \in Remote!Tasks : phase[t] \in Remote!Terminal => stored'[t] = stored[t]
  <2>1. Remote!LeaseValid(r) => phase[u] = "leased" BY DEF Remote!LeaseValid
  <2> QED BY <1>0, <1>3, <2>1 DEF CycleTyped, Remote!Terminal
<1>12. Remote!StoredInPlace'
  <2>1. Remote!LeaseValid(r) => phase[u] = "leased" BY DEF Remote!LeaseValid
  <2> QED BY <1>3, <1>6, <1>7, <2>1, RankStays DEF Remote!CycleInv, Remote!StoredInPlace
<1>13. \A t \in Remote!Tasks, v \in Workers : Remote!Ours(t, v)' => Remote!Ours(t, v)
  BY <1>3 DEF Remote!Ours
<1>14. WorkerInv(w)' /\ e \in Remote!Execution \cup {Remote!Idle}
  <2>1. CASE ~Remote!Waiting(r)
    <3>1. e = exec[w] BY <2>1
    <3> HIDE DEF e, w
    <3>2. WorkerInv(r.worker)'
      BY <1>3, <1>4, <1>8, <1>10, <1>13, <3>1, RestKeeps DEF w
    <3> QED BY <1>0, <1>1, <3>1, <3>2 DEF CycleTyped, w
  <2>2. CASE Remote!Waiting(r)
    <3>1. Remote!Busy(w) /\ exec[w].task = u /\ exec[w].awaits = "batch"
      BY <1>0, <1>3, <2>2, WaitingIsBusy DEF Remote!Waiting
    <3>2. exec[w] \in Remote!Execution BY <1>0, <1>1, <3>1, BusyTyped
    <3>3. /\ e \in Remote!Execution /\ e.task = u /\ e.attempt = exec[w].attempt
          /\ e.todo = exec[w].todo /\ e.index = exec[w].index /\ e.awaits = None
      BY <2>2, <3>1, <3>2 DEF Remote!Execution
    <3> HIDE DEF e
    <3>4. exec'[w] = e BY <1>0, <1>1, <1>4 DEF CycleTyped
    <3>5. /\ \A s : Remote!Offers(s)' = Remote!Offers(s)
          /\ \A s, p : Remote!Rank(s, p)' = Remote!Rank(s, p)
          /\ \A t : Remote!Ours(t, w)' = Remote!Ours(t, w)
      BY <1>3, RankStays DEF Remote!Ours
    <3>6. OrderOf(w)' BY <1>2, <3>1, <3>3, <3>4, <3>5 DEF WorkerInv, OrderOf
    <3>7. u \notin mixed => \A q \in wire' : ~Remote!About(q, w)
      BY <1>2, <1>3, <3>1 DEF WorkerInv, OutstandingOf, Remote!About
    <3>8. OutstandingOf(w)'
      BY <1>3, <3>1, <3>3, <3>4, <3>7 DEF OutstandingOf, Remote!About
    <3>81. SentOf(w)'
      <4> SUFFICES ASSUME NEW q \in wire', q.worker = w, q.task \notin mixed, Remote!Ours(q.task, w)
                   PROVE  /\ q.kind = "batch" =>
                                /\ q.page \in Remote!Offers(q.task[1])
                                /\ q.index = Remote!Rank(q.task[1], q.page)
                          /\ q.kind = "complete" => \A x \in Remote!Offers(q.task[1]) :
                                stored'[q.task][Remote!Rank(q.task[1], x)] # None
        BY <3>5 DEF SentOf
      <4>1. q \in wire /\ q.task \in Remote!Tasks BY <1>0, <1>3, RequestTyped
      <4>2. \A x \in Remote!Offers(q.task[1]) : Remote!Rank(q.task[1], x) \in Remote!Indices
        BY RankIsIndex DEF Remote!Offers
      <4> QED BY <1>2, <1>8, <4>1, <4>2 DEF WorkerInv, SentOf
    <3>9. u \notin mixed => r.index + 1 = exec[w].index
      BY <1>2, <1>3, <2>2, <3>1 DEF WorkerInv, OutstandingOf, Remote!About
    <3>10. StoredOf(w)'
      <4>1. ASSUME u \notin mixed, Remote!Ours(u, w), NEW p \in Remote!Offers(u[1]) \ exec[w].todo
            PROVE  stored'[u][Remote!Rank(u[1], p)] # None
        <5>1. Remote!Rank(u[1], p) \in Remote!Indices BY RankIsIndex DEF Remote!Offers
        <5>2. \/ stored[u][Remote!Rank(u[1], p)] # None
              \/ Remote!Rank(u[1], p) + 1 = exec[w].index
          BY <1>2, <3>1, <4>1 DEF WorkerInv, StoredOf
        <5>3. CASE stored[u][Remote!Rank(u[1], p)] # None BY <1>1, <1>8, <5>1, <5>3
        <5>4. CASE Remote!Rank(u[1], p) + 1 = exec[w].index
          <6>1. r.index \in Int /\ Remote!Rank(u[1], p) \in Int
            BY <1>5, <1>6, <4>1, <5>1 DEF Remote!Indices
          <6>2. Remote!Rank(u[1], p) = r.index BY <3>9, <4>1, <5>4, <6>1
          <6> QED BY <1>5, <1>9, <4>1, <6>2
        <5> QED BY <5>2, <5>3, <5>4
      <4>2. /\ exec'[w].task = u /\ exec'[w].todo = exec[w].todo /\ mixed' = mixed
            /\ Remote!Ours(u, w)' = Remote!Ours(u, w)
            /\ Remote!Offers(u[1])' = Remote!Offers(u[1])
            /\ \A p : Remote!Rank(u[1], p)' = Remote!Rank(u[1], p)
        BY <3>3, <3>4, <3>5
      <4> HIDE DEF u, w
      <4> QED BY <4>1, <4>2 DEF StoredOf
    <3> QED BY <3>3, <3>6, <3>8, <3>81, <3>10 DEF WorkerInv
  <2> QED BY <2>1, <2>2
<1>15. wire' \subseteq Remote!Request /\ \A q \in wire' : q \in wire
  BY <1>0, <1>3 DEF CycleTyped
<1> HIDE DEF e, w, u
<1>16. WorkerInv(r.worker)' /\ exec' = [exec EXCEPT ![r.worker] = e]
  BY <1>4, <1>14 DEF w
<1>17. /\ phase' \in [Remote!Tasks -> Remote!Ledger!Phases]
       /\ holder' \in [Remote!Tasks -> Workers \cup {None}]
  BY <1>0, <1>3 DEF CycleTyped
<1> QED
  BY <1>3, <1>8, <1>10, <1>11, <1>12, <1>13, <1>14, <1>15, <1>16, <1>17, ServedKeeps

\* When the sender is released, or was not waiting.
LEMMA ReleasingKeeps ==
    ASSUME Remote!CycleInv, NEW r \in wire, Remote!Ours(r.task, r.worker),
           NEW after \in {"queued", "completed", "failed"},
           after = "completed" => r.kind = "complete",
           UNCHANGED <<closed, stored, attempts, offered, mixed>>,
           UNCHANGED <<cycle, collector, unread, listing, run, seen>>,
           phase' = [t \in Remote!Tasks |-> IF t = r.task THEN after ELSE phase[t]],
           holder' = [t \in Remote!Tasks |-> IF t = r.task THEN None ELSE holder[t]],
           exec' = Remote!Answered(r, Remote!Idle), wire' = wire \ {r}
    PROVE  Remote!CycleInv'
<1>0. CycleTyped /\ Remote!TypeOK /\ WorkInv BY CycleTypes DEF Remote!CycleInv, WorkInv
<1> DEFINE e == IF Remote!Waiting(r) THEN Remote!Idle ELSE exec[r.worker]
           u == r.task
<1>1. r.worker \in Workers /\ r.task \in Remote!Tasks /\ phase[r.task] = "leased"
  BY <1>0, RequestTyped DEF Remote!Ours
<1>2. exec' = [exec EXCEPT ![r.worker] = e]
  <2>1. CASE Remote!Waiting(r) BY <2>1 DEF Remote!Answered
  <2>2. CASE ~Remote!Waiting(r) BY <1>0, <1>1, <2>2 DEF CycleTyped, Remote!Answered
  <2> QED BY <2>1, <2>2
<1>3. e = exec[r.worker] \/ e = Remote!Idle OBVIOUS
<1> HIDE DEF e
<1>4. e \in Remote!Execution \cup {Remote!Idle} BY <1>0, <1>1, <1>3 DEF CycleTyped
<1>5. /\ phase' \in [Remote!Tasks -> Remote!Ledger!Phases]
      /\ holder' \in [Remote!Tasks -> Workers \cup {None}]
  BY <1>0 DEF CycleTyped, Remote!Ledger!Phases
<1>6. \A t \in Remote!Tasks, v \in Workers : Remote!Ours(t, v)' => Remote!Ours(t, v)
  BY CycleConstants DEF Remote!Ours
<1>7. stored' \in [Remote!Tasks -> [Remote!Indices -> Remote!Pages \cup {None}]]
  BY <1>0 DEF CycleTyped
<1>8. WorkerInv(r.worker)' BY <1>2, <1>3, <1>6, <1>7, RestKeeps
<1>9. \A t \in Remote!Tasks : phase[t] \in Remote!Terminal =>
          phase'[t] = phase[t] /\ stored'[t] = stored[t]
  BY <1>1 DEF Remote!Terminal
<1>10. Remote!StoredInPlace'
  <2>1. \A t \in Remote!Tasks :
            /\ phase'[t] = "absent" => phase[t] = "absent"
            /\ phase'[t] \in {"queued", "leased"} => phase[t] \in {"queued", "leased"}
    BY <1>1
  <2> QED BY <2>1, RankStays DEF Remote!CycleInv, Remote!StoredInPlace
<1>11. ASSUME NEW t \in Remote!Tasks \ mixed', phase'[t] = "completed", phase[t] # "completed",
              NEW l \in offered, l[1] = t[1]
       PROVE  \E i \in Remote!Indices : stored'[t][i] = l[2]
  <2>1. t = u /\ r.kind = "complete" /\ u \notin mixed BY <1>11
  <2>2. l[2] \in Remote!Offers(u[1]) /\ l[2] \in Remote!Pages
    <3>1. l \in Remote!Listings BY <1>0 DEF CycleTyped
    <3>2. l[2] \in Remote!Pages /\ l = <<l[1], l[2]>> BY <3>1 DEF Remote!Listings
    <3>3. l[1] = u[1] BY <1>11, <2>1
    <3> QED BY <3>2, <3>3 DEF Remote!Offers
  <2> DEFINE i == Remote!Rank(u[1], l[2])
  <2>3. i \in Remote!Indices BY <2>2, RankIsIndex
  <2>4. stored[u][i] # None
    BY <2>1, <2>2 DEF Remote!CycleInv, Remote!SentInPlace
  <2> HIDE DEF i
  <2>5. stored[u][i] \in Remote!Offers(u[1]) /\ i = Remote!Rank(u[1], stored[u][i])
    BY <1>1, <2>1, <2>3, <2>4 DEF Remote!CycleInv, Remote!StoredInPlace
  <2>6. stored[u][i] = l[2] BY <2>2, <2>5, RankInjective DEF i
  <2> QED BY <2>1, <2>3, <2>6
<1>12. wire' \subseteq Remote!Request BY <1>0 DEF CycleTyped
<1>13. /\ \A t \in Remote!Tasks : \A i \in Remote!Indices :
              stored[t][i] # None => stored'[t][i] # None
       /\ \A q \in wire' : q \in wire \/ q.worker = r.worker
  OBVIOUS
<1>14. \A t \in Remote!Tasks \ mixed' : phase'[t] = "completed" /\ phase[t] # "completed" =>
           \A l \in offered : l[1] = t[1] =>
              \E i \in Remote!Indices : stored'[t][i] = l[2]
  BY <1>11
<1> QED
  BY <1>2, <1>4, <1>5, <1>6, <1>7, <1>8, <1>9, <1>10, <1>12, <1>13, <1>14, ServedKeeps
\* A request that has no effect on the tasks, and whose sender is released or was
\* not waiting.
LEMMA IgnoredKeeps ==
    ASSUME Remote!CycleInv, NEW r \in wire,
           UNCHANGED <<phase, holder, closed, stored, attempts, offered, mixed>>,
           UNCHANGED <<cycle, collector, unread, listing, run, seen>>,
           exec' = exec \/ exec' = [exec EXCEPT ![r.worker] = Remote!Idle],
           wire' = wire \ {r}
    PROVE  Remote!CycleInv'
<1>0. CycleTyped /\ Remote!TypeOK BY CycleTypes DEF Remote!CycleInv
<1>1. r.worker \in Workers BY <1>0, RequestTyped
<1>2. PICK e \in {exec[r.worker], Remote!Idle} : exec' = [exec EXCEPT ![r.worker] = e]
  BY <1>0, <1>1 DEF CycleTyped
<1>3. e \in Remote!Execution \cup {Remote!Idle} BY <1>0, <1>1, <1>2 DEF CycleTyped
<1>4. stored' \in [Remote!Tasks -> [Remote!Indices -> Remote!Pages \cup {None}]]
  BY <1>0 DEF CycleTyped
<1>5. \A t \in Remote!Tasks, v \in Workers : Remote!Ours(t, v)' => Remote!Ours(t, v)
  BY DEF Remote!Ours
<1>6. WorkerInv(r.worker)' BY <1>2, <1>4, <1>5, RestKeeps
<1>7. wire' \subseteq Remote!Request BY <1>0 DEF CycleTyped
<1>8. mixed \subseteq mixed' /\ mixed' \subseteq Remote!Tasks BY <1>0 DEF CycleTyped
<1> QED BY <1>1, <1>2, <1>3, <1>6, <1>7, <1>8, WorkerKeeps

LEMMA ServeCompleteKeeps ==
    ASSUME Remote!CycleInv, NEW r \in wire, Remote!ServeComplete(r),
           UNCHANGED <<attempts, offered, mixed>>,
           UNCHANGED <<cycle, collector, unread, listing, run, seen>>
    PROVE  Remote!CycleInv'
<1>0. CycleTyped /\ Remote!TypeOK /\ WorkInv BY CycleTypes DEF Remote!CycleInv, WorkInv
<1>1. r.worker \in Workers /\ r.task \in Remote!Tasks /\ r.kind = "complete"
      /\ stored' = stored
  BY <1>0, RequestTyped DEF Remote!ServeComplete
<1>2. CASE Remote!LeaseValid(r)
  <2>1. /\ Remote!Ours(r.task, r.worker)
        /\ phase' = [phase EXCEPT ![r.task] = "completed"]
        /\ holder' = [holder EXCEPT ![r.task] = None] /\ closed' = closed
        /\ exec' = Remote!Answered(r, Remote!Idle) /\ wire' = wire \ {r}
    BY <1>2 DEF Remote!ServeComplete, Remote!LeaseValid, Remote!Ours, Remote!Ledger!Finish
  <2>2. /\ phase' = [t \in Remote!Tasks |-> IF t = r.task THEN "completed" ELSE phase[t]]
        /\ holder' = [t \in Remote!Tasks |-> IF t = r.task THEN None ELSE holder[t]]
    BY <1>0, <1>1, <2>1 DEF CycleTyped
  <2>3. "completed" \in {"queued", "completed", "failed"} OBVIOUS
  <2> QED BY <1>1, <2>1, <2>2, <2>3, ReleasingKeeps
<1>3. CASE ~Remote!LeaseValid(r) /\ ~Remote!Waiting(r)
  <2>1. exec' = exec /\ wire' = wire \ {r} /\ UNCHANGED <<phase, holder, closed>>
    BY <1>3 DEF Remote!ServeComplete, Remote!Answered
  <2> QED BY <1>1, <2>1, IgnoredKeeps
<1>4. CASE ~Remote!LeaseValid(r) /\ Remote!Waiting(r)
  <2> DEFINE w == r.worker
             k == Remote!FailKind(w)
             e == [exec[w] EXCEPT !.awaits = k]
             new == [kind |-> k, task |-> exec[w].task, worker |-> w,
                     attempt |-> exec[w].attempt, index |-> None, page |-> None]
  <2>1. /\ exec' = [exec EXCEPT ![w] = e]
        /\ wire' = Remote!Sent(w, k, None, None) \ {r}
        /\ UNCHANGED <<phase, holder, closed>>
    BY <1>4 DEF Remote!ServeComplete, Remote!Answered
  <2>2. k \in {"fail", "requeue"} BY DEF Remote!FailKind
  <2>3. /\ Remote!Busy(w) /\ exec[w].task = r.task /\ exec[w].awaits = "complete"
        /\ exec[w] \in Remote!Execution
    BY <1>0, <1>1, <1>4, WaitingIsBusy, BusyTyped DEF Remote!Waiting
  <2>4. /\ e \in Remote!Execution /\ e.task = exec[w].task /\ e.attempt = exec[w].attempt
        /\ e.todo = exec[w].todo /\ e.index = exec[w].index /\ e.awaits = k
    BY <2>2, <2>3 DEF Remote!Execution, Remote!Kinds
  <2>5. new.kind = k /\ new.worker = w OBVIOUS
  <2>6. /\ Remote!Sent(w, k, None, None) \subseteq Remote!Request
        /\ \A q \in Remote!Sent(w, k, None, None) : q \in wire \/ q = new
    BY <1>0, <1>1, <2>2, <2>3, SentIsTyped
  <2> HIDE DEF e, k, new
  <2>7. exec'[w] = e BY <1>0, <1>1, <2>1 DEF CycleTyped
  <2>8. WorkerInv(w) BY <1>0, <1>1, EachWorker DEF CycleTyped
  <2>9. \A q \in wire' : q \in wire \/ q = new BY <2>1, <2>6
  <2>10. /\ \A s : Remote!Offers(s)' = Remote!Offers(s)
         /\ \A s, p : Remote!Rank(s, p)' = Remote!Rank(s, p)
         /\ \A t : Remote!Ours(t, w)' = Remote!Ours(t, w)
    BY <2>1, RankStays DEF Remote!Ours
  <2>11. OrderOf(w)' BY <2>3, <2>4, <2>7, <2>8, <2>10 DEF WorkerInv, OrderOf
  <2>12. OutstandingOf(w)'
    BY <2>2, <2>4, <2>7, CycleConstants DEF OutstandingOf, Remote!Waiting, Remote!About
  <2>13. SentOf(w)' BY <1>1, <2>2, <2>5, <2>8, <2>9, <2>10 DEF WorkerInv, SentOf
  <2>14. StoredOf(w)' BY <2>2, <2>4, <2>7 DEF StoredOf
  <2>15. WorkerInv(w)' BY <2>11, <2>12, <2>13, <2>14 DEF WorkerInv
  <2>16. /\ wire' \subseteq Remote!Request
         /\ \A q \in wire' : q \in wire \/ q.worker = w
    BY <2>1, <2>5, <2>6
  <2>17. mixed \subseteq mixed' /\ mixed' \subseteq Remote!Tasks BY <1>0 DEF CycleTyped
  <2> QED BY <1>1, <2>1, <2>4, <2>15, <2>16, <2>17, WorkerKeeps
<1> QED BY <1>2, <1>3, <1>4

LEMMA ServeFailKeeps ==
    ASSUME Remote!CycleInv, NEW r \in wire, Remote!ServeFail(r),
           UNCHANGED <<attempts, offered, mixed>>,
           UNCHANGED <<cycle, collector, unread, listing, run, seen>>
    PROVE  Remote!CycleInv'
<1>0. CycleTyped /\ Remote!TypeOK BY CycleTypes DEF Remote!CycleInv
<1>1. /\ r.worker \in Workers /\ r.task \in Remote!Tasks /\ r.kind \in {"fail", "requeue"}
      /\ stored' = stored /\ exec' = Remote!Answered(r, Remote!Idle) /\ wire' = wire \ {r}
  BY <1>0, RequestTyped DEF Remote!ServeFail
<1>2. CASE Remote!LeaseValid(r)
  <2>1. Remote!Ours(r.task, r.worker) BY <1>2 DEF Remote!LeaseValid, Remote!Ours
  <2>2. CASE r.kind = "requeue"
    <3>1. /\ phase' = [t \in Remote!Tasks |-> IF t = r.task THEN "queued" ELSE phase[t]]
          /\ holder' = [t \in Remote!Tasks |-> IF t = r.task THEN None ELSE holder[t]]
          /\ closed' = closed
      BY <1>2, <2>2 DEF Remote!ServeFail, Remote!Ledger!Assign
    <3>2. "queued" \in {"queued", "completed", "failed"} OBVIOUS
    <3> QED BY <1>1, <2>1, <3>1, <3>2, ReleasingKeeps
  <2>3. CASE r.kind = "fail"
    <3>1. /\ phase' = [phase EXCEPT ![r.task] = "failed"]
          /\ holder' = [holder EXCEPT ![r.task] = None] /\ closed' = closed
      BY <1>2, <2>3 DEF Remote!ServeFail, Remote!Ledger!Finish
    <3>2. /\ phase' = [t \in Remote!Tasks |-> IF t = r.task THEN "failed" ELSE phase[t]]
          /\ holder' = [t \in Remote!Tasks |-> IF t = r.task THEN None ELSE holder[t]]
      BY <1>0, <1>1, <3>1 DEF CycleTyped
    <3>3. "failed" \in {"queued", "completed", "failed"} OBVIOUS
    <3> QED BY <1>1, <2>1, <3>1, <3>2, <3>3, ReleasingKeeps
  <2> QED BY <1>1, <2>2, <2>3
<1>3. CASE ~Remote!LeaseValid(r)
  <2>1. UNCHANGED <<phase, holder, closed>> BY <1>3 DEF Remote!ServeFail
  <2>2. exec' = exec \/ exec' = [exec EXCEPT ![r.worker] = Remote!Idle]
    BY <1>1 DEF Remote!Answered
  <2> QED BY <1>1, <2>1, <2>2, IgnoredKeeps
<1> QED BY <1>2, <1>3

LEMMA WithdrawKeeps ==
    ASSUME Remote!CycleInv, NEW l \in Remote!Listings, Remote!Withdraw(l)
    PROVE  Remote!CycleInv'
<1>0. CycleTyped /\ Remote!TypeOK BY CycleTypes DEF Remote!CycleInv
<1>1. /\ mixed' = mixed \cup {t \in Remote!Tasks : t[1] = l[1] /\ phase[t] \in {"queued", "leased"}}
      /\ offered' = offered \ {l}
      /\ UNCHANGED <<phase, holder, closed, stored, attempts, exec, wire>>
      /\ UNCHANGED <<cycle, collector, unread, listing, run, seen>>
  BY DEF Remote!Withdraw, Remote!Mixed, Remote!ledgerVars, Remote!collectorVars
<1>2. CycleTyped' BY <1>0, <1>1 DEF CycleTyped
<1>3. ASSUME NEW t \in Remote!Tasks \ mixed', phase[t] \in {"queued", "leased"}
      PROVE  /\ t \notin mixed /\ Remote!Offers(t[1])' = Remote!Offers(t[1])
             /\ \A p : Remote!Rank(t[1], p)' = Remote!Rank(t[1], p)
  <2>1. t[1] # l[1] /\ t \notin mixed BY <1>1, <1>3
  <2>2. l = <<l[1], l[2]>> BY DEF Remote!Listings
  <2>3. Remote!Offers(t[1])' = Remote!Offers(t[1]) BY <1>1, <2>1, <2>2 DEF Remote!Offers
  <2> QED BY <2>1, <2>3 DEF Remote!Rank
<1>31. \A t, w : Remote!Ours(t, w)' = Remote!Ours(t, w) BY <1>1 DEF Remote!Ours
<1>32. \A t, w : Remote!Ours(t, w) => phase[t] \in {"queued", "leased"} BY DEF Remote!Ours
<1>33. mixed \subseteq mixed' BY <1>1
<1>4. /\ \A r \in wire : r.task \in Remote!Tasks /\ r.worker \in Workers
      /\ \A w \in Workers : Remote!Busy(w) => exec[w].task \in Remote!Tasks
  BY <1>0, BusyTyped, RequestTyped
<1>5. \A w \in Workers : Remote!Busy(w)' = Remote!Busy(w) BY <1>1 DEF Remote!Busy
<1>6. Remote!InPageOrder'
  BY <1>1, <1>3, <1>31, <1>32, <1>33, <1>4, <1>5 DEF Remote!CycleInv, Remote!InPageOrder
<1>7. Remote!OneOutstanding'
  BY <1>1, <1>33, <1>5 DEF Remote!CycleInv, Remote!OneOutstanding, Remote!About, Remote!Waiting, Remote!Busy
<1>8. Remote!StoredInPlace'
  BY <1>1, <1>3, <1>33 DEF Remote!CycleInv, Remote!StoredInPlace
<1>9. Remote!SentInPlace'
  <2> SUFFICES ASSUME NEW r \in wire, r.task \notin mixed', Remote!Ours(r.task, r.worker)'
               PROVE  /\ r.kind = "batch" =>
                            /\ r.page \in Remote!Offers(r.task[1])'
                            /\ r.index = Remote!Rank(r.task[1], r.page)'
                      /\ r.kind = "complete" => \A p \in Remote!Offers(r.task[1])' :
                            stored[r.task][Remote!Rank(r.task[1], p)'] # None
    BY <1>1 DEF Remote!SentInPlace
  <2>1. Remote!Ours(r.task, r.worker) BY <1>31
  <2>2. r.task \in Remote!Tasks \ mixed' /\ phase[r.task] \in {"queued", "leased"}
    BY <1>4, <1>32, <2>1
  <2>3. r.task \notin mixed /\ Remote!Offers(r.task[1])' = Remote!Offers(r.task[1])
        /\ \A p : Remote!Rank(r.task[1], p)' = Remote!Rank(r.task[1], p)
    BY <1>3, <2>2
  <2>4. /\ r.kind = "batch" =>
              r.page \in Remote!Offers(r.task[1]) /\ r.index = Remote!Rank(r.task[1], r.page)
        /\ r.kind = "complete" => \A p \in Remote!Offers(r.task[1]) :
              stored[r.task][Remote!Rank(r.task[1], p)] # None
    BY <2>1, <2>3 DEF Remote!CycleInv, Remote!SentInPlace
  <2> QED BY <2>3, <2>4
<1>91. Remote!SentIsStored'
  BY <1>1, <1>3, <1>31, <1>32, <1>33, <1>4, <1>5 DEF Remote!CycleInv, Remote!SentIsStored
<1>10. Remote!CompletedIsWhole' /\ Remote!CollectedIsSeen' /\ Remote!NoFalseDisappearance'
  BY <1>0, <1>1, <1>33, WorkKeepsCollected DEF Remote!CycleInv
<1> QED BY <1>2, <1>6, <1>7, <1>8, <1>9, <1>91, <1>10, CycleTypes DEF Remote!CycleInv

LEMMA CycleStays ==
    ASSUME Remote!CycleInv, UNCHANGED cycleVars PROVE Remote!CycleInv'
<1>1. /\ UNCHANGED <<phase, holder, closed, stored, attempts, exec, wire, offered, mixed>>
      /\ UNCHANGED <<cycle, collector, unread, listing, run, seen>>
  BY DEF cycleVars
<1>2. CycleTyped' BY <1>1, CycleTypes DEF Remote!CycleInv, CycleTyped
<1>3. WorkInv' /\ Remote!CompletedIsWhole' BY <1>1, CollectorKeepsWork
<1>4. Remote!CollectedIsSeen' /\ Remote!NoFalseDisappearance'
  BY <1>1 DEF Remote!CycleInv, Remote!CollectedIsSeen, Remote!NoFalseDisappearance,
     Remote!CycleTasks
<1> QED BY <1>2, <1>3, <1>4, CycleTypes DEF Remote!CycleInv, WorkInv

LEMMA CycleStep == ASSUME Remote!CycleInv, Remote!Next PROVE Remote!CycleInv'
<1>0. Remote!TypeOK BY DEF Remote!CycleInv
<1>1. CASE \E w \in Workers : Remote!Work(w) BY <1>1, WorkKeeps
<1>2. CASE \E t \in Remote!Tasks : Remote!ReclaimExpired(t) BY <1>2, ReclaimKeeps
<1>3. ASSUME NEW r \in wire, Remote!Serve(r) PROVE Remote!CycleInv'
  <2>1. /\ UNCHANGED <<attempts, offered, mixed>>
        /\ UNCHANGED <<cycle, collector, unread, listing, run, seen>>
    BY <1>3 DEF Remote!Serve, Remote!collectorVars
  <2> QED BY <1>3, <2>1, ServeBatchKeeps, ServeCompleteKeeps, ServeFailKeeps DEF Remote!Serve
<1>4. ASSUME NEW r \in wire, Remote!LoseRequest(r) PROVE Remote!CycleInv'
  BY <1>4, IgnoredKeeps DEF Remote!LoseRequest, Remote!ledgerVars, Remote!collectorVars
<1>5. CASE \E l \in Remote!Listings : Remote!Withdraw(l) BY <1>5, WithdrawKeeps
<1>6. CASE Remote!Collect BY <1>6, CollectKeeps
<1> QED BY <1>1, <1>2, <1>3, <1>4, <1>5, <1>6 DEF Remote!Next
-----------------------------------------------------------------------------
(* Compaction of the history *)

\* In these lemmas c is a history: its listings and bounds.
LEMMA HistoryConstants ==
    ASSUME NEW CONSTANT c, Compaction(c)!CompactionConstantsOK
    PROVE  /\ Heartbeat \in Nat \ {0} /\ DOMAIN Shown = Payloads
           /\ c.end \in Nat /\ c.runs \in Nat
BY DEF Compaction!CompactionConstantsOK

LEMMA HistoryTypes ==
    ASSUME NEW CONSTANT c, Compaction(c)!CompactionConstantsOK, Compaction(c)!RunsInv,
           NEW l \in c.listings, NEW row \in rows[l]
    PROVE  /\ row.run \in 1 .. c.runs /\ row.run \in Int /\ row.at \in 0 .. c.end
           /\ row.payload \in Payloads /\ row.run <= runs
           /\ \A other \in rows[l] : row.run = other.run => row = other
BY DEF Compaction!RunsInv, Compaction!TypeOK, Compaction!StoredRow, Compaction!OnePerRun

\* When nothing of it may be deleted, the last observation of a listing is the
\* one that stands for it.
LEMMA LatestStands ==
    ASSUME NEW CONSTANT c, Compaction(c)!CompactionConstantsOK, Compaction(c)!RunsInv,
           NEW l \in c.listings, NEW row \in rows[l],
           \A other \in rows[l] \ {row} : other.run < row.run
    PROVE  Compaction(c)!Latest(l) = row
<1> DEFINE P(r) == \A other \in rows[l] : other.run <= r.run
<1>1. \A r \in rows[l] : r.run \in Int BY HistoryTypes
<1>2. P(row) BY <1>1
<1>3. \A r \in rows[l] : P(r) => r = row BY <1>1
<1> HIDE DEF P
<1>4. Compaction(c)!Latest(l) = CHOOSE r \in rows[l] : P(r) BY DEF Compaction!Latest, P
<1> QED BY <1>2, <1>3, <1>4

LEMMA HistoryInit ==
    ASSUME NEW CONSTANT c, Compaction(c)!CompactionConstantsOK
    PROVE  Compaction(c)!Init => Compaction(c)!CompactionInv
<1> SUFFICES ASSUME Compaction(c)!Init PROVE Compaction(c)!CompactionInv OBVIOUS
<1>1. /\ historyNow = 0 /\ runs = 0 /\ running = FALSE /\ removable = {} /\ gone = {}
      /\ rows = [l \in c.listings |-> {}] /\ last = [l \in c.listings |-> <<>>] /\ done = {}
      /\ again = {}
  BY DEF Compaction!Init
<1>2. historyNow \in 0 .. c.end /\ runs \in 0 .. c.runs BY <1>1, HistoryConstants
<1>3. rows \in [c.listings -> SUBSET Compaction(c)!StoredRow] BY <1>1
<1>4. \A l \in c.listings : Compaction(c)!OnePerRun(l) BY <1>1 DEF Compaction!OnePerRun
<1>5. Compaction(c)!TypeOK BY <1>1, <1>2, <1>3, <1>4 DEF Compaction!TypeOK
<1> QED BY <1>1, <1>5 DEF Compaction!CompactionInv, Compaction!RunsInv

LEMMA HistoryStays ==
    ASSUME NEW CONSTANT c, Compaction(c)!CompactionConstantsOK,
           Compaction(c)!CompactionInv, UNCHANGED historyVars PROVE Compaction(c)!CompactionInv'
<1>1. UNCHANGED <<historyNow, runs, running, rows, last, gone, done, again, removable>>
  BY DEF historyVars
<1> QED
  BY <1>1 DEF Compaction!CompactionInv, Compaction!RunsInv, Compaction!TypeOK,
     Compaction!OnePerRun, Compaction!StandsFor

LEMMA HistoryTick ==
    ASSUME NEW CONSTANT c, Compaction(c)!CompactionConstantsOK,
           Compaction(c)!CompactionInv, Compaction(c)!Tick PROVE Compaction(c)!CompactionInv'
<1>1. /\ historyNow < c.end /\ historyNow' = historyNow + 1
      /\ UNCHANGED <<runs, running, rows, last, gone, done, again, removable>>
  BY DEF Compaction!Tick
<1>2. historyNow \in Nat /\ historyNow' \in 0 .. c.end /\ historyNow <= historyNow'
  BY <1>1, HistoryConstants DEF Compaction!CompactionInv, Compaction!RunsInv, Compaction!TypeOK
<1>3. Compaction(c)!TypeOK'
  BY <1>1, <1>2 DEF Compaction!CompactionInv, Compaction!RunsInv, Compaction!TypeOK,
     Compaction!OnePerRun
<1> QED
  BY <1>1, <1>3 DEF Compaction!CompactionInv, Compaction!RunsInv, Compaction!StandsFor

LEMMA HistoryBegin ==
    ASSUME NEW CONSTANT c, Compaction(c)!CompactionConstantsOK,
           Compaction(c)!CompactionInv, Compaction(c)!BeginRefresh PROVE Compaction(c)!CompactionInv'
<1>1. /\ ~running /\ runs < c.runs /\ runs' = runs + 1 /\ running' = TRUE /\ done' = {}
      /\ UNCHANGED <<historyNow, rows, last, gone, again, removable>> /\ removable = {}
  BY DEF Compaction!BeginRefresh, Compaction!CompactionInv, Compaction!RunsInv
<1>2. runs \in Nat /\ runs' \in 1 .. c.runs
  BY <1>1, HistoryConstants DEF Compaction!CompactionInv, Compaction!RunsInv, Compaction!TypeOK
<1>3. Compaction(c)!TypeOK'
  BY <1>1, <1>2 DEF Compaction!CompactionInv, Compaction!RunsInv, Compaction!TypeOK,
     Compaction!OnePerRun
<1>4. \A l \in c.listings : \A row \in rows[l] : row.run <= runs' /\ row.run # runs'
  BY <1>1, <1>2, HistoryTypes DEF Compaction!CompactionInv
<1>5. Compaction(c)!RunsInv' BY <1>1, <1>2, <1>3, <1>4 DEF Compaction!RunsInv
<1> QED BY <1>1, <1>4, <1>5 DEF Compaction!CompactionInv, Compaction!StandsFor

LEMMA HistoryFinish ==
    ASSUME NEW CONSTANT c, Compaction(c)!CompactionConstantsOK,
           Compaction(c)!CompactionInv, NEW missing, Compaction(c)!FinishRefresh(missing)
    PROVE  Compaction(c)!CompactionInv'
<1>1. /\ removable = {} /\ missing \subseteq c.listings
      /\ gone' = gone \cup missing /\ running' = FALSE
      /\ UNCHANGED <<historyNow, runs, rows, last, done, again, removable>>
  BY DEF Compaction!FinishRefresh
<1>2. Compaction(c)!TypeOK'
  BY <1>1 DEF Compaction!CompactionInv, Compaction!RunsInv, Compaction!TypeOK,
     Compaction!OnePerRun
<1> QED
  BY <1>1, <1>2 DEF Compaction!CompactionInv, Compaction!RunsInv, Compaction!StandsFor

LEMMA HistoryStop ==
    ASSUME NEW CONSTANT c, Compaction(c)!CompactionConstantsOK,
           Compaction(c)!CompactionInv, Compaction(c)!Stop PROVE Compaction(c)!CompactionInv'
<1>1. /\ running' = FALSE /\ removable' = {}
      /\ UNCHANGED <<historyNow, runs, rows, last, gone, done, again>>
  BY DEF Compaction!Stop
<1>2. Compaction(c)!TypeOK'
  BY <1>1 DEF Compaction!CompactionInv, Compaction!RunsInv, Compaction!TypeOK,
     Compaction!OnePerRun
<1>3. Compaction(c)!RunsInv' BY <1>1, <1>2 DEF Compaction!CompactionInv, Compaction!RunsInv
<1>4. ASSUME NEW l \in c.listings \ again, last[l] # <<>>
      PROVE  \E row \in rows[l] : Compaction(c)!StandsFor(l, row)'
  <2>1. CASE l \in removable
    <3>1. PICK row \in rows[l] :
              row.run = runs /\ row.payload = last[l][1] /\ row.at = last[l][2]
      BY <2>1 DEF Compaction!CompactionInv
    <3>2. row.at \in Int /\ last[l][2] - row.at < Heartbeat
      BY <3>1, HistoryTypes, HistoryConstants DEF Compaction!CompactionInv
    <3>3. ASSUME NEW other \in rows[l], other # row PROVE other.run < row.run
      BY <3>1, <3>3, HistoryTypes DEF Compaction!CompactionInv
    <3> QED BY <1>1, <3>1, <3>2, <3>3 DEF Compaction!StandsFor
  <2>2. CASE l \notin removable
    BY <1>1, <1>4, <2>2 DEF Compaction!CompactionInv, Compaction!StandsFor
  <2> QED BY <2>1, <2>2
<1> QED BY <1>1, <1>3, <1>4 DEF Compaction!CompactionInv

LEMMA HistoryCompact ==
    ASSUME NEW CONSTANT c, Compaction(c)!CompactionConstantsOK,
           Compaction(c)!CompactionInv, Compaction(c)!Compact PROVE Compaction(c)!CompactionInv'
<1>1. /\ rows' = [l \in c.listings |-> IF l \in removable
                                         THEN {row \in rows[l] : row.run # runs} ELSE rows[l]]
      /\ removable' = {} /\ UNCHANGED <<historyNow, runs, running, last, gone, done, again>>
  BY DEF Compaction!Compact, Compaction!Remaining
<1>2. \A l \in c.listings : rows'[l] \subseteq rows[l] BY <1>1
<1>3. Compaction(c)!TypeOK'
  <2>1. rows' \in [c.listings -> SUBSET Compaction(c)!StoredRow]
    BY <1>1, <1>2 DEF Compaction!CompactionInv, Compaction!RunsInv, Compaction!TypeOK
  <2> QED
    BY <1>1, <1>2, <2>1 DEF Compaction!CompactionInv, Compaction!RunsInv, Compaction!TypeOK,
       Compaction!OnePerRun
<1>4. Compaction(c)!RunsInv' BY <1>1, <1>2, <1>3 DEF Compaction!CompactionInv, Compaction!RunsInv
<1>5. ASSUME NEW l \in c.listings \ again, last[l] # <<>>
      PROVE  \E row \in rows'[l] : Compaction(c)!StandsFor(l, row)'
  <2>1. PICK row \in rows[l] : Compaction(c)!StandsFor(l, row)
    BY <1>5 DEF Compaction!CompactionInv
  <2>2. row.run \in Int /\ runs \in Int
    BY <2>1, HistoryTypes DEF Compaction!CompactionInv, Compaction!RunsInv, Compaction!TypeOK
  <2>3. row \in rows'[l] BY <1>1, <2>1, <2>2 DEF Compaction!StandsFor
  <2>4. ASSUME NEW other \in rows'[l] \ {row} PROVE other.run < row.run
    BY <1>1, <2>1, <2>4 DEF Compaction!StandsFor
  <2> QED BY <1>1, <2>1, <2>3, <2>4 DEF Compaction!StandsFor
<1>6. \A l \in c.listings \ again : last[l] = <<>> => rows'[l] = {}
  BY <1>2 DEF Compaction!CompactionInv
<1> QED BY <1>1, <1>2, <1>4, <1>5, <1>6 DEF Compaction!CompactionInv

\* What recording a listing of payload p does, row0 being its observation.
StoredAs(l, row0, p) ==
    /\ \/ rows'[l] = rows[l]
       \/ rows'[l] = rows[l] \cup {row0} /\ \A row \in rows[l] : row.run < runs
    /\ last'[l] = <<p, historyNow>>
    /\ l \notin again' => /\ rows'[l] = rows[l] \cup {row0} /\ l \notin again
                          /\ l \in done' /\ \A row \in rows[l] : row.run < runs
    /\ runs \in Int /\ historyNow \in Int
    /\ row0.run = runs /\ row0.at = historyNow /\ row0.payload = p

\* A run stores one more observation of each listing of a batch, if it has none.
LEMMA HistoryStored ==
    ASSUME NEW CONSTANT c, Compaction(c)!CompactionConstantsOK, Compaction(c)!CompactionInv,
           NEW ls \in SUBSET c.listings, NEW batch \in [ls -> Payloads],
           Compaction(c)!RecordBatch(batch), NEW l \in ls
    PROVE  \E row0 \in Compaction(c)!StoredRow : StoredAs(l, row0, batch[l])
<1>0. PICK row0 : row0 = [run |-> runs, at |-> historyNow, payload |-> batch[l]] OBVIOUS
<1>1. /\ running /\ DOMAIN batch = ls /\ l \in c.listings
      /\ rows' = [m \in c.listings |->
                   IF m \in ls THEN Compaction(c)!Stored(m, batch[m]) ELSE rows[m]]
      /\ last' = [m \in c.listings |-> IF m \in ls THEN <<batch[m], historyNow>> ELSE last[m]]
      /\ done' = done \cup ls /\ again' = again \cup (ls \cap done)
  BY DEF Compaction!RecordBatch
<1>2. runs \in 1 .. c.runs /\ historyNow \in 0 .. c.end
  BY <1>1, HistoryConstants DEF Compaction!CompactionInv, Compaction!RunsInv, Compaction!TypeOK
<1>3. \A row \in rows[l] : row.run \in Int /\ row.run <= runs
  BY <1>1, HistoryTypes DEF Compaction!CompactionInv
<1>4. rows'[l] = IF \E row \in rows[l] : row.run = runs THEN rows[l] ELSE rows[l] \cup {row0}
  BY <1>0, <1>1 DEF Compaction!Stored
<1>5. (~ \E row \in rows[l] : row.run = runs) => \A row \in rows[l] : row.run < runs
  BY <1>2, <1>3
<1>6. l \notin again' => ~ \E row \in rows[l] : row.run = runs
  BY <1>1 DEF Compaction!CompactionInv
<1>7. row0.run = runs /\ row0.at = historyNow /\ row0.payload = batch[l] BY <1>0
<1>8. row0 \in Compaction(c)!StoredRow BY <1>0, <1>2 DEF Compaction!StoredRow
<1>9. last'[l] = <<batch[l], historyNow>> /\ l \in done' /\ (l \notin again' => l \notin again)
  BY <1>1
<1>10. StoredAs(l, row0, batch[l]) BY <1>2, <1>4, <1>5, <1>6, <1>7, <1>9 DEF StoredAs
<1> QED BY <1>8, <1>10

LEMMA HistoryRecordTyped ==
    ASSUME NEW CONSTANT c, Compaction(c)!CompactionConstantsOK, Compaction(c)!CompactionInv,
           NEW ls \in SUBSET c.listings, NEW batch \in [ls -> Payloads],
           Compaction(c)!RecordBatch(batch)
    PROVE  Compaction(c)!RunsInv'
<1>1. /\ running /\ DOMAIN batch = ls /\ removable = {}
      /\ rows' = [m \in c.listings |->
                   IF m \in ls THEN Compaction(c)!Stored(m, batch[m]) ELSE rows[m]]
      /\ last' = [m \in c.listings |-> IF m \in ls THEN <<batch[m], historyNow>> ELSE last[m]]
      /\ done' = done \cup ls /\ gone' = gone \ ls /\ again' = again \cup (ls \cap done)
      /\ removable' \subseteq ls /\ UNCHANGED <<historyNow, runs, running>>
  BY DEF Compaction!RecordBatch
<1>2. \A m \in c.listings \ ls : rows'[m] = rows[m] /\ last'[m] = last[m] BY <1>1
<1>3. historyNow \in 0 .. c.end /\ runs \in 0 .. c.runs /\ historyNow \in 0 .. historyNow
  BY HistoryConstants DEF Compaction!CompactionInv, Compaction!RunsInv, Compaction!TypeOK
<1>4. ASSUME NEW m \in c.listings
      PROVE  /\ rows'[m] \subseteq Compaction(c)!StoredRow
             /\ \A row, other \in rows'[m] : row.run = other.run => row = other
             /\ \A row \in rows'[m] : row.run <= runs
             /\ last'[m] = <<>> \/ last'[m] \in Payloads \X (0 .. historyNow)
  <2>0. /\ \A row \in rows[m] : row.run \in Int /\ row.run <= runs
        /\ \A row, other \in rows[m] : row.run = other.run => row = other
        /\ rows[m] \subseteq Compaction(c)!StoredRow
    BY HistoryTypes DEF Compaction!CompactionInv, Compaction!RunsInv, Compaction!TypeOK
  <2>1. CASE m \in ls
    <3>1. PICK row0 \in Compaction(c)!StoredRow : StoredAs(m, row0, batch[m])
      BY <2>1, HistoryStored
    <3>2. /\ \/ rows'[m] = rows[m]
             \/ rows'[m] = rows[m] \cup {row0} /\ \A row \in rows[m] : row.run < runs
          /\ last'[m] = <<batch[m], historyNow>> /\ row0.run = runs
          /\ row0 \in Compaction(c)!StoredRow
      BY <3>1 DEF StoredAs
    <3>3. last'[m] \in Payloads \X (0 .. historyNow) BY <1>3, <2>1, <3>2
    <3>4. \A row \in rows'[m] : row.run <= runs BY <1>3, <2>0, <3>2
    <3>5. \A row, other \in rows'[m] : row.run = other.run => row = other
      BY <1>3, <2>0, <3>2
    <3> QED BY <2>0, <3>2, <3>3, <3>4, <3>5
  <2>2. CASE m \notin ls
    BY <1>2, <2>0, <2>2 DEF Compaction!CompactionInv, Compaction!RunsInv, Compaction!TypeOK
  <2> QED BY <2>1, <2>2
<1>5. rows' \in [c.listings -> SUBSET Compaction(c)!StoredRow] BY <1>1, <1>4
<1>6. done \subseteq c.listings /\ again \subseteq c.listings /\ gone \subseteq c.listings
  BY DEF Compaction!CompactionInv, Compaction!RunsInv, Compaction!TypeOK
<1>7. Compaction(c)!TypeOK'
  BY <1>1, <1>3, <1>4, <1>5, <1>6 DEF Compaction!CompactionInv, Compaction!RunsInv,
     Compaction!TypeOK, Compaction!OnePerRun
<1> QED BY <1>1, <1>4, <1>7 DEF Compaction!CompactionInv, Compaction!RunsInv

\* What an unchanged listing's last observation stands for, or the new one does.
LEMMA HistoryRecord ==
    ASSUME NEW CONSTANT c, Compaction(c)!CompactionConstantsOK,
           Compaction(c)!CompactionInv, NEW ls \in SUBSET c.listings, NEW batch \in [ls -> Payloads],
           Compaction(c)!RecordBatch(batch)
    PROVE  Compaction(c)!CompactionInv'
<1>1. /\ running /\ DOMAIN batch = ls /\ removable = {}
      /\ rows' = [m \in c.listings |->
                   IF m \in ls THEN Compaction(c)!Stored(m, batch[m]) ELSE rows[m]]
      /\ last' = [m \in c.listings |-> IF m \in ls THEN <<batch[m], historyNow>> ELSE last[m]]
      /\ done' = done \cup ls /\ removable' = {m \in ls : Compaction(c)!Unchanged(m, batch[m])}
      /\ again' = again \cup (ls \cap done)
      /\ UNCHANGED <<historyNow, runs, running>>
  BY DEF Compaction!RecordBatch
<1>2. \A m \in c.listings \ ls : rows'[m] = rows[m] /\ last'[m] = last[m] /\ m \notin removable'
  BY <1>1
<1>3. Compaction(c)!RunsInv' BY HistoryRecordTyped
<1>4. ASSUME NEW l \in c.listings \ again'
      PROVE  /\ \A row \in rows'[l] : running' /\ row.run = runs' => l \in done'
             /\ last'[l] = <<>> => rows'[l] = {} /\ l \notin removable'
             /\ last'[l] # <<>> => \E row \in rows'[l] : Compaction(c)!StandsFor(l, row)'
             /\ l \in removable' => \E row \in rows'[l] :
                  row.run = runs' /\ row.payload = last'[l][1] /\ row.at = last'[l][2]
  <2>1. CASE l \notin ls
    BY <1>1, <1>2, <2>1 DEF Compaction!CompactionInv, Compaction!StandsFor
  <2>2. CASE l \in ls
    <3>1. PICK row0 \in Compaction(c)!StoredRow : StoredAs(l, row0, batch[l])
      BY <2>2, HistoryStored
    <3>0. /\ rows'[l] = rows[l] \cup {row0} /\ l \notin again
          /\ last'[l] = <<batch[l], historyNow>> /\ l \in done'
          /\ \A row \in rows[l] : row.run < runs
          /\ runs \in Int /\ historyNow \in Int
          /\ row0.run = runs /\ row0.at = historyNow /\ row0.payload = batch[l]
      BY <1>4, <3>1 DEF StoredAs
    <3>2. runs \in Int /\ historyNow \in Int BY <3>0
    <3>3. last'[l] # <<>> /\ last'[l][1] = batch[l] /\ last'[l][2] = historyNow BY <3>0
    <3>4. CASE l \in removable'
      <4>1. /\ rows[l] # {} /\ Compaction(c)!Latest(l).payload = batch[l]
            /\ historyNow - Compaction(c)!Latest(l).at < Heartbeat
        BY <1>1, <3>4 DEF Compaction!Unchanged
      <4>2. PICK row \in rows[l] : Compaction(c)!StandsFor(l, row)
        BY <3>0, <4>1 DEF Compaction!CompactionInv
      <4>3. \A other \in rows[l] \ {row} : other.run < row.run
        BY <1>1, <4>2 DEF Compaction!StandsFor
      <4>4. Compaction(c)!Latest(l) = row
        BY <4>2, <4>3, LatestStands DEF Compaction!CompactionInv
      <4>5. row.payload = last'[l][1] /\ last'[l][2] - row.at < Heartbeat /\ row.run < runs'
        BY <1>1, <3>0, <3>3, <4>1, <4>2, <4>4
      <4>6. \A other \in rows'[l] \ {row} : other.run < row.run \/ other.run = runs'
        BY <1>1, <3>0, <3>2, <4>3
      <4>7. Compaction(c)!StandsFor(l, row)' BY <1>1, <3>4, <4>5, <4>6 DEF Compaction!StandsFor
      <4> QED BY <1>1, <3>0, <3>2, <3>3, <4>2, <4>7
    <3>5. CASE l \notin removable'
      <4>1. last'[l][2] - row0.at < Heartbeat BY <3>0, <3>2, <3>3, HistoryConstants
      <4>2. \A other \in rows'[l] \ {row0} : other.run < row0.run BY <3>0, <3>2
      <4>3. Compaction(c)!StandsFor(l, row0)' BY <3>0, <3>3, <3>5, <4>1, <4>2 DEF Compaction!StandsFor
      <4> QED BY <1>1, <3>0, <3>2, <3>3, <3>5, <4>3
    <3> QED BY <3>4, <3>5
  <2> QED BY <2>1, <2>2
<1>5. removable' \subseteq c.listings BY <1>1
<1> QED BY <1>3, <1>4, <1>5 DEF Compaction!CompactionInv

LEMMA HistoryStep ==
    ASSUME NEW CONSTANT c, Compaction(c)!CompactionConstantsOK,
           Compaction(c)!CompactionInv, Compaction(c)!Next PROVE Compaction(c)!CompactionInv'
<1>1. ASSUME NEW missing \in SUBSET c.listings, Compaction(c)!FinishRefresh(missing)
      PROVE  Compaction(c)!CompactionInv'
  BY <1>1, HistoryFinish
<1>2. ASSUME NEW ls \in SUBSET c.listings \ {{}}, NEW batch \in [ls -> Payloads],
             Compaction(c)!RecordBatch(batch)
      PROVE  Compaction(c)!CompactionInv'
  BY <1>2, HistoryRecord
<1> QED BY <1>1, <1>2, HistoryTick, HistoryBegin, HistoryStop, HistoryCompact DEF Compaction!Next

\* What the compacted history says of the listings follows.
LEMMA HistoryKept ==
    ASSUME NEW CONSTANT c, Compaction(c)!CompactionConstantsOK,
           Compaction(c)!CompactionInv PROVE Compaction(c)!LatestKept /\ Compaction(c)!HeartbeatKept
<1>1. ASSUME NEW l \in c.listings \ again, last[l] # <<>>
      PROVE  /\ rows[l] # {} /\ Compaction(c)!Latest(l).payload = last[l][1]
             /\ l \notin removable => last[l][2] - Compaction(c)!Latest(l).at < Heartbeat
  <2>1. PICK row \in rows[l] : Compaction(c)!StandsFor(l, row) BY <1>1 DEF Compaction!CompactionInv
  <2>2. CASE l \in removable
    <3>1. PICK row0 \in rows[l] : row0.run = runs /\ row0.payload = last[l][1]
      BY <2>2 DEF Compaction!CompactionInv
    <3>2. \A other \in rows[l] : other.run \in Int /\ other.run <= runs
            /\ (other.run = row0.run => other = row0)
      BY HistoryTypes DEF Compaction!CompactionInv
    <3>3. \A other \in rows[l] \ {row0} : other.run < row0.run
      BY <3>1, <3>2
    <3>4. Compaction(c)!Latest(l) = row0 BY <3>1, <3>3, LatestStands DEF Compaction!CompactionInv
    <3> QED BY <2>2, <3>1, <3>4
  <2>3. CASE l \notin removable
    <3>1. \A other \in rows[l] \ {row} : other.run < row.run
      BY <2>1, <2>3 DEF Compaction!StandsFor
    <3>2. Compaction(c)!Latest(l) = row BY <2>1, <3>1, LatestStands DEF Compaction!CompactionInv
    <3> QED BY <2>1, <3>2 DEF Compaction!StandsFor
  <2> QED BY <2>2, <2>3
<1> QED BY <1>1 DEF Compaction!LatestKept, Compaction!HeartbeatKept

\* An observation stays a change when nothing older comes or goes.
LEMMA ChangeStays ==
    ASSUME NEW CONSTANT c, Compaction(c)!CompactionConstantsOK,
           NEW l \in c.listings, NEW row \in Compaction(c)!Changes(l), row \in rows'[l],
           \A other \in rows[l] \cup rows'[l] :
              other.run \in Int /\ (other.run < row.run => other \in rows[l] \cap rows'[l])
    PROVE  row \in Compaction(c)!Changes(l)'
<1>1. row \in rows[l] /\ row.run \in Int BY DEF Compaction!Changes
<1>2. ASSUME NEW r \in rows[l] \cap rows'[l], r.run <= row.run
      PROVE  Compaction(c)!Before(l, r)' = Compaction(c)!Before(l, r)
  <2>1. \A other \in rows[l] \cup rows'[l] :
            other.run < r.run => other \in rows[l] \cap rows'[l]
    BY <1>1, <1>2
  <2> QED BY <2>1 DEF Compaction!Before
<1>3. Compaction(c)!Before(l, row)' = Compaction(c)!Before(l, row) BY <1>1, <1>2
<1>4. ASSUME NEW previous \in Compaction(c)!Before(l, row)
      PROVE  Compaction(c)!Before(l, previous)' = Compaction(c)!Before(l, previous)
  <2>1. previous \in rows[l] /\ previous.run < row.run BY DEF Compaction!Before
  <2>2. previous \in rows[l] \cap rows'[l] /\ previous.run <= row.run BY <1>1, <2>1
  <2> QED BY <1>2, <2>2
<1>5. \A previous \in Compaction(c)!Before(l, row) :
          Compaction(c)!Before(l, row) = Compaction(c)!Before(l, previous) \cup {previous}
             => previous.payload # row.payload
  BY DEF Compaction!Changes
<1>6. \A previous \in Compaction(c)!Before(l, row)' :
          Compaction(c)!Before(l, row)' = Compaction(c)!Before(l, previous)' \cup {previous}
             => previous.payload # row.payload
  BY <1>3, <1>4, <1>5
<1> QED BY <1>6 DEF Compaction!Changes

\* What may be deleted says nothing new: the observation before it stands for it.
LEMMA RemovableIsNoChange ==
    ASSUME NEW CONSTANT c, Compaction(c)!CompactionConstantsOK,
           Compaction(c)!CompactionInv, NEW l \in removable \ again, NEW row \in rows[l], row.run = runs
    PROVE  row \notin Compaction(c)!Changes(l)
<1>1. l \in c.listings /\ last[l] # <<>>
  BY DEF Compaction!CompactionInv, Compaction!RunsInv, Compaction!TypeOK
<1>2. PICK previous \in rows[l] : Compaction(c)!StandsFor(l, previous)
  BY <1>1 DEF Compaction!CompactionInv
<1>3. \A other \in rows[l] : /\ other.run \in Int /\ other.run <= runs
                             /\ other.run = row.run => other = row
  BY <1>1, HistoryTypes DEF Compaction!CompactionInv
<1>4. row.payload = last[l][1]
  BY <1>3 DEF Compaction!CompactionInv
<1>5. /\ previous.payload = last[l][1] /\ previous.run < runs
      /\ \A other \in rows[l] \ {previous} : other.run < previous.run \/ other.run = runs
  BY <1>2 DEF Compaction!StandsFor
<1>6. previous \in Compaction(c)!Before(l, row) BY <1>5 DEF Compaction!Before
<1>7. \A other \in rows[l] :
          other.run < row.run <=> other.run < previous.run \/ other = previous
  BY <1>3, <1>5
<1>8. Compaction(c)!Before(l, row) = Compaction(c)!Before(l, previous) \cup {previous}
  BY <1>7 DEF Compaction!Before
<1> QED BY <1>4, <1>5, <1>6, <1>8 DEF Compaction!Changes

LEMMA HistoryEvidence ==
    ASSUME NEW CONSTANT c, Compaction(c)!CompactionConstantsOK,
           Compaction(c)!CompactionInv, Compaction(c)!Next \/ UNCHANGED historyVars
    PROVE  Compaction(c)!EvidenceGrows
<1>1. ASSUME rows' = rows PROVE Compaction(c)!EvidenceGrows
  <2>1. \A l : Compaction(c)!Changes(l)' = Compaction(c)!Changes(l)
    BY <1>1 DEF Compaction!Changes, Compaction!Before
  <2> QED BY <1>1, <2>1 DEF Compaction!EvidenceGrows, Compaction!OlderRunsKept
<1>2. ASSUME NEW ls \in SUBSET c.listings \ {{}}, NEW batch \in [ls -> Payloads],
             Compaction(c)!RecordBatch(batch)
      PROVE  Compaction(c)!EvidenceGrows
  <2>0. ls \in SUBSET c.listings OBVIOUS
  <2>1. ASSUME NEW l \in ls
        PROVE  \/ rows'[l] = rows[l]
               \/ \E row0 : /\ rows'[l] = rows[l] \cup {row0} /\ row0.run = runs
                            /\ runs \in Int /\ \A row \in rows[l] : row.run < runs
    <3>1. PICK row0 \in Compaction(c)!StoredRow : StoredAs(l, row0, batch[l])
      BY <1>2, <2>0, <2>1, HistoryStored
    <3> QED BY <3>1 DEF StoredAs
  <2>2. \A l \in c.listings \ ls : rows'[l] = rows[l]
    BY <1>2 DEF Compaction!RecordBatch
  <2>3. \A l \in c.listings : rows[l] \subseteq rows'[l] BY <2>1, <2>2
  <2>4. ASSUME NEW l \in c.listings, NEW row \in Compaction(c)!Changes(l)
        PROVE  row \in Compaction(c)!Changes(l)'
    <3>1. row \in rows[l] /\ row \in rows'[l] BY <2>3 DEF Compaction!Changes
    <3>2. \A other \in rows[l] : other.run \in Int BY HistoryTypes DEF Compaction!CompactionInv
    <3>3. \A other \in rows[l] \cup rows'[l] :
            other.run \in Int /\ (other.run < row.run => other \in rows[l] \cap rows'[l])
      <4>1. CASE rows'[l] = rows[l] BY <3>2, <4>1
      <4>2. CASE rows'[l] # rows[l]
        <5>1. PICK row0 : /\ rows'[l] = rows[l] \cup {row0} /\ row0.run = runs
                          /\ runs \in Int /\ \A other \in rows[l] : other.run < runs
          BY <2>1, <2>2, <4>2
        <5> QED BY <3>1, <3>2, <5>1
      <4> QED BY <4>1, <4>2
    <3> QED BY <3>1, <3>3, ChangeStays
  <2> QED BY <2>3, <2>4 DEF Compaction!EvidenceGrows, Compaction!OlderRunsKept
<1>3. ASSUME Compaction(c)!Compact PROVE Compaction(c)!EvidenceGrows
  <2>1. rows' = [l \in c.listings |-> IF l \in removable
                                        THEN {row \in rows[l] : row.run # runs} ELSE rows[l]]
    BY <1>3 DEF Compaction!Compact, Compaction!Remaining
  <2>2. runs \in Int BY DEF Compaction!CompactionInv, Compaction!RunsInv, Compaction!TypeOK
  <2>3. Compaction(c)!OlderRunsKept BY <2>1, <2>2 DEF Compaction!OlderRunsKept
  <2>4. ASSUME NEW l \in c.listings \ again, NEW row \in Compaction(c)!Changes(l)
        PROVE  row \in Compaction(c)!Changes(l)'
    <3>1. row \in rows[l] BY DEF Compaction!Changes
    <3>2. \A other \in rows[l] : other.run \in Int /\ other.run <= runs
      BY HistoryTypes DEF Compaction!CompactionInv
    <3>3. l \in removable => row.run # runs BY <3>1, RemovableIsNoChange
    <3>4. row \in rows'[l] BY <2>1, <3>1, <3>3
    <3>5. ASSUME NEW other \in rows[l] \cup rows'[l]
          PROVE  other.run \in Int /\ (other.run < row.run => other \in rows[l] \cap rows'[l])
      <4>1. other \in rows[l] BY <2>1
      <4>2. other.run < row.run => other.run # runs BY <2>2, <3>1, <3>2, <4>1
      <4> QED BY <2>1, <3>2, <4>1, <4>2
    <3> QED BY <3>4, <3>5, ChangeStays
  <2> QED BY <2>3, <2>4 DEF Compaction!EvidenceGrows
<1>4. ASSUME NEW missing, Compaction(c)!FinishRefresh(missing) PROVE Compaction(c)!EvidenceGrows
  BY <1>1, <1>4 DEF Compaction!FinishRefresh
<1>5. CASE Compaction(c)!Tick \/ Compaction(c)!BeginRefresh \/ Compaction(c)!Stop \/ UNCHANGED historyVars
  BY <1>1, <1>5 DEF Compaction!Tick, Compaction!BeginRefresh, Compaction!Stop, historyVars
<1> QED BY <1>2, <1>3, <1>4, <1>5 DEF Compaction!Next

-----------------------------------------------------------------------------
(* The parts together *)

\* A behaviour is about one part; the steps of the others are no steps of it.
PartsInv ==
    /\ part = "remote" => Remote!CycleInv
    /\ part = "compacted" => Compaction(Compacted)!CompactionInv
    /\ part = "repeated" => Compaction(Repeated)!CompactionInv

LEMMA PartsInvInvariant == PartSpec => [](WindowInv /\ PartsInv)
<1>0. /\ Compaction(Compacted)!CompactionConstantsOK
      /\ Compaction(Repeated)!CompactionConstantsOK
  BY PartsOK
<1>1. PartInit => WindowInv /\ PartsInv
  BY <1>0, WindowInvInit, CycleInit, HistoryInit DEF PartInit, PartsInv
<1>2. WindowInv /\ [PartNext]_all => WindowInv'
  <2>1. [PartNext]_all => [Next]_vars
    BY DEF PartNext, OnlyCycle, OnlyHistory, all
  <2> QED BY <2>1, WindowInvStep
<1>3. PartsInv /\ [PartNext]_all => PartsInv'
  <2> SUFFICES ASSUME PartsInv, [PartNext]_all PROVE PartsInv' OBVIOUS
  <2>1. CASE UNCHANGED <<part, cycleVars, historyVars>>
    BY <1>0, <2>1, CycleStays, HistoryStays DEF PartsInv
  <2>2. CASE part = "remote" /\ Remote!Next /\ OnlyCycle
    <3>1. part' = "remote" /\ Remote!CycleInv BY <2>2 DEF OnlyCycle, PartsInv
    <3>2. Remote!CycleInv' BY <2>2, <3>1, CycleStep
    <3> QED BY <3>1, <3>2 DEF PartsInv
  <2>3. CASE part = "compacted" /\ Compaction(Compacted)!Next /\ OnlyHistory
    <3>1. part' = "compacted" /\ Compaction(Compacted)!CompactionInv
      BY <2>3 DEF OnlyHistory, PartsInv
    <3>2. Compaction(Compacted)!CompactionInv' BY <1>0, <2>3, <3>1, HistoryStep
    <3> QED BY <3>1, <3>2 DEF PartsInv
  <2>4. CASE part = "repeated" /\ Compaction(Repeated)!Next /\ OnlyHistory
    <3>1. part' = "repeated" /\ Compaction(Repeated)!CompactionInv
      BY <2>4 DEF OnlyHistory, PartsInv
    <3>2. Compaction(Repeated)!CompactionInv' BY <1>0, <2>4, <3>1, HistoryStep
    <3> QED BY <3>1, <3>2 DEF PartsInv
  <2>5. UNCHANGED <<part, cycleVars, historyVars>> \/ PartNext BY DEF all
  <2> QED BY <2>1, <2>2, <2>3, <2>4, <2>5 DEF PartNext, OnlyWindow
<1> QED BY <1>1, <1>2, <1>3, PTL DEF PartSpec

\* However late and often a request arrives, one process of the coordinator
\* executes it at most once, if the worker's clock was ahead by at most what the
\* window's age exceeds the skew (30 seconds); otherwise at most twice.
THEOREM AtMostOnce == PartSpec => []ExecutedOnce
<1>1. WindowInv => ExecutedOnce BY DEF WindowInv
<1> QED BY <1>1, PartsInvInvariant, PTL

\* A completed task has stored every listing its source still offers, also when
\* attempts fail and leases are lost, unless its attempts got mixed up; no listing
\* of a source without such a task is taken for gone; and compaction keeps, of a
\* listing that no run recorded more than once, the observation it was last seen
\* with, younger than the heartbeat.
THEOREM HistoriesAreTrue == PartSpec => []HistoryIsTrue
<1>0. /\ Compaction(Compacted)!CompactionConstantsOK
      /\ Compaction(Repeated)!CompactionConstantsOK
  BY PartsOK
<1>1. PartsInv => PartsTyped /\ CompletedIsWhole /\ NoFalseDisappearance
  BY DEF PartsInv, PartsTyped, CompletedIsWhole, NoFalseDisappearance,
     Remote!CycleInv, Compaction!CompactionInv, Compaction!RunsInv
<1>2. PartsInv => LatestKept /\ HeartbeatKept
  BY <1>0, HistoryKept DEF PartsInv, LatestKept, HeartbeatKept
<1>3. WindowInv /\ PartsInv => HistoryIsTrue
  BY <1>1, <1>2 DEF WindowInv, HistoryIsTrue
<1> QED BY <1>3, PartsInvInvariant, PTL

\* Compaction never reaches the observations of earlier runs, and no step takes
\* back a change of payload that was stored of a listing no run recorded twice.
THEOREM EvidenceIsKept == PartSpec => EvidenceGrows
<1> DEFINE Kept == /\ part = "compacted" => Compaction(Compacted)!EvidenceGrows
                   /\ part = "repeated" => Compaction(Repeated)!EvidenceGrows
<1>0. /\ Compaction(Compacted)!CompactionConstantsOK
      /\ Compaction(Repeated)!CompactionConstantsOK
  BY PartsOK
<1>1. PartsInv /\ [PartNext]_all => [Kept]_historyVars
  <2> SUFFICES ASSUME PartsInv, PartNext, ~UNCHANGED historyVars PROVE Kept BY DEF all
  <2>1. CASE part = "compacted" /\ Compaction(Compacted)!Next
    BY <1>0, <2>1, HistoryEvidence DEF PartsInv
  <2>2. CASE part = "repeated" /\ Compaction(Repeated)!Next
    BY <1>0, <2>2, HistoryEvidence DEF PartsInv
  <2> QED BY <2>1, <2>2 DEF PartNext, OnlyWindow, OnlyCycle
<1>2. PartSpec => [][Kept]_historyVars
  <2> HIDE DEF Kept
  <2> QED BY <1>1, PartsInvInvariant, PTL DEF PartSpec
<1> QED BY <1>2 DEF EvidenceGrows
=============================================================================
