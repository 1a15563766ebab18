---------------------------- MODULE SourcesProofs ---------------------------
(***************************************************************************)
(* Proofs about the circuit breaker, the scheduler and the expansion of    *)
(* sources: each for every configuration, and then for the parts of        *)
(* SourcesMC.                                                              *)
(***************************************************************************)
EXTENDS SourcesMC, FiniteSetTheorems, TLAPS

-----------------------------------------------------------------------------
(* The breaker, for any number of overlapping calls and any thresholds *)

\* What the breaker keeps tells what was observed: a closed circuit has
\* counted the failures since the last success, an open one has measured the
\* time since the last, and a half-open one has seen the timeout pass.
Counts ==
    /\ state = "closed" => failures = streak /\ streak < FailureThreshold
    /\ state # "closed" => failures = FailureThreshold /\ sinceOpen = quiet
    /\ state = "half_open" => sinceOpen = RecoveryTimeout

BreakerInv == TypeOK /\ Counts

LEMMA BreakerInit == Init => BreakerInv
BY BreakerConstantsOK DEF Init, BreakerInv, TypeOK, Counts

LEMMA LeastBounds ==
    ASSUME NEW n \in Nat, NEW a \in 0 .. n
    PROVE  /\ Least(a + 1, n) \in 0 .. n
           /\ Least(a + 1, n) = IF a < n THEN a + 1 ELSE n
BY DEF Least

LEMMA AcquireKeeps == ASSUME BreakerInv, NEW c \in Callers, Acquire(c) PROVE BreakerInv'
<1>1. CASE state = "closed" BY <1>1 DEF Acquire, BreakerInv, TypeOK, Counts, breaker
<1>2. CASE state # "closed"
  BY <1>2, BreakerConstantsOK DEF Acquire, Rejected, BreakerInv, TypeOK, Counts
<1> QED BY <1>1, <1>2

LEMMA ReleasedType == ASSUME BreakerInv PROVE Released \in 0 .. HalfOpenMax
BY BreakerConstantsOK DEF Released, BreakerInv, TypeOK

LEMMA SuccessKeeps == ASSUME BreakerInv, NEW c \in Callers, Success(c) PROVE BreakerInv'
BY ReleasedType, BreakerConstantsOK DEF Success, Ended, BreakerInv, TypeOK, Counts

LEMMA FailureKeeps == ASSUME BreakerInv, NEW c \in Callers, Failure(c) PROVE BreakerInv'
<1>1. /\ call' \in [Callers -> {"idle", "plain", "probe"}] /\ inFlight' \in 0 .. HalfOpenMax
      /\ quiet' = 0 /\ streak' = Least(streak + 1, FailureThreshold)
      /\ failures' = IF state = "half_open" THEN failures ELSE Least(failures + 1, FailureThreshold)
  BY ReleasedType DEF Failure, Ended, BreakerInv, TypeOK
<1>2. streak' \in 0 .. FailureThreshold /\ failures' \in 0 .. FailureThreshold
  BY <1>1, LeastBounds, BreakerConstantsOK DEF BreakerInv, TypeOK
<1>3. CASE state = "half_open" \/ failures' >= FailureThreshold
  <2>1. state' = "open" /\ sinceOpen' = 0 BY <1>3 DEF Failure
  <2>2. failures' = FailureThreshold
    BY <1>1, <1>2, <1>3, BreakerConstantsOK DEF BreakerInv, TypeOK, Counts
  <2> QED BY <1>1, <1>2, <2>1, <2>2, BreakerConstantsOK DEF BreakerInv, TypeOK, Counts
<1>4. CASE ~(state = "half_open" \/ failures' >= FailureThreshold)
  <2>1. UNCHANGED <<state, sinceOpen>> BY <1>4 DEF Failure
  <2>2. state = "closed"
    <3>1. ASSUME state # "closed" PROVE FALSE
      <4>1. failures = FailureThreshold BY <3>1 DEF BreakerInv, Counts
      <4>2. failures' = FailureThreshold
        BY <1>1, <1>4, <4>1, LeastBounds, BreakerConstantsOK DEF BreakerInv, TypeOK
      <4> QED BY <1>4, <4>2, BreakerConstantsOK
    <3> QED BY <3>1
  <2>3. failures' = streak' BY <1>1, <1>4, <2>2 DEF BreakerInv, Counts
  <2> QED BY <1>1, <1>2, <1>4, <2>1, <2>2, <2>3, BreakerConstantsOK DEF BreakerInv, TypeOK, Counts
<1> QED BY <1>3, <1>4

LEMMA EndKeeps == ASSUME BreakerInv, NEW c \in Callers, Cancel(c) \/ Drop(c) PROVE BreakerInv'
BY ReleasedType DEF Cancel, Drop, Ended, BreakerInv, TypeOK, Counts, breaker

LEMMA TickKeeps == ASSUME BreakerInv, Tick PROVE BreakerInv'
<1>1. /\ sinceOpen' \in 0 .. RecoveryTimeout /\ quiet' \in 0 .. RecoveryTimeout
      /\ sinceOpen = quiet => sinceOpen' = quiet'
      /\ sinceOpen = RecoveryTimeout => sinceOpen' = RecoveryTimeout
  BY LeastBounds, BreakerConstantsOK DEF Tick, BreakerInv, TypeOK
<1> QED BY <1>1 DEF Tick, BreakerInv, TypeOK, Counts

LEMMA BreakerStep == ASSUME BreakerInv, Next \/ UNCHANGED vars PROVE BreakerInv'
<1>1. UNCHANGED vars => BreakerInv' BY DEF BreakerInv, TypeOK, Counts, vars, breaker
<1> QED
  BY <1>1, AcquireKeeps, SuccessKeeps, FailureKeeps, EndKeeps, TickKeeps DEF Next

\* A call starts only in a circuit that has not failed, or has rested.
Rested ==
    \A c \in Callers : ~Running(c) /\ Running(c)'
        => streak < FailureThreshold \/ quiet = RecoveryTimeout

LEMMA BreakerRests == ASSUME BreakerInv, Next PROVE Rested
<1> SUFFICES ASSUME NEW c \in Callers, ~Running(c), Running(c)'
             PROVE  streak < FailureThreshold \/ quiet = RecoveryTimeout
  BY DEF Rested
<1>1. call \in [Callers -> {"idle", "plain", "probe"}] BY DEF BreakerInv, TypeOK
<1>2. PICK d \in Callers : Acquire(d)
  BY <1>1 DEF Next, Tick, Success, Failure, Cancel, Drop, Ended, Running
<1>3. ~Rejected BY <1>2 DEF Acquire
<1> QED BY <1>3, BreakerConstantsOK DEF Rejected, BreakerInv, TypeOK, Counts

-----------------------------------------------------------------------------
(* The scheduler: no source is given up *)

LEMMA PolicyBounds ==
    ASSUME NEW c, NEW name \in DOMAIN Scheduler(c)!Policies
    PROVE  /\ Scheduler(c)!Policies[name][1] \in 1 .. 16
           /\ Scheduler(c)!Policies[name][2] \in 16 .. 64
BY DEF Scheduler!Policies

LEMMA ClassifyTyped ==
    ASSUME NEW c, NEW e PROVE Scheduler(c)!Classify(e) \in DOMAIN Scheduler(c)!Policies
BY DEF Scheduler!Classify, Scheduler!Policies

LEMMA CooldownBounded ==
    ASSUME NEW c, NEW name \in DOMAIN Scheduler(c)!Policies, NEW n \in Nat \ {0}
    PROVE  /\ Scheduler(c)!CooldownCycles(name, n) \in 0 .. 64
           /\ Scheduler(c)!CooldownCycles(name, n) <= Scheduler(c)!Policies[name][2]
<1> DEFINE base == Scheduler(c)!Policies[name][1]
           bound == Scheduler(c)!Policies[name][2]
           factor == Scheduler(c)!Doubled[Scheduler(c)!Smaller(5, n)]
<1>1. base \in Nat /\ bound \in 0 .. 64 BY PolicyBounds
<1>2. Scheduler(c)!Smaller(5, n) \in 1 .. 5 BY DEF Scheduler!Smaller
<1>3. factor \in Nat BY <1>2 DEF Scheduler!Doubled
<1>4. Scheduler(c)!CooldownCycles(name, n) = Scheduler(c)!Smaller(bound, base * factor)
  BY DEF Scheduler!CooldownCycles
<1> HIDE DEF base, bound, factor
<1>5. base * factor \in Nat BY <1>1, <1>3
<1>6. Scheduler(c)!Smaller(bound, base * factor) \in 0 .. 64
      /\ Scheduler(c)!Smaller(bound, base * factor) <= bound
  BY <1>1, <1>5 DEF Scheduler!Smaller
<1> QED BY <1>4, <1>6 DEF bound

LEMMA EveryTyped ==
    ASSUME NEW c, Scheduler(c)!SchedulerConstantsOK, NEW band \in 1 .. 4, NEW cycles \in Nat
    PROVE  Scheduler(c)!ScanEvery(band, cycles) \in 1 .. c.maxScanEvery
BY DEF Scheduler!ScanEvery, Scheduler!Smaller, Scheduler!SchedulerConstantsOK

\* What a cadence waits for comes within one period.
LEMMA TurnComes ==
    ASSUME NEW n \in Nat, NEW e \in Nat \ {0}
    PROVE  \E k \in 0 .. e - 1 : (n + k) % e = 0
<1>1. n % e \in 0 .. e - 1 OBVIOUS
<1>2. CASE n % e = 0
  <2>1. (n + 0) % e = 0 BY <1>2
  <2> QED BY <2>1
<1>3. CASE n % e # 0
  <2>1. (n + (e - (n % e))) % e = 0 OBVIOUS
  <2>2. e - (n % e) \in 0 .. e - 1 BY <1>1, <1>3
  <2> QED BY <2>1, <2>2
<1> QED BY <1>2, <1>3

LEMMA RestBounds ==
    ASSUME NEW c, NEW name \in DOMAIN Scheduler(c)!Policies \cup {"none"}
    PROVE  (IF name = "none" THEN 1 ELSE Scheduler(c)!Policies[name][2]) \in 1 .. 64
BY PolicyBounds

LEMMA DueComes ==
    ASSUME NEW rested \in Nat, NEW index \in Nat,
           NEW rest \in Nat \ {0}, NEW e \in Nat \ {0}, rested <= index + rest
    PROVE  \E i \in index + 1 .. index + rest + e - 1 : (i - 1) % e = 0 /\ i >= rested
<1>2. PICK m \in Nat : m >= index + 1 /\ m <= index + rest /\ m >= rested
  <2>1. CASE rested > index + 1 BY <2>1
  <2>2. CASE ~(rested > index + 1) BY <2>2
  <2> QED BY <2>1, <2>2
<1>3. PICK k \in 0 .. e - 1 : ((m - 1) + k) % e = 0
  <2>1. m - 1 \in Nat BY <1>2
  <2> QED BY <2>1, TurnComes
<1>4. PICK i \in Nat : i = m + k BY <1>2, <1>3
<1>5. /\ i \in index + 1 .. index + rest + e - 1 /\ i - 1 = (m - 1) + k
      /\ i >= rested
  BY <1>2, <1>3, <1>4
<1> QED BY <1>3, <1>5

LEMMA DueAt ==
    ASSUME NEW c, NEW s, NEW i, NEW e, e = every[s], (i - 1) % e = 0, c.cooldowns => i >= until[s]
    PROVE  Scheduler(c)!Due(s, i)
BY DEF Scheduler!Due

LEMMA DueAtNext ==
    ASSUME NEW c, NEW s, NEW i, NEW e, e = every'[s], (i - 1) % e = 0, c.cooldowns => i >= until'[s]
    PROVE  Scheduler(c)!Due(s, i)'
BY DEF Scheduler!Due

\* A source that was planned last, and rests no longer than its class allows, is
\* planned again in time.
LEMMA PlannedIsDueSoon ==
    ASSUME NEW c, Scheduler(c)!SchedulerConstantsOK, Scheduler(c)!TypeOK,
           NEW s \in Scheduler(c)!Sources, lastPlan[s] = began,
           c.cooldowns => until[s] <= counter + Scheduler(c)!Longest(s)
    PROVE  Scheduler(c)!DueSoon(s)
<1>1. /\ class[s] \in DOMAIN Scheduler(c)!Policies \cup {"none"} /\ every[s] \in Nat \ {0}
      /\ until[s] \in Nat /\ counter \in Nat /\ began \in Nat
  BY DEF Scheduler!TypeOK
<1>2. Scheduler(c)!Longest(s) \in Nat \ {0} BY <1>1, RestBounds DEF Scheduler!Longest
<1>3. PICK rested \in Nat : /\ c.cooldowns => rested = until[s]
                           /\ rested <= counter + Scheduler(c)!Longest(s)
  <2>1. CASE c.cooldowns BY <1>1, <2>1
  <2>2. CASE ~c.cooldowns
    <3>1. 0 \in Nat /\ 0 <= counter + Scheduler(c)!Longest(s) BY <1>1, <1>2
    <3> QED BY <2>2, <3>1
  <2> QED BY <2>1, <2>2
<1>4. PICK index \in Nat, rest \in Nat \ {0}, e \in Nat \ {0} :
          index = counter /\ rest = Scheduler(c)!Longest(s) /\ e = every[s]
  BY <1>1, <1>2
<1>5. rested <= index + rest BY <1>3, <1>4
<1>6. PICK i \in index + 1 .. index + rest + e - 1 : (i - 1) % e = 0 /\ i >= rested
  BY <1>5, DueComes
<1>7. Scheduler(c)!Due(s, i) BY <1>3, <1>4, <1>6, DueAt
<1>8. PICK n \in 1 .. rest + e - 1 : counter + n = i
  <2>1. i - index \in 1 .. rest + e - 1 /\ index + (i - index) = i BY <1>6
  <2> QED BY <1>4, <2>1
<1>9. rest + e - 1 = Scheduler(c)!Longest(s) + every[s] - 1 - (began - lastPlan[s])
  BY <1>1, <1>4
<1> QED BY <1>7, <1>8, <1>9 DEF Scheduler!DueSoon

LEMMA PlannedIsDueSoonNext ==
    ASSUME NEW c, Scheduler(c)!SchedulerConstantsOK, Scheduler(c)!TypeOK',
           NEW s \in Scheduler(c)!Sources, lastPlan'[s] = began',
           c.cooldowns => until'[s] <= counter' + Scheduler(c)!Longest(s)'
    PROVE  Scheduler(c)!DueSoon(s)'
<1>1. /\ class'[s] \in DOMAIN Scheduler(c)!Policies \cup {"none"} /\ every'[s] \in Nat \ {0}
      /\ until'[s] \in Nat /\ counter' \in Nat /\ began' \in Nat
  BY DEF Scheduler!TypeOK
<1>2. Scheduler(c)!Longest(s)' \in Nat \ {0} BY <1>1, RestBounds DEF Scheduler!Longest
<1>3. PICK rested \in Nat : /\ c.cooldowns => rested = until'[s]
                           /\ rested <= counter' + Scheduler(c)!Longest(s)'
  <2>1. CASE c.cooldowns BY <1>1, <2>1
  <2>2. CASE ~c.cooldowns
    <3>1. 0 \in Nat /\ 0 <= counter' + Scheduler(c)!Longest(s)' BY <1>1, <1>2
    <3> QED BY <2>2, <3>1
  <2> QED BY <2>1, <2>2
<1>4. PICK index \in Nat, rest \in Nat \ {0}, e \in Nat \ {0} :
          /\ index = counter' /\ rest = Scheduler(c)!Longest(s)'
          /\ e = every'[s]
  BY <1>1, <1>2
<1>5. rested <= index + rest BY <1>3, <1>4
<1>6. PICK i \in index + 1 .. index + rest + e - 1 : (i - 1) % e = 0 /\ i >= rested
  BY <1>5, DueComes
<1>7. Scheduler(c)!Due(s, i)' BY <1>3, <1>4, <1>6, DueAtNext
<1>8. PICK n \in 1 .. rest + e - 1 : counter' + n = i
  <2>1. i - index \in 1 .. rest + e - 1 /\ index + (i - index) = i BY <1>6
  <2> QED BY <1>4, <2>1
<1>9. rest + e - 1 = Scheduler(c)!Longest(s)' + every'[s] - 1 - (began' - lastPlan'[s])
  BY <1>1, <1>4
<1> QED BY <1>7, <1>8, <1>9 DEF Scheduler!DueSoon

\* A source that no step of the cycle is about waits as before.
LEMMA DueStays ==
    ASSUME NEW c, NEW s \in Scheduler(c)!Sources, Scheduler(c)!DueSoon(s),
           every'[s] = every[s], class'[s] = class[s], until'[s] = until[s],
           lastPlan'[s] = lastPlan[s], counter' = counter, began' = began
    PROVE  Scheduler(c)!DueSoon(s)'
BY DEF Scheduler!DueSoon, Scheduler!Longest, Scheduler!Due

LEMMA SchedulerInit ==
    ASSUME NEW c, Scheduler(c)!SchedulerConstantsOK, Scheduler(c)!Init
    PROVE  Scheduler(c)!SchedulerInv
<1>1. /\ counter = 0 /\ began = 0 /\ crashes = 0
      /\ seen = [s \in Scheduler(c)!Sources |-> 0] /\ every = [s \in Scheduler(c)!Sources |-> 1]
      /\ failuresOf = [s \in Scheduler(c)!Sources |-> 0] /\ until = failuresOf
      /\ class = [s \in Scheduler(c)!Sources |-> "none"]
      /\ registered = c.curated /\ adapters = c.curated
      /\ at = "idle" /\ selected = {} /\ outcome = <<>>
      /\ lastPlan = failuresOf /\ streakOf = failuresOf
  BY DEF Scheduler!Init
<1>2. /\ c.minCycles \in Nat /\ c.maxScanEvery \in Nat \ {0} /\ c.maxCycles \in Nat
      /\ c.maxCrashes \in Nat /\ c.curated \subseteq Scheduler(c)!Sources
  BY DEF Scheduler!SchedulerConstantsOK, Scheduler!Sources
<1>3. Scheduler(c)!TypeOK BY <1>1, <1>2 DEF Scheduler!TypeOK, Scheduler!MaxCooldown
<1>4. Scheduler(c)!CycleInOrder BY <1>1, <1>2 DEF Scheduler!CycleInOrder
<1>5. Scheduler(c)!Counted BY <1>1 DEF Scheduler!Counted
<1>6. \A s \in registered : Scheduler(c)!DueSoon(s)
  <2> TAKE s \in registered
  <2>1. s \in Scheduler(c)!Sources BY <1>1, <1>2
  <2>2. until[s] = 0 /\ lastPlan[s] = began /\ Scheduler(c)!Longest(s) = 1
    BY <1>1, <2>1 DEF Scheduler!Longest
  <2>3. until[s] <= counter + Scheduler(c)!Longest(s) BY <1>1, <2>2
  <2> QED BY <1>3, <2>1, <2>2, <2>3, PlannedIsDueSoon
<1> QED BY <1>1, <1>3, <1>4, <1>5, <1>6 DEF Scheduler!SchedulerInv

LEMMA SchedulerStays ==
    ASSUME NEW c, Scheduler(c)!SchedulerInv, UNCHANGED schedulerVars
    PROVE  Scheduler(c)!SchedulerInv'
<1>1. /\ UNCHANGED <<counter, seen, every, until, class, registered, adapters, at, selected>>
      /\ UNCHANGED <<outcome, began, lastPlan, crashes, failuresOf, streakOf>>
  BY DEF schedulerVars
<1>2. Scheduler(c)!TypeOK' BY <1>1 DEF Scheduler!SchedulerInv, Scheduler!TypeOK
<1>3. Scheduler(c)!CycleInOrder' BY <1>1 DEF Scheduler!SchedulerInv, Scheduler!CycleInOrder
<1>4. Scheduler(c)!Counted' BY <1>1 DEF Scheduler!SchedulerInv, Scheduler!Counted
<1>5. \A s \in registered \ selected : Scheduler(c)!DueSoon(s)'
  BY <1>1 DEF Scheduler!SchedulerInv, Scheduler!DueSoon, Scheduler!Longest, Scheduler!Due
<1> QED BY <1>1, <1>2, <1>3, <1>4, <1>5 DEF Scheduler!SchedulerInv

\* The types a step starts from.
LEMMA SchedulerTypes ==
    ASSUME NEW c, Scheduler(c)!SchedulerConstantsOK, Scheduler(c)!SchedulerInv
    PROVE  /\ counter \in 0 .. c.maxCycles /\ began \in 0 .. c.maxCycles /\ counter <= began
           /\ counter \in Nat /\ began \in Nat
           /\ registered \subseteq Scheduler(c)!Sources /\ adapters \subseteq registered
           /\ selected \subseteq registered /\ crashes \in 0 .. c.maxCrashes
           /\ c.maxCycles \in Nat /\ c.maxCrashes \in Nat /\ c.found \subseteq Scheduler(c)!Sources
           /\ \A s \in Scheduler(c)!Sources :
                 /\ every[s] \in Nat \ {0} /\ until[s] \in Nat /\ lastPlan[s] \in Nat
                 /\ failuresOf[s] \in Nat /\ streakOf[s] \in Nat
                 /\ lastPlan[s] <= began /\ failuresOf[s] <= lastPlan[s] /\ streakOf[s] <= lastPlan[s]
<1>1. /\ counter \in 0 .. c.maxCycles /\ began \in 0 .. c.maxCycles
      /\ registered \subseteq Scheduler(c)!Sources /\ adapters \subseteq registered
      /\ selected \subseteq registered /\ crashes \in 0 .. c.maxCrashes
  BY DEF Scheduler!SchedulerInv, Scheduler!TypeOK
<1>2. c.maxCycles \in Nat /\ c.maxCrashes \in Nat /\ c.found \subseteq Scheduler(c)!Sources
  BY DEF Scheduler!SchedulerConstantsOK, Scheduler!Sources
<1>3. \A s \in Scheduler(c)!Sources :
          /\ every[s] \in Nat \ {0} /\ until[s] \in Nat /\ lastPlan[s] \in Nat
          /\ failuresOf[s] \in Nat /\ streakOf[s] \in Nat
  BY DEF Scheduler!SchedulerInv, Scheduler!TypeOK
<1>4. /\ counter <= began
      /\ \A s \in Scheduler(c)!Sources :
            lastPlan[s] <= began /\ failuresOf[s] <= lastPlan[s] /\ streakOf[s] <= lastPlan[s]
  BY DEF Scheduler!SchedulerInv, Scheduler!CycleInOrder
<1> QED BY <1>1, <1>2, <1>3, <1>4

LEMMA PlanKeeps ==
    ASSUME NEW c, Scheduler(c)!SchedulerConstantsOK, Scheduler(c)!SchedulerInv, Scheduler(c)!Plan
    PROVE  Scheduler(c)!SchedulerInv'
<1>1. /\ at = "idle" /\ began < c.maxCycles
      /\ counter' = counter + 1 /\ began' = began + 1 /\ at' = "planned"
      /\ selected' = {s \in adapters : Scheduler(c)!Due(s, counter + 1)}
      /\ adapters' = selected'
      /\ lastPlan' = [s \in Scheduler(c)!Sources |-> IF s \in selected' THEN began' ELSE lastPlan[s]]
      /\ UNCHANGED <<seen, every, failuresOf, until, class, registered, outcome, streakOf, crashes>>
  BY DEF Scheduler!Plan, Scheduler!durable
<1>2. /\ adapters = registered /\ selected = {} /\ (c.cooldowns => counter = began)
      /\ outcome = <<>>
  BY <1>1 DEF Scheduler!SchedulerInv, Scheduler!CycleInOrder
<1>3. /\ counter' \in 0 .. c.maxCycles /\ began' \in 0 .. c.maxCycles /\ counter' <= began'
      /\ selected' \subseteq registered /\ selected' \subseteq Scheduler(c)!Sources
  BY <1>1, <1>2, SchedulerTypes
<1>4. lastPlan' \in [Scheduler(c)!Sources -> 0 .. c.maxCycles]
  BY <1>1, <1>3 DEF Scheduler!SchedulerInv, Scheduler!TypeOK
<1>5. Scheduler(c)!TypeOK'
  BY <1>1, <1>2, <1>3, <1>4 DEF Scheduler!SchedulerInv, Scheduler!TypeOK
<1>6. ASSUME NEW s \in Scheduler(c)!Sources
      PROVE  /\ lastPlan'[s] <= began' /\ failuresOf[s] <= lastPlan'[s] /\ streakOf[s] <= lastPlan'[s]
             /\ s \in selected' => /\ lastPlan'[s] = began' /\ failuresOf[s] < began'
                                  /\ streakOf[s] < began'
             /\ s \notin selected' => lastPlan'[s] = lastPlan[s]
  BY <1>1, SchedulerTypes
<1>7. \A s \in selected' : c.cooldowns => until[s] <= counter'
  <2> SUFFICES ASSUME NEW s \in selected', c.cooldowns PROVE until[s] <= counter' OBVIOUS
  <2>1. Scheduler(c)!Due(s, counter + 1) BY <1>1
  <2>2. counter + 1 >= until[s] BY <2>1 DEF Scheduler!Due
  <2>3. until[s] \in Nat /\ counter \in Nat BY <1>3, SchedulerTypes
  <2> QED BY <1>1, <2>2, <2>3
<1>8. Scheduler(c)!CycleInOrder'
  <2>1. \A s \in Scheduler(c)!Sources \ registered : until[s] = 0
    BY DEF Scheduler!SchedulerInv, Scheduler!CycleInOrder
  <2>2. c.cooldowns => counter' = began' BY <1>1, <1>2
  <2> QED BY <1>1, <1>2, <1>3, <1>6, <1>7, <2>1, <2>2 DEF Scheduler!CycleInOrder
<1>9. Scheduler(c)!Counted' BY <1>1 DEF Scheduler!SchedulerInv, Scheduler!Counted
<1>10. ASSUME NEW s \in registered \ selected' PROVE Scheduler(c)!DueSoon(s)'
  <2>1. s \in Scheduler(c)!Sources /\ ~Scheduler(c)!Due(s, counter + 1)
    BY <1>1, <1>2, SchedulerTypes
  <2>2. PICK n \in 1 .. Scheduler(c)!Longest(s) + every[s] - 1 - (began - lastPlan[s]) :
            Scheduler(c)!Due(s, counter + n)
    BY <1>2 DEF Scheduler!SchedulerInv, Scheduler!DueSoon
  <2>3. n # 1 BY <2>1, <2>2
  <2>4. Scheduler(c)!Longest(s) \in Int /\ every[s] \in Int /\ began \in Int /\ lastPlan[s] \in Int
        /\ counter \in Int
    <3>1. class[s] \in DOMAIN Scheduler(c)!Policies \cup {"none"}
      BY <2>1 DEF Scheduler!SchedulerInv, Scheduler!TypeOK
    <3>2. Scheduler(c)!Longest(s) \in Int BY <3>1, RestBounds DEF Scheduler!Longest
    <3> QED BY <2>1, <3>2, SchedulerTypes
  <2>5. PICK m \in Int : m = n - 1 OBVIOUS
  <2>6. /\ m \in 1 .. Scheduler(c)!Longest(s) + every[s] - 1 - (began' - lastPlan[s])
        /\ counter' + m = counter + n
    BY <1>1, <2>2, <2>3, <2>4, <2>5
  <2>7. PICK i : i = counter + n OBVIOUS
  <2>8. Scheduler(c)!Due(s, i)'
    <3>1. Scheduler(c)!Due(s, i) BY <2>2, <2>7
    <3> QED BY <1>1, <3>1 DEF Scheduler!Due
  <2>9. Scheduler(c)!Longest(s)' = Scheduler(c)!Longest(s) BY <1>1 DEF Scheduler!Longest
  <2>10. lastPlan'[s] = lastPlan[s] BY <1>6, <2>1
  <2> QED BY <1>1, <2>6, <2>7, <2>8, <2>9, <2>10 DEF Scheduler!DueSoon
<1> QED BY <1>1, <1>5, <1>8, <1>9, <1>10 DEF Scheduler!SchedulerInv

\* A scan that ends, or raises, registers what it found, as planned just now.
LEMMA FoundKeeps ==
    ASSUME NEW c, Scheduler(c)!SchedulerConstantsOK, Scheduler(c)!SchedulerInv,
           NEW new \in SUBSET (c.found \ registered), registered' = registered \cup new,
           lastPlan' = [s \in Scheduler(c)!Sources |-> IF s \in new THEN began ELSE lastPlan[s]],
           UNCHANGED <<counter, began, every, class, until>>
    PROVE  /\ registered' \subseteq Scheduler(c)!Sources
           /\ lastPlan' \in [Scheduler(c)!Sources -> 0 .. c.maxCycles]
           /\ \A s \in Scheduler(c)!Sources : lastPlan'[s] <= began' /\ lastPlan[s] <= lastPlan'[s]
           /\ \A s \in selected : lastPlan'[s] = lastPlan[s] /\ lastPlan'[s] = began'
           /\ Scheduler(c)!TypeOK' =>
                 \A s \in registered' \ selected : Scheduler(c)!DueSoon(s)'
<1>1. /\ registered \subseteq Scheduler(c)!Sources /\ c.found \subseteq Scheduler(c)!Sources
      /\ selected \subseteq registered /\ counter \in Nat
      /\ began \in 0 .. c.maxCycles /\ began \in Nat
      /\ \A s \in Scheduler(c)!Sources : lastPlan[s] <= began /\ lastPlan[s] \in Nat
  BY SchedulerTypes
<1>2. lastPlan' \in [Scheduler(c)!Sources -> 0 .. c.maxCycles]
  BY <1>1 DEF Scheduler!SchedulerInv, Scheduler!TypeOK
<1>3. \A s \in selected : lastPlan[s] = began /\ lastPlan'[s] = lastPlan[s]
  <2>1. at # "idle" \/ selected = {} BY DEF Scheduler!SchedulerInv, Scheduler!CycleInOrder
  <2>2. \A s \in selected : lastPlan[s] = began
    BY DEF Scheduler!SchedulerInv, Scheduler!CycleInOrder
  <2> QED BY <1>1, <2>2
<1>4. \A s \in Scheduler(c)!Sources : lastPlan'[s] <= began' /\ lastPlan[s] <= lastPlan'[s]
  BY <1>1
<1>5. ASSUME Scheduler(c)!TypeOK', NEW s \in registered' \ selected
      PROVE  Scheduler(c)!DueSoon(s)'
  <2>1. s \in Scheduler(c)!Sources BY <1>1
  <2>2. CASE s \in new
    <3>1. until[s] = 0 /\ lastPlan'[s] = began'
      BY <2>1, <2>2 DEF Scheduler!SchedulerInv, Scheduler!CycleInOrder
    <3>2. Scheduler(c)!Longest(s)' \in Nat
      <4>1. class'[s] \in DOMAIN Scheduler(c)!Policies \cup {"none"}
        BY <1>5, <2>1 DEF Scheduler!TypeOK
      <4> QED BY <4>1, RestBounds DEF Scheduler!Longest
    <3>3. until'[s] <= counter' + Scheduler(c)!Longest(s)' BY <1>1, <3>1, <3>2
    <3> QED BY <1>5, <2>1, <3>1, <3>3, PlannedIsDueSoonNext
  <2>3. CASE s \notin new
    <3>1. Scheduler(c)!DueSoon(s) BY <2>3 DEF Scheduler!SchedulerInv
    <3>2. lastPlan'[s] = lastPlan[s] BY <2>1, <2>3
    <3> QED BY <2>1, <3>1, <3>2, DueStays
  <2> QED BY <2>2, <2>3
<1> QED BY <1>1, <1>2, <1>3, <1>4, <1>5

LEMMA ScanKeeps ==
    ASSUME NEW c, Scheduler(c)!SchedulerConstantsOK, Scheduler(c)!SchedulerInv, Scheduler(c)!Scan
    PROVE  Scheduler(c)!SchedulerInv'
<1>0. PICK o \in [selected -> c.errors \cup {Scheduler(c)!Ok}], new \in SUBSET (c.found \ registered) :
          /\ outcome' = o
          /\ registered' = registered \cup new
          /\ adapters' = registered'
          /\ lastPlan' = [s \in Scheduler(c)!Sources |-> IF s \in new THEN began ELSE lastPlan[s]]
          /\ streakOf' = [s \in Scheduler(c)!Sources |->
                IF s \notin selected THEN streakOf[s]
                ELSE IF o[s] = Scheduler(c)!Ok THEN 0 ELSE streakOf[s] + 1]
  BY DEF Scheduler!Scan
<1>1. /\ at = "planned" /\ at' = "scanned"
      /\ UNCHANGED <<counter, seen, every, failuresOf, until, class, selected, began, crashes>>
  BY DEF Scheduler!Scan, Scheduler!durable
<1>2. /\ registered' \subseteq Scheduler(c)!Sources
      /\ lastPlan' \in [Scheduler(c)!Sources -> 0 .. c.maxCycles]
      /\ \A s \in Scheduler(c)!Sources : lastPlan'[s] <= began' /\ lastPlan[s] <= lastPlan'[s]
      /\ \A s \in selected : lastPlan'[s] = lastPlan[s] /\ lastPlan'[s] = began'
      /\ Scheduler(c)!TypeOK' =>
            \A s \in registered' \ selected : Scheduler(c)!DueSoon(s)'
  BY <1>0, <1>1, FoundKeeps
<1>3. /\ selected \subseteq registered /\ selected \subseteq Scheduler(c)!Sources
      /\ began \in 0 .. c.maxCycles /\ c.maxCycles \in Nat
  BY SchedulerTypes
<1>4. /\ \A s \in selected : /\ lastPlan[s] = began /\ failuresOf[s] < began /\ streakOf[s] < began
                             /\ (c.cooldowns => until[s] <= counter)
      /\ \A s \in Scheduler(c)!Sources \ registered : until[s] = 0
      /\ counter <= began /\ (c.cooldowns => counter = began)
  BY <1>1 DEF Scheduler!SchedulerInv, Scheduler!CycleInOrder
<1>5. ASSUME NEW s \in Scheduler(c)!Sources
      PROVE  /\ streakOf'[s] \in 0 .. c.maxCycles /\ streakOf'[s] <= lastPlan'[s]
             /\ failuresOf[s] <= lastPlan'[s]
  <2>1. /\ streakOf[s] \in Nat /\ failuresOf[s] \in Nat /\ lastPlan[s] \in Nat
        /\ failuresOf[s] <= lastPlan[s] /\ streakOf[s] <= lastPlan[s]
    BY SchedulerTypes
  <2>2. lastPlan'[s] \in 0 .. c.maxCycles /\ lastPlan[s] <= lastPlan'[s] BY <1>2
  <2>3. CASE s \in selected
    <3>1. streakOf'[s] = 0 \/ streakOf'[s] = streakOf[s] + 1 BY <1>0, <2>3
    <3>2. streakOf[s] < began /\ lastPlan'[s] = began BY <1>1, <1>2, <1>4, <2>3
    <3> QED BY <1>3, <2>1, <2>2, <3>1, <3>2
  <2>4. CASE s \notin selected
    <3>1. streakOf'[s] = streakOf[s] BY <1>0, <2>4
    <3> QED BY <1>3, <2>1, <2>2, <3>1
  <2> QED BY <2>3, <2>4
<1>6. streakOf' \in [Scheduler(c)!Sources -> 0 .. c.maxCycles] BY <1>0, <1>5
<1>7. Scheduler(c)!TypeOK'
  BY <1>0, <1>1, <1>2, <1>3, <1>6 DEF Scheduler!SchedulerInv, Scheduler!TypeOK
<1>8. Scheduler(c)!CycleInOrder'
  BY <1>0, <1>1, <1>2, <1>4, <1>5 DEF Scheduler!CycleInOrder
<1>9. Scheduler(c)!Counted'
  BY <1>0, <1>1, <1>3 DEF Scheduler!SchedulerInv, Scheduler!Counted
<1> QED BY <1>1, <1>2, <1>7, <1>8, <1>9 DEF Scheduler!SchedulerInv

\* When the cycle ends without recording failures, what it selected was due in it.
LEMMA SelectedIsDueSoon ==
    ASSUME NEW c, Scheduler(c)!SchedulerConstantsOK, Scheduler(c)!SchedulerInv,
           Scheduler(c)!TypeOK', NEW s \in selected,
           lastPlan'[s] = lastPlan[s], until'[s] = until[s], began' = began,
           c.cooldowns => counter' = counter
    PROVE  Scheduler(c)!DueSoon(s)'
<1>1. /\ s \in Scheduler(c)!Sources /\ lastPlan[s] = began /\ until[s] \in Nat /\ counter \in Nat
      /\ c.cooldowns => until[s] <= counter
  BY SchedulerTypes DEF Scheduler!SchedulerInv, Scheduler!CycleInOrder
<1>2. class'[s] \in DOMAIN Scheduler(c)!Policies \cup {"none"} BY <1>1 DEF Scheduler!TypeOK
<1>3. Scheduler(c)!Longest(s)' \in Nat BY <1>2, RestBounds DEF Scheduler!Longest
<1>4. c.cooldowns => until'[s] <= counter' + Scheduler(c)!Longest(s)' BY <1>1, <1>3
<1> QED BY <1>1, <1>4, PlannedIsDueSoonNext

LEMMA RaiseKeeps ==
    ASSUME NEW c, Scheduler(c)!SchedulerConstantsOK, Scheduler(c)!SchedulerInv, Scheduler(c)!Raise
    PROVE  Scheduler(c)!SchedulerInv'
<1>0. PICK new \in SUBSET (c.found \ registered) :
          /\ registered' = registered \cup new
          /\ lastPlan' = [s \in Scheduler(c)!Sources |-> IF s \in new THEN began ELSE lastPlan[s]]
  BY DEF Scheduler!Raise
<1>1. /\ at = "planned" /\ at' = "idle" /\ selected' = {} /\ outcome' = <<>>
      /\ adapters' = registered'
      /\ UNCHANGED <<counter, seen, every, failuresOf, until, class, began, streakOf, crashes>>
  BY DEF Scheduler!Raise, Scheduler!durable
<1>2. /\ registered' \subseteq Scheduler(c)!Sources
      /\ lastPlan' \in [Scheduler(c)!Sources -> 0 .. c.maxCycles]
      /\ \A s \in Scheduler(c)!Sources : lastPlan'[s] <= began' /\ lastPlan[s] <= lastPlan'[s]
      /\ \A s \in selected : lastPlan'[s] = lastPlan[s] /\ lastPlan'[s] = began'
      /\ Scheduler(c)!TypeOK' =>
            \A s \in registered' \ selected : Scheduler(c)!DueSoon(s)'
  BY <1>0, <1>1, FoundKeeps
<1>3. Scheduler(c)!TypeOK'
  BY <1>1, <1>2 DEF Scheduler!SchedulerInv, Scheduler!TypeOK
<1>4. ASSUME NEW s \in Scheduler(c)!Sources
      PROVE  failuresOf[s] <= lastPlan'[s] /\ streakOf[s] <= lastPlan'[s]
  <2>1. /\ streakOf[s] \in Nat /\ failuresOf[s] \in Nat /\ lastPlan[s] \in Nat
        /\ failuresOf[s] <= lastPlan[s] /\ streakOf[s] <= lastPlan[s]
    BY SchedulerTypes
  <2>2. lastPlan'[s] \in 0 .. c.maxCycles /\ lastPlan[s] <= lastPlan'[s] BY <1>2
  <2> QED BY <2>1, <2>2
<1>5. Scheduler(c)!CycleInOrder'
  <2>1. /\ \A s \in Scheduler(c)!Sources \ registered : until[s] = 0
        /\ counter <= began /\ (c.cooldowns => counter = began)
    BY DEF Scheduler!SchedulerInv, Scheduler!CycleInOrder
  <2> QED BY <1>0, <1>1, <1>2, <1>4, <2>1 DEF Scheduler!CycleInOrder
<1>6. Scheduler(c)!Counted' BY <1>1 DEF Scheduler!SchedulerInv, Scheduler!Counted
<1>7. ASSUME NEW s \in registered' PROVE Scheduler(c)!DueSoon(s)'
  <2>1. CASE s \in selected BY <1>1, <1>2, <1>3, <2>1, SelectedIsDueSoon
  <2>2. CASE s \notin selected BY <1>2, <1>3, <1>7, <2>2
  <2> QED BY <2>1, <2>2
<1> QED BY <1>1, <1>3, <1>5, <1>6, <1>7 DEF Scheduler!SchedulerInv

LEMMA CrashKeeps ==
    ASSUME NEW c, Scheduler(c)!SchedulerConstantsOK, Scheduler(c)!SchedulerInv, Scheduler(c)!Crash
    PROVE  Scheduler(c)!SchedulerInv'
<1>1. /\ crashes < c.maxCrashes /\ crashes' = crashes + 1
      /\ counter' = IF c.cooldowns THEN counter ELSE 0
      /\ adapters' = registered /\ at' = "idle" /\ selected' = {} /\ outcome' = <<>>
      /\ UNCHANGED <<seen, every, failuresOf, until, class, registered, began, lastPlan, streakOf>>
  BY DEF Scheduler!Crash, Scheduler!durable
<1>2. /\ counter \in 0 .. c.maxCycles /\ began \in 0 .. c.maxCycles /\ counter <= began
      /\ crashes \in 0 .. c.maxCrashes /\ c.maxCrashes \in Nat /\ c.maxCycles \in Nat
  BY SchedulerTypes
<1>3. counter' \in 0 .. c.maxCycles /\ crashes' \in 0 .. c.maxCrashes /\ crashes' # 0 /\ counter' <= began
  BY <1>1, <1>2
<1>4. Scheduler(c)!TypeOK'
  BY <1>1, <1>3 DEF Scheduler!SchedulerInv, Scheduler!TypeOK
<1>5. Scheduler(c)!CycleInOrder'
  BY <1>1, <1>3 DEF Scheduler!SchedulerInv, Scheduler!CycleInOrder
<1>6. Scheduler(c)!Counted' BY <1>3 DEF Scheduler!Counted
<1>7. ASSUME NEW s \in registered PROVE Scheduler(c)!DueSoon(s)'
  <2>1. s \in Scheduler(c)!Sources BY SchedulerTypes
  <2>2. CASE s \in selected BY <1>1, <1>4, <2>2, SelectedIsDueSoon
  <2>3. CASE s \notin selected /\ c.cooldowns
    <3>1. Scheduler(c)!DueSoon(s) BY <2>3 DEF Scheduler!SchedulerInv
    <3> QED BY <1>1, <2>1, <2>3, <3>1, DueStays
  <2>4. CASE s \notin selected /\ ~c.cooldowns
    <3>1. PICK n \in 1 .. Scheduler(c)!Longest(s) + every[s] - 1 - (began - lastPlan[s]) : TRUE
      BY <2>4 DEF Scheduler!SchedulerInv, Scheduler!DueSoon
    <3>2. Scheduler(c)!Longest(s) \in Int /\ every[s] \in Nat \ {0} /\ lastPlan[s] \in Int
      <4>1. class[s] \in DOMAIN Scheduler(c)!Policies \cup {"none"}
        BY <2>1 DEF Scheduler!SchedulerInv, Scheduler!TypeOK
      <4>2. Scheduler(c)!Longest(s) \in Int BY <4>1, RestBounds DEF Scheduler!Longest
      <4> QED BY <2>1, <4>2, SchedulerTypes
    <3>3. 1 \in 1 .. Scheduler(c)!Longest(s) + every[s] - 1 - (began - lastPlan[s])
      BY <1>2, <3>1, <3>2
    <3>4. PICK e \in Nat \ {0} : e = every[s] BY <3>2
    <3>5. (1 - 1) % e = 0 BY <3>4
    <3>6. Scheduler(c)!Due(s, 1)' BY <1>1, <2>4, <3>4, <3>5, DueAtNext
    <3>7. counter' + 1 = 1 BY <1>1, <2>4
    <3>8. Scheduler(c)!Longest(s)' = Scheduler(c)!Longest(s) BY <1>1 DEF Scheduler!Longest
    <3> QED BY <1>1, <3>3, <3>6, <3>7, <3>8 DEF Scheduler!DueSoon
  <2> QED BY <2>2, <2>3, <2>4
<1> QED BY <1>1, <1>4, <1>5, <1>6, <1>7 DEF Scheduler!SchedulerInv
LEMMA LearnKeeps ==
    ASSUME NEW c, Scheduler(c)!SchedulerConstantsOK, Scheduler(c)!SchedulerInv, Scheduler(c)!Learn
    PROVE  Scheduler(c)!SchedulerInv'
<1>0. PICK band \in [selected -> 1 .. 4] : Scheduler(c)!Sampled(selected, band)
  BY DEF Scheduler!Learn
<1>1. /\ at = "scanned" /\ at' = "learned"
      /\ UNCHANGED <<counter, failuresOf, until, class, registered, adapters, selected, outcome>>
      /\ UNCHANGED <<began, lastPlan, streakOf, crashes>>
  BY DEF Scheduler!Learn, Scheduler!engine
<1>2. /\ seen' = [s \in Scheduler(c)!Sources |->
                    IF s \in selected THEN Scheduler(c)!Smaller(seen[s] + 1, c.minCycles) ELSE seen[s]]
      /\ every' = [s \in Scheduler(c)!Sources |->
                    IF s \in selected THEN Scheduler(c)!ScanEvery(band[s], seen'[s]) ELSE every[s]]
  BY <1>0 DEF Scheduler!Sampled
<1>3. /\ seen \in [Scheduler(c)!Sources -> 0 .. c.minCycles] /\ c.minCycles \in Nat
      /\ every \in [Scheduler(c)!Sources -> 1 .. c.maxScanEvery]
  BY DEF Scheduler!SchedulerInv, Scheduler!TypeOK, Scheduler!SchedulerConstantsOK
<1>4. \A s \in Scheduler(c)!Sources : Scheduler(c)!Smaller(seen[s] + 1, c.minCycles) \in 0 .. c.minCycles
  BY <1>3 DEF Scheduler!Smaller
<1>5. seen' \in [Scheduler(c)!Sources -> 0 .. c.minCycles] BY <1>2, <1>3, <1>4
<1>6. every' \in [Scheduler(c)!Sources -> 1 .. c.maxScanEvery]
  <2>1. ASSUME NEW s \in Scheduler(c)!Sources PROVE every'[s] \in 1 .. c.maxScanEvery
    <3>1. seen'[s] \in Nat BY <1>5
    <3>2. CASE s \in selected
      <4>1. band[s] \in 1 .. 4 BY <3>2
      <4>2. Scheduler(c)!ScanEvery(band[s], seen'[s]) \in 1 .. c.maxScanEvery
        BY <3>1, <4>1, EveryTyped
      <4> QED BY <1>2, <3>2, <4>2
    <3>3. CASE s \notin selected BY <1>2, <1>3, <3>3
    <3> QED BY <3>2, <3>3
  <2> QED BY <1>2, <2>1
<1>7. Scheduler(c)!TypeOK'
  BY <1>1, <1>5, <1>6 DEF Scheduler!SchedulerInv, Scheduler!TypeOK
<1>8. Scheduler(c)!CycleInOrder'
  BY <1>1 DEF Scheduler!SchedulerInv, Scheduler!CycleInOrder
<1>9. Scheduler(c)!Counted' BY <1>1 DEF Scheduler!SchedulerInv, Scheduler!Counted
<1>10. ASSUME NEW s \in registered \ selected PROVE Scheduler(c)!DueSoon(s)'
  <2>1. s \in Scheduler(c)!Sources BY SchedulerTypes
  <2>2. Scheduler(c)!DueSoon(s) BY DEF Scheduler!SchedulerInv
  <2>3. every'[s] = every[s] BY <1>2, <2>1
  <2> QED BY <1>1, <2>1, <2>2, <2>3, DueStays
<1> QED BY <1>1, <1>7, <1>8, <1>9, <1>10 DEF Scheduler!SchedulerInv

LEMMA RecordKeeps ==
    ASSUME NEW c, Scheduler(c)!SchedulerConstantsOK, Scheduler(c)!SchedulerInv,
           Scheduler(c)!RecordCycle
    PROVE  Scheduler(c)!SchedulerInv'
<1>1. /\ at = "learned" /\ at' = "idle" /\ selected' = {} /\ outcome' = <<>>
      /\ UNCHANGED <<counter, seen, every, registered, adapters, began, lastPlan, streakOf, crashes>>
  BY DEF Scheduler!RecordCycle, Scheduler!engine
<1>2. /\ outcome \in [selected -> c.errors \cup {Scheduler(c)!Ok}]
      /\ selected \subseteq registered /\ registered \subseteq Scheduler(c)!Sources
      /\ \A s \in selected : lastPlan[s] = began /\ failuresOf[s] < began
      /\ began \in 0 .. c.maxCycles /\ counter \in 0 .. c.maxCycles /\ c.maxCycles \in Nat
      /\ adapters = registered
  BY <1>1, SchedulerTypes DEF Scheduler!SchedulerInv, Scheduler!CycleInOrder
<1>3. CASE ~c.cooldowns
  <2>1. UNCHANGED <<failuresOf, until, class>> BY <1>3 DEF Scheduler!RecordCycle
  <2>2. Scheduler(c)!TypeOK'
    BY <1>1, <2>1 DEF Scheduler!SchedulerInv, Scheduler!TypeOK
  <2>3. Scheduler(c)!CycleInOrder'
    BY <1>1, <1>3, <2>1 DEF Scheduler!SchedulerInv, Scheduler!CycleInOrder
  <2>4. Scheduler(c)!Counted' BY <1>3 DEF Scheduler!Counted
  <2>5. ASSUME NEW s \in registered PROVE Scheduler(c)!DueSoon(s)'
    <3>1. s \in Scheduler(c)!Sources BY <1>2
    <3>2. CASE s \in selected BY <1>1, <2>1, <2>2, <3>2, SelectedIsDueSoon
    <3>3. CASE s \notin selected
      <4>1. Scheduler(c)!DueSoon(s) BY <3>3 DEF Scheduler!SchedulerInv
      <4> QED BY <1>1, <2>1, <3>1, <4>1, DueStays
    <3> QED BY <3>2, <3>3
  <2> QED BY <1>1, <2>2, <2>3, <2>4, <2>5 DEF Scheduler!SchedulerInv
<1>4. CASE c.cooldowns
  <2>1. /\ failuresOf' = [s \in Scheduler(c)!Sources |->
             IF s \notin selected THEN failuresOf[s]
             ELSE IF outcome[s] = Scheduler(c)!Ok THEN 0 ELSE failuresOf[s] + 1]
        /\ class' = [s \in Scheduler(c)!Sources |->
             IF s \notin selected THEN class[s]
             ELSE IF outcome[s] = Scheduler(c)!Ok THEN "none" ELSE Scheduler(c)!Classify(outcome[s])]
        /\ until' = [s \in Scheduler(c)!Sources |->
             IF s \notin selected THEN until[s]
             ELSE IF outcome[s] = Scheduler(c)!Ok THEN 0
             ELSE counter + Scheduler(c)!CooldownCycles(class'[s], failuresOf'[s])]
    BY <1>4 DEF Scheduler!RecordCycle, Scheduler!Recorded
  <2>2. ASSUME NEW s \in Scheduler(c)!Sources, s \notin selected
        PROVE  /\ failuresOf'[s] = failuresOf[s] /\ class'[s] = class[s] /\ until'[s] = until[s]
               /\ failuresOf[s] \in 0 .. c.maxCycles /\ until[s] \in 0 .. c.maxCycles + 64
               /\ class[s] \in DOMAIN Scheduler(c)!Policies \cup {"none"}
               /\ failuresOf[s] <= lastPlan[s]
    <3>1. failuresOf'[s] = failuresOf[s] /\ class'[s] = class[s] /\ until'[s] = until[s]
      BY <2>1, <2>2
    <3>2. /\ failuresOf[s] \in 0 .. c.maxCycles /\ until[s] \in 0 .. c.maxCycles + 64
          /\ class[s] \in DOMAIN Scheduler(c)!Policies \cup {"none"}
      BY DEF Scheduler!SchedulerInv, Scheduler!TypeOK, Scheduler!MaxCooldown
    <3>3. failuresOf[s] <= lastPlan[s] BY SchedulerTypes
    <3> QED BY <3>1, <3>2, <3>3
  <2>3. ASSUME NEW s \in selected, outcome[s] = Scheduler(c)!Ok
        PROVE  failuresOf'[s] = 0 /\ class'[s] = "none" /\ until'[s] = 0
    BY <1>2, <2>1, <2>3
  <2>4. ASSUME NEW s \in selected, outcome[s] # Scheduler(c)!Ok
        PROVE  /\ failuresOf'[s] = failuresOf[s] + 1 /\ failuresOf'[s] \in 0 .. c.maxCycles
               /\ failuresOf'[s] <= began
               /\ class'[s] \in DOMAIN Scheduler(c)!Policies
               /\ until'[s] \in 0 .. c.maxCycles + 64
               /\ until'[s] <= counter + Scheduler(c)!Policies[class'[s]][2]
    <3>1. s \in Scheduler(c)!Sources /\ failuresOf[s] \in Nat /\ failuresOf[s] < began
      BY <1>2, SchedulerTypes
    <3>2. failuresOf'[s] = failuresOf[s] + 1 BY <2>1, <2>4, <3>1
    <3>3. failuresOf'[s] \in Nat \ {0} /\ failuresOf'[s] \in 0 .. c.maxCycles /\ failuresOf'[s] <= began
      BY <1>2, <3>1, <3>2
    <3>4. class'[s] \in DOMAIN Scheduler(c)!Policies
      <4>1. class'[s] = Scheduler(c)!Classify(outcome[s]) BY <2>1, <2>4, <3>1
      <4> QED BY <4>1, ClassifyTyped
    <3>5. until'[s] = counter + Scheduler(c)!CooldownCycles(class'[s], failuresOf'[s])
      BY <2>1, <2>4, <3>1
    <3>6. PICK name \in DOMAIN Scheduler(c)!Policies, n \in Nat \ {0} :
              name = class'[s] /\ n = failuresOf'[s]
      BY <3>3, <3>4
    <3>7. /\ Scheduler(c)!CooldownCycles(name, n) \in 0 .. 64
          /\ Scheduler(c)!CooldownCycles(name, n) <= Scheduler(c)!Policies[name][2]
      BY CooldownBounded
    <3>8. Scheduler(c)!Policies[name][2] \in 16 .. 64 BY PolicyBounds
    <3>9. until'[s] = counter + Scheduler(c)!CooldownCycles(name, n) BY <3>5, <3>6
    <3>10. until'[s] \in 0 .. c.maxCycles + 64
           /\ until'[s] <= counter + Scheduler(c)!Policies[name][2]
      BY <1>2, <3>7, <3>8, <3>9
    <3> QED BY <3>2, <3>3, <3>4, <3>6, <3>10
  <2>5. ASSUME NEW s \in Scheduler(c)!Sources
        PROVE  /\ failuresOf'[s] \in 0 .. c.maxCycles /\ failuresOf'[s] <= lastPlan[s]
               /\ until'[s] \in 0 .. c.maxCycles + 64
               /\ class'[s] \in DOMAIN Scheduler(c)!Policies \cup {"none"}
    <3>1. CASE s \notin selected BY <2>2, <3>1
    <3>2. CASE s \in selected /\ outcome[s] = Scheduler(c)!Ok
      <4>1. lastPlan[s] = began BY <1>2, <3>2
      <4> QED BY <1>2, <2>3, <3>2, <4>1
    <3>3. CASE s \in selected /\ outcome[s] # Scheduler(c)!Ok
      <4>1. lastPlan[s] = began BY <1>2, <3>3
      <4> QED BY <2>4, <3>3, <4>1
    <3> QED BY <3>1, <3>2, <3>3
  <2>6. /\ failuresOf' \in [Scheduler(c)!Sources -> 0 .. c.maxCycles]
        /\ until' \in [Scheduler(c)!Sources -> 0 .. c.maxCycles + 64]
        /\ class' \in [Scheduler(c)!Sources -> DOMAIN Scheduler(c)!Policies \cup {"none"}]
    BY <2>1, <2>5
  <2>7. Scheduler(c)!TypeOK'
    BY <1>1, <2>6 DEF Scheduler!SchedulerInv, Scheduler!TypeOK, Scheduler!MaxCooldown
  <2>8. Scheduler(c)!CycleInOrder'
    <3>1. \A s \in Scheduler(c)!Sources \ registered : until'[s] = 0
      BY <1>2, <2>2 DEF Scheduler!SchedulerInv, Scheduler!CycleInOrder
    <3>2. /\ counter <= began /\ (c.cooldowns => counter = began)
          /\ \A s \in Scheduler(c)!Sources : lastPlan[s] <= began /\ streakOf[s] <= lastPlan[s]
      BY DEF Scheduler!SchedulerInv, Scheduler!CycleInOrder
    <3> QED BY <1>1, <1>2, <2>5, <3>1, <3>2 DEF Scheduler!CycleInOrder
  <2>9. Scheduler(c)!Counted'
    BY <1>1, <1>2, <2>2, <2>3, <2>4 DEF Scheduler!SchedulerInv, Scheduler!Counted
  <2>10. ASSUME NEW s \in registered PROVE Scheduler(c)!DueSoon(s)'
    <3>1. s \in Scheduler(c)!Sources BY <1>2
    <3>2. CASE s \notin selected
      <4>1. Scheduler(c)!DueSoon(s) BY <3>2 DEF Scheduler!SchedulerInv
      <4> QED BY <1>1, <2>2, <3>1, <3>2, <4>1, DueStays
    <3>3. CASE s \in selected /\ outcome[s] = Scheduler(c)!Ok
      <4>1. until'[s] = 0 /\ class'[s] = "none" /\ lastPlan'[s] = began' BY <1>1, <1>2, <2>3, <3>3
      <4>2. Scheduler(c)!Longest(s)' = 1 BY <4>1 DEF Scheduler!Longest
      <4>3. until'[s] <= counter' + Scheduler(c)!Longest(s)' BY <1>1, <1>2, <4>1, <4>2
      <4> QED BY <2>7, <3>1, <4>1, <4>3, PlannedIsDueSoonNext
    <3>4. CASE s \in selected /\ outcome[s] # Scheduler(c)!Ok
      <4>1. /\ class'[s] \in DOMAIN Scheduler(c)!Policies /\ lastPlan'[s] = began'
            /\ until'[s] <= counter' + Scheduler(c)!Policies[class'[s]][2]
        BY <1>1, <1>2, <2>4, <3>4
      <4>2. class'[s] # "none" BY <4>1 DEF Scheduler!Policies
      <4>3. Scheduler(c)!Longest(s)' = Scheduler(c)!Policies[class'[s]][2]
        BY <4>2 DEF Scheduler!Longest
      <4> QED BY <2>7, <3>1, <4>1, <4>3, PlannedIsDueSoonNext
    <3> QED BY <3>2, <3>3, <3>4
  <2> QED BY <1>1, <2>7, <2>8, <2>9, <2>10 DEF Scheduler!SchedulerInv
<1> QED BY <1>3, <1>4

LEMMA SchedulerStep ==
    ASSUME NEW c, Scheduler(c)!SchedulerConstantsOK, Scheduler(c)!SchedulerInv,
           Scheduler(c)!Next \/ UNCHANGED schedulerVars
    PROVE  Scheduler(c)!SchedulerInv'
<1>1. CASE Scheduler(c)!Plan BY <1>1, PlanKeeps
<1>2. CASE Scheduler(c)!Scan BY <1>2, ScanKeeps
<1>3. CASE Scheduler(c)!Raise BY <1>3, RaiseKeeps
<1>4. CASE Scheduler(c)!Learn BY <1>4, LearnKeeps
<1>5. CASE Scheduler(c)!RecordCycle BY <1>5, RecordKeeps
<1>6. CASE Scheduler(c)!Crash BY <1>6, CrashKeeps
<1>7. CASE UNCHANGED schedulerVars BY <1>7, SchedulerStays
<1> QED BY <1>1, <1>2, <1>3, <1>4, <1>5, <1>6, <1>7 DEF Scheduler!Next

\* What the invariant says between cycles.
LEMMA SchedulerKept ==
    ASSUME NEW c, Scheduler(c)!SchedulerConstantsOK, Scheduler(c)!SchedulerInv
    PROVE  /\ Scheduler(c)!TypeOK /\ Scheduler(c)!NeverGivenUp
           /\ Scheduler(c)!CountsFailures /\ Scheduler(c)!NoSourceLost
<1>1. Scheduler(c)!TypeOK BY DEF Scheduler!SchedulerInv
<1>2. Scheduler(c)!NoSourceLost
  BY DEF Scheduler!SchedulerInv, Scheduler!CycleInOrder, Scheduler!NoSourceLost
<1>3. Scheduler(c)!CountsFailures
  <2>1. SUFFICES ASSUME c.cooldowns, at = "idle", crashes = 0 PROVE failuresOf = streakOf
    BY DEF Scheduler!CountsFailures
  <2>2. \A s \in Scheduler(c)!Sources : streakOf[s] = failuresOf[s]
    BY <2>1 DEF Scheduler!SchedulerInv, Scheduler!Counted
  <2> QED BY <1>1, <2>2 DEF Scheduler!TypeOK
<1>4. Scheduler(c)!NeverGivenUp
  <2>1. SUFFICES ASSUME at = "idle", NEW s \in adapters
                 PROVE  began - lastPlan[s] < Scheduler(c)!Longest(s) + every[s] - 1
    BY DEF Scheduler!NeverGivenUp
  <2>2. s \in registered \ selected /\ s \in Scheduler(c)!Sources
    BY <2>1, SchedulerTypes DEF Scheduler!SchedulerInv, Scheduler!CycleInOrder
  <2>3. PICK n \in 1 .. Scheduler(c)!Longest(s) + every[s] - 1 - (began - lastPlan[s]) : TRUE
    BY <2>2 DEF Scheduler!SchedulerInv, Scheduler!DueSoon
  <2>4. Scheduler(c)!Longest(s) \in Int
    <3>1. class[s] \in DOMAIN Scheduler(c)!Policies \cup {"none"}
      BY <1>1, <2>2 DEF Scheduler!TypeOK
    <3> QED BY <3>1, RestBounds DEF Scheduler!Longest
  <2>5. every[s] \in Int /\ began \in Int /\ lastPlan[s] \in Int BY <2>2, SchedulerTypes
  <2> QED BY <2>3, <2>4, <2>5
<1> QED BY <1>1, <1>2, <1>3, <1>4

LEMMA CooldownsKept ==
    ASSUME NEW c, Scheduler(c)!SchedulerConstantsOK, Scheduler(c)!SchedulerInv,
           c.cooldowns, Scheduler(c)!Next \/ UNCHANGED schedulerVars
    PROVE  Scheduler(c)!RestartKeepsCooldown
<1>1. SUFFICES ASSUME NEW s \in Scheduler(c)!Sources, until'[s] - counter' > until[s] - counter
               PROVE  at = "learned" /\ s \in selected /\ outcome[s] # Scheduler(c)!Ok
  BY DEF Scheduler!RestartKeepsCooldown
<1>2. counter \in Nat /\ until[s] \in Nat BY SchedulerTypes
<1>3. CASE Scheduler(c)!Plan
  <2>1. counter' = counter + 1 /\ until' = until BY <1>3 DEF Scheduler!Plan, Scheduler!durable
  <2>2. FALSE BY <1>1, <1>2, <2>1
  <2> QED BY <2>2
<1>4. CASE Scheduler(c)!Scan \/ Scheduler(c)!Raise \/ Scheduler(c)!Learn \/ Scheduler(c)!Crash
           \/ UNCHANGED schedulerVars
  <2>1. counter' = counter /\ until' = until
    BY <1>4 DEF Scheduler!Scan, Scheduler!Raise, Scheduler!Learn, Scheduler!Crash,
                Scheduler!durable, schedulerVars
  <2>2. FALSE BY <1>1, <1>2, <2>1
  <2> QED BY <2>2
<1>5. CASE Scheduler(c)!RecordCycle
  <2>1. /\ at = "learned" /\ counter' = counter
        /\ until' = [r \in Scheduler(c)!Sources |->
             IF r \notin selected THEN until[r]
             ELSE IF outcome[r] = Scheduler(c)!Ok THEN 0
             ELSE counter + Scheduler(c)!CooldownCycles(class'[r], failuresOf'[r])]
    BY <1>5 DEF Scheduler!RecordCycle, Scheduler!Recorded
  <2>2. CASE s \notin selected
    <3>1. until'[s] = until[s] BY <2>1, <2>2
    <3>2. FALSE BY <1>1, <1>2, <2>1, <3>1
    <3> QED BY <3>2
  <2>3. CASE s \in selected /\ outcome[s] = Scheduler(c)!Ok
    <3>1. until'[s] = 0 BY <2>1, <2>3
    <3>2. FALSE BY <1>1, <1>2, <2>1, <3>1
    <3> QED BY <3>2
  <2> QED BY <2>1, <2>2, <2>3
<1> QED BY <1>3, <1>4, <1>5 DEF Scheduler!Next

-----------------------------------------------------------------------------
(* The expansion: what it found is stored before it is recorded or scanned *)

LEMMA SameCardinality ==
    ASSUME NEW c, NEW S
    PROVE  /\ Expansion(c)!IsFiniteSet(S) <=> IsFiniteSet(S)
           /\ Expansion(c)!Cardinality(S) = Cardinality(S)
<1>1. Expansion(c)!IsFiniteSet(S) <=> IsFiniteSet(S) BY DEF IsFiniteSet, Expansion!IsFiniteSet
<1>2. Expansion(c)!Cardinality(S) = Cardinality(S) BY DEF Cardinality, Expansion!Cardinality
<1> QED BY <1>1, <1>2

\* The invariant without its names.
LEMMA ExpansionFacts ==
    ASSUME NEW c, Expansion(c)!ExpansionConstantsOK, Expansion(c)!ExpansionInv
    PROVE  /\ listing \in [c.pages -> Expansion(c)!Row]
           /\ run \in {"none", "running"} /\ seenRun \subseteq c.pages
           /\ stage \in Expansion(c)!Stages /\ offered \subseteq Expansion(c)!Candidates
           /\ store \in [Expansion(c)!Candidates -> Nat] /\ found \in [Expansion(c)!Candidates -> Nat]
           /\ dynamic \subseteq Expansion(c)!Candidates
           /\ known \subseteq c.configHosts \cup Expansion(c)!Hosts(Expansion(c)!Candidates)
           /\ polled \subseteq dynamic /\ products \subseteq c.pages /\ recorded \subseteq c.pages
           /\ \A p \in c.pages : /\ p \in Expansion(c)!Candidates
                                 /\ listing[p].known => store[p] >= c.pageScore
                                 /\ store[p] \in {0, c.pageScore}
                                 /\ found[p] = IF p \in products THEN c.pageScore ELSE 0
           /\ \A d \in dynamic : store[d] >= c.minScore
           /\ stage \in {"persist", "activate"} =>
                 \A d \in Expansion(c)!Candidates : found[d] <= store[d]
           /\ c.pageScore \in Nat /\ c.minScore \in Nat \ {0}
<1>1. /\ listing \in [c.pages -> Expansion(c)!Row]
      /\ run \in {"none", "running"} /\ seenRun \subseteq c.pages
      /\ stage \in Expansion(c)!Stages /\ offered \subseteq Expansion(c)!Candidates
      /\ store \in [Expansion(c)!Candidates -> Nat] /\ found \in [Expansion(c)!Candidates -> Nat]
      /\ dynamic \subseteq Expansion(c)!Candidates
      /\ known \subseteq c.configHosts \cup Expansion(c)!Hosts(Expansion(c)!Candidates)
      /\ polled \subseteq dynamic /\ products \subseteq c.pages /\ recorded \subseteq c.pages
  BY DEF Expansion!ExpansionInv, Expansion!TypeOK, Expansion!HistoryTypeOK
<1>2. \A p \in c.pages : p \in Expansion(c)!Candidates BY DEF Expansion!Candidates
<1>3. \A p \in c.pages : listing[p].known => store[p] >= c.pageScore
  BY DEF Expansion!ExpansionInv, Expansion!ListingsHaveSources
<1>4. \A p \in c.pages : /\ store[p] \in {0, c.pageScore}
                         /\ found[p] = IF p \in products THEN c.pageScore ELSE 0
  BY DEF Expansion!ExpansionInv
<1>5. \A d \in dynamic : store[d] >= c.minScore
  BY DEF Expansion!ExpansionInv, Expansion!ScannedAreStored, Expansion!Loadable
<1>6. stage \in {"persist", "activate"} =>
          \A d \in Expansion(c)!Candidates : found[d] <= store[d]
  BY DEF Expansion!ExpansionInv
<1>7. c.pageScore \in Nat /\ c.minScore \in Nat \ {0} BY DEF Expansion!ExpansionConstantsOK
<1> QED BY <1>1, <1>2, <1>3, <1>4, <1>5, <1>6, <1>7

\* The set of sources the engine scans stays within its bound.
LEMMA BestBounded ==
    ASSUME NEW c, Expansion(c)!ExpansionConstantsOK, NEW cs \in SUBSET Expansion(c)!Candidates,
           NEW score, NEW n \in Nat, NEW best \in Expansion(c)!Best(cs, score, n)
    PROVE  best \subseteq cs /\ IsFiniteSet(best) /\ Cardinality(best) <= n
<1>1. IsFiniteSet(cs)
  BY SameCardinality, FS_Subset DEF Expansion!ExpansionConstantsOK
<1>2. best \subseteq cs /\ Cardinality(best) = Expansion(c)!Smaller(n, Cardinality(cs))
  BY SameCardinality DEF Expansion!Best
<1>3. Cardinality(cs) \in Nat BY <1>1, FS_CardinalityType
<1>4. Expansion(c)!Smaller(n, Cardinality(cs)) <= n BY <1>3 DEF Expansion!Smaller
<1> QED BY <1>1, <1>2, <1>4, FS_Subset

LEMMA ExpansionInit ==
    ASSUME NEW c, Expansion(c)!ExpansionConstantsOK, Expansion(c)!Init
    PROVE  Expansion(c)!ExpansionInv /\ Expansion(c)!ProbedInv /\ Expansion(c)!FreshInv
<1>1. /\ listing = [p \in c.pages |-> [known |-> FALSE, missing |-> 0, gone |-> FALSE]]
      /\ run = "none" /\ seenRun = {} /\ stage = "down" /\ offered = {}
      /\ store = [d \in Expansion(c)!Candidates |-> 0] /\ found = store
      /\ dynamic = {} /\ known = {} /\ polled = {} /\ products = {} /\ recorded = {}
  BY DEF Expansion!Init, Expansion!Nothing
<1>2. /\ c.disappearAfter \in Nat /\ c.maxDynamic \in Nat /\ c.pageScore \in Nat
  BY DEF Expansion!ExpansionConstantsOK
<1>3. Expansion(c)!Cardinality(dynamic) = 0 BY <1>1, SameCardinality, FS_EmptySet
<1>4. Expansion(c)!TypeOK
  BY <1>1, <1>2, <1>3 DEF Expansion!TypeOK, Expansion!HistoryTypeOK, Expansion!Row, Expansion!Stages
<1>5. \A p \in c.pages : p \in Expansion(c)!Candidates BY DEF Expansion!Candidates
<1>6. \A p \in c.pages : ~listing[p].known /\ store[p] = 0 /\ found[p] = 0 BY <1>1, <1>5
<1>7. \A s \in c.surfaces : s \in Expansion(c)!Candidates BY DEF Expansion!Candidates
<1>8. \A s \in c.surfaces : store[s] = 0 /\ found[s] = 0 BY <1>1, <1>7
<1>9. Expansion(c)!ExpansionInv
  BY <1>1, <1>4, <1>6 DEF Expansion!ExpansionInv, Expansion!ListingsHaveSources,
     Expansion!ScannedAreStored
<1> QED BY <1>1, <1>8, <1>9 DEF Expansion!ProbedInv, Expansion!FreshInv

LEMMA ExpansionStays ==
    ASSUME NEW c, Expansion(c)!ExpansionInv, UNCHANGED expansionVars
    PROVE  Expansion(c)!ExpansionInv'
BY DEF expansionVars, Expansion!ExpansionInv, Expansion!TypeOK, Expansion!HistoryTypeOK,
       Expansion!ListingsHaveSources, Expansion!ScannedAreStored, Expansion!Loadable

LEMMA ExpandedKeeps ==
    ASSUME NEW c, Expansion(c)!ExpansionConstantsOK, Expansion(c)!ExpansionInv,
           NEW links \in Expansion(c)!Outbound, NEW down \in SUBSET Expansion(c)!Candidates,
           Expansion(c)!Expand(links, down)
    PROVE  /\ Expansion(c)!ExpansionInv'
           /\ \A s \in c.surfaces : found'[s] # 0 => c.hostOf[s] \in Expansion(c)!NewHosts(links)
<1>0. PICK surfaces \in SUBSET Expansion(c)!Reachable(links, down), score \in [c.surfaces -> c.scores] :
          found' = [d \in Expansion(c)!Candidates |->
                        IF d \in products' THEN c.pageScore ELSE IF d \in surfaces THEN score[d] ELSE 0]
  BY DEF Expansion!Expand
<1>1. /\ stage' = "upsert" /\ products' = Expansion(c)!Verified(links, down)
      /\ UNCHANGED <<listing, run, seenRun, offered, store, dynamic, known, polled, recorded>>
  BY DEF Expansion!Expand, Expansion!historyVars
<1>2. /\ products' \subseteq c.pages /\ surfaces \subseteq c.surfaces /\ c.pages \cap c.surfaces = {}
      /\ c.scores \subseteq Nat /\ c.pageScore \in Nat
  BY <1>1 DEF Expansion!Verified, Expansion!Outbound, Expansion!Reachable,
     Expansion!ExpansionConstantsOK
<1>3. found' \in [Expansion(c)!Candidates -> Nat] BY <1>0, <1>2
<1>4. \A p \in c.pages : found'[p] = IF p \in products' THEN c.pageScore ELSE 0
  BY <1>0, <1>2 DEF Expansion!Candidates
<1>5. Expansion(c)!TypeOK'
  BY <1>1, <1>2, <1>3 DEF Expansion!ExpansionInv, Expansion!TypeOK, Expansion!HistoryTypeOK,
     Expansion!Stages
<1>6. Expansion(c)!ExpansionInv'
  BY <1>1, <1>4, <1>5 DEF Expansion!ExpansionInv, Expansion!ListingsHaveSources,
     Expansion!ScannedAreStored, Expansion!Loadable
<1>7. ASSUME NEW s \in c.surfaces, found'[s] # 0 PROVE c.hostOf[s] \in Expansion(c)!NewHosts(links)
  <2>1. s \in Expansion(c)!Candidates /\ s \notin products' BY <1>2 DEF Expansion!Candidates
  <2>2. s \in surfaces BY <1>0, <1>7, <2>1
  <2> QED BY <2>2 DEF Expansion!Reachable
<1> QED BY <1>6, <1>7

LEMMA UpsertKeeps ==
    ASSUME NEW c, Expansion(c)!ExpansionConstantsOK, Expansion(c)!ExpansionInv, Expansion(c)!Upsert
    PROVE  Expansion(c)!ExpansionInv'
<1>1. /\ stage' = "persist" /\ store' = Expansion(c)!Merged
      /\ UNCHANGED <<listing, run, seenRun, offered, dynamic, known, polled, found, products, recorded>>
  BY DEF Expansion!Upsert, Expansion!historyVars
<1>2. ASSUME NEW d \in Expansion(c)!Candidates
      PROVE  /\ store'[d] \in {store[d], found[d]} /\ store'[d] \in Nat
             /\ store'[d] >= store[d] /\ store'[d] >= found[d]
  <2>1. store[d] \in Nat /\ found[d] \in Nat BY ExpansionFacts
  <2>2. store'[d] = Expansion(c)!Larger(store[d], found[d]) BY <1>1 DEF Expansion!Merged
  <2> QED BY <2>1, <2>2 DEF Expansion!Larger
<1>3. store' \in [Expansion(c)!Candidates -> Nat] BY <1>1, <1>2 DEF Expansion!Merged
<1>4. Expansion(c)!TypeOK'
  BY <1>1, <1>3 DEF Expansion!ExpansionInv, Expansion!TypeOK, Expansion!HistoryTypeOK,
     Expansion!Stages
<1>5. ASSUME NEW p \in c.pages
      PROVE  /\ listing'[p].known => store'[p] >= c.pageScore
             /\ store'[p] \in {0, c.pageScore}
             /\ found'[p] = IF p \in products' THEN c.pageScore ELSE 0
  <2>1. /\ p \in Expansion(c)!Candidates /\ c.pageScore \in Nat
        /\ listing[p].known => store[p] >= c.pageScore
        /\ store[p] \in {0, c.pageScore} /\ found[p] = IF p \in products THEN c.pageScore ELSE 0
    BY ExpansionFacts
  <2>2. store'[p] \in {store[p], found[p]} /\ store'[p] >= store[p] BY <1>2, <2>1
  <2> QED BY <1>1, <2>1, <2>2
<1>6. \A d \in dynamic : store'[d] >= c.minScore
  <2> TAKE d \in dynamic
  <2>1. d \in Expansion(c)!Candidates /\ store[d] >= c.minScore /\ c.minScore \in Nat
    BY ExpansionFacts
  <2>2. store[d] \in Nat BY <2>1, ExpansionFacts
  <2>3. store'[d] >= store[d] /\ store'[d] \in Nat BY <1>2, <2>1
  <2> QED BY <2>1, <2>2, <2>3
<1>7. Expansion(c)!ScannedAreStored'
  <2>1. dynamic \subseteq Expansion(c)!Candidates BY ExpansionFacts
  <2> QED BY <1>1, <1>6, <2>1 DEF Expansion!ScannedAreStored, Expansion!Loadable
<1>8. \A d \in Expansion(c)!Candidates : found'[d] <= store'[d]
  <2> TAKE d \in Expansion(c)!Candidates
  <2>1. found[d] \in Nat BY ExpansionFacts
  <2>2. store'[d] \in Nat /\ store'[d] >= found[d] BY <1>2
  <2> QED BY <1>1, <2>1, <2>2
<1>9. Expansion(c)!ListingsHaveSources' BY <1>5 DEF Expansion!ListingsHaveSources
<1> QED BY <1>4, <1>5, <1>7, <1>8, <1>9 DEF Expansion!ExpansionInv

LEMMA PersistKeeps ==
    ASSUME NEW c, Expansion(c)!ExpansionConstantsOK, Expansion(c)!ExpansionInv, Expansion(c)!Persist
    PROVE  Expansion(c)!ExpansionInv'
<1>1. /\ stage = "persist" /\ stage' = "activate"
      /\ listing' = [p \in c.pages |->
            IF p \in products THEN [known |-> TRUE, missing |-> 0, gone |-> FALSE] ELSE listing[p]]
      /\ recorded' = recorded \cup products
      /\ UNCHANGED <<run, seenRun, offered, store, dynamic, known, polled, found, products>>
  BY DEF Expansion!Persist
<1>2. c.disappearAfter \in Nat BY DEF Expansion!ExpansionConstantsOK
<1>3. [known |-> TRUE, missing |-> 0, gone |-> FALSE] \in Expansion(c)!Row
  BY <1>2 DEF Expansion!Row
<1>4. /\ listing \in [c.pages -> Expansion(c)!Row] /\ products \subseteq c.pages
      /\ recorded \subseteq c.pages
  BY ExpansionFacts
<1>5. listing' \in [c.pages -> Expansion(c)!Row] BY <1>1, <1>3, <1>4
<1>6. Expansion(c)!TypeOK'
  BY <1>1, <1>4, <1>5 DEF Expansion!ExpansionInv, Expansion!TypeOK, Expansion!HistoryTypeOK,
     Expansion!Stages
<1>7. ASSUME NEW p \in c.pages, listing'[p].known PROVE store'[p] >= c.pageScore
  <2>1. CASE p \in products
    <3>1. p \in Expansion(c)!Candidates /\ found[p] = c.pageScore /\ c.pageScore \in Nat
      BY <2>1, ExpansionFacts
    <3>2. found[p] <= store[p] /\ store[p] \in Nat BY <1>1, <3>1, ExpansionFacts
    <3> QED BY <1>1, <3>1, <3>2
  <2>2. CASE p \notin products
    <3>1. listing'[p] = listing[p] BY <1>1, <2>2
    <3> QED BY <1>1, <1>7, <3>1, ExpansionFacts
  <2> QED BY <2>1, <2>2
<1>8. Expansion(c)!ListingsHaveSources' BY <1>7 DEF Expansion!ListingsHaveSources
<1> QED
  BY <1>1, <1>6, <1>8 DEF Expansion!ExpansionInv, Expansion!ScannedAreStored, Expansion!Loadable

LEMMA StartKeeps ==
    ASSUME NEW c, Expansion(c)!ExpansionConstantsOK, Expansion(c)!ExpansionInv, Expansion(c)!Start
    PROVE  Expansion(c)!ExpansionInv' /\ c.configHosts \subseteq known'
<1>1. /\ dynamic' \in Expansion(c)!Best(Expansion(c)!Loadable, store, c.maxDynamic)
      /\ known' = c.configHosts \cup Expansion(c)!Hosts(dynamic')
      /\ stage' = "idle" /\ polled' = {} /\ products' = {} /\ recorded' = {}
      /\ found' = Expansion(c)!Nothing
      /\ UNCHANGED <<listing, run, seenRun, offered, store>>
  BY DEF Expansion!Start, Expansion!Clear, Expansion!historyVars
<1>2. c.maxDynamic \in Nat BY DEF Expansion!ExpansionConstantsOK
<1>3. Expansion(c)!Loadable \subseteq Expansion(c)!Candidates BY DEF Expansion!Loadable
<1>4. dynamic' \subseteq Expansion(c)!Loadable /\ Cardinality(dynamic') <= c.maxDynamic
  BY <1>1, <1>2, <1>3, BestBounded
<1>5. known' \subseteq c.configHosts \cup Expansion(c)!Hosts(Expansion(c)!Candidates)
  BY <1>1, <1>3, <1>4 DEF Expansion!Hosts
<1>6. found' \in [Expansion(c)!Candidates -> Nat] BY <1>1 DEF Expansion!Nothing
<1>7. Expansion(c)!Cardinality(dynamic') <= c.maxDynamic BY <1>4, SameCardinality
<1>8. Expansion(c)!TypeOK'
  BY <1>1, <1>3, <1>4, <1>5, <1>6, <1>7 DEF Expansion!ExpansionInv, Expansion!TypeOK,
     Expansion!HistoryTypeOK, Expansion!Stages
<1>9. \A p \in c.pages : found'[p] = 0 BY <1>1, ExpansionFacts DEF Expansion!Nothing
<1>10. Expansion(c)!ScannedAreStored'
  BY <1>1, <1>4 DEF Expansion!ScannedAreStored, Expansion!Loadable
<1> QED
  BY <1>1, <1>8, <1>9, <1>10 DEF Expansion!ExpansionInv, Expansion!ListingsHaveSources

LEMMA ScanNewKeeps ==
    ASSUME NEW c, Expansion(c)!ExpansionConstantsOK, Expansion(c)!ExpansionInv,
           NEW failed, Expansion(c)!Scan(failed)
    PROVE  Expansion(c)!ExpansionInv' /\ (Expansion(c)!FreshInv => Expansion(c)!FreshInv')
<1>1. /\ stage' = "expand" /\ polled' = dynamic \ failed /\ recorded' = seenRun'
      /\ seenRun' = seenRun \cup (polled' \cap c.pages \cap offered)
      /\ listing' = [p \in c.pages |-> IF p \in polled' \cap c.pages \cap offered
                                       THEN [known |-> TRUE, missing |-> 0, gone |-> FALSE]
                                       ELSE listing[p]]
      /\ UNCHANGED <<run, offered, store, dynamic, known, found, products>>
  BY DEF Expansion!Scan, Expansion!RecordBatch
<1>2. c.disappearAfter \in Nat BY DEF Expansion!ExpansionConstantsOK
<1>3. [known |-> TRUE, missing |-> 0, gone |-> FALSE] \in Expansion(c)!Row
  BY <1>2 DEF Expansion!Row
<1>4. listing' \in [c.pages -> Expansion(c)!Row] BY <1>1, <1>3, ExpansionFacts
<1>5. seenRun' \subseteq c.pages BY <1>1, ExpansionFacts
<1>6. Expansion(c)!TypeOK'
  BY <1>1, <1>4, <1>5 DEF Expansion!ExpansionInv, Expansion!TypeOK, Expansion!HistoryTypeOK,
     Expansion!Stages
<1>7. ASSUME NEW p \in c.pages, listing'[p].known PROVE store'[p] >= c.pageScore
  <2>0. /\ p \in Expansion(c)!Candidates /\ c.pageScore \in Nat /\ store[p] \in {0, c.pageScore}
        /\ listing[p].known => store[p] >= c.pageScore
        /\ \A d \in dynamic : store[d] >= c.minScore
        /\ c.minScore \in Nat \ {0}
    BY ExpansionFacts
  <2>1. CASE p \in polled' \cap c.pages \cap offered
    <3>1. p \in dynamic BY <1>1, <2>1
    <3>2. store[p] >= c.minScore BY <2>0, <3>1
    <3>3. store[p] # 0 BY <2>0, <3>2
    <3> QED BY <1>1, <2>0, <3>3
  <2>2. CASE p \notin polled' \cap c.pages \cap offered
    <3>1. listing'[p] = listing[p] BY <1>1, <2>2
    <3> QED BY <1>1, <1>7, <2>0, <3>1
  <2> QED BY <2>1, <2>2
<1>8. Expansion(c)!ListingsHaveSources' BY <1>7 DEF Expansion!ListingsHaveSources
<1>9. Expansion(c)!FreshInv => Expansion(c)!FreshInv'
  <2>1. SUFFICES ASSUME Expansion(c)!FreshInv, NEW p \in recorded' \cup seenRun'
                 PROVE  listing'[p].missing = 0
    BY DEF Expansion!FreshInv
  <2>2. p \in seenRun' /\ p \in c.pages BY <1>1, <1>5, <2>1
  <2>3. CASE p \in polled' \cap c.pages \cap offered BY <1>1, <2>2, <2>3
  <2>4. CASE p \notin polled' \cap c.pages \cap offered
    <3>1. p \in seenRun /\ listing'[p] = listing[p] BY <1>1, <2>2, <2>4
    <3> QED BY <2>1, <3>1 DEF Expansion!FreshInv
  <2> QED BY <2>3, <2>4
<1> QED
  BY <1>1, <1>6, <1>8, <1>9 DEF Expansion!ExpansionInv, Expansion!ScannedAreStored,
     Expansion!Loadable

LEMMA ActivateKeeps ==
    ASSUME NEW c, Expansion(c)!ExpansionConstantsOK, Expansion(c)!ExpansionInv,
           Expansion(c)!Activate
    PROVE  Expansion(c)!ExpansionInv'
<1>0. PICK added \in Expansion(c)!Best(Expansion(c)!Eligible, found, Expansion(c)!Room) :
          dynamic' = dynamic \cup added /\ known' = known \cup Expansion(c)!Hosts(added)
  BY DEF Expansion!Activate
<1>1. /\ stage = "activate" /\ stage' = "finish"
      /\ UNCHANGED <<listing, run, seenRun, offered, store, polled, found, products, recorded>>
  BY DEF Expansion!Activate, Expansion!historyVars
<1>2. /\ dynamic \subseteq Expansion(c)!Candidates /\ Cardinality(dynamic) <= c.maxDynamic
      /\ c.maxDynamic \in Nat
  BY SameCardinality DEF Expansion!ExpansionInv, Expansion!TypeOK, Expansion!ExpansionConstantsOK
<1>3. IsFiniteSet(dynamic) /\ Cardinality(dynamic) \in Nat
  <2>1. IsFiniteSet(Expansion(c)!Candidates) BY SameCardinality DEF Expansion!ExpansionConstantsOK
  <2> QED BY <1>2, <2>1, FS_Subset, FS_CardinalityType
<1>4. Expansion(c)!Room = c.maxDynamic - Cardinality(dynamic)
  BY SameCardinality DEF Expansion!Room
<1>5. Expansion(c)!Room \in Nat BY <1>2, <1>3, <1>4
<1>6. Expansion(c)!Eligible \subseteq Expansion(c)!Candidates BY DEF Expansion!Eligible
<1>7. /\ added \subseteq Expansion(c)!Eligible /\ IsFiniteSet(added)
      /\ Cardinality(added) <= Expansion(c)!Room
  BY <1>0, <1>5, <1>6, BestBounded
<1>8. Cardinality(dynamic \cup added) <= c.maxDynamic
  <2>1. Cardinality(dynamic \cup added)
            = Cardinality(dynamic) + Cardinality(added) - Cardinality(dynamic \cap added)
    BY <1>3, <1>7, FS_Union
  <2>2. Cardinality(added) \in Nat /\ Cardinality(dynamic \cap added) \in Nat
    BY <1>3, <1>7, FS_CardinalityType, FS_Intersection
  <2> QED BY <1>2, <1>3, <1>4, <1>7, <2>1, <2>2
<1>9. Expansion(c)!Cardinality(dynamic') <= c.maxDynamic BY <1>0, <1>8, SameCardinality
<1>10. known' \subseteq c.configHosts \cup Expansion(c)!Hosts(Expansion(c)!Candidates)
  <2>1. known \subseteq c.configHosts \cup Expansion(c)!Hosts(Expansion(c)!Candidates)
    BY ExpansionFacts
  <2> QED BY <1>0, <1>6, <1>7, <2>1 DEF Expansion!Hosts
<1>11. Expansion(c)!TypeOK'
  BY <1>0, <1>1, <1>2, <1>6, <1>7, <1>9, <1>10 DEF Expansion!ExpansionInv, Expansion!TypeOK,
     Expansion!HistoryTypeOK, Expansion!Stages
<1>12. ASSUME NEW d \in added PROVE store[d] >= c.minScore
  <2>1. d \in Expansion(c)!Candidates /\ found[d] >= c.minScore BY <1>7 DEF Expansion!Eligible
  <2>2. found[d] <= store[d] /\ found[d] \in Nat /\ store[d] \in Nat /\ c.minScore \in Nat
    BY <1>1, <2>1, ExpansionFacts
  <2> QED BY <2>1, <2>2
<1>13. Expansion(c)!ScannedAreStored'
  <2>1. \A d \in dynamic : store[d] >= c.minScore BY ExpansionFacts
  <2> QED BY <1>0, <1>1, <1>2, <1>6, <1>7, <1>12, <2>1
      DEF Expansion!ScannedAreStored, Expansion!Loadable
<1> QED
  BY <1>1, <1>11, <1>13 DEF Expansion!ExpansionInv, Expansion!ListingsHaveSources

\* A run that finishes counts what it missed, once.
LEMMA MissedOnce ==
    ASSUME NEW c, Expansion(c)!ExpansionConstantsOK, NEW row \in Expansion(c)!Row
    PROVE  /\ Expansion(c)!Missed(row) \in Expansion(c)!Row
           /\ Expansion(c)!Missed(row).known = row.known
           /\ row.missing = 0 /\ c.disappearAfter >= 2 => ~Expansion(c)!Missed(row).gone
<1>1. c.disappearAfter \in Nat \ {0} BY DEF Expansion!ExpansionConstantsOK
<1>2. PICK n : n = IF row.missing < c.disappearAfter THEN row.missing + 1 ELSE row.missing
  OBVIOUS
<1>3. Expansion(c)!Missed(row) = [row EXCEPT !.missing = n, !.gone = n >= c.disappearAfter]
  BY <1>2 DEF Expansion!Missed
<1>4. row \in [known : BOOLEAN, missing : 0 .. c.disappearAfter, gone : BOOLEAN]
  BY DEF Expansion!Row
<1>5. n \in 0 .. c.disappearAfter /\ (row.missing = 0 => n = 1) BY <1>1, <1>2, <1>4
<1>6. Expansion(c)!Missed(row) = [known |-> row.known, missing |-> n, gone |-> n >= c.disappearAfter]
  BY <1>3, <1>4
<1>7. (n >= c.disappearAfter) \in BOOLEAN OBVIOUS
<1>8. Expansion(c)!Missed(row) \in Expansion(c)!Row
  BY <1>4, <1>5, <1>6, <1>7 DEF Expansion!Row
<1>9. Expansion(c)!Missed(row).known = row.known BY <1>6
<1>10. row.missing = 0 /\ c.disappearAfter >= 2 => ~Expansion(c)!Missed(row).gone
  <2>1. ASSUME row.missing = 0, c.disappearAfter >= 2 PROVE ~Expansion(c)!Missed(row).gone
    <3>1. ~(n >= c.disappearAfter) BY <1>1, <1>5, <2>1
    <3>2. Expansion(c)!Missed(row).gone = (n >= c.disappearAfter) BY <1>6
    <3> QED BY <3>1, <3>2
  <2> QED BY <2>1
<1> QED BY <1>8, <1>9, <1>10

LEMMA FinishKeeps ==
    ASSUME NEW c, Expansion(c)!ExpansionConstantsOK, Expansion(c)!ExpansionInv,
           Expansion(c)!Finish
    PROVE  /\ Expansion(c)!ExpansionInv' /\ Expansion(c)!FreshInv'
           /\ c.disappearAfter >= 2 /\ Expansion(c)!FreshInv => Expansion(c)!NotGoneWhenSeen
<1>1. /\ stage' = "idle" /\ polled' = {} /\ products' = {} /\ recorded' = {} /\ seenRun' = {}
      /\ run' = "none" /\ found' = Expansion(c)!Nothing
      /\ UNCHANGED <<offered, store, dynamic, known>>
  BY DEF Expansion!Finish, Expansion!FinishRefresh, Expansion!Clear
<1>2. /\ DOMAIN listing' = c.pages
      /\ \A p \in c.pages : listing'[p] \in {listing[p], Expansion(c)!Missed(listing[p])}
      /\ listing' = [p \in c.pages |-> listing'[p]]
  <2> DEFINE missed(p) == /\ [q \in c.pages |-> q][p] \in polled
                          /\ listing[p].known /\ p \notin seenRun
  <2>1. listing' = [p \in c.pages |->
                       IF missed(p) THEN Expansion(c)!Missed(listing[p]) ELSE listing[p]]
    BY DEF Expansion!Finish, Expansion!FinishRefresh
  <2> HIDE DEF missed
  <2> QED BY <2>1
<1>3. ASSUME NEW p \in c.pages
      PROVE  /\ listing'[p] \in Expansion(c)!Row /\ listing'[p].known = listing[p].known
             /\ listing[p].missing = 0 /\ c.disappearAfter >= 2 /\ ~listing[p].gone => ~listing'[p].gone
  <2>1. listing[p] \in Expansion(c)!Row BY ExpansionFacts
  <2>2. PICK row \in Expansion(c)!Row : row = listing[p] BY <2>1
  <2>3. /\ Expansion(c)!Missed(row) \in Expansion(c)!Row
        /\ Expansion(c)!Missed(row).known = row.known
        /\ row.missing = 0 /\ c.disappearAfter >= 2 => ~Expansion(c)!Missed(row).gone
    BY MissedOnce
  <2>4. CASE listing'[p] = listing[p] BY <2>1, <2>4
  <2>5. CASE listing'[p] = Expansion(c)!Missed(row) BY <2>2, <2>3, <2>5
  <2> QED BY <1>2, <2>2, <2>4, <2>5
<1>4. listing' \in [c.pages -> Expansion(c)!Row] BY <1>2, <1>3
<1>5. found' \in [Expansion(c)!Candidates -> Nat] BY <1>1 DEF Expansion!Nothing
<1>6. Expansion(c)!TypeOK'
  BY <1>1, <1>4, <1>5 DEF Expansion!ExpansionInv, Expansion!TypeOK, Expansion!HistoryTypeOK,
     Expansion!Stages
<1>7. \A p \in c.pages : found'[p] = 0 BY <1>1, ExpansionFacts DEF Expansion!Nothing
<1>8. Expansion(c)!ListingsHaveSources'
  BY <1>1, <1>3, ExpansionFacts DEF Expansion!ListingsHaveSources
<1>9. Expansion(c)!ExpansionInv'
  BY <1>1, <1>6, <1>7, <1>8 DEF Expansion!ExpansionInv, Expansion!ScannedAreStored,
     Expansion!Loadable
<1>10. Expansion(c)!FreshInv' BY <1>1 DEF Expansion!FreshInv
<1>11. ASSUME c.disappearAfter >= 2, Expansion(c)!FreshInv PROVE Expansion(c)!NotGoneWhenSeen
  BY <1>3, <1>11 DEF Expansion!FreshInv, Expansion!NotGoneWhenSeen
<1> QED BY <1>9, <1>10, <1>11

LEMMA EndsKeeps ==
    ASSUME NEW c, Expansion(c)!ExpansionConstantsOK, Expansion(c)!ExpansionInv,
           Expansion(c)!Crash
    PROVE  /\ Expansion(c)!ExpansionInv' /\ UNCHANGED listing
           /\ Expansion(c)!FreshInv => Expansion(c)!FreshInv'
<1>1. /\ stage' = "down" /\ dynamic' = {} /\ known' = {} /\ polled' = {} /\ products' = {}
      /\ recorded' = {} /\ found' = Expansion(c)!Nothing
      /\ UNCHANGED <<offered, store>>
  BY DEF Expansion!Crash, Expansion!Ends, Expansion!Clear
<1>2. /\ UNCHANGED listing /\ run' \in {"none", run} /\ seenRun' \in {{}, seenRun}
  BY DEF Expansion!Crash, Expansion!Ends, Expansion!AbortRefresh, Expansion!historyVars
<1>3. Expansion(c)!Cardinality(dynamic') <= c.maxDynamic
  BY <1>1, SameCardinality, FS_EmptySet DEF Expansion!ExpansionConstantsOK
<1>4. found' \in [Expansion(c)!Candidates -> Nat] BY <1>1 DEF Expansion!Nothing
<1>5. Expansion(c)!TypeOK'
  BY <1>1, <1>2, <1>3, <1>4 DEF Expansion!ExpansionInv, Expansion!TypeOK, Expansion!HistoryTypeOK,
     Expansion!Stages
<1>6. \A p \in c.pages : found'[p] = 0 BY <1>1, ExpansionFacts DEF Expansion!Nothing
<1>7. Expansion(c)!ExpansionInv'
  BY <1>1, <1>2, <1>5, <1>6 DEF Expansion!ExpansionInv, Expansion!ScannedAreStored,
     Expansion!Loadable, Expansion!ListingsHaveSources
<1>8. Expansion(c)!FreshInv => Expansion(c)!FreshInv' BY <1>1, <1>2 DEF Expansion!FreshInv
<1> QED BY <1>2, <1>7, <1>8

\* Nothing else that moves disturbs what is stored.
LEMMA ChangeKeeps ==
    ASSUME NEW c, Expansion(c)!ExpansionConstantsOK, Expansion(c)!ExpansionInv,
           NEW d \in Expansion(c)!Candidates, Expansion(c)!Change(d)
    PROVE  /\ Expansion(c)!ExpansionInv'
           /\ UNCHANGED <<listing, seenRun, recorded, stage, known, store, found>>
<1>1. /\ offered' \subseteq offered \cup {d}
      /\ UNCHANGED <<listing, run, seenRun, stage, dynamic, known, polled, found, products>>
      /\ UNCHANGED <<recorded, store>>
  BY DEF Expansion!Change, Expansion!historyVars, Expansion!engine
<1>2. Expansion(c)!TypeOK'
  BY <1>1 DEF Expansion!ExpansionInv, Expansion!TypeOK, Expansion!HistoryTypeOK
<1> QED
  BY <1>1, <1>2 DEF Expansion!ExpansionInv, Expansion!ScannedAreStored,
     Expansion!Loadable, Expansion!ListingsHaveSources

LEMMA BeginKeeps ==
    ASSUME NEW c, Expansion(c)!ExpansionConstantsOK, Expansion(c)!ExpansionInv,
           Expansion(c)!Begin
    PROVE  /\ Expansion(c)!ExpansionInv' /\ seenRun' = {}
           /\ stage = "idle"
           /\ UNCHANGED <<listing, recorded, known, store, found>>
<1>1. /\ stage = "idle" /\ stage' = "scan" /\ run' = "running" /\ seenRun' = {}
      /\ UNCHANGED <<listing, offered, store, dynamic, known, polled, found, products, recorded>>
  BY DEF Expansion!Begin, Expansion!BeginRefresh
<1>2. Expansion(c)!TypeOK'
  BY <1>1 DEF Expansion!ExpansionInv, Expansion!TypeOK, Expansion!HistoryTypeOK, Expansion!Stages
<1> QED
  BY <1>1, <1>2 DEF Expansion!ExpansionInv, Expansion!ScannedAreStored,
     Expansion!Loadable, Expansion!ListingsHaveSources

LEMMA ExpansionStep ==
    ASSUME NEW c, Expansion(c)!ExpansionConstantsOK, Expansion(c)!ExpansionInv,
           Expansion(c)!Next \/ UNCHANGED expansionVars
    PROVE  Expansion(c)!ExpansionInv'
<1>1. CASE Expansion(c)!Progress
  BY <1>1, StartKeeps, BeginKeeps, UpsertKeeps, PersistKeeps, ActivateKeeps, FinishKeeps,
     ScanNewKeeps, ExpandedKeeps DEF Expansion!Progress
<1>2. CASE Expansion(c)!Crash BY <1>2, EndsKeeps
<1>3. CASE \E d \in Expansion(c)!Candidates : Expansion(c)!Change(d) BY <1>3, ChangeKeeps
<1>4. CASE UNCHANGED expansionVars BY <1>4, ExpansionStays
<1> QED BY <1>1, <1>2, <1>3, <1>4 DEF Expansion!Next

\* What a run has recorded is not missed before the next run.
LEMMA FreshStep ==
    ASSUME NEW c, Expansion(c)!ExpansionConstantsOK, Expansion(c)!ExpansionInv,
           Expansion(c)!FreshInv, Expansion(c)!Next \/ UNCHANGED expansionVars
    PROVE  /\ Expansion(c)!FreshInv'
           /\ c.disappearAfter >= 2 => Expansion(c)!NotGoneWhenSeen
<1>1. CASE Expansion(c)!Persist
  <2>1. /\ listing' = [p \in c.pages |->
              IF p \in products THEN [known |-> TRUE, missing |-> 0, gone |-> FALSE] ELSE listing[p]]
        /\ recorded' = recorded \cup products /\ seenRun' = seenRun
    BY <1>1 DEF Expansion!Persist
  <2>2. recorded \subseteq c.pages /\ seenRun \subseteq c.pages /\ products \subseteq c.pages
    BY ExpansionFacts
  <2> QED BY <2>1, <2>2 DEF Expansion!FreshInv, Expansion!NotGoneWhenSeen
<1>2. CASE \E failed \in SUBSET dynamic : Expansion(c)!Scan(failed)
  <2>1. PICK failed : Expansion(c)!Scan(failed) BY <1>2
  <2>2. listing' = [p \in c.pages |-> IF p \in polled' \cap c.pages \cap offered
                                       THEN [known |-> TRUE, missing |-> 0, gone |-> FALSE]
                                       ELSE listing[p]]
    BY <2>1 DEF Expansion!Scan, Expansion!RecordBatch
  <2>3. Expansion(c)!NotGoneWhenSeen BY <2>2 DEF Expansion!NotGoneWhenSeen
  <2> QED BY <2>1, <2>3, ScanNewKeeps
<1>3. CASE Expansion(c)!Finish BY <1>3, FinishKeeps
<1>4. CASE Expansion(c)!Crash BY <1>4, EndsKeeps DEF Expansion!NotGoneWhenSeen
<1>5. CASE Expansion(c)!Start
  BY <1>5 DEF Expansion!Start, Expansion!Clear, Expansion!historyVars, Expansion!FreshInv,
     Expansion!NotGoneWhenSeen
<1>6. CASE Expansion(c)!Begin
  BY <1>6, BeginKeeps DEF Expansion!FreshInv, Expansion!NotGoneWhenSeen
<1>7. CASE Expansion(c)!Upsert \/ Expansion(c)!Activate
           \/ \E links \in Expansion(c)!Outbound, down \in SUBSET Expansion(c)!Candidates :
                 Expansion(c)!Expand(links, down)
  <2>1. UNCHANGED <<listing, seenRun, recorded>>
    BY <1>7 DEF Expansion!Upsert, Expansion!Activate, Expansion!Expand, Expansion!historyVars
  <2> QED BY <2>1 DEF Expansion!FreshInv, Expansion!NotGoneWhenSeen
<1>8. CASE \E d \in Expansion(c)!Candidates : Expansion(c)!Change(d)
  BY <1>8, ChangeKeeps DEF Expansion!FreshInv, Expansion!NotGoneWhenSeen
<1>9. CASE UNCHANGED expansionVars
  BY <1>9 DEF expansionVars, Expansion!FreshInv, Expansion!NotGoneWhenSeen
<1> QED BY <1>1, <1>2, <1>3, <1>4, <1>5, <1>6, <1>7, <1>8, <1>9
    DEF Expansion!Next, Expansion!Progress

\* An engine that knows the hosts of its configuration again leaves them alone.
LEMMA ProbedStep ==
    ASSUME NEW c, Expansion(c)!ExpansionConstantsOK, Expansion(c)!ExpansionInv,
           Expansion(c)!ProbedInv, c.configHosts \cap c.mangled = {},
           Expansion(c)!Next \/ UNCHANGED expansionVars
    PROVE  Expansion(c)!ProbedInv'
<1>0. \A s \in c.surfaces : s \in Expansion(c)!Candidates BY DEF Expansion!Candidates
<1>1. CASE Expansion(c)!Upsert
  <2>1. /\ stage = "upsert" /\ store' = Expansion(c)!Merged /\ UNCHANGED <<known, found>>
    BY <1>1 DEF Expansion!Upsert
  <2>2. \A s \in c.surfaces : store'[s] = Expansion(c)!Larger(store[s], found[s])
    BY <1>0, <2>1 DEF Expansion!Merged
  <2>3. \A s \in c.surfaces : store[s] = 0 /\ found[s] = 0 => store'[s] = 0
    BY <2>2 DEF Expansion!Larger
  <2> QED BY <2>1, <2>3 DEF Expansion!ProbedInv
<1>2. CASE \E links \in Expansion(c)!Outbound, down \in SUBSET Expansion(c)!Candidates :
               Expansion(c)!Expand(links, down)
  <2>1. PICK links \in Expansion(c)!Outbound, down \in SUBSET Expansion(c)!Candidates :
            Expansion(c)!Expand(links, down)
    BY <1>2
  <2>2. stage = "expand" /\ UNCHANGED <<known, store>> BY <2>1 DEF Expansion!Expand
  <2>3. c.configHosts \subseteq known BY <2>2 DEF Expansion!ProbedInv
  <2>4. \A s \in c.surfaces : c.hostOf[s] \in c.configHosts
                                => c.hostOf[s] \notin Expansion(c)!NewHosts(links)
    BY <2>3 DEF Expansion!NewHosts
  <2>5. \A s \in c.surfaces : found'[s] # 0 => c.hostOf[s] \in Expansion(c)!NewHosts(links)
    BY <2>1, ExpandedKeeps
  <2> QED BY <2>2, <2>3, <2>4, <2>5 DEF Expansion!ProbedInv
<1>3. CASE Expansion(c)!Start
  <2>1. c.configHosts \subseteq known' BY <1>3, StartKeeps
  <2>2. UNCHANGED store /\ found' = Expansion(c)!Nothing
    BY <1>3 DEF Expansion!Start, Expansion!Clear
  <2> QED BY <1>0, <2>1, <2>2 DEF Expansion!ProbedInv, Expansion!Nothing
<1>4. CASE Expansion(c)!Begin BY <1>4, BeginKeeps DEF Expansion!ProbedInv
<1>5. CASE \E failed \in SUBSET dynamic : Expansion(c)!Scan(failed)
  BY <1>5 DEF Expansion!Scan, Expansion!ProbedInv
<1>6. CASE Expansion(c)!Persist BY <1>6 DEF Expansion!Persist, Expansion!ProbedInv
<1>7. CASE Expansion(c)!Activate BY <1>7 DEF Expansion!Activate, Expansion!ProbedInv
<1>8. CASE Expansion(c)!Finish \/ Expansion(c)!Crash
  <2>1. /\ UNCHANGED store /\ found' = Expansion(c)!Nothing
        /\ stage' = "down" \/ (stage = "finish" /\ UNCHANGED known)
    BY <1>8 DEF Expansion!Finish, Expansion!Crash, Expansion!Ends, Expansion!Clear
  <2> QED BY <1>0, <2>1 DEF Expansion!ProbedInv, Expansion!Nothing
<1>9. CASE (\E d \in Expansion(c)!Candidates : Expansion(c)!Change(d)) \/ UNCHANGED expansionVars
  <2>1. UNCHANGED <<stage, known, store, found>> BY <1>9, ChangeKeeps DEF expansionVars
  <2> QED BY <2>1 DEF Expansion!ProbedInv
<1> QED BY <1>1, <1>2, <1>3, <1>4, <1>5, <1>6, <1>7, <1>8, <1>9
    DEF Expansion!Next, Expansion!Progress

-----------------------------------------------------------------------------
(* Each component on its own, for every configuration *)

\* In every configuration of the breaker its counters stay within their bounds,
\* and after as many failures as the threshold no call starts before the
\* timeout has passed without one, whatever calls overlap (acquire, failure).
THEOREM BreakerCorrect == Spec => []TypeOK /\ RestsAfterTrip
<1>1. BreakerInv /\ [Next]_vars => BreakerInv' BY BreakerStep
<1>2. BreakerInv => TypeOK BY DEF BreakerInv
<1>3. BreakerInv /\ [Next]_vars => [Rested]_vars BY BreakerRests
<1>4. Spec => []TypeOK /\ [][Rested]_vars BY <1>1, <1>2, <1>3, BreakerInit, PTL DEF Spec
<1> QED BY <1>4 DEF Rested, RestsAfterTrip

LEMMA SchedulerSteps ==
    ASSUME NEW c, Scheduler(c)!SchedulerConstantsOK
    PROVE  Scheduler(c)!Spec => []Scheduler(c)!SchedulerInv /\ [][Scheduler(c)!Next]_schedulerVars
<1>1. Scheduler(c)!Init => Scheduler(c)!SchedulerInv BY SchedulerInit
<1>2. UNCHANGED Scheduler(c)!vars => UNCHANGED schedulerVars
  BY DEF Scheduler!vars, Scheduler!durable, Scheduler!engine, Scheduler!cycle, schedulerVars
<1>3. [Scheduler(c)!Next]_(Scheduler(c)!vars) => [Scheduler(c)!Next]_schedulerVars BY <1>2
<1>4. Scheduler(c)!SchedulerInv /\ [Scheduler(c)!Next]_schedulerVars => Scheduler(c)!SchedulerInv'
  BY SchedulerStep
<1> QED BY <1>1, <1>3, <1>4, PTL DEF Scheduler!Spec

\* In every configuration of the scheduler - any sources, cadences and failures,
\* with and without cooldowns, any number of restarts - no source is given up
\* (_scheduler_plan), the failures of each are counted (record_cycle) and no
\* adapter is lost between cycles (run_once).
THEOREM SchedulerCorrect ==
    ASSUME NEW c, Scheduler(c)!SchedulerConstantsOK
    PROVE  Scheduler(c)!Spec => /\ []Scheduler(c)!TypeOK /\ []Scheduler(c)!NeverGivenUp
                                /\ []Scheduler(c)!CountsFailures /\ []Scheduler(c)!NoSourceLost
<1>1. Scheduler(c)!SchedulerInv => /\ Scheduler(c)!TypeOK /\ Scheduler(c)!NeverGivenUp
                                   /\ Scheduler(c)!CountsFailures /\ Scheduler(c)!NoSourceLost
  BY SchedulerKept
<1> QED BY <1>1, SchedulerSteps, PTL

\* With cooldowns, nothing but a failure that is recorded of a source makes it
\* wait longer: not a restart, a raised cycle or the scan of another.
THEOREM CooldownsAreKept ==
    ASSUME NEW c, Scheduler(c)!SchedulerConstantsOK, c.cooldowns
    PROVE  Scheduler(c)!Spec => [][Scheduler(c)!RestartKeepsCooldown]_schedulerVars
<1> DEFINE Kept == Scheduler(c)!RestartKeepsCooldown
<1>1. Scheduler(c)!SchedulerInv /\ [Scheduler(c)!Next]_schedulerVars => [Kept]_schedulerVars
  BY CooldownsKept
<1> HIDE DEF Kept
<1>2. Scheduler(c)!Spec => [][Kept]_schedulerVars BY <1>1, SchedulerSteps, PTL
<1> QED BY <1>2 DEF Kept

LEMMA ExpansionSteps ==
    ASSUME NEW c, Expansion(c)!ExpansionConstantsOK
    PROVE  Expansion(c)!Spec => /\ []Expansion(c)!ExpansionInv /\ []Expansion(c)!FreshInv
                                /\ [][Expansion(c)!Next]_expansionVars
<1>1. Expansion(c)!Init => Expansion(c)!ExpansionInv /\ Expansion(c)!FreshInv BY ExpansionInit
<1>2. UNCHANGED Expansion(c)!vars => UNCHANGED expansionVars
  BY DEF Expansion!vars, Expansion!historyVars, Expansion!engine, expansionVars
<1>3. [Expansion(c)!Next]_(Expansion(c)!vars) => [Expansion(c)!Next]_expansionVars BY <1>2
<1>4. Expansion(c)!ExpansionInv /\ Expansion(c)!FreshInv /\ [Expansion(c)!Next]_expansionVars
        => Expansion(c)!ExpansionInv' /\ Expansion(c)!FreshInv'
  BY ExpansionStep, FreshStep
<1> QED BY <1>1, <1>3, <1>4, PTL DEF Expansion!Spec

\* In every configuration of the expansion and whatever step a run ends after,
\* the listings it recorded have their sources in the store
\* (_expand_announcements), and the sources it scans are those that a restart
\* would load again (_activate_new_candidates, active).
THEOREM ExpansionCorrect ==
    ASSUME NEW c, Expansion(c)!ExpansionConstantsOK
    PROVE  Expansion(c)!Spec => /\ []Expansion(c)!TypeOK /\ []Expansion(c)!ListingsHaveSources
                                /\ []Expansion(c)!ScannedAreStored
<1>1. Expansion(c)!ExpansionInv => /\ Expansion(c)!TypeOK /\ Expansion(c)!ListingsHaveSources
                                   /\ Expansion(c)!ScannedAreStored
  BY DEF Expansion!ExpansionInv
<1> QED BY <1>1, ExpansionSteps, PTL

\* A configured host is not probed for further surfaces (expand, known_hosts), if
\* lstrip("www.") leaves the configured hosts as they are: of a host that it
\* mangles the engine does not know that it is configured.
THEOREM ConfiguredAreNotProbed ==
    ASSUME NEW c, Expansion(c)!ExpansionConstantsOK, c.configHosts \cap c.mangled = {}
    PROVE  Expansion(c)!Spec => []Expansion(c)!ConfiguredNotProbed
<1>1. Expansion(c)!Init => Expansion(c)!ProbedInv BY ExpansionInit
<1>2. Expansion(c)!ExpansionInv /\ Expansion(c)!ProbedInv /\ [Expansion(c)!Next]_expansionVars
        => Expansion(c)!ProbedInv'
  BY ProbedStep
<1>3. Expansion(c)!ProbedInv => Expansion(c)!ConfiguredNotProbed
  BY DEF Expansion!ProbedInv, Expansion!ConfiguredNotProbed
<1>4. Expansion(c)!Spec => Expansion(c)!Init BY DEF Expansion!Spec
<1> QED BY <1>1, <1>2, <1>3, <1>4, ExpansionSteps, PTL

\* If a listing must be missed twice to be gone, no run records one as gone that
\* it recorded, although what an expansion records does not count as seen
\* (finish_refresh).
THEOREM NoneGoneWhenSeen ==
    ASSUME NEW c, Expansion(c)!ExpansionConstantsOK, c.disappearAfter >= 2
    PROVE  Expansion(c)!Spec => [][Expansion(c)!NotGoneWhenSeen]_expansionVars
<1> DEFINE Kept == Expansion(c)!NotGoneWhenSeen
<1>1. Expansion(c)!ExpansionInv /\ Expansion(c)!FreshInv /\ [Expansion(c)!Next]_expansionVars
        => [Kept]_expansionVars
  BY FreshStep
<1> HIDE DEF Kept
<1>2. Expansion(c)!Spec => [][Kept]_expansionVars BY <1>1, ExpansionSteps, PTL
<1> QED BY <1>2 DEF Kept

-----------------------------------------------------------------------------
(* The parts *)

SchedulersInv ==
    /\ part = "cooldown" => Scheduler(Cooldown)!SchedulerInv
    /\ part = "scheduled" => Scheduler(Scheduled)!SchedulerInv
    /\ part = "cadence" => Scheduler(Cadence)!SchedulerInv

ExpansionsInv ==
    /\ part = "growing" => /\ Expansion(Growing)!ExpansionInv /\ Expansion(Growing)!ProbedInv
                           /\ Expansion(Growing)!FreshInv
    /\ part = "roomy" => Expansion(Roomy)!ExpansionInv

SourcesInv == BreakerInv /\ SchedulersInv /\ ExpansionsInv

LEMMA GrowingOK ==
    /\ Expansion(Growing)!ExpansionConstantsOK /\ Expansion(Roomy)!ExpansionConstantsOK
    /\ Growing.configHosts \cap Growing.mangled = {} /\ Growing.disappearAfter >= 2
<1>1. Growing.configHosts = {h1} /\ Growing.mangled = {h2} /\ Growing.disappearAfter = 2
  BY DEF Growing
<1> QED BY <1>1, PartsOK

LEMMA SchedulersOK ==
    /\ Scheduler(Cooldown)!SchedulerConstantsOK /\ Scheduler(Scheduled)!SchedulerConstantsOK
    /\ Scheduler(Cadence)!SchedulerConstantsOK /\ Cooldown.cooldowns
<1>1. Cooldown.cooldowns BY DEF Cooldown, Scheduled
<1> QED BY <1>1, PartsOK

LEMMA SourcesInit == PartInit => SourcesInv
<1> SUFFICES ASSUME PartInit PROVE SourcesInv OBVIOUS
<1>1. BreakerInv BY BreakerInit DEF PartInit
<1>2. SchedulersInv BY SchedulersOK, SchedulerInit DEF PartInit, SchedulersInv
<1>3. ExpansionsInv BY GrowingOK, ExpansionInit DEF PartInit, ExpansionsInv
<1> QED BY <1>1, <1>2, <1>3 DEF SourcesInv

\* A step of the whole is one of its part.
LEMMA PartSteps ==
    ASSUME [PartNext]_all
    PROVE  /\ part' = part
           /\ Next \/ UNCHANGED vars
           /\ part = "cooldown" => Scheduler(Cooldown)!Next \/ UNCHANGED schedulerVars
           /\ part = "scheduled" => Scheduler(Scheduled)!Next \/ UNCHANGED schedulerVars
           /\ part = "cadence" => Scheduler(Cadence)!Next \/ UNCHANGED schedulerVars
           /\ part = "growing" => Expansion(Growing)!Next \/ UNCHANGED expansionVars
           /\ part = "roomy" => Expansion(Roomy)!Next \/ UNCHANGED expansionVars
<1>1. Undropped!Next => Next
  BY DEF Undropped!Next, Undropped!Tick, Undropped!Acquire, Undropped!Success, Undropped!Failure,
         Undropped!Cancel, Undropped!Drop, Undropped!Ended, Undropped!Running, Undropped!Rejected,
         Undropped!Released, Undropped!Least, Undropped!breaker,
         Next, Tick, Acquire, Success, Failure, Cancel, Ended, Running, Rejected, Released, Least,
         breaker
<1>2. CASE UNCHANGED all BY <1>2 DEF all
<1>3. CASE PartNext BY <1>1, <1>3 DEF PartNext, OnlyBreaker, OnlyScheduler, OnlyExpansion
<1> QED BY <1>2, <1>3

LEMMA SourcesStep == SourcesInv /\ [PartNext]_all => SourcesInv'
<1> SUFFICES ASSUME SourcesInv, [PartNext]_all PROVE SourcesInv' OBVIOUS
<1>1. BreakerInv' BY PartSteps, BreakerStep DEF SourcesInv
<1>2. SchedulersInv'
  BY PartSteps, SchedulersOK, SchedulerStep DEF SourcesInv, SchedulersInv
<1>3. ExpansionsInv'
  BY PartSteps, GrowingOK, ExpansionStep, ProbedStep, FreshStep DEF SourcesInv, ExpansionsInv
<1> QED BY <1>1, <1>2, <1>3 DEF SourcesInv

LEMMA SourcesInvariant == PartSpec => []SourcesInv
BY SourcesInit, SourcesStep, PTL DEF PartSpec

\* No source is lost: the invariant of the run.
THEOREM SourcesAreKept == PartSpec => []SourcesKept
<1>1. SourcesInv => SourcesKept
  <2> SUFFICES ASSUME SourcesInv PROVE SourcesKept OBVIOUS
  <2>1. TypeOK BY DEF SourcesInv, BreakerInv
  <2>2. PartsTyped
    BY SchedulersOK, SchedulerKept DEF SourcesInv, SchedulersInv, ExpansionsInv, PartsTyped,
       Expansion!ExpansionInv
  <2>3. NeverGivenUp /\ CountsFailures /\ NoSourceLost
    BY SchedulersOK, SchedulerKept DEF SourcesInv, SchedulersInv, NeverGivenUp, CountsFailures,
       NoSourceLost
  <2>4. ListingsHaveSources /\ ScannedAreStored
    BY DEF SourcesInv, ExpansionsInv, Expansion!ExpansionInv, ListingsHaveSources, ScannedAreStored
  <2>5. ConfiguredNotProbed
    BY DEF SourcesInv, ExpansionsInv, Expansion!ProbedInv, ConfiguredNotProbed,
       Expansion!ConfiguredNotProbed
  <2> QED BY <2>1, <2>2, <2>3, <2>4, <2>5 DEF SourcesKept
<1> QED BY <1>1, SourcesInvariant, PTL

\* No step undoes what was seen: the action property of the run.
THEOREM NothingIsUndone == PartSpec => NothingUndone
<1> DEFINE Kept == /\ part = "cooldown" => Scheduler(Cooldown)!RestartKeepsCooldown
                   /\ part = "growing" => Expansion(Growing)!NotGoneWhenSeen
<1>1. ASSUME SourcesInv, [PartNext]_all PROVE Kept
  <2>1. part = "cooldown" => Scheduler(Cooldown)!RestartKeepsCooldown
    BY <1>1, PartSteps, SchedulersOK, CooldownsKept DEF SourcesInv, SchedulersInv
  <2>2. part = "growing" => Expansion(Growing)!NotGoneWhenSeen
    BY <1>1, PartSteps, GrowingOK, FreshStep DEF SourcesInv, ExpansionsInv
  <2> QED BY <2>1, <2>2
<1>2. SourcesInv /\ [PartNext]_all => [Kept]_<<schedulerVars, expansionVars>> BY <1>1
<1> HIDE DEF Kept
<1>3. PartSpec => [][Kept]_<<schedulerVars, expansionVars>>
  BY <1>2, SourcesInvariant, PTL DEF PartSpec
<1> QED BY <1>3 DEF Kept, NothingUndone

\* The breaker rests also as a part of the whole.
THEOREM Rests == PartSpec => RestsAfterTrip
<1>1. SourcesInv /\ [PartNext]_all => [Rested]_vars
  BY PartSteps, BreakerRests DEF SourcesInv
<1>2. PartSpec => [][Rested]_vars BY <1>1, SourcesInvariant, PTL DEF PartSpec
<1> QED BY <1>2 DEF Rested, RestsAfterTrip
=============================================================================
