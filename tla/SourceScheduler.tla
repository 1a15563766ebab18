--------------------------- MODULE SourceScheduler --------------------------
(***************************************************************************)
(* Which sources a refresh cycle scans.  Quality learning gives a source   *)
(* a cadence (source_quality.py), failures give it a cooldown              *)
(* (source_cooldown.py, source_failures.py), and the engine plans, runs    *)
(* and records each cycle (learning_refresh.py, promotion_refresh.py): the *)
(* plan takes the next number of a counter in the database, the outcomes   *)
(* are written after the scan in two transactions of their own, and the    *)
(* process may die or the scan raise between any two of them.              *)
(*                                                                         *)
(* PromotionCatalogRefreshEngine is the engine the service runs            *)
(* (promotion_service_cli.py); with Cooldowns = FALSE this is its base     *)
(* class LearningCatalogRefreshEngine, whose counter lives in the process. *)
(***************************************************************************)
EXTENDS Integers, FiniteSets

CONSTANTS
    Curated, Found,         \* the sources of the configuration; those a cycle may discover
    Learned,                \* the sources whose name starts with "auto-"
    Errors,                 \* errors a scan may end with
    Cooldowns, Adaptive, AdaptCurated,
    MinCycles, MaxScanEvery,
    MaxCycles, MaxCrashes   \* bounds of the exploration

Sources == Curated \cup Found

SchedulerConstantsOK ==
    /\ Learned \subseteq Sources /\ Found \subseteq Learned
    /\ {Cooldowns, Adaptive, AdaptCurated} \subseteq BOOLEAN
    /\ MinCycles \in Nat \ {0} /\ MaxScanEvery \in Nat \ {0}
    /\ MaxCycles \in Nat /\ MaxCrashes \in Nat

VARIABLES
    counter,                  \* the cycle number: in the database, or in the process
    seen, every,              \* source_quality: cycles seen (up to MinCycles), scan_every_cycles
    failures, until, class,   \* source_cooldown
    registered, adapters,     \* sources registered; those in self.adapters
    at, selected, outcome,    \* the cycle under way
    began, lastPlan, streak,  \* observed: cycles begun, each source's last, its failures
    crashes

durable == <<seen, every, failures, until, class>>
engine == <<registered, adapters>>
cycle == <<at, selected, outcome>>
vars == <<counter, durable, engine, cycle, began, lastPlan, streak, crashes>>

-----------------------------------------------------------------------------
(* Failure classes *)

\* base and bound of the cooldown of each class, in cycles
Policies ==
    [access_denied  |-> <<16, 64>>, rate_limited  |-> <<4, 32>>,
     tls_error      |-> <<16, 64>>, network_error |-> <<4, 32>>,
     timeout        |-> <<2, 16>>,  server_error  |-> <<2, 16>>,
     protocol_error |-> <<4, 16>>,  parser_error  |-> <<4, 32>>,
     unknown_error  |-> <<2, 16>>]

MaxCooldown == 64

\* the outcome of a scan without an error
Ok == [status |-> 200, words |-> {}]

\* An error is the HTTP status in its text (0: none) and the tell-tale words
\* in it; the first class that applies is taken.
Classify(e) ==
    LET says(words) == e.words \cap words # {} IN
    IF e.status \in {401, 403} \/ says({"forbidden"}) THEN "access_denied"
    ELSE IF e.status = 429 \/ says({"rate limit"}) THEN "rate_limited"
    ELSE IF e.status \in 500 .. 599 THEN "server_error"
    ELSE IF says({"certificate", "tls"}) THEN "tls_error"
    ELSE IF says({"timeout"}) THEN "timeout"
    ELSE IF says({"cannot connect", "dns"}) THEN "network_error"
    ELSE IF says({"header field"}) THEN "protocol_error"
    ELSE IF says({"parser"}) THEN "parser_error"
    ELSE "unknown_error"

\* [n \in 0..4 |-> 2^n]
Doubled == <<1, 2, 4, 8, 16>>
Smaller(a, b) == IF a < b THEN a ELSE b

\* cooldown_cycles; `consecutive` counts the failure it is asked for
CooldownCycles(name, consecutive) ==
    Smaller(Policies[name][2], Policies[name][1] * Doubled[Smaller(5, consecutive)])

\* the cadence of a source of the given quality band (5: the best)
ScanEvery(band, cycles) ==
    IF cycles < MinCycles THEN 1
    ELSE CASE band >= 4 -> 1
           [] band = 3 -> Smaller(MaxScanEvery, 2)
           [] band = 2 -> Smaller(MaxScanEvery, 3)
           [] OTHER -> MaxScanEvery

-----------------------------------------------------------------------------
TypeOK ==
    /\ counter \in 0 .. MaxCycles /\ began \in 0 .. MaxCycles
    /\ seen \in [Sources -> 0 .. MinCycles] /\ every \in [Sources -> 1 .. MaxScanEvery]
    /\ failures \in [Sources -> 0 .. MaxCycles]
    /\ until \in [Sources -> 0 .. MaxCycles + MaxCooldown]
    /\ class \in [Sources -> DOMAIN Policies \cup {"none"}]
    /\ registered \subseteq Sources /\ adapters \subseteq registered
    /\ at \in {"idle", "planned", "scanned", "learned"}
    /\ selected \subseteq registered
    /\ outcome \in [selected -> Errors \cup {Ok}] \/ outcome = <<>>
    /\ lastPlan \in [Sources -> 0 .. MaxCycles] /\ streak \in [Sources -> 0 .. MaxCycles]
    /\ crashes \in 0 .. MaxCrashes

Init ==
    /\ counter = 0 /\ began = 0 /\ crashes = 0
    /\ seen = [s \in Sources |-> 0] /\ every = [s \in Sources |-> 1]
    /\ failures = [s \in Sources |-> 0] /\ until = failures
    /\ class = [s \in Sources |-> "none"]
    /\ registered = Curated /\ adapters = Curated
    /\ at = "idle" /\ selected = {} /\ outcome = <<>>
    /\ lastPlan = failures /\ streak = failures

\* Faulty: a source is due at the multiples of its cadence after its cooldown.
DueAfterCooldown(s, index) ==
    index >= until[s] /\ (index - until[s]) % every[s] = 0 /\ index % every[s] = 0

\* _scheduler_plan of the two engines; `index` is the number of this cycle.
Due(s, index) ==
    LET adapts == Adaptive /\ (s \in Learned \/ (Cooldowns /\ AdaptCurated)) IN
    /\ adapts => (index - 1) % every[s] = 0
    /\ Cooldowns => index >= until[s]

Plan ==
    /\ at = "idle" /\ began < MaxCycles
    /\ counter' = counter + 1 /\ began' = began + 1
    /\ at' = "planned"
    /\ selected' = {s \in adapters : Due(s, counter + 1)}
    /\ adapters' = selected'
    /\ lastPlan' = [s \in Sources |-> IF s \in selected' THEN began' ELSE lastPlan[s]]
    /\ UNCHANGED <<durable, registered, outcome, streak, crashes>>

\* The scan itself: each selected source succeeds or fails (an open circuit
\* is a failure), new sources may be registered, and their adapters are put
\* back with the others when it is over.
Scan ==
    /\ at = "planned"
    /\ \E o \in [selected -> Errors \cup {Ok}], new \in SUBSET (Found \ registered) :
         /\ outcome' = o
         /\ registered' = registered \cup new
         /\ adapters' = registered'
         /\ lastPlan' = [s \in Sources |-> IF s \in new THEN began ELSE lastPlan[s]]
         /\ streak' = [s \in Sources |-> IF s \notin selected THEN streak[s]
                                         ELSE IF o[s] = Ok THEN 0 ELSE streak[s] + 1]
    /\ at' = "scanned"
    /\ UNCHANGED <<counter, durable, selected, began, crashes>>

\* Faulty: only the adapters of the start of the cycle are put back.
RaiseDropping ==
    /\ at = "planned"
    /\ \E new \in SUBSET (Found \ registered) :
         /\ registered' = registered \cup new
         /\ lastPlan' = [s \in Sources |-> IF s \in new THEN began ELSE lastPlan[s]]
    /\ adapters' = registered
    /\ at' = "idle" /\ selected' = {} /\ outcome' = <<>>
    /\ UNCHANGED <<counter, durable, began, streak, crashes>>

\* An exception inside the scan: the adapters are put back and it is raised.
Raise ==
    /\ at = "planned"
    /\ \E new \in SUBSET (Found \ registered) :
         /\ registered' = registered \cup new
         /\ lastPlan' = [s \in Sources |-> IF s \in new THEN began ELSE lastPlan[s]]
    /\ adapters' = registered'
    /\ at' = "idle" /\ selected' = {} /\ outcome' = <<>>
    /\ UNCHANGED <<counter, durable, began, streak, crashes>>

\* The transaction of SourceQualityStore.record: the scores are data, a scan
\* may give any band.
Sampled(sources, band) ==
    /\ seen' = [s \in Sources |-> IF s \in sources THEN Smaller(seen[s] + 1, MinCycles)
                                                   ELSE seen[s]]
    /\ every' = [s \in Sources |-> IF s \in sources THEN ScanEvery(band[s], seen'[s])
                                                    ELSE every[s]]

\* _learn_from_run: one sample of every source that was selected.
Learn ==
    /\ at = "scanned"
    /\ \E band \in [selected -> 1 .. 4] : Sampled(selected, band)
    /\ at' = "learned"
    /\ UNCHANGED <<counter, failures, until, class, engine, selected, outcome,
                   began, lastPlan, streak, crashes>>

\* The transaction of record_cycle.
Recorded(sources, index) ==
    /\ failures' = [s \in Sources |-> IF s \notin sources THEN failures[s]
                                      ELSE IF outcome[s] = Ok THEN 0 ELSE failures[s] + 1]
    /\ class' = [s \in Sources |-> IF s \notin sources THEN class[s]
                                   ELSE IF outcome[s] = Ok THEN "none" ELSE Classify(outcome[s])]
    /\ until' = [s \in Sources |-> IF s \notin sources THEN until[s]
                                   ELSE IF outcome[s] = Ok THEN 0
                                   ELSE index + CooldownCycles(class'[s], failures'[s])]

\* The cycle ends; only the service's engine records its failures.
RecordCycle ==
    /\ at = "learned"
    /\ IF Cooldowns THEN Recorded(selected, counter) ELSE UNCHANGED <<failures, until, class>>
    /\ at' = "idle" /\ selected' = {} /\ outcome' = <<>>
    /\ UNCHANGED <<counter, seen, every, engine, began, lastPlan, streak, crashes>>

\* Faulty: the cycle counter is one of the process.
CrashResetting ==
    /\ crashes < MaxCrashes /\ crashes' = crashes + 1
    /\ counter' = 0 /\ adapters' = registered
    /\ at' = "idle" /\ selected' = {} /\ outcome' = <<>>
    /\ UNCHANGED <<durable, registered, began, lastPlan, streak>>

\* The process ends and is started again; dynamic sources come back from the
\* source store (_load_dynamic_sources).
Crash ==
    /\ crashes < MaxCrashes /\ crashes' = crashes + 1
    /\ counter' = IF Cooldowns THEN counter ELSE 0
    /\ adapters' = registered
    /\ at' = "idle" /\ selected' = {} /\ outcome' = <<>>
    /\ UNCHANGED <<durable, registered, began, lastPlan, streak>>

Next == Plan \/ Scan \/ Raise \/ Learn \/ RecordCycle \/ Crash

Spec == Init /\ [][Next]_vars

-----------------------------------------------------------------------------
(* Properties *)

\* The longest a source rests for its failure class.
Longest(s) == IF class[s] = "none" THEN 1 ELSE Policies[class[s]][2]

\* No source is given up ("Sources are never permanently blacklisted"): it is
\* planned again before the longest cooldown of its failure class and one
\* period of its cadence have passed, across restarts, raised cycles and
\* cooldowns that end between two turns of its cadence (_scheduler_plan).
NeverGivenUp ==
    at = "idle" => \A s \in adapters : began - lastPlan[s] < Longest(s) + every[s] - 1

\* Nothing but a recorded failure makes a source wait longer than before:
\* not a restart, a raised cycle or the scan of another ("restarting the
\* service must not accidentally extend a source's cooldown").
RestartKeepsCooldown ==
    \A s \in Sources : until'[s] - counter' > until[s] - counter
        => at = "learned" /\ s \in selected /\ outcome[s] # Ok

\* As long as no process dies, the failures recorded of a source are those of
\* its scans since its last success, those after raised cycles and skipped
\* ones included (record_cycle).
CountsFailures ==
    Cooldowns /\ at = "idle" /\ crashes = 0 => failures = streak

\* Between cycles the engine has the adapter of every source it registered:
\* the selection of a cycle, raised or not, is undone (run_once).
NoSourceLost == at = "idle" => adapters = registered

\* The number of one of the next cycles in which the source is due, before
\* the time that NeverGivenUp allows it is over.
DueSoon(s) ==
    \E n \in 1 .. Longest(s) + every[s] - 1 - (began - lastPlan[s]) : Due(s, counter + n)

\* The cycle under way: what it selected was planned in it, rests no longer, and
\* has not failed in all cycles.
CycleInOrder ==
    /\ counter <= began /\ (Cooldowns => counter = began)
    /\ at = "idle" => selected = {}
    /\ at \in {"idle", "planned"} => outcome = <<>>
    /\ adapters = IF at = "planned" THEN selected ELSE registered
    /\ at \in {"scanned", "learned"} => outcome \in [selected -> Errors \cup {Ok}]
    /\ \A s \in Sources :
          lastPlan[s] <= began /\ failures[s] <= lastPlan[s] /\ streak[s] <= lastPlan[s]
    /\ \A s \in selected :
          /\ lastPlan[s] = began /\ failures[s] < began
          /\ at = "planned" => streak[s] < began
          /\ Cooldowns => until[s] <= counter
    /\ \A s \in Sources \ registered : until[s] = 0

\* What the cycle under way will record of a source.
Counted ==
    Cooldowns /\ crashes = 0 => \A s \in Sources :
        streak[s] = IF at \in {"idle", "planned"} \/ s \notin selected THEN failures[s]
                    ELSE IF outcome[s] = Ok THEN 0 ELSE failures[s] + 1

\* The inductive invariant.
SchedulerInv ==
    /\ TypeOK /\ CycleInOrder /\ Counted
    /\ \A s \in registered \ selected : DueSoon(s)
=============================================================================
