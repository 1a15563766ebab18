------------------------------ MODULE CyclesMC ------------------------------
(***************************************************************************)
(* Refresh cycles beyond one process: the window a coordinator remembers   *)
(* signed requests in, a cycle run by remote workers from its tasks to the *)
(* catalog history, and what the history keeps of the observations.  They  *)
(* share no state in these models, so a behaviour is about one of them,    *)
(* the part it picks at the start among Parts; the variables of the others *)
(* stay at their first values (ReplayWindow) or unused.                    *)
(***************************************************************************)
EXTENDS ReplayWindow, TLC

CONSTANTS
    Parts, Unused,
    Sources, Workers, NumPages, MaxAttempts, DisappearAfter,          \* DistributedCycle
    MaxCycles, MaxLeases, MaxWire,
    Payloads, Shown, Heartbeat,                                       \* HistoryCompaction
    Compacted, Repeated    \* for each history its listings, end and runs

VARIABLES
    part,
    phase, holder, closed, stored, attempts, exec, wire, cycle, collector, unread, offered,
    mixed, listing, run, seen,                                        \* DistributedCycle
    historyNow, runs, running, rows, last, gone, done, again, removable \* HistoryCompaction

cycleVars == <<phase, holder, closed, stored, attempts, exec, wire, cycle, collector, unread,
                offered, mixed, listing, run, seen>>
historyVars == <<historyNow, runs, running, rows, last, gone, done, again, removable>>
all == <<part, vars, cycleVars, historyVars>>

\* The two workers are alike.
Symmetry == Permutations(Workers)

-----------------------------------------------------------------------------
(* The parts *)

\* Cycles of remote workers.
Remote == INSTANCE DistributedCycle

\* Catalog histories: of a listing over many runs, and of several over few.
Compaction(c) == INSTANCE HistoryCompaction WITH
    Listings <- c.listings, EndOfTime <- c.end, MaxRuns <- c.runs, now <- historyNow

OneListing == [listings |-> {"l1"}, end |-> 4, runs |-> 4]
TwoListings == [listings |-> {"l1", "l2"}, end |-> 2, runs |-> 2]

\* Of three payloads "b" differs from "a" in its evidence only, "c" in its price.
ShownPrice == ("a" :> 1) @@ ("b" :> 1) @@ ("c" :> 2)

ASSUME PartsOK ==
    /\ Remote!ConstantsOK
    /\ Compaction(Compacted)!CompactionConstantsOK /\ Compaction(Repeated)!CompactionConstantsOK

-----------------------------------------------------------------------------
NoCycle ==
    /\ phase = Unused /\ holder = Unused /\ closed = Unused /\ stored = Unused
    /\ attempts = Unused /\ exec = Unused /\ wire = Unused /\ cycle = Unused
    /\ collector = Unused /\ unread = Unused /\ offered = Unused /\ mixed = Unused
    /\ listing = Unused /\ run = Unused /\ seen = Unused
NoHistory ==
    /\ historyNow = Unused /\ runs = Unused /\ running = Unused /\ rows = Unused
    /\ last = Unused /\ gone = Unused /\ done = Unused /\ again = Unused
    /\ removable = Unused

PartInit ==
    /\ part \in Parts
    /\ Init
    /\ IF part = "remote" THEN Remote!Init ELSE NoCycle
    /\ CASE part = "compacted" -> Compaction(Compacted)!Init
         [] part = "repeated" -> Compaction(Repeated)!Init
         [] OTHER -> NoHistory

OnlyWindow == UNCHANGED <<part, cycleVars, historyVars>>
OnlyCycle == UNCHANGED <<part, vars, historyVars>>
OnlyHistory == UNCHANGED <<part, vars, cycleVars>>

PartNext ==
    \/ part = "window" /\ Next /\ OnlyWindow
    \/ part = "remote" /\ Remote!Next /\ OnlyCycle
    \/ part = "compacted" /\ Compaction(Compacted)!Next /\ OnlyHistory
    \/ part = "repeated" /\ Compaction(Repeated)!Next /\ OnlyHistory

PartSpec == PartInit /\ [][PartNext]_all

-----------------------------------------------------------------------------
(* Properties, next to those of ReplayWindow *)

\* Cycles and histories are of their types: among others, a listing has no
\* two stored observations of one run.
PartsTyped ==
    /\ part = "remote" => Remote!TypeOK
    /\ part = "compacted" => Compaction(Compacted)!TypeOK
    /\ part = "repeated" => Compaction(Repeated)!TypeOK

\* A completed task has stored every listing its source still offers,
\* whichever attempts and lost leases its batches came from, unless its attempts
\* got mixed up: batches are known by their number in an attempt
\* (distributed_cli_secure.py), which says nothing when pages change places or when a
\* late request of the same worker meets its next lease.
CompletedIsWhole == part = "remote" => Remote!CompletedIsWhole

\* A listing its source has offered all along is never taken for gone, if no
\* task of the source was mixed up like that.
NoFalseDisappearance == part = "remote" => Remote!NoFalseDisappearance

\* The last stored observation of a listing has the payload it was last seen
\* with: active_records.py puts the record together from it.  Of listings that
\* a run recorded more than once this is not so.
LatestKept ==
    /\ part = "compacted" => Compaction(Compacted)!LatestKept
    /\ part = "repeated" => Compaction(Repeated)!LatestKept

\* A listing that is seen, once in a run, has a stored observation younger than
\* the heartbeat.
HeartbeatKept ==
    /\ part = "compacted" => Compaction(Compacted)!HeartbeatKept
    /\ part = "repeated" => Compaction(Repeated)!HeartbeatKept

\* What the histories say is so, under the conditions named above.
HistoryIsTrue ==
    /\ TypeOK /\ PartsTyped
    /\ CompletedIsWhole /\ NoFalseDisappearance /\ LatestKept /\ HeartbeatKept

\* Compaction never reaches the observations of earlier runs, also when a run
\* records a listing again (_record_batch_sync); and no step takes back a change
\* of payload that was stored of a listing no run recorded more than once.
EvidenceGrows ==
    [][/\ part = "compacted" => Compaction(Compacted)!EvidenceGrows
       /\ part = "repeated" => Compaction(Repeated)!EvidenceGrows]_historyVars

=============================================================================
