----------------------------- MODULE ServiceLoop ----------------------------
(***************************************************************************)
(* The discovery service (service_cli.py, serve) and how a refresh cycle   *)
(* becomes a published file (catalog_refresh.py, run_once and its          *)
(* ObservationSpool; learning_refresh.py; debug_artifacts.py).             *)
(*                                                                         *)
(* A batch is committed to the history and then appended to the spool; the *)
(* finished run's spool becomes the output, the sources are rated by what  *)
(* it holds, debug artifacts are written and the output is replaced once   *)
(* more.  Any step may raise, which ends the service; the process may be   *)
(* killed between any two steps, and systemd starts it again.  Process ids *)
(* may be reused: in a container every process has the same.               *)
(***************************************************************************)
EXTENDS Integers, FiniteSets

CONSTANTS
    Pids,
    KeepRuns,                       \* debug directories kept
    MaxRuns, MaxBatches, MaxDeaths, \* bounds: cycles, batches of one, ends of a process
    MayFail, MayCrash

ASSUME ServiceConstantsOK ==
    /\ Pids # {} /\ KeepRuns \in Nat \ {0}
    /\ {MaxRuns, MaxBatches, MaxDeaths} \subseteq Nat /\ {MayFail, MayCrash} \subseteq BOOLEAN

Runs == 1 .. MaxRuns
Contents == [Runs -> 0 .. MaxBatches]       \* batches of each run
Empty == [r \in Runs |-> 0]

VARIABLES
    at, pid, run, count,    \* the process: where it is, its id, cycle, spool.count
    status, rows,           \* refresh_runs; batches each run committed
    spool,                  \* the spool file of each process id
    output,                 \* discovery-latest.json
    rated,                  \* the contents the sources were rated by, for each run
    dirs, latest,           \* debug directories (TRUE: complete), run named by latest.json
    health,                 \* in memory: started, stopping, outcome of the last cycle
    journal,                \* the last lifecycle event
    stop, deaths

files == <<spool, output, rated, dirs, latest>>
vars == <<at, pid, run, count, status, rows, files, health, journal, stop, deaths>>

InCycle == {"scanning", "recorded", "finished", "flushed", "replaced", "published", "rated",
            "dumped", "named", "debugged"}

TypeOK ==
    /\ at \in InCycle \union {"down", "starting", "idle", "cycled", "failed"}
    /\ pid \in Pids /\ run \in 0 .. MaxRuns /\ count \in 0 .. MaxBatches
    /\ status \in [Runs -> {"none", "running", "completed", "aborted"}]
    /\ rows \in Contents /\ spool \in [Pids -> Contents]
    /\ output.run \in 0 .. MaxRuns /\ output.holds \in Contents /\ output.runtime \in BOOLEAN
    /\ rated \in [Runs -> Contents]
    /\ DOMAIN dirs \subseteq Runs
    /\ at \in {"debugged", "cycled"} => Cardinality(DOMAIN dirs) <= KeepRuns
    /\ latest \in 0 .. MaxRuns
    /\ health.last \in {"none", "ok", "errors", "failed"}
    /\ stop \in BOOLEAN /\ deaths \in 0 .. MaxDeaths

Init ==
    /\ at = "down" /\ pid \in Pids /\ run = 0 /\ count = 0
    /\ status = [r \in Runs |-> "none"] /\ rows = Empty
    /\ spool = [p \in Pids |-> Empty]
    /\ output = [run |-> 0, holds |-> Empty, count |-> 0, runtime |-> FALSE]
    /\ rated = [r \in Runs |-> Empty] /\ dirs = <<>> /\ latest = 0
    /\ health = [started |-> FALSE, stopping |-> FALSE, last |-> "none"]
    /\ journal = "none" /\ stop = FALSE /\ deaths = 0

-----------------------------------------------------------------------------
(* The process *)

\* systemd starts the unit, and again after a failure.
Start(p) ==
    /\ at = "down" /\ ~stop /\ deaths < MaxDeaths
    /\ at' = "starting" /\ pid' = p
    /\ health' = [started |-> FALSE, stopping |-> FALSE, last |-> "none"]
    /\ journal' = "service_starting"
    /\ UNCHANGED <<run, count, status, rows, files, stop, deaths>>

Started ==
    /\ at = "starting" /\ at' = "idle"
    /\ health' = [health EXCEPT !.started = TRUE] /\ journal' = "service_started"
    /\ UNCHANGED <<pid, run, count, status, rows, files, stop, deaths>>

\* SIGTERM or SIGINT: looked at between two cycles.
Signal ==
    /\ at # "down" /\ ~stop /\ stop' = TRUE
    /\ UNCHANGED <<at, pid, run, count, status, rows, files, health, journal, deaths>>

\* Faulty: what a spool holds is appended to.
SpoolKept == spool

SpoolReset == [spool EXCEPT ![pid] = Empty]

\* begin_refresh and spool.reset.
Begin ==
    /\ at = "idle" /\ ~stop /\ run < MaxRuns
    /\ at' = "scanning" /\ run' = run + 1 /\ count' = 0
    /\ status' = [status EXCEPT ![run + 1] = "running"] /\ spool' = SpoolReset
    /\ journal' = "cycle_started"
    /\ UNCHANGED <<pid, rows, output, rated, dirs, latest, health, stop, deaths>>

-----------------------------------------------------------------------------
(* run_once *)

\* _persist_batch: the rows are committed beside the normalization,
Record ==
    /\ at = "scanning" /\ rows[run] < MaxBatches
    /\ at' = "recorded" /\ rows' = [rows EXCEPT ![run] = @ + 1]
    /\ UNCHANGED <<pid, run, count, status, files, health, journal, stop, deaths>>

\* and what both made is appended.
Spooled ==
    /\ at = "recorded" /\ at' = "scanning"
    /\ spool' = [spool EXCEPT ![pid][run] = @ + 1] /\ count' = count + 1
    /\ UNCHANGED <<pid, run, status, rows, output, rated, dirs, latest, health, journal, stop, deaths>>

FinishRefresh ==
    /\ at = "scanning" /\ at' = "finished"
    /\ status' = [status EXCEPT ![run] = "completed"]
    /\ UNCHANGED <<pid, run, count, rows, files, health, journal, stop, deaths>>

\* The conditional cache's flush.
Flush ==
    /\ at = "finished" /\ at' = "flushed"
    /\ UNCHANGED <<pid, run, count, status, rows, files, health, journal, stop, deaths>>

\* spool.finalize: a temporary file, replaced in one step,
Replace ==
    /\ at = "flushed" /\ at' = "replaced"
    /\ output' = [run |-> run, holds |-> spool[pid], count |-> count, runtime |-> FALSE]
    /\ UNCHANGED <<pid, run, count, status, rows, spool, rated, dirs, latest, health, journal, stop, deaths>>

\* and the spool is removed.
Unlink ==
    /\ at = "replaced" /\ at' = "published"
    /\ spool' = [spool EXCEPT ![pid] = Empty]
    /\ UNCHANGED <<pid, run, count, status, rows, output, rated, dirs, latest, health, journal, stop, deaths>>

-----------------------------------------------------------------------------
(* What the learning engine adds *)

\* _learn_from_run reads the output back.
Rate ==
    /\ at = "published" /\ at' = "rated"
    /\ rated' = [rated EXCEPT ![run] = output.holds]
    /\ UNCHANGED <<pid, run, count, status, rows, spool, output, dirs, latest, health, journal, stop, deaths>>

\* The directory of a run and its four files, one of which may be missing
\* when the process dies,
DumpPartly ==
    /\ at = "rated" /\ run \notin DOMAIN dirs
    /\ dirs' = [r \in DOMAIN dirs \union {run} |-> IF r = run THEN FALSE ELSE dirs[r]]
    /\ UNCHANGED <<at, pid, run, count, status, rows, spool, output, rated, latest, health, journal, stop, deaths>>

Dump ==
    /\ at = "rated" /\ run \in DOMAIN dirs /\ at' = "dumped"
    /\ dirs' = [dirs EXCEPT ![run] = TRUE]
    /\ UNCHANGED <<pid, run, count, status, rows, spool, output, rated, latest, health, journal, stop, deaths>>

\* then latest.json,
Name ==
    /\ at = "dumped" /\ at' = "named" /\ latest' = run
    /\ UNCHANGED <<pid, run, count, status, rows, spool, output, rated, dirs, health, journal, stop, deaths>>

\* keep_runs of the directories, the last ones written.
KeptDirs(ds) == {r \in ds : Cardinality({q \in ds : q > r}) < KeepRuns}

\* and the pruning.
Prune ==
    /\ at = "named" /\ at' = "debugged"
    /\ dirs' = [r \in KeptDirs(DOMAIN dirs) |-> dirs[r]]
    /\ UNCHANGED <<pid, run, count, status, rows, spool, output, rated, latest, health, journal, stop, deaths>>

\* The output once more, now with what was learned.
Rewrite ==
    /\ at = "debugged" /\ at' = "cycled"
    /\ output' = [output EXCEPT !.runtime = TRUE]
    /\ UNCHANGED <<pid, run, count, status, rows, spool, rated, dirs, latest, health, journal, stop, deaths>>

-----------------------------------------------------------------------------
(* The end of a cycle, and of the process *)

\* mark_cycle and cycle_completed; sources may have failed.
EndCycle ==
    /\ at = "cycled" /\ at' = "idle"
    /\ \E last \in {"ok", "errors"} : health' = [health EXCEPT !.last = last]
    /\ journal' = "cycle_completed"
    /\ UNCHANGED <<pid, run, count, status, rows, files, stop, deaths>>

\* abort_refresh: of a run that is still running.
StatusAfter == [status EXCEPT ![run] = IF @ = "running" THEN "aborted" ELSE @]

\* Faulty: the exception of a cycle is ignored.
FailSilently ==
    /\ MayFail /\ at \in InCycle /\ at' = "idle"
    /\ status' = IF at \in {"scanning", "recorded", "finished"} THEN StatusAfter ELSE status
    /\ UNCHANGED <<pid, run, count, rows, files, health, journal, stop, deaths>>

\* An exception: up to the flush the run is aborted, and whenever it comes
\* the cycle is reported as failed.
Fail ==
    /\ MayFail /\ at \in InCycle /\ at' = "failed"
    /\ status' = IF at \in {"scanning", "recorded", "finished"} THEN StatusAfter ELSE status
    /\ health' = [health EXCEPT !.last = "failed"] /\ journal' = "cycle_error"
    /\ UNCHANGED <<pid, run, count, rows, files, stop, deaths>>

\* Faulty: only the number of cycles ends the loop.
LeaveAtLast ==
    /\ (at = "failed") \/ (at = "idle" /\ run = MaxRuns)
    /\ at' = "down" /\ deaths' = IF at = "failed" THEN deaths + 1 ELSE MaxDeaths
    /\ health' = [health EXCEPT !.stopping = TRUE] /\ journal' = "service_stopping"
    /\ UNCHANGED <<pid, run, count, status, rows, files, stop>>

\* `finally`: after the signal, the last cycle, or an exception.
Leave ==
    /\ (at = "failed") \/ (at = "idle" /\ (stop \/ run = MaxRuns))
    /\ at' = "down" /\ deaths' = IF at = "failed" THEN deaths + 1 ELSE MaxDeaths
    /\ health' = [health EXCEPT !.stopping = TRUE] /\ journal' = "service_stopping"
    /\ UNCHANGED <<pid, run, count, status, rows, files, stop>>

Crash ==
    /\ MayCrash /\ at # "down" /\ at' = "down" /\ deaths' = deaths + 1
    /\ UNCHANGED <<pid, run, count, status, rows, files, health, journal, stop>>

\* live, and the last cycle, if any, had no error; its age is left out.
Ready == health.started /\ ~health.stopping /\ health.last \in {"none", "ok"}

Cycle == \/ Begin \/ Record \/ Spooled \/ FinishRefresh \/ Flush \/ Replace \/ Unlink
         \/ Rate \/ DumpPartly \/ Dump \/ Name \/ Prune \/ Rewrite \/ EndCycle

Next == Started \/ Signal \/ Cycle \/ Fail \/ Leave \/ Crash \/ \E p \in Pids : Start(p)

Spec == Init /\ [][Next]_vars

\* A process that is not killed goes on, and its scans are finite.
FairSpec == Spec /\ WF_vars(Started \/ Cycle \/ Leave) /\ WF_vars(\E p \in Pids : Start(p))

-----------------------------------------------------------------------------
(* Properties *)

\* What is published is what its run committed to the history, and that run
\* has been finished there: no batch is missing, and none is left over from a
\* run that died with the same process id.
PublishedIsRecorded ==
    output.run # 0 =>
        /\ status[output.run] = "completed"
        /\ output.count = rows[output.run]
        /\ output.holds = [r \in Runs |-> IF r = output.run THEN rows[r] ELSE 0]

\* The sources are rated by what the run saw, and by nothing else.
RatedByRun ==
    \A r \in Runs : rated[r] # Empty => rated[r] = [q \in Runs |-> IF q = r THEN rows[q] ELSE 0]

\* latest.json names a directory that is there and complete.
LatestIsWhole == latest # 0 => latest \in DOMAIN dirs /\ dirs[latest]

\* A service that calls itself ready after a cycle has published that cycle
\* (/readyz), and the journal of one that was not killed ends with
\* service_stopping.
ReadyIsPublished ==
    /\ at # "down" /\ Ready /\ health.last = "ok" => output.run >= (IF at = "idle" THEN run ELSE run - 1)
    /\ at = "down" /\ health.stopping => journal = "service_stopping"

\* When nothing is killed, a service asked to stop does so, and without that
\* every run that begins is published, unless a step of it raises.
StopsOrPublishes ==
    /\ stop ~> at = "down"
    /\ \A r \in Runs : status[r] = "running" ~> output.run >= r \/ at = "failed"
=============================================================================
