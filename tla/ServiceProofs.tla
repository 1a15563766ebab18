---------------------------- MODULE ServiceProofs ---------------------------
EXTENDS ServiceMC, FiniteSetTheorems, FunctionTheorems, SequenceTheorems, TLAPS

-----------------------------------------------------------------------------
(* The loop of cycles and the files it publishes *)

Only(r, n) == [q \in Runs |-> IF q = r THEN n ELSE 0]

\* Before the output is replaced, and from then on.
Collecting == {"scanning", "recorded", "finished", "flushed"}
Published == {"replaced", "published", "rated", "dumped", "named", "debugged", "cycled"}

LoopTyped ==
    /\ at \in Collecting \cup Published \cup {"down", "starting", "idle", "failed"}
    /\ pid \in Pids /\ run \in 0 .. MaxRuns /\ count \in Nat
    /\ status \in [Runs -> {"none", "running", "completed", "aborted"}]
    /\ rows \in [Runs -> Nat] /\ spool \in [Pids -> [Runs -> Nat]]
    /\ output \in [run : 0 .. MaxRuns, holds : [Runs -> Nat], count : Nat, runtime : BOOLEAN]
    /\ rated \in [Runs -> [Runs -> Nat]]
    /\ health \in [started : BOOLEAN, stopping : BOOLEAN,
                   last : {"none", "ok", "errors", "failed"}]

\* While a cycle collects, the spool is what its run committed, but for a
\* batch that has just been, and neither the output nor the ratings know of
\* the run.
SpoolIsRun ==
    /\ at \in Collecting \cup Published => run >= 1
    /\ at \in Collecting => output.run < run /\ rated[run] = Empty
    /\ at \in {"scanning", "finished", "flushed"} =>
          count = rows[run] /\ spool[pid] = Only(run, rows[run])
    /\ at = "recorded" => rows[run] = count + 1 /\ spool[pid] = Only(run, count)
    /\ at \in {"finished", "flushed"} => status[run] = "completed"

\* Runs to come have left nothing behind.
FutureIsEmpty ==
    /\ output.run <= run
    /\ \A r \in Runs : r > run => rows[r] = 0 /\ rated[r] = Empty
    /\ at \in Published => output.run = run

LoopInv == LoopTyped /\ SpoolIsRun /\ FutureIsEmpty /\ PublishedIsRecorded /\ RatedByRun

LEMMA LoopNumbers == MaxRuns \in Nat /\ MaxBatches \in Nat /\ MaxDeaths \in Nat /\ Empty \in [Runs -> Nat]
BY ServiceConstantsOK DEF Empty

LEMMA LoopInit == Init => LoopInv
<1> SUFFICES ASSUME Init PROVE LoopInv OBVIOUS
<1>1. LoopTyped BY LoopNumbers DEF Init, LoopTyped
<1> QED BY <1>1, LoopNumbers
  DEF Init, LoopInv, SpoolIsRun, FutureIsEmpty, PublishedIsRecorded, RatedByRun, Empty, Collecting, Published

\* Steps that touch neither runs, rows, files nor ratings.
LEMMA OutsideKeeps ==
    ASSUME LoopInv, (\E p \in Pids : Start(p)) \/ Started \/ Signal \/ EndCycle \/ Leave \/ Crash
    PROVE  LoopInv'
<1>1. UNCHANGED <<run, count, status, rows, spool, output, rated>>
  BY DEF Start, Started, Signal, EndCycle, Leave, Crash, files
<1>2. (at' = at /\ pid' = pid) \/ (at' \in {"starting", "idle", "down"} /\ pid' \in Pids)
  BY DEF Start, Started, Signal, EndCycle, Leave, Crash, LoopInv, LoopTyped
<1>3. health' \in [started : BOOLEAN, stopping : BOOLEAN, last : {"none", "ok", "errors", "failed"}]
  <2>0. health \in [started : BOOLEAN, stopping : BOOLEAN, last : {"none", "ok", "errors", "failed"}]
    BY DEF LoopInv, LoopTyped
  <2>1. CASE \E p \in Pids : Start(p) BY <2>1 DEF Start
  <2>2. CASE Started BY <2>0, <2>2 DEF Started
  <2>3. CASE Signal \/ Crash BY <2>0, <2>3 DEF Signal, Crash
  <2>4. CASE EndCycle
    <3>1. PICK last \in {"ok", "errors"} : health' = [health EXCEPT !.last = last]
      BY <2>4 DEF EndCycle
    <3> QED BY <2>0, <3>1
  <2>5. CASE Leave BY <2>0, <2>5 DEF Leave
  <2> QED BY <2>1, <2>2, <2>3, <2>4, <2>5
<1>4. LoopTyped' BY <1>1, <1>2, <1>3 DEF LoopInv, LoopTyped
<1>5. SpoolIsRun' /\ FutureIsEmpty'
  BY <1>1, <1>2 DEF LoopInv, SpoolIsRun, FutureIsEmpty, Collecting, Published
<1> QED BY <1>1, <1>4, <1>5 DEF LoopInv, PublishedIsRecorded, RatedByRun

LEMMA BeginKeeps == ASSUME LoopInv, Begin PROVE LoopInv'
<1>1. /\ at' = "scanning" /\ run' = run + 1 /\ count' = 0 /\ pid' = pid /\ pid \in Pids
      /\ run + 1 \in Runs /\ run \in Nat
      /\ status' = [status EXCEPT ![run + 1] = "running"]
      /\ spool' = [spool EXCEPT ![pid] = Empty]
      /\ UNCHANGED <<rows, output, rated, health>>
  BY LoopNumbers DEF Begin, SpoolReset, LoopInv, LoopTyped, Runs
<1>2. LoopTyped'
  <2>1. status' \in [Runs -> {"none", "running", "completed", "aborted"}]
    BY <1>1 DEF LoopInv, LoopTyped
  <2>2. spool' \in [Pids -> [Runs -> Nat]] BY <1>1, LoopNumbers DEF LoopInv, LoopTyped
  <2>3. run' \in 0 .. MaxRuns /\ count' \in Nat BY <1>1, LoopNumbers DEF Runs
  <2> QED BY <1>1, <2>1, <2>2, <2>3 DEF LoopInv, LoopTyped, Collecting
<1>3. rows[run + 1] = 0 /\ rated[run + 1] = Empty BY <1>1 DEF LoopInv, FutureIsEmpty
<1>4. spool'[pid] = Only(run + 1, 0) BY <1>1 DEF LoopInv, LoopTyped, Only, Empty
<1>5. output.run \in Nat /\ output.run <= run BY <1>1 DEF LoopInv, LoopTyped, FutureIsEmpty
<1>6. SpoolIsRun' BY <1>1, <1>3, <1>4, <1>5 DEF SpoolIsRun, Collecting, Published
<1>7. FutureIsEmpty' BY <1>1, <1>5 DEF LoopInv, FutureIsEmpty, Published, Runs
<1>8. PublishedIsRecorded'
  BY <1>1, <1>5 DEF LoopInv, LoopTyped, PublishedIsRecorded, Runs
<1> QED BY <1>1, <1>2, <1>6, <1>7, <1>8 DEF LoopInv, RatedByRun

LEMMA RecordKeeps == ASSUME LoopInv, Record PROVE LoopInv'
<1>1. /\ at = "scanning" /\ at' = "recorded" /\ rows' = [rows EXCEPT ![run] = @ + 1]
      /\ UNCHANGED <<pid, run, count, status, spool, output, rated, health>>
  BY DEF Record, files
<1>2. run \in Runs /\ rows \in [Runs -> Nat] /\ output.run < run /\ rated[run] = Empty
      /\ output.run \in Nat
  BY <1>1, LoopNumbers DEF LoopInv, LoopTyped, SpoolIsRun, Collecting, Runs
<1>3. LoopTyped' BY <1>1, <1>2 DEF LoopInv, LoopTyped, Collecting
<1>4. rows'[run] = rows[run] + 1 /\ \A r \in Runs \ {run} : rows'[r] = rows[r] BY <1>1, <1>2
<1>5. SpoolIsRun' BY <1>1, <1>2, <1>4 DEF LoopInv, LoopTyped, SpoolIsRun, Collecting, Published
<1>6. FutureIsEmpty' BY <1>1, <1>2, <1>4 DEF LoopInv, FutureIsEmpty, Published, Runs
<1>7. PublishedIsRecorded'
  <2> SUFFICES ASSUME output.run # 0
               PROVE  /\ status[output.run] = "completed"
                      /\ output.count = rows'[output.run]
                      /\ output.holds = [r \in Runs |-> IF r = output.run THEN rows'[r] ELSE 0]
    BY <1>1 DEF PublishedIsRecorded
  <2>1. output.run \in Runs /\ rows'[output.run] = rows[output.run]
    BY <1>2, <1>4 DEF LoopInv, LoopTyped, Runs
  <2> QED BY <1>4, <2>1 DEF LoopInv, PublishedIsRecorded
<1>8. RatedByRun'
  <2> SUFFICES ASSUME NEW r \in Runs, rated[r] # Empty
               PROVE  rated[r] = [q \in Runs |-> IF q = r THEN rows'[q] ELSE 0]
    BY <1>1 DEF RatedByRun
  <2>1. rows'[r] = rows[r] BY <1>2, <1>4
  <2> QED BY <2>1 DEF LoopInv, RatedByRun
<1> QED BY <1>3, <1>5, <1>6, <1>7, <1>8 DEF LoopInv

LEMMA SpooledKeeps == ASSUME LoopInv, Spooled PROVE LoopInv'
<1>1. /\ at = "recorded" /\ at' = "scanning" /\ count' = count + 1
      /\ spool' = [spool EXCEPT ![pid][run] = @ + 1]
      /\ UNCHANGED <<pid, run, status, rows, output, rated, health>>
  BY DEF Spooled
<1>2. run \in Runs /\ count \in Nat /\ spool[pid] = Only(run, count) /\ rows[run] = count + 1
  BY <1>1, LoopNumbers DEF LoopInv, LoopTyped, SpoolIsRun, Collecting, Runs
<1>3. spool'[pid] = Only(run, count + 1) BY <1>1, <1>2 DEF LoopInv, LoopTyped, Only
<1>4. LoopTyped' BY <1>1, <1>2, <1>3 DEF LoopInv, LoopTyped, Collecting
<1>5. SpoolIsRun' BY <1>1, <1>2, <1>3 DEF LoopInv, SpoolIsRun, Collecting, Published
<1> QED BY <1>1, <1>4, <1>5 DEF LoopInv, FutureIsEmpty, PublishedIsRecorded, RatedByRun, Published

LEMMA FinishKeeps == ASSUME LoopInv, FinishRefresh \/ Flush PROVE LoopInv'
<1>1. /\ at \in {"scanning", "finished"} /\ at' \in {"finished", "flushed"}
      /\ UNCHANGED <<pid, run, count, rows, spool, output, rated, health>>
  BY DEF FinishRefresh, Flush, files
<1>2. run \in Runs /\ output.run < run BY <1>1, LoopNumbers DEF LoopInv, LoopTyped, SpoolIsRun, Collecting, Runs
<1>3. /\ status' \in [Runs -> {"none", "running", "completed", "aborted"}]
      /\ status'[run] = "completed" /\ \A r \in Runs \ {run} : status'[r] = status[r]
  BY <1>2 DEF FinishRefresh, Flush, LoopInv, LoopTyped, SpoolIsRun
<1>4. LoopTyped' BY <1>1, <1>3 DEF LoopInv, LoopTyped, Collecting
<1>5. SpoolIsRun' BY <1>1, <1>3 DEF LoopInv, SpoolIsRun, Collecting, Published
<1>6. PublishedIsRecorded' BY <1>1, <1>2, <1>3 DEF LoopInv, LoopTyped, PublishedIsRecorded, Runs
<1> QED BY <1>1, <1>4, <1>5, <1>6 DEF LoopInv, FutureIsEmpty, RatedByRun, Published

LEMMA ReplaceKeeps == ASSUME LoopInv, Replace PROVE LoopInv'
<1>1. /\ at = "flushed" /\ at' = "replaced"
      /\ output' = [run |-> run, holds |-> spool[pid], count |-> count, runtime |-> FALSE]
      /\ UNCHANGED <<pid, run, count, status, rows, spool, rated, health>>
  BY DEF Replace
<1>2. /\ run \in Runs /\ count = rows[run] /\ spool[pid] = Only(run, rows[run])
      /\ status[run] = "completed"
  BY <1>1, LoopNumbers DEF LoopInv, LoopTyped, SpoolIsRun, Collecting, Runs
<1>3. LoopTyped' BY <1>1 DEF LoopInv, LoopTyped, Published
<1>4. SpoolIsRun' BY <1>1, <1>2 DEF LoopInv, SpoolIsRun, Collecting, Published, Runs
<1>5. FutureIsEmpty' BY <1>1, <1>2 DEF LoopInv, FutureIsEmpty, Published, Runs
<1>6. PublishedIsRecorded' BY <1>1, <1>2 DEF PublishedIsRecorded, Only
<1> QED BY <1>1, <1>3, <1>4, <1>5, <1>6 DEF LoopInv, RatedByRun

\* After the replacement: the spool goes, debug files come, the output is
\* completed.
LEMMA AfterKeeps ==
    ASSUME LoopInv, Unlink \/ DumpPartly \/ Dump \/ Name \/ Prune \/ Rewrite
    PROVE  LoopInv'
<1>1. /\ at \in Published /\ at' \in Published
      /\ UNCHANGED <<pid, run, count, status, rows, rated, health>>
  BY DEF Unlink, DumpPartly, Dump, Name, Prune, Rewrite, Published
<1>2. spool' \in [Pids -> [Runs -> Nat]]
  BY LoopNumbers DEF Unlink, DumpPartly, Dump, Name, Prune, Rewrite, LoopInv, LoopTyped
<1>3. /\ output' \in [run : 0 .. MaxRuns, holds : [Runs -> Nat], count : Nat, runtime : BOOLEAN]
      /\ output'.run = output.run /\ output'.holds = output.holds /\ output'.count = output.count
  BY DEF Unlink, DumpPartly, Dump, Name, Prune, Rewrite, LoopInv, LoopTyped
<1>4. LoopTyped' BY <1>1, <1>2, <1>3 DEF LoopInv, LoopTyped
<1>5. SpoolIsRun' BY <1>1, <1>3 DEF LoopInv, SpoolIsRun, Collecting, Published
<1>6. FutureIsEmpty' BY <1>1, <1>3 DEF LoopInv, FutureIsEmpty
<1> QED BY <1>1, <1>3, <1>4, <1>5, <1>6 DEF LoopInv, PublishedIsRecorded, RatedByRun

LEMMA RateKeeps == ASSUME LoopInv, Rate PROVE LoopInv'
<1>1. /\ at = "published" /\ at' = "rated" /\ rated' = [rated EXCEPT ![run] = output.holds]
      /\ UNCHANGED <<pid, run, count, status, rows, spool, output, health>>
  BY DEF Rate
<1>2. run \in Runs /\ output.run = run
  BY <1>1, LoopNumbers DEF LoopInv, LoopTyped, SpoolIsRun, FutureIsEmpty, Published, Runs
<1>3. output.holds = [q \in Runs |-> IF q = run THEN rows[q] ELSE 0]
  BY <1>2 DEF LoopInv, PublishedIsRecorded, Runs
<1>4. LoopTyped' BY <1>1, <1>2 DEF LoopInv, LoopTyped, Published
<1>5. SpoolIsRun' BY <1>1, <1>2 DEF LoopInv, SpoolIsRun, Collecting, Published
<1>6. FutureIsEmpty' BY <1>1, <1>2 DEF LoopInv, LoopTyped, FutureIsEmpty, Published
<1>7. RatedByRun'
  <2> SUFFICES ASSUME NEW r \in Runs, rated'[r] # Empty
               PROVE  rated'[r] = [q \in Runs |-> IF q = r THEN rows[q] ELSE 0]
    BY <1>1 DEF RatedByRun
  <2>1. rated \in [Runs -> [Runs -> Nat]] BY DEF LoopInv, LoopTyped
  <2>2. CASE r = run
    <3>1. rated'[r] = output.holds BY <1>1, <2>1, <2>2
    <3> QED BY <1>3, <2>2, <3>1
  <2>3. CASE r # run
    <3>1. rated'[r] = rated[r] BY <1>1, <2>1, <2>3
    <3> QED BY <3>1 DEF LoopInv, RatedByRun
  <2> QED BY <2>2, <2>3
<1> QED BY <1>1, <1>4, <1>5, <1>6, <1>7 DEF LoopInv, PublishedIsRecorded

\* A run that fails is aborted only while it is running, so never after its
\* output was replaced.
LEMMA FailKeeps == ASSUME LoopInv, Fail PROVE LoopInv'
<1>1. /\ at \in InCycle /\ at' = "failed"
      /\ UNCHANGED <<pid, run, count, rows, spool, output, rated>>
      /\ status' = IF at \in {"scanning", "recorded", "finished"} THEN StatusAfter ELSE status
      /\ health' = [health EXCEPT !.last = "failed"]
  BY DEF Fail, files
<1>2. run \in Runs BY <1>1, LoopNumbers DEF LoopInv, LoopTyped, SpoolIsRun, InCycle, Collecting, Published, Runs
<1>3. /\ status' \in [Runs -> {"none", "running", "completed", "aborted"}]
      /\ \A r \in Runs : status[r] = "completed" => status'[r] = "completed"
  BY <1>1, <1>2 DEF StatusAfter, LoopInv, LoopTyped
<1>4. LoopTyped' BY <1>1, <1>3 DEF LoopInv, LoopTyped
<1>5. SpoolIsRun' /\ FutureIsEmpty'
  BY <1>1 DEF LoopInv, SpoolIsRun, FutureIsEmpty, Collecting, Published
<1>6. PublishedIsRecorded' BY <1>1, <1>3 DEF LoopInv, LoopTyped, PublishedIsRecorded, Runs
<1> QED BY <1>1, <1>4, <1>5, <1>6 DEF LoopInv, RatedByRun

LEMMA LoopStep == LoopInv /\ [Next]_vars => LoopInv'
<1>1. ASSUME LoopInv, UNCHANGED vars PROVE LoopInv'
  BY <1>1 DEF vars, files, LoopInv, LoopTyped, SpoolIsRun, FutureIsEmpty, PublishedIsRecorded,
     RatedByRun
<1> QED
  BY <1>1, OutsideKeeps, BeginKeeps, RecordKeeps, SpooledKeeps, FinishKeeps, ReplaceKeeps,
     AfterKeeps, RateKeeps, FailKeeps DEF Next, Cycle

LEMMA LoopInvariant == Spec => []LoopInv
BY LoopStep, LoopInit, PTL DEF Spec

\* What is published is one finished run, whole, and nothing of another.
THEOREM OutputIsARun == Spec => []PublishedIsRecorded
BY LoopInvariant, PTL DEF LoopInv

\* The sources are rated by what a run committed and by nothing else.
THEOREM RatingsAreARun == Spec => []RatedByRun
BY LoopInvariant, PTL DEF LoopInv

-----------------------------------------------------------------------------
\* The last outcome belongs to the run that is published, or to the one
\* before the run under way.
LastIsPublished ==
    /\ at # "down" => ~health.stopping
    /\ at # "down" /\ health.last = "ok" => output.run >= (IF at = "idle" THEN run ELSE run - 1)
    /\ at = "starting" => health.last = "none"
    /\ at = "down" /\ health.stopping => journal = "service_stopping"

LEMMA LastStep == LoopInv /\ LastIsPublished /\ [Next]_vars => LastIsPublished'
<1> SUFFICES ASSUME LoopInv, LastIsPublished, [Next]_vars PROVE LastIsPublished' OBVIOUS
<1>1. /\ output.run \in Nat /\ run \in Nat /\ output.run <= run
      /\ at \in Published => output.run = run
      /\ health \in [started : BOOLEAN, stopping : BOOLEAN, last : {"none", "ok", "errors", "failed"}]
  BY LoopNumbers DEF LoopInv, LoopTyped, FutureIsEmpty
<1>2. CASE UNCHANGED vars BY <1>2 DEF vars, files, LastIsPublished
<1>3. CASE \E p \in Pids : Start(p) BY <1>1, <1>3 DEF Start, files, LastIsPublished
<1>4. CASE Started BY <1>1, <1>4 DEF Started, files, LastIsPublished
<1>5. CASE Signal \/ Crash BY <1>1, <1>5 DEF Signal, Crash, files, LastIsPublished
<1>6. CASE Leave BY <1>1, <1>6 DEF Leave, files, LastIsPublished
<1>7. CASE EndCycle BY <1>1, <1>7 DEF EndCycle, files, LastIsPublished, Published
<1>8. CASE Begin BY <1>1, <1>8 DEF Begin, LastIsPublished
<1>9. CASE Record \/ Spooled \/ FinishRefresh \/ Flush
  BY <1>1, <1>9 DEF Record, Spooled, FinishRefresh, Flush, files, LastIsPublished
<1>10. CASE Replace BY <1>1, <1>10 DEF Replace, LastIsPublished
<1>11. CASE Unlink \/ Rate \/ DumpPartly \/ Dump \/ Name \/ Prune
  BY <1>1, <1>11 DEF Unlink, Rate, DumpPartly, Dump, Name, Prune, LastIsPublished
<1>12. CASE Rewrite
  <2>1. output'.run = output.run BY <1>12 DEF Rewrite, LoopInv, LoopTyped
  <2> QED BY <1>1, <1>12, <2>1 DEF Rewrite, LastIsPublished
<1>13. CASE Fail BY <1>1, <1>13 DEF Fail, files, InCycle, LastIsPublished
<1> QED BY <1>2, <1>3, <1>4, <1>5, <1>6, <1>7, <1>8, <1>9, <1>10, <1>11, <1>12, <1>13 DEF Next, Cycle

\* A service that calls itself ready has published its last cycle, and one
\* that was not killed says in its journal that it stopped.
THEOREM ReadyMeansPublished == Spec => []ReadyIsPublished
<1>1. Init => LastIsPublished BY DEF Init, LastIsPublished
<1>2. LastIsPublished => ReadyIsPublished BY DEF LastIsPublished, ReadyIsPublished
<1> QED BY <1>1, <1>2, LastStep, LoopInvariant, PTL DEF Spec

\* Debug directories are of runs that began, and what latest.json names is there
\* and complete: the pruning that follows keeps the last one.
DirsInv ==
    /\ run \in 0 .. MaxRuns /\ DOMAIN dirs \subseteq 1 .. run /\ latest \in 0 .. run
    /\ dirs = [r \in DOMAIN dirs |-> dirs[r]]
    /\ LatestIsWhole
    /\ at \in Collecting \cup Published => run >= 1
    /\ at = "dumped" => run \in DOMAIN dirs /\ dirs[run]
    /\ at = "named" => latest = run

LEMMA DirsStep == DirsInv /\ [Next]_vars => DirsInv'
<1> SUFFICES ASSUME DirsInv, [Next]_vars PROVE DirsInv' OBVIOUS
<1>0. MaxRuns \in Nat /\ KeepRuns \in Nat \ {0} BY ServiceConstantsOK
<1>1. CASE UNCHANGED vars BY <1>1 DEF vars, files, DirsInv, LatestIsWhole
<1>2. CASE (\E p \in Pids : Start(p)) \/ Started \/ Signal \/ EndCycle \/ Leave \/ Crash \/ Fail
  BY <1>2 DEF Start, Started, Signal, EndCycle, Leave, Crash, Fail, files, DirsInv,
     LatestIsWhole, Collecting, Published
<1>3. CASE Begin
  BY <1>0, <1>3 DEF Begin, DirsInv, LatestIsWhole, Collecting, Published
<1>4. CASE Record \/ Spooled \/ FinishRefresh \/ Flush \/ Replace \/ Unlink \/ Rate \/ Rewrite
  BY <1>4 DEF Record, Spooled, FinishRefresh, Flush, Replace, Unlink, Rate, Rewrite, files,
     DirsInv, LatestIsWhole, Collecting, Published
<1>5. CASE DumpPartly
  <2>1. /\ at = "rated" /\ at' = at /\ UNCHANGED <<run, latest>> /\ run \notin DOMAIN dirs
        /\ dirs' = [r \in DOMAIN dirs \cup {run} |-> IF r = run THEN FALSE ELSE dirs[r]]
    BY <1>5 DEF DumpPartly
  <2>2. run \in 1 .. run /\ at \in Published
    BY <2>1 DEF DirsInv, Published
  <2>3. DOMAIN dirs' = DOMAIN dirs \cup {run} /\ \A r \in DOMAIN dirs : dirs'[r] = dirs[r]
    BY <2>1
  <2>4. LatestIsWhole' BY <2>1, <2>3 DEF DirsInv, LatestIsWhole
  <2>5. dirs' = [r \in DOMAIN dirs' |-> dirs'[r]] BY <2>1
  <2>6. DOMAIN dirs' \subseteq 1 .. run BY <2>2, <2>3 DEF DirsInv
  <2> QED BY <2>1, <2>2, <2>4, <2>5, <2>6 DEF DirsInv, Collecting, Published
<1>6. CASE Dump
  BY <1>6 DEF Dump, DirsInv, LatestIsWhole, Collecting, Published
<1>7. CASE Name
  BY <1>7 DEF Name, DirsInv, LatestIsWhole, Collecting, Published
<1>8. CASE Prune
  <2>1. latest = run /\ at' = "debugged" /\ UNCHANGED <<run, latest>>
        /\ dirs' = [r \in KeptDirs(DOMAIN dirs) |-> dirs[r]]
    BY <1>8 DEF Prune, DirsInv
  <2>2. DOMAIN dirs' = KeptDirs(DOMAIN dirs) /\ KeptDirs(DOMAIN dirs) \subseteq DOMAIN dirs
        /\ \A r \in KeptDirs(DOMAIN dirs) : dirs'[r] = dirs[r]
    BY <2>1 DEF KeptDirs
  <2>3. ASSUME latest # 0 PROVE latest \in KeptDirs(DOMAIN dirs) /\ dirs[latest]
    <3>1. latest \in DOMAIN dirs /\ dirs[latest] BY <2>3 DEF DirsInv, LatestIsWhole
    <3>2. {q \in DOMAIN dirs : q > run} = {} BY DEF DirsInv
    <3>3. Cardinality({q \in DOMAIN dirs : q > latest}) < KeepRuns
      BY <1>0, <2>1, <3>2, FS_EmptySet
    <3> QED BY <3>1, <3>3 DEF KeptDirs
  <2>4. run >= 1 BY <1>8 DEF Prune, DirsInv, Published
  <2> QED BY <2>1, <2>2, <2>3, <2>4 DEF DirsInv, LatestIsWhole, Collecting, Published
<1> QED BY <1>1, <1>2, <1>3, <1>4, <1>5, <1>6, <1>7, <1>8 DEF Next, Cycle

\* The file latest.json names a debug directory that is there and complete,
\* wherever the process dies.
THEOREM LatestIsThere == Spec => []LatestIsWhole
<1>1. Init => DirsInv
  BY ServiceConstantsOK DEF Init, DirsInv, LatestIsWhole, Collecting, Published
<1>2. DirsInv => LatestIsWhole BY DEF DirsInv
<1> QED BY <1>1, <1>2, DirsStep, PTL DEF Spec

-----------------------------------------------------------------------------
\* The service that is asked to stop takes steps of ServiceLoop, with one
\* process id and one batch, so that what holds of its behaviours holds here.
LEMMA AskedIsLoop == LoopInv /\ Asked!Next => Next
<1> SUFFICES ASSUME LoopInv, Asked!Next PROVE Next OBVIOUS
<1> USE DEF Asked!Runs, Runs, Asked!files, files
<1>0. p1 \in Pids /\ MaxBatches >= 1 /\ MaxBatches \in Nat BY PartsOK, ServiceConstantsOK
<1>1. CASE Asked!Started \/ Asked!Signal \/ Asked!Leave
  BY <1>1 DEF Asked!Started, Asked!Signal, Asked!Leave, Started, Signal, Leave, Next
<1>2. CASE Asked!Fail
  BY <1>2 DEF Asked!Fail, Fail, Asked!InCycle, InCycle, Asked!StatusAfter, StatusAfter, Next
<1>3. CASE Asked!Crash BY <1>3 DEF Asked!Crash
<1>4. CASE \E p \in {p1} : Asked!Start(p)
  BY <1>0, <1>4 DEF Asked!Start, Start, Next
<1>5. CASE Asked!Record
  <2>1. rows[run] \in Nat
    BY <1>5, LoopNumbers DEF Asked!Record, LoopInv, LoopTyped, SpoolIsRun, Collecting
  <2>2. rows[run] < MaxBatches BY <1>0, <1>5, <2>1 DEF Asked!Record
  <2> QED BY <1>5, <2>2 DEF Asked!Record, Record, Cycle, Next
<1>6. CASE Asked!Begin
  BY <1>6 DEF Asked!Begin, Begin, Cycle, Next, Asked!SpoolReset, SpoolReset, Asked!Empty, Empty
<1>7. CASE Asked!Spooled \/ Asked!FinishRefresh \/ Asked!Flush \/ Asked!Replace
  BY <1>7 DEF Asked!Spooled, Asked!FinishRefresh, Asked!Flush, Asked!Replace, Spooled,
     FinishRefresh, Flush, Replace, Cycle, Next
<1>8. CASE Asked!Unlink \/ Asked!Rate \/ Asked!DumpPartly \/ Asked!Dump
  BY <1>8 DEF Asked!Unlink, Asked!Rate, Asked!DumpPartly, Asked!Dump, Unlink, Rate,
     DumpPartly, Dump, Cycle, Next, Asked!Empty, Empty
<1>9. CASE Asked!Name \/ Asked!Rewrite \/ Asked!EndCycle
  BY <1>9 DEF Asked!Name, Asked!Rewrite, Asked!EndCycle, Name, Rewrite, EndCycle, Cycle, Next
<1>10. CASE Asked!Prune
  <2>1. \A S : Asked!Cardinality(S) = Cardinality(S)
    BY DEF Asked!Cardinality, Cardinality
  <2> QED BY <1>10, <2>1 DEF Asked!Prune, Prune, Cycle, Next, Asked!KeptDirs, KeptDirs
<1> QED
  BY <1>1, <1>2, <1>3, <1>4, <1>5, <1>6, <1>7, <1>8, <1>9, <1>10 DEF Asked!Next, Asked!Cycle

LEMMA PartIsLoop == LoopInv /\ [PartNext]_all => [Next]_vars
<1> SUFFICES ASSUME LoopInv, PartNext PROVE [Next]_vars BY DEF all
<1> QED BY AskedIsLoop DEF PartNext, OnlyBatch, OnlySizer, OnlyJournal, OnlyPromotion

\* What holds of the loop holds of the composition.
LEMMA PartsImplementLoop == PartSpec => Spec
<1>1. PartInit => Init BY DEF PartInit
<1>2. LoopInv /\ [Next]_vars => LoopInv' BY LoopStep
<1> QED BY <1>1, <1>2, PartIsLoop, LoopInit, PTL DEF PartSpec, Spec


-----------------------------------------------------------------------------
(* How much the service holds *)

\* Few directories have fewer than KeepRuns later ones: they differ in how many.
LEMMA KeptAreFew ==
    ASSUME NEW ds, IsFiniteSet(ds), ds \subseteq Int
    PROVE  IsFiniteSet(KeptDirs(ds)) /\ Cardinality(KeptDirs(ds)) <= KeepRuns
<1> DEFINE after(r) == {q \in ds : q > r}
           f == [r \in KeptDirs(ds) |-> Cardinality(after(r))]
<1>0. KeepRuns \in Nat \ {0} BY ServiceConstantsOK
<1>1. KeptDirs(ds) \subseteq ds /\ \A r \in KeptDirs(ds) : Cardinality(after(r)) < KeepRuns
  BY DEF KeptDirs
<1>2. IsFiniteSet(KeptDirs(ds)) BY <1>1, FS_Subset
<1>3. \A r \in ds : IsFiniteSet(after(r)) /\ Cardinality(after(r)) \in Nat
  BY FS_Subset, FS_CardinalityType
<1>4. ASSUME NEW r \in ds, NEW s \in ds, r < s PROVE Cardinality(after(s)) # Cardinality(after(r))
  <2>0. r \in Int /\ s \in Int /\ \A q \in ds : q \in Int OBVIOUS
  <2>1. after(s) \subseteq after(r)
    <3> SUFFICES ASSUME NEW q \in ds, q > s PROVE q > r OBVIOUS
    <3> QED BY <1>4, <2>0
  <2>2. s \in after(r) /\ s \notin after(s) BY <1>4
  <2>3. IsFiniteSet(after(r)) BY <1>3
  <2> QED BY <2>1, <2>2, <2>3, FS_Subset
<1> HIDE DEF after
<1>5. f \in [KeptDirs(ds) -> 0 .. KeepRuns - 1]
  <2> SUFFICES ASSUME NEW r \in KeptDirs(ds) PROVE Cardinality(after(r)) \in 0 .. KeepRuns - 1
    OBVIOUS
  <2>1. Cardinality(after(r)) \in Nat /\ Cardinality(after(r)) < KeepRuns BY <1>1, <1>3
  <2> QED BY <1>0, <2>1
<1>6. IsFiniteSet(0 .. KeepRuns - 1) /\ Cardinality(0 .. KeepRuns - 1) = KeepRuns
  <2>1. ASSUME NEW n \in Nat \ {0} PROVE IsFiniteSet(0 .. n - 1) /\ Cardinality(0 .. n - 1) = n
    BY FS_Interval
  <2> QED BY <1>0, <2>1
<1>7. Cardinality(KeptDirs(ds)) \in Nat BY <1>2, FS_CardinalityType
<1>8. ASSUME KeepRuns < Cardinality(KeptDirs(ds)) PROVE FALSE
  <2> HIDE DEF f
  <2>1. PICK r \in KeptDirs(ds), s \in KeptDirs(ds) : r # s /\ f[r] = f[s]
    <3>1. \E x, y \in KeptDirs(ds) : x # y /\ f[x] = f[y]
      BY <1>2, <1>5, <1>6, <1>8, FS_PigeonHole
    <3> QED BY <3>1
  <2>2. r \in ds /\ s \in ds BY <1>1, <2>1
  <2>3. r < s \/ s < r
    <3>1. r \in Int /\ s \in Int BY <2>2
    <3> QED BY <2>1, <3>1
  <2>4. Cardinality(after(r)) = Cardinality(after(s)) BY <2>1 DEF f
  <2> QED BY <1>4, <2>2, <2>3, <2>4
<1> QED BY <1>0, <1>2, <1>7, <1>8

\* No more batches than a cycle has, in the history, the spools, the output and
\* what sources are rated by; no more debug directories than are kept.
BoundsInv ==
    /\ rows \in Contents /\ spool \in [Pids -> Contents] /\ count \in 0 .. MaxBatches
    /\ output.holds \in Contents /\ rated \in [Runs -> Contents]
    /\ stop \in BOOLEAN /\ deaths \in 0 .. MaxDeaths /\ (at # "down" => deaths < MaxDeaths)
    /\ at \in {"debugged", "cycled"} => Cardinality(DOMAIN dirs) <= KeepRuns

LEMMA BoundsInit == Init => BoundsInv
<1> SUFFICES ASSUME Init PROVE BoundsInv OBVIOUS
<1>1. Empty \in Contents /\ MaxBatches \in Nat /\ MaxDeaths \in Nat
  BY LoopNumbers DEF Empty, Contents
<1>2. /\ rows = Empty /\ spool = [p \in Pids |-> Empty] /\ count = 0 /\ output.holds = Empty
      /\ rated = [r \in Runs |-> Empty] /\ deaths = 0 /\ stop = FALSE /\ at = "down"
  BY DEF Init
<1>3. at # "debugged" /\ at # "cycled" BY <1>2
<1>4. stop \in BOOLEAN BY <1>2
<1>5. spool \in [Pids -> Contents] /\ rated \in [Runs -> Contents] BY <1>1, <1>2
<1>6. count \in 0 .. MaxBatches /\ deaths \in 0 .. MaxDeaths BY <1>1, <1>2
<1>7. rows \in Contents /\ output.holds \in Contents BY <1>1, <1>2
<1> QED BY <1>2, <1>3, <1>4, <1>5, <1>6, <1>7 DEF BoundsInv

LEMMA BoundsStep == LoopInv /\ DirsInv /\ BoundsInv /\ [Next]_vars => BoundsInv'
<1> SUFFICES ASSUME LoopInv, DirsInv, BoundsInv, [Next]_vars PROVE BoundsInv' OBVIOUS
<1>0. /\ MaxRuns \in Nat /\ MaxBatches \in Nat /\ MaxDeaths \in Nat /\ Empty \in Contents
      /\ LoopTyped /\ SpoolIsRun
  BY LoopNumbers DEF Empty, Contents, LoopInv
<1>1. CASE UNCHANGED vars BY <1>1 DEF vars, files, BoundsInv
<1>2. CASE \E p \in Pids : Start(p)
  BY <1>2 DEF Start, files, BoundsInv
<1>3. CASE Started \/ Signal \/ EndCycle \/ Fail \/ FinishRefresh \/ Flush
  BY <1>3 DEF Started, Signal, EndCycle, Fail, FinishRefresh, Flush, InCycle, files, BoundsInv
<1>4. CASE Leave \/ Crash
  <2>1. UNCHANGED <<rows, spool, count, output, rated, dirs, stop>> /\ at' = "down"
    BY <1>4 DEF Leave, Crash, files
  <2>2. deaths' \in 0 .. MaxDeaths
    <3>1. deaths \in 0 .. MaxDeaths /\ (at # "down" => deaths < MaxDeaths) BY DEF BoundsInv
    <3>2. at # "down" /\ deaths' \in {deaths + 1, MaxDeaths} BY <1>4 DEF Leave, Crash
    <3> QED BY <1>0, <3>1, <3>2
  <2> QED BY <2>1, <2>2 DEF BoundsInv
<1>5. CASE Begin
  <2>1. /\ UNCHANGED <<rows, output, rated, stop, deaths>> /\ count' = 0 /\ at = "idle"
        /\ at' = "scanning" /\ spool' = [spool EXCEPT ![pid] = Empty]
    BY <1>5 DEF Begin, SpoolReset
  <2>2. spool' \in [Pids -> Contents] BY <1>0, <2>1 DEF BoundsInv, LoopTyped
  <2> QED BY <1>0, <2>1, <2>2 DEF BoundsInv
<1>6. CASE Record
  <2>1. /\ UNCHANGED <<spool, count, output, rated, stop, deaths>> /\ at = "scanning"
        /\ at' = "recorded" /\ rows[run] < MaxBatches /\ rows' = [rows EXCEPT ![run] = @ + 1]
    BY <1>6 DEF Record, files
  <2>2. rows' \in Contents
    <3>1. rows \in [Runs -> 0 .. MaxBatches] /\ run \in Runs
      BY <1>0, <2>1 DEF BoundsInv, Contents, SpoolIsRun, Collecting, LoopTyped, Runs
    <3>2. rows[run] + 1 \in 0 .. MaxBatches BY <1>0, <2>1, <3>1
    <3> QED BY <2>1, <3>1, <3>2 DEF Contents
  <2> QED BY <2>1, <2>2 DEF BoundsInv
<1>7. CASE Spooled
  <2>1. /\ UNCHANGED <<rows, output, rated, stop, deaths>> /\ at = "recorded" /\ at' = "scanning"
        /\ spool' = [spool EXCEPT ![pid][run] = @ + 1] /\ count' = count + 1
    BY <1>7 DEF Spooled
  <2>2. /\ rows \in [Runs -> 0 .. MaxBatches] /\ run \in Runs /\ count \in Nat
        /\ rows[run] = count + 1 /\ spool[pid] = Only(run, count)
    BY <1>0, <2>1 DEF BoundsInv, Contents, SpoolIsRun, Collecting, LoopTyped, Runs
  <2>3. count + 1 \in 0 .. MaxBatches BY <2>2
  <2>4. spool[pid][run] = count BY <2>2 DEF Only
  <2>5. spool' = [spool EXCEPT ![pid] = [spool[pid] EXCEPT ![run] = count + 1]]
    BY <2>1, <2>4
  <2>6. [spool[pid] EXCEPT ![run] = count + 1] \in Contents
    BY <1>0, <2>3 DEF BoundsInv, Contents, LoopTyped
  <2>7. spool' \in [Pids -> Contents] BY <1>0, <2>5, <2>6 DEF BoundsInv
  <2> QED BY <2>1, <2>3, <2>7 DEF BoundsInv
<1>8. CASE Replace
  <2>1. /\ UNCHANGED <<rows, spool, count, rated, stop, deaths>> /\ at = "flushed"
        /\ at' = "replaced" /\ output'.holds = spool[pid]
    BY <1>8 DEF Replace
  <2> QED BY <1>0, <2>1 DEF BoundsInv, LoopTyped
<1>9. CASE Unlink
  <2>1. /\ UNCHANGED <<rows, count, output, rated, stop, deaths>> /\ at = "replaced"
        /\ at' = "published" /\ spool' = [spool EXCEPT ![pid] = Empty]
    BY <1>9 DEF Unlink
  <2>2. spool' \in [Pids -> Contents] BY <1>0, <2>1 DEF BoundsInv, LoopTyped
  <2> QED BY <2>1, <2>2 DEF BoundsInv
<1>10. CASE Rate
  <2>1. /\ UNCHANGED <<rows, spool, count, output, stop, deaths>> /\ at = "published"
        /\ at' = "rated" /\ rated' = [rated EXCEPT ![run] = output.holds]
    BY <1>10 DEF Rate
  <2>2. rated' \in [Runs -> Contents] BY <2>1 DEF BoundsInv
  <2> QED BY <2>1, <2>2 DEF BoundsInv
<1>11. CASE DumpPartly \/ Dump \/ Name
  BY <1>11 DEF DumpPartly, Dump, Name, BoundsInv
<1>12. CASE Prune
  <2>1. /\ UNCHANGED <<rows, spool, count, output, rated, stop, deaths>> /\ at = "named"
        /\ dirs' = [r \in KeptDirs(DOMAIN dirs) |-> dirs[r]]
    BY <1>12 DEF Prune
  <2>2. DOMAIN dirs' = KeptDirs(DOMAIN dirs) BY <2>1
  <2>3. IsFiniteSet(DOMAIN dirs) /\ DOMAIN dirs \subseteq Int
    <3>1. run \in Nat /\ DOMAIN dirs \subseteq 1 .. run BY <1>0 DEF DirsInv
    <3>2. ASSUME NEW n \in Nat PROVE IsFiniteSet(1 .. n) BY FS_Interval
    <3> QED BY <3>1, <3>2, FS_Subset
  <2>4. Cardinality(DOMAIN dirs') <= KeepRuns BY <2>2, <2>3, KeptAreFew
  <2> QED BY <2>1, <2>4 DEF BoundsInv
<1>13. CASE Rewrite
  <2>1. /\ UNCHANGED <<rows, spool, count, rated, stop, deaths, dirs>> /\ at = "debugged"
        /\ output' = [output EXCEPT !.runtime = TRUE]
    BY <1>13 DEF Rewrite
  <2>2. output'.holds = output.holds BY <1>0, <2>1 DEF LoopTyped
  <2> QED BY <2>1, <2>2 DEF BoundsInv
<1> QED
  BY <1>1, <1>2, <1>3, <1>4, <1>5, <1>6, <1>7, <1>8, <1>9, <1>10, <1>11, <1>12, <1>13
  DEF Next, Cycle

\* The type invariant of the loop: nothing it keeps grows beyond its bound.
THEOREM LoopIsBounded == Spec => []TypeOK
<1> DEFINE Inv == LoopInv /\ DirsInv /\ BoundsInv
<1>1. Init => DirsInv
  BY ServiceConstantsOK DEF Init, DirsInv, LatestIsWhole, Collecting, Published
<1>2. Init => Inv BY <1>1, LoopInit, BoundsInit
<1>3. Inv /\ [Next]_vars => Inv' BY LoopStep, DirsStep, BoundsStep
<1>4. Inv => TypeOK
  <2> SUFFICES ASSUME Inv PROVE TypeOK OBVIOUS
  <2>1. LoopTyped BY DEF LoopInv
  <2>2. at \in InCycle \cup {"down", "starting", "idle", "cycled", "failed"}
    BY <2>1 DEF LoopTyped, Collecting, Published, InCycle
  <2>3. DOMAIN dirs \subseteq Runs /\ latest \in 0 .. MaxRuns
    BY LoopNumbers DEF DirsInv, Runs
  <2> QED BY <2>1, <2>2, <2>3 DEF TypeOK, BoundsInv, LoopTyped
<1> QED BY <1>2, <1>3, <1>4, PTL DEF Spec
-----------------------------------------------------------------------------
(* Batches (PersistBatch) of any configuration *)

\* Cardinality and IsFiniteSet mean the same inside the instance.
LEMMA BatchCounts ==
    ASSUME NEW c
    PROVE  /\ \A S : Batch(c)!Cardinality(S) = Cardinality(S)
           /\ \A S : Batch(c)!IsFiniteSet(S) <=> IsFiniteSet(S)
BY DEF Batch!Cardinality, Cardinality, Batch!IsFiniteSet, IsFiniteSet

\* What the assumption says of the configuration.
LEMMA BatchNumbers ==
    ASSUME NEW c, Batch(c)!PersistConstantsOK
    PROVE  /\ c.items \in Nat /\ c.queue \in Nat \ {0} /\ IsFiniteSet(c.workers)
           /\ Cardinality(c.workers) \in Nat \ {0}
           /\ c.raising \subseteq SUBSET (1 .. c.items)
           /\ \A S : Batch(c)!Cardinality(S) = Cardinality(S)
<1> USE DEF Batch!PersistConstantsOK
<1>1. IsFiniteSet(c.workers) /\ c.workers # {} BY BatchCounts
<1>2. Cardinality(c.workers) \in Nat \ {0} BY <1>1, FS_EmptySet, FS_CardinalityType
<1> QED BY <1>1, <1>2, BatchCounts

\* The number of entries of a kind, when one is appended and when the first is
\* taken.
LEMMA CountToType ==
    ASSUME NEW c, NEW q \in Seq(Int), NEW S, NEW n \in 0 .. Len(q)
    PROVE  /\ IsFiniteSet(Batch(c)!Places(q, n, S))
           /\ Batch(c)!CountTo(q, n, S) = Cardinality(Batch(c)!Places(q, n, S))
           /\ Batch(c)!CountTo(q, n, S) \in 0 .. n
<1>1. IsFiniteSet(1 .. n) /\ Cardinality(1 .. n) = n BY FS_Interval
<1>2. Batch(c)!Places(q, n, S) \in SUBSET (1 .. n) BY DEF Batch!Places
<1> QED BY <1>1, <1>2, FS_Subset, FS_CardinalityType, BatchCounts DEF Batch!CountTo

LEMMA CountAppend ==
    ASSUME NEW c, NEW q \in Seq(Int), NEW x \in Int, NEW S
    PROVE  /\ \A n \in 0 .. Len(q) :
                Batch(c)!CountTo(Append(q, x), n, S) = Batch(c)!CountTo(q, n, S)
           /\ x \in S => Batch(c)!Count(Append(q, x), S) = Batch(c)!Count(q, S) + 1
           /\ x \notin S => Batch(c)!Count(Append(q, x), S) = Batch(c)!Count(q, S)
<1> DEFINE s == Append(q, x)
           A == Batch(c)!Places(q, Len(q), S)
           B == Batch(c)!Places(s, Len(q) + 1, S)
<1>1. s \in Seq(Int) /\ Len(s) = Len(q) + 1 /\ s[Len(q) + 1] = x
      /\ Len(q) \in Nat /\ \A i \in 1 .. Len(q) : s[i] = q[i]
  BY AppendProperties
<1> HIDE DEF s
<1>2. ASSUME NEW n \in 0 .. Len(q)
      PROVE  Batch(c)!Places(s, n, S) = Batch(c)!Places(q, n, S)
  <2>1. \A i \in 1 .. n : s[i] = q[i] BY <1>1
  <2> QED BY <2>1, Zenon DEF Batch!Places
<1>3. Len(q) + 1 \notin A BY <1>1 DEF Batch!Places
<1>4. CASE x \in S
  <2>1. B = A \cup {Len(q) + 1}
    <3>1. \A i : i \in 1 .. Len(q) + 1 <=> i \in 1 .. Len(q) \/ i = Len(q) + 1 BY <1>1
    <3>2. \A i : i \in B <=> i \in A \/ i = Len(q) + 1
      <4>1. \A i : i \in B <=> i \in 1 .. Len(q) + 1 /\ s[i] \in S BY Zenon DEF Batch!Places
      <4>2. \A i : i \in A <=> i \in 1 .. Len(q) /\ q[i] \in S BY Zenon DEF Batch!Places
      <4> HIDE DEF A, B
      <4> QED BY <1>1, <1>4, <3>1, <4>1, <4>2
    <3> HIDE DEF A, B
    <3> QED BY <3>2
  <2>2. Cardinality(B) = Cardinality(A) + 1
    BY <1>1, <1>3, <2>1, CountToType, FS_AddElement
  <2>3. Batch(c)!Count(s, S) = Cardinality(B) /\ Batch(c)!Count(q, S) = Cardinality(A)
    BY <1>1, BatchCounts DEF Batch!Count, Batch!CountTo
  <2> QED BY <1>2, <1>4, <2>2, <2>3 DEF Batch!CountTo, s
<1>5. CASE x \notin S
  <2>1. B = A BY <1>1, <1>5 DEF Batch!Places
  <2> QED BY <1>1, <1>2, <1>5, <2>1, CountToType DEF Batch!Count, Batch!CountTo, s
<1> QED BY <1>4, <1>5

LEMMA CountAppendIn ==
    ASSUME NEW c, NEW q \in Seq(Int), NEW S, NEW x \in Int, x \in S
    PROVE  Batch(c)!Count(Append(q, x), S) = Batch(c)!Count(q, S) + 1
BY CountAppend

LEMMA CountAppendOther ==
    ASSUME NEW c, NEW q \in Seq(Int), NEW S, NEW x \in Int, x \notin S
    PROVE  Batch(c)!Count(Append(q, x), S) = Batch(c)!Count(q, S)
BY CountAppend

LEMMA CountTail ==
    ASSUME NEW c, NEW q \in Seq(Int), q # <<>>, NEW S, NEW n \in 0 .. Len(q) - 1
    PROVE  /\ Head(q) \in S =>
                Batch(c)!CountTo(Tail(q), n, S) = Batch(c)!CountTo(q, n + 1, S) - 1
           /\ Head(q) \notin S =>
                Batch(c)!CountTo(Tail(q), n, S) = Batch(c)!CountTo(q, n + 1, S)
<1> DEFINE t == Tail(q)
           A == Batch(c)!Places(t, n, S)
           B == Batch(c)!Places(q, n + 1, S)
           f == [i \in A |-> i + 1]
<1>1. t \in Seq(Int) /\ Len(t) = Len(q) - 1 /\ Len(q) \in Nat \ {0}
      /\ (\A i \in 1 .. Len(q) - 1 : t[i] = q[i + 1]) /\ Head(q) = q[1]
  BY HeadTailProperties
<1>2. n \in 0 .. Len(t) /\ n + 1 \in 0 .. Len(q) BY <1>1
<1> HIDE DEF t
<1>3. IsFiniteSet(A) /\ Batch(c)!CountTo(t, n, S) = Cardinality(A) /\ Cardinality(A) \in Nat
  BY <1>1, <1>2, CountToType, FS_CardinalityType
<1>4. IsFiniteSet(B) /\ Batch(c)!CountTo(q, n + 1, S) = Cardinality(B) /\ Cardinality(B) \in Nat
  BY <1>1, <1>2, CountToType, FS_CardinalityType
<1>5. f \in Bijection(A, B \ {1})
  <2>1. \A i \in A : i + 1 \in B \ {1} BY <1>1, <1>2 DEF Batch!Places
  <2>2. ASSUME NEW j \in B \ {1} PROVE j - 1 \in A /\ f[j - 1] = j
    <3>1. j \in 2 .. n + 1 /\ q[j] \in S
      <4>1. j \in 1 .. n + 1 /\ q[j] \in S /\ j # 1 BY Zenon DEF Batch!Places
      <4> QED BY <4>1
    <3>0. j - 1 \in 1 .. Len(q) - 1 /\ (j - 1) + 1 = j BY <1>1, <1>2, <3>1
    <3>2. t[j - 1] = q[j]
      <4>1. t[j - 1] = q[(j - 1) + 1] BY <1>1, <3>0
      <4> QED BY <3>0, <4>1
    <3>3. j - 1 \in A BY <1>2, <3>1, <3>2 DEF Batch!Places
    <3>4. (j - 1) + 1 = j BY <1>1, <3>1
    <3> HIDE DEF A
    <3> QED BY <3>3, <3>4
  <2>3. f \in [A -> B \ {1}] BY <2>1
  <2>4. \A i, j \in A : f[i] = f[j] => i = j BY DEF Batch!Places
  <2>5. \A j \in B \ {1} : \E i \in A : f[i] = j BY <2>2
  <2> HIDE DEF f, A, B
  <2> QED BY <2>3, <2>4, <2>5, Fun_IsBij
<1>6. Cardinality(B \ {1}) = Cardinality(A)
  BY <1>3, <1>5, FS_Bijection DEF ExistsBijection
<1>7. Cardinality(B \ {1}) = IF 1 \in B THEN Cardinality(B) - 1 ELSE Cardinality(B)
  BY <1>4, FS_RemoveElement
<1>8. 1 \in B <=> Head(q) \in S BY <1>1, <1>2 DEF Batch!Places
<1> HIDE DEF A, B
<1> QED BY <1>3, <1>4, <1>6, <1>7, <1>8 DEF t

LEMMA CountTailIn ==
    ASSUME NEW c, NEW q \in Seq(Int), q # <<>>, NEW S, Head(q) \in S
    PROVE  Batch(c)!Count(Tail(q), S) = Batch(c)!Count(q, S) - 1
<1>1. Len(Tail(q)) = Len(q) - 1 /\ Len(q) - 1 \in 0 .. Len(q) - 1 /\ (Len(q) - 1) + 1 = Len(q)
  BY HeadTailProperties, EmptySeq
<1>2. Batch(c)!CountTo(Tail(q), Len(q) - 1, S) = Batch(c)!CountTo(q, (Len(q) - 1) + 1, S) - 1
  BY <1>1, CountTail
<1> QED BY <1>1, <1>2 DEF Batch!Count

LEMMA CountTailOther ==
    ASSUME NEW c, NEW q \in Seq(Int), q # <<>>, NEW S, Head(q) \notin S
    PROVE  Batch(c)!Count(Tail(q), S) = Batch(c)!Count(q, S)
<1>1. Len(Tail(q)) = Len(q) - 1 /\ Len(q) - 1 \in 0 .. Len(q) - 1 /\ (Len(q) - 1) + 1 = Len(q)
  BY HeadTailProperties, EmptySeq
<1>2. Batch(c)!CountTo(Tail(q), Len(q) - 1, S) = Batch(c)!CountTo(q, (Len(q) - 1) + 1, S)
  BY <1>1, CountTail
<1> QED BY <1>1, <1>2 DEF Batch!Count

\* The types the counting lemmas need.
LEMMA BatchTypes ==
    ASSUME NEW c, Batch(c)!PersistConstantsOK, Batch(c)!TypeOK
    PROVE  /\ inq \in Seq(Int) /\ outq \in Seq(Int)
           /\ Len(inq) \in 0 .. c.queue /\ Len(outq) \in 0 .. c.queue /\ Len(got) \in Nat
           /\ next \in 1 .. c.items + 1 /\ ended \in Nat /\ closed \in Nat
           /\ IsFiniteSet(Batch(c)!Busy) /\ IsFiniteSet(Batch(c)!Ended)
           /\ Cardinality(Batch(c)!Busy) \in 0 .. Cardinality(c.workers)
           /\ Cardinality(Batch(c)!Ended) \in 0 .. Cardinality(c.workers)
<1> USE DEF Batch!TypeOK, Batch!Items, Batch!EndMark, Batch!Error
<1>1. \A S \in SUBSET c.workers : IsFiniteSet(S) /\ Cardinality(S) \in 0 .. Cardinality(c.workers)
  BY BatchNumbers, FS_Subset, FS_CardinalityType
<1>2. Batch(c)!Busy \in SUBSET c.workers /\ Batch(c)!Ended \in SUBSET c.workers
  BY DEF Batch!Busy, Batch!Ended
<1>3. inq \in Seq(Int) /\ outq \in Seq(Int) /\ got \in Seq(Int)
  <2>1. 1 .. c.items \cup {0} \subseteq Int /\ 1 .. c.items \cup {0, -1} \subseteq Int
    BY BatchNumbers
  <2> QED BY <2>1, SeqMonotonic
<1> QED BY <1>1, <1>2, <1>3, BatchNumbers, LenProperties

LEMMA BatchInit ==
    ASSUME NEW c, Batch(c)!PersistConstantsOK, Batch(c)!Init
    PROVE  Batch(c)!BatchInv
<1> USE DEF Batch!Init, Batch!Items, Batch!EndMark, Batch!Error
<1>0. c.items \in Nat /\ c.queue \in Nat \ {0} /\ Cardinality(c.workers) \in Nat \ {0}
      /\ Batch(c)!Cardinality(c.workers) = Cardinality(c.workers)
  BY BatchNumbers
<1>1. Batch(c)!TypeOK
  <2>1. \A S : <<>> \in Seq(S) BY EmptySeq
  <2>2. inq \in Seq(1 .. c.items \cup {0}) /\ outq \in Seq(1 .. c.items \cup {0, -1})
        /\ got \in Seq(1 .. c.items) /\ Len(inq) = 0 /\ Len(outq) = 0
    BY <2>1
  <2>3. /\ worker \in [c.workers -> {"getting", "running", "putting", "done"}]
        /\ hand \in [c.workers -> 1 .. c.items \cup {0, -1}]
    OBVIOUS
  <2>4. next \in 1 .. c.items + 1 /\ closed \in 0 .. Cardinality(c.workers)
        /\ ended \in 0 .. Cardinality(c.workers) /\ 0 <= c.queue
    BY <1>0
  <2> QED BY <1>0, <2>2, <2>3, <2>4 DEF Batch!TypeOK
<1>2. Batch(c)!MarksAreLast /\ Batch(c)!WorkersInOrder
  BY DEF Batch!MarksAreLast, Batch!WorkersInOrder
<1>3. Batch(c)!Accounted
  <2>1. Batch(c)!Busy = {} /\ Batch(c)!Ended = {} BY DEF Batch!Busy, Batch!Ended
  <2>2. ASSUME NEW S PROVE Batch(c)!Count(<<>>, S) = 0
    <3>1. <<>> \in Seq(Int) /\ Len(<<>>) = 0 /\ 0 \in 0 .. Len(<<>>) BY EmptySeq
    <3>2. Batch(c)!CountTo(<<>>, 0, S) \in 0 .. 0 BY <3>1, CountToType
    <3> QED BY <3>1, <3>2 DEF Batch!Count
  <2>3. Batch(c)!Cardinality({}) = 0 BY BatchCounts, FS_EmptySet
  <2> QED BY <1>0, <2>1, <2>2, <2>3 DEF Batch!Accounted
<1> QED BY <1>0, <1>1, <1>2, <1>3 DEF Batch!BatchInv

\* What a step can use of the configuration and the types.
BatchNums(c) ==
    /\ c.items \in Nat /\ c.queue \in Nat \ {0}
    /\ Cardinality(c.workers) \in Nat \ {0}
    /\ Batch(c)!Cardinality(c.workers) = Cardinality(c.workers)
    /\ inq \in Seq(Int) /\ outq \in Seq(Int)
    /\ Len(inq) \in 0 .. c.queue /\ Len(outq) \in 0 .. c.queue /\ Len(got) \in Nat
    /\ next \in 1 .. c.items + 1 /\ ended \in Nat /\ closed \in Nat

BatchAmounts(c) ==
    /\ Batch(c)!Count(inq, Batch(c)!Items) \in 0 .. Len(inq)
    /\ Batch(c)!Count(outq, Batch(c)!Items) \in 0 .. Len(outq)
    /\ Batch(c)!Count(outq, {Batch(c)!EndMark}) \in 0 .. Len(outq)
    /\ Batch(c)!Cardinality(Batch(c)!Busy) = Cardinality(Batch(c)!Busy)
    /\ Batch(c)!Cardinality(Batch(c)!Ended) = Cardinality(Batch(c)!Ended)
    /\ IsFiniteSet(Batch(c)!Busy) /\ IsFiniteSet(Batch(c)!Ended)
    /\ Cardinality(Batch(c)!Busy) \in 0 .. Cardinality(c.workers)
    /\ Cardinality(Batch(c)!Ended) \in 0 .. Cardinality(c.workers)

\* How many items are in each place, as numbers: n was produced next, i are in
\* the input, b with workers, o in the output and g with the caller.
Adds(n, i, b, o, g) ==
    n \in Nat /\ i \in Nat /\ b \in Nat /\ o \in Nat /\ g \in Nat /\ n - 1 = i + b + o + g

LEMMA AddsSteps ==
    ASSUME NEW n, NEW i, NEW b, NEW o, NEW g, Adds(n, i, b, o, g)
    PROVE  /\ Adds(n + 1, i + 1, b, o, g)
           /\ i >= 1 => Adds(n, i - 1, b + 1, o, g)
           /\ b >= 1 => Adds(n, i, b - 1, o + 1, g)
           /\ o >= 1 => Adds(n, i, b, o - 1, g + 1)
BY DEF Adds

BatchAdds(c) ==
    Adds(next, Batch(c)!Count(inq, Batch(c)!Items), Cardinality(Batch(c)!Busy),
         Batch(c)!Count(outq, Batch(c)!Items), Len(got))

LEMMA BatchFacts ==
    ASSUME NEW c, Batch(c)!PersistConstantsOK, Batch(c)!TypeOK
    PROVE  BatchNums(c) /\ BatchAmounts(c)
<1>1. inq \in Seq(Int) /\ outq \in Seq(Int) /\ Len(inq) \in Nat /\ Len(outq) \in Nat
  BY BatchTypes, LenProperties
<1>2. \A S : Batch(c)!Count(inq, S) \in 0 .. Len(inq)
             /\ Batch(c)!Count(outq, S) \in 0 .. Len(outq)
  <2>1. Len(inq) \in 0 .. Len(inq) /\ Len(outq) \in 0 .. Len(outq) BY <1>1
  <2> QED BY <1>1, <2>1, CountToType DEF Batch!Count
<1>3. BatchNums(c) BY BatchTypes, BatchNumbers DEF BatchNums
<1> QED BY <1>2, <1>3, BatchTypes, BatchCounts DEF BatchAmounts

\* What the invariant says while the caller takes results.
LEMMA BatchGetting ==
    ASSUME NEW c, Batch(c)!BatchInv, consumer = "getting"
    PROVE  Batch(c)!MarksAreLast /\ Batch(c)!WorkersInOrder /\ Batch(c)!Accounted
BY DEF Batch!BatchInv

LEMMA BatchSums ==
    ASSUME NEW c, BatchNums(c), BatchAmounts(c), Batch(c)!Accounted
    PROVE  BatchAdds(c)
<1>1. /\ next \in Nat /\ Len(got) \in Nat /\ Cardinality(Batch(c)!Busy) \in Nat
      /\ Batch(c)!Count(inq, Batch(c)!Items) \in Nat
      /\ Batch(c)!Count(outq, Batch(c)!Items) \in Nat
  BY DEF BatchNums, BatchAmounts
<1> QED BY <1>1 DEF BatchAmounts, BatchAdds, Adds, Batch!Accounted

LEMMA BatchProduce ==
    ASSUME NEW c, Batch(c)!PersistConstantsOK, Batch(c)!BatchInv, Batch(c)!Produce
    PROVE  Batch(c)!BatchInv'
<1>0. Batch(c)!TypeOK /\ BatchNums(c) /\ BatchAmounts(c) BY BatchFacts DEF Batch!BatchInv
<1>1. CASE next <= c.items
  <2>1. /\ producer = "putting" /\ Len(inq) < c.queue
        /\ inq' = Append(inq, next) /\ next' = next + 1 /\ next \in 1 .. c.items
        /\ UNCHANGED <<bad, producer, closed, outq, worker, hand, consumer, got, ended,
                        record, spooled>>
    BY <1>0, <1>1 DEF BatchNums, Batch!Produce, Batch!Room
  <2>2. /\ Len(inq') = Len(inq) + 1 /\ inq'[Len(inq) + 1] = next
        /\ (\A k \in 1 .. Len(inq) : inq'[k] = inq[k]) /\ Len(inq) \in Nat
    BY <1>0, <2>1, AppendProperties DEF BatchNums
  <2>3. Batch(c)!TypeOK'
    <3>1. inq' \in Seq(Batch(c)!Items \cup {Batch(c)!EndMark})
      BY <1>0, <2>1, AppendProperties DEF Batch!TypeOK, Batch!Items
    <3>2. next' \in 1 .. c.items + 1 /\ Len(inq') <= c.queue BY <1>0, <2>1, <2>2 DEF BatchNums
    <3> QED BY <1>0, <2>1, <3>1, <3>2 DEF Batch!TypeOK
  <2>4. ASSUME consumer = "getting"
        PROVE  Batch(c)!MarksAreLast' /\ Batch(c)!WorkersInOrder'
    <3>1. Batch(c)!MarksAreLast /\ Batch(c)!WorkersInOrder BY <2>4, BatchGetting
    <3>2. Batch(c)!WorkersInOrder' BY <2>1, <3>1 DEF Batch!WorkersInOrder
    <3>3. \A k \in 1 .. Len(inq) : inq[k] # 0
      BY <2>1, <3>1 DEF Batch!MarksAreLast, Batch!EndMark
    <3>4. \A k \in 1 .. Len(inq') : inq'[k] # 0
      <4>1. \A k \in 1 .. Len(inq') : k \in 1 .. Len(inq) \/ k = Len(inq) + 1 BY <2>2
      <4> QED BY <2>1, <2>2, <3>3, <4>1
    <3> QED BY <2>1, <3>1, <3>2, <3>4 DEF Batch!MarksAreLast, Batch!EndMark
  <2>5. ASSUME consumer = "getting" PROVE Batch(c)!Accounted'
    <3>0. Batch(c)!Accounted BY <2>5, BatchGetting
    <3>1. Batch(c)!Count(inq', Batch(c)!Items) = Batch(c)!Count(inq, Batch(c)!Items) + 1
      <4>1. inq \in Seq(Int) /\ next \in Int /\ next \in Batch(c)!Items
        BY <1>0, <2>1 DEF BatchNums, Batch!Items
      <4> QED BY <2>1, <4>1, CountAppendIn
    <3>2. ASSUME NEW i \in 1 .. next' - 1 PROVE Batch(c)!Somewhere(i)'
      <4>1. CASE i = next BY <2>1, <2>2, <4>1 DEF Batch!Somewhere
      <4>2. CASE i # next
        <5>1. i \in 1 .. next - 1 BY <2>1, <4>2
        <5>2. Batch(c)!Somewhere(i) BY <3>0, <5>1 DEF Batch!Accounted
        <5> QED BY <2>1, <2>2, <5>2 DEF Batch!Somewhere
      <4> QED BY <4>1, <4>2
    <3>3. UNCHANGED <<Batch(c)!Busy, Batch(c)!Ended>> BY <2>1 DEF Batch!Busy, Batch!Ended
    <3>4. BatchAdds(c)'
      <4>1. BatchAdds(c) BY <1>0, <3>0, BatchSums
      <4> QED BY <2>1, <3>1, <3>3, <4>1, AddsSteps DEF BatchAdds
    <3> QED BY <1>0, <2>1, <3>0, <3>2, <3>3, <3>4 DEF Batch!Accounted, BatchAmounts, BatchAdds, Adds
  <2> QED BY <2>1, <2>3, <2>4, <2>5 DEF Batch!BatchInv
<1>2. CASE ~(next <= c.items)
  <2>1. /\ producer = "putting" /\ producer' = "closing" /\ next = c.items + 1
        /\ UNCHANGED <<bad, next, inq, closed, outq, worker, hand, consumer, got, ended,
                        record, spooled>>
    <3>1. next = c.items + 1 BY <1>0, <1>2 DEF BatchNums
    <3> QED BY <1>2, <3>1 DEF Batch!Produce
  <2>2. Batch(c)!TypeOK' BY <1>0, <2>1 DEF Batch!TypeOK
  <2>3. ASSUME consumer = "getting"
        PROVE  Batch(c)!MarksAreLast' /\ Batch(c)!WorkersInOrder' /\ Batch(c)!Accounted'
    <3>0. Batch(c)!MarksAreLast /\ Batch(c)!WorkersInOrder /\ Batch(c)!Accounted
      BY <2>3, BatchGetting
    <3>1. Batch(c)!MarksAreLast' BY <2>1, <3>0 DEF Batch!MarksAreLast
    <3>2. Batch(c)!WorkersInOrder' BY <2>1, <3>0 DEF Batch!WorkersInOrder
    <3>3. UNCHANGED <<Batch(c)!Busy, Batch(c)!Ended>> BY <2>1 DEF Batch!Busy, Batch!Ended
    <3>4. \A i : Batch(c)!Somewhere(i)' <=> Batch(c)!Somewhere(i) BY <2>1 DEF Batch!Somewhere
    <3> QED BY <2>1, <3>0, <3>1, <3>2, <3>3, <3>4 DEF Batch!Accounted
  <2> QED BY <2>1, <2>2, <2>3 DEF Batch!BatchInv
<1> QED BY <1>1, <1>2

LEMMA CountNone ==
    ASSUME NEW c, NEW q \in Seq(Int), NEW S, NEW n \in 0 .. Len(q),
           \A k \in 1 .. n : q[k] \notin S
    PROVE  Batch(c)!CountTo(q, n, S) = 0
<1>1. Batch(c)!Places(q, n, S) = {} BY DEF Batch!Places
<1> QED BY <1>1, BatchCounts, FS_EmptySet DEF Batch!CountTo

LEMMA CountSome ==
    ASSUME NEW c, NEW q \in Seq(Int), NEW S, NEW n \in 0 .. Len(q), NEW k \in 1 .. n, q[k] \in S
    PROVE  Batch(c)!CountTo(q, n, S) >= 1
<1>1. k \in Batch(c)!Places(q, n, S) BY DEF Batch!Places
<1>2. Cardinality(Batch(c)!Places(q, n, S)) \in Nat /\ IsFiniteSet(Batch(c)!Places(q, n, S))
  BY CountToType, FS_CardinalityType
<1>3. Cardinality(Batch(c)!Places(q, n, S)) # 0 BY <1>1, <1>2, FS_EmptySet
<1> QED BY <1>2, <1>3, CountToType

\* Steps that only end tasks, or touch neither the queues nor the workers.
LEMMA BatchRaises ==
    ASSUME NEW c, Batch(c)!PersistConstantsOK, Batch(c)!BatchInv, Batch(c)!ProducerRaises
    PROVE  Batch(c)!BatchInv'
<1>0. Batch(c)!TypeOK /\ BatchNums(c) BY BatchFacts DEF Batch!BatchInv
<1>1. /\ producer = "raising" /\ Len(outq) < c.queue /\ outq' = Append(outq, -1)
      /\ producer' = "closing"
      /\ UNCHANGED <<bad, next, closed, inq, worker, hand, consumer, got, ended, record, spooled>>
  BY DEF Batch!ProducerRaises, Batch!Room, Batch!Error
<1>2. consumer # "getting" BY <1>1, BatchGetting DEF Batch!MarksAreLast
<1>3. Batch(c)!TypeOK'
  <2>1. outq' \in Seq(Batch(c)!Items \cup {Batch(c)!EndMark, Batch(c)!Error})
        /\ Len(outq') = Len(outq) + 1
    BY <1>0, <1>1, AppendProperties DEF Batch!TypeOK, Batch!Error
  <2>2. Len(outq') <= c.queue BY <1>0, <1>1, <2>1 DEF BatchNums
  <2> QED BY <1>0, <1>1, <2>1, <2>2 DEF Batch!TypeOK
<1> QED BY <1>1, <1>2, <1>3 DEF Batch!BatchInv

LEMMA BatchCancels ==
    ASSUME NEW c, Batch(c)!PersistConstantsOK, Batch(c)!BatchInv, Batch(c)!MapCanceled
    PROVE  Batch(c)!BatchInv'
<1>0. Batch(c)!TypeOK BY DEF Batch!BatchInv
<1>1. /\ consumer = "getting" /\ consumer' = "canceled" /\ Batch(c)!TasksCanceled
      /\ UNCHANGED <<bad, next, closed, inq, outq, got, ended, record, spooled>>
  BY DEF Batch!MapCanceled, Batch!Finish
<1>2. Batch(c)!TypeOK' BY <1>0, <1>1 DEF Batch!TypeOK, Batch!TasksCanceled
<1> QED BY <1>1, <1>2 DEF Batch!BatchInv, Batch!TasksCanceled

LEMMA BatchEndsTask ==
    ASSUME NEW c, Batch(c)!BatchInv, Batch(c)!Commit \/ Batch(c)!Spool
    PROVE  Batch(c)!BatchInv'
<1>1. UNCHANGED <<bad, producer, next, closed, inq, outq, worker, hand, consumer, got, ended>>
  BY DEF Batch!Commit, Batch!Spool, Batch!map
<1>2. /\ record' \in {"running", "committed", "failed"} /\ spooled' \in BOOLEAN
      /\ spooled' => record' = "committed" /\ consumer' = "ok"
  <2>1. record \in {"running", "committed", "failed"} /\ spooled \in BOOLEAN
        /\ (spooled => record = "committed" /\ consumer = "ok")
    BY DEF Batch!BatchInv, Batch!TypeOK
  <2>2. CASE Batch(c)!Commit BY <2>1, <2>2 DEF Batch!Commit, Batch!map
  <2>3. CASE Batch(c)!Spool BY <2>1, <2>3 DEF Batch!Spool, Batch!map
  <2> QED BY <2>2, <2>3
<1>3. Batch(c)!TypeOK' BY <1>1, <1>2 DEF Batch!BatchInv, Batch!TypeOK
<1>4. ASSUME consumer = "getting"
      PROVE  Batch(c)!MarksAreLast' /\ Batch(c)!WorkersInOrder' /\ Batch(c)!Accounted'
  <2>0. Batch(c)!MarksAreLast /\ Batch(c)!WorkersInOrder /\ Batch(c)!Accounted
    BY <1>4, BatchGetting
  <2>1. Batch(c)!MarksAreLast' BY <1>1, <2>0 DEF Batch!MarksAreLast
  <2>2. Batch(c)!WorkersInOrder' BY <1>1, <2>0 DEF Batch!WorkersInOrder
  <2>3. UNCHANGED <<Batch(c)!Busy, Batch(c)!Ended>> BY <1>1 DEF Batch!Busy, Batch!Ended
  <2>4. \A i : Batch(c)!Somewhere(i)' <=> Batch(c)!Somewhere(i) BY <1>1 DEF Batch!Somewhere
  <2> QED BY <1>1, <2>0, <2>1, <2>2, <2>3, <2>4 DEF Batch!Accounted
<1> QED BY <1>1, <1>2, <1>3, <1>4 DEF Batch!BatchInv

LEMMA BatchClose ==
    ASSUME NEW c, Batch(c)!PersistConstantsOK, Batch(c)!BatchInv, Batch(c)!Close
    PROVE  Batch(c)!BatchInv'
<1>0. Batch(c)!TypeOK /\ BatchNums(c) /\ BatchAmounts(c) BY BatchFacts DEF Batch!BatchInv
<1>1. /\ producer = "closing" /\ Len(inq) < c.queue /\ inq' = Append(inq, 0)
      /\ closed' = closed + 1
      /\ producer' = IF closed + 1 = Cardinality(c.workers) THEN "done" ELSE "closing"
      /\ UNCHANGED <<bad, next, outq, worker, hand, consumer, got, ended, record, spooled>>
  BY <1>0 DEF BatchNums, Batch!Close, Batch!Room, Batch!EndMark
<1>2. closed < Cardinality(c.workers) BY <1>0, <1>1 DEF BatchNums, Batch!BatchInv
<1>3. /\ Len(inq') = Len(inq) + 1 /\ inq'[Len(inq) + 1] = 0
      /\ (\A k \in 1 .. Len(inq) : inq'[k] = inq[k]) /\ Len(inq) \in Nat
  BY <1>0, <1>1, AppendProperties DEF BatchNums
<1>4. closed' \in 0 .. Cardinality(c.workers) /\ Len(inq') <= c.queue
      /\ (producer' # "done" => closed' < Cardinality(c.workers))
  BY <1>0, <1>1, <1>2, <1>3 DEF BatchNums
<1>5. Batch(c)!TypeOK'
  <2>1. inq' \in Seq(Batch(c)!Items \cup {Batch(c)!EndMark})
    BY <1>0, <1>1, AppendProperties DEF Batch!TypeOK, Batch!EndMark
  <2>2. closed' \in 0 .. Batch(c)!Cardinality(c.workers) BY <1>0, <1>4 DEF BatchNums
  <2> QED BY <1>0, <1>1, <1>4, <2>1, <2>2 DEF Batch!TypeOK
<1>6. ASSUME consumer = "getting"
      PROVE  Batch(c)!MarksAreLast' /\ Batch(c)!WorkersInOrder'
  <2>0. Batch(c)!MarksAreLast /\ Batch(c)!WorkersInOrder BY <1>6, BatchGetting
  <2>1. \A k \in 1 .. Len(inq') : k \in 1 .. Len(inq) \/ k = Len(inq) + 1 BY <1>3
  <2>2. Batch(c)!WorkersInOrder' BY <1>1, <2>0 DEF Batch!WorkersInOrder
  <2>3. \A k \in 1 .. Len(inq') : inq'[k] = 0 => \A l \in k .. Len(inq') : inq'[l] = 0
    <3> SUFFICES ASSUME NEW k \in 1 .. Len(inq'), inq'[k] = 0, NEW l \in k .. Len(inq')
                 PROVE  inq'[l] = 0
      OBVIOUS
    <3>1. CASE l = Len(inq) + 1 BY <1>3, <3>1
    <3>2. CASE l # Len(inq) + 1
      <4>1. k \in 1 .. Len(inq) /\ l \in k .. Len(inq) /\ l \in 1 .. Len(inq) BY <1>3, <3>2
      <4>2. inq[k] = 0 BY <1>3, <4>1
      <4>3. inq[l] = 0 BY <2>0, <4>1, <4>2 DEF Batch!MarksAreLast, Batch!EndMark
      <4> QED BY <1>3, <4>1, <4>3
    <3> QED BY <3>1, <3>2
  <2>4. ASSUME NEW w \in c.workers, worker[w] \in {"putting", "done"}, hand[w] = 0
        PROVE  \A k \in 1 .. Len(inq') : inq'[k] = 0
    <3>1. \A k \in 1 .. Len(inq) : inq[k] = 0
      BY <2>0, <2>4 DEF Batch!MarksAreLast, Batch!EndMark
    <3> QED BY <1>3, <2>1, <3>1
  <2> QED BY <1>1, <2>0, <2>2, <2>3, <2>4 DEF Batch!MarksAreLast, Batch!EndMark
<1>7. ASSUME consumer = "getting" PROVE Batch(c)!Accounted'
  <2>0. Batch(c)!Accounted BY <1>7, BatchGetting
  <2>1. Batch(c)!Count(inq', Batch(c)!Items) = Batch(c)!Count(inq, Batch(c)!Items)
    <3>1. inq \in Seq(Int) /\ 0 \notin Batch(c)!Items BY <1>0 DEF BatchNums, Batch!Items
    <3> QED BY <1>1, <3>1, CountAppendOther
  <2>2. \A i : Batch(c)!Somewhere(i) => Batch(c)!Somewhere(i)' BY <1>1, <1>3 DEF Batch!Somewhere
  <2>3. UNCHANGED <<Batch(c)!Busy, Batch(c)!Ended>> BY <1>1 DEF Batch!Busy, Batch!Ended
  <2> QED BY <1>1, <2>0, <2>1, <2>2, <2>3 DEF Batch!Accounted
<1> QED BY <1>0, <1>1, <1>4, <1>5, <1>6, <1>7 DEF BatchNums, Batch!BatchInv

LEMMA BatchGet ==
    ASSUME NEW c, Batch(c)!PersistConstantsOK, Batch(c)!BatchInv,
           NEW w \in c.workers, Batch(c)!WorkerGet(w)
    PROVE  Batch(c)!BatchInv'
<1>0. Batch(c)!TypeOK /\ BatchNums(c) /\ BatchAmounts(c) BY BatchFacts DEF Batch!BatchInv
<1> DEFINE x == Head(inq)
           state == IF x = 0 THEN "putting" ELSE "running"
<1>1. /\ worker[w] = "getting" /\ inq # <<>> /\ inq' = Tail(inq)
      /\ hand' = [hand EXCEPT ![w] = x] /\ worker' = [worker EXCEPT ![w] = state]
      /\ UNCHANGED <<bad, producer, next, closed, outq, consumer, got, ended, record, spooled>>
  BY DEF Batch!WorkerGet, Batch!EndMark
<1>2. /\ inq' \in Seq(Batch(c)!Items \cup {0}) /\ x \in Batch(c)!Items \cup {0}
      /\ Len(inq') = Len(inq) - 1 /\ Len(inq) \in Nat \ {0} /\ x = inq[1]
      /\ \A k \in 1 .. Len(inq) - 1 : inq'[k] = inq[k + 1]
  <2>1. inq \in Seq(Batch(c)!Items \cup {0}) BY <1>0 DEF Batch!TypeOK, Batch!EndMark
  <2> QED BY <1>1, <2>1, HeadTailProperties, EmptySeq
<1>3. Batch(c)!Items = 1 .. c.items /\ x \in Int BY <1>0, <1>2 DEF BatchNums, Batch!Items
<1>4. /\ worker \in [c.workers -> {"getting", "running", "putting", "done"}]
      /\ hand \in [c.workers -> Batch(c)!Items \cup {0, -1}]
      /\ \A v \in c.workers : v # w => worker'[v] = worker[v] /\ hand'[v] = hand[v]
      /\ worker'[w] = state /\ hand'[w] = x
  BY <1>0, <1>1 DEF Batch!TypeOK, Batch!EndMark, Batch!Error
<1> HIDE DEF x
<1>5. Batch(c)!TypeOK'
  <2>1. Len(inq') <= c.queue BY <1>0, <1>2 DEF BatchNums
  <2>2. hand' \in [c.workers -> Batch(c)!Items \cup {0, -1}] BY <1>1, <1>2, <1>4
  <2>3. worker' \in [c.workers -> {"getting", "running", "putting", "done"}] BY <1>1, <1>4
  <2> QED BY <1>0, <1>1, <1>2, <2>1, <2>2, <2>3 DEF Batch!TypeOK, Batch!EndMark, Batch!Error
<1>6. ASSUME consumer = "getting" PROVE Batch(c)!MarksAreLast'
  <2>0. Batch(c)!MarksAreLast BY <1>6, BatchGetting
  <2>1. ASSUME NEW k \in 1 .. Len(inq'), inq'[k] = 0, NEW l \in k .. Len(inq')
        PROVE  producer # "putting" /\ inq'[l] = 0
    <3>1. /\ k + 1 \in 1 .. Len(inq) /\ l + 1 \in k + 1 .. Len(inq)
          /\ k \in 1 .. Len(inq) - 1 /\ l \in 1 .. Len(inq) - 1
      BY <1>2
    <3>2. inq[k + 1] = 0 BY <1>2, <2>1, <3>1
    <3> QED BY <1>2, <2>0, <3>1, <3>2 DEF Batch!MarksAreLast, Batch!EndMark
  <2>2. ASSUME NEW k \in 1 .. Len(inq'), inq'[k] = 0 PROVE producer # "putting"
    <3>1. k \in k .. Len(inq') BY <1>2
    <3> QED BY <2>1, <2>2, <3>1
  <2>3. ASSUME NEW v \in c.workers, worker'[v] \in {"putting", "done"}, hand'[v] = 0,
               NEW k \in 1 .. Len(inq')
        PROVE  producer # "putting" /\ inq'[k] = 0
    <3>1. k + 1 \in 1 .. Len(inq) /\ k \in 1 .. Len(inq) - 1 /\ 1 \in 1 .. Len(inq) BY <1>2
    <3>2. CASE v = w
      <4>1. inq[1] = 0 BY <1>2, <1>4, <2>3, <3>2
      <4> QED BY <1>2, <2>0, <3>1, <4>1 DEF Batch!MarksAreLast, Batch!EndMark
    <3>3. CASE v # w
      <4>1. worker[v] \in {"putting", "done"} /\ hand[v] = 0 BY <1>4, <2>3, <3>3
      <4> QED BY <1>2, <2>0, <3>1, <4>1 DEF Batch!MarksAreLast, Batch!EndMark
    <3> QED BY <3>2, <3>3
  <2>4. ASSUME NEW v \in c.workers, worker'[v] \in {"putting", "done"}, hand'[v] = 0
        PROVE  producer # "putting"
    <3>1. 1 \in 1 .. Len(inq) BY <1>2
    <3>2. CASE v = w
      <4>1. inq[1] = 0 BY <1>2, <1>4, <2>4, <3>2
      <4> QED BY <2>0, <3>1, <4>1 DEF Batch!MarksAreLast, Batch!EndMark
    <3>3. CASE v # w BY <1>4, <2>0, <2>4, <3>3 DEF Batch!MarksAreLast, Batch!EndMark
    <3> QED BY <3>2, <3>3
  <2> QED BY <1>1, <2>0, <2>1, <2>2, <2>3, <2>4 DEF Batch!MarksAreLast, Batch!EndMark
<1>7. ASSUME consumer = "getting" PROVE Batch(c)!WorkersInOrder'
  <2>0. Batch(c)!WorkersInOrder BY <1>7, BatchGetting
  <2>1. 0 \notin bad
    <3>1. bad \in SUBSET (1 .. c.items) BY <1>0, BatchNumbers DEF Batch!TypeOK
    <3> QED BY <3>1
  <2>2. ASSUME NEW v \in c.workers
        PROVE  /\ worker'[v] = "running" => hand'[v] \in Batch(c)!Items
               /\ worker'[v] = "done" => hand'[v] \notin Batch(c)!Items
               /\ worker'[v] = "putting" => hand'[v] \notin bad
    <3>1. CASE v = w BY <1>2, <1>4, <2>1, <3>1
    <3>2. CASE v # w BY <1>4, <2>0, <3>2 DEF Batch!WorkersInOrder
    <3> QED BY <3>1, <3>2
  <2> QED BY <1>1, <2>0, <2>2 DEF Batch!WorkersInOrder
<1>8. ASSUME consumer = "getting" PROVE Batch(c)!Accounted'
  <2>0. Batch(c)!Accounted /\ Batch(c)!MarksAreLast BY <1>8, BatchGetting
  <2>1. ASSUME NEW i \in 1 .. next' - 1 PROVE Batch(c)!Somewhere(i)'
    <3>1. i \in 1 .. next - 1 /\ i \in 1 .. c.items BY <1>0, <1>1 DEF BatchNums
    <3>2. Batch(c)!Somewhere(i) BY <2>0, <3>1 DEF Batch!Accounted
    <3>3. ASSUME NEW k \in 1 .. Len(inq), inq[k] = i PROVE Batch(c)!Somewhere(i)'
      <4>1. CASE k = 1
        <5>1. x = i /\ state = "running" BY <1>2, <3>1, <3>3, <4>1
        <5> QED BY <1>4, <5>1 DEF Batch!Somewhere
      <4>2. CASE k # 1
        <5>1. k - 1 \in 1 .. Len(inq) - 1 /\ (k - 1) + 1 = k BY <1>2, <4>2
        <5>2. inq'[k - 1] = inq[(k - 1) + 1] BY <1>2, <5>1
        <5>3. k - 1 \in 1 .. Len(inq') /\ inq'[k - 1] = i BY <1>2, <3>3, <5>1, <5>2
        <5> QED BY <5>3 DEF Batch!Somewhere
      <4> QED BY <4>1, <4>2
    <3>4. ASSUME NEW v \in c.workers,
                 \/ worker[v] \in {"running", "putting"} /\ hand[v] = i
                 \/ worker[v] \in {"putting", "done"} /\ hand[v] = Batch(c)!Error
          PROVE  Batch(c)!Somewhere(i)'
      <4>1. v # w BY <1>1, <3>4
      <4> QED BY <1>4, <3>4, <4>1 DEF Batch!Somewhere
    <3> QED BY <1>1, <3>2, <3>3, <3>4 DEF Batch!Somewhere
  <2>2. Batch(c)!Ended' = Batch(c)!Ended
    <3>1. \A v \in c.workers : worker'[v] = "done" /\ hand'[v] = 0
                                 <=> worker[v] = "done" /\ hand[v] = 0
      BY <1>1, <1>4
    <3> QED BY <3>1 DEF Batch!Ended, Batch!EndMark
  <2>3. CASE x = 0
    <3>1. Batch(c)!Busy' = Batch(c)!Busy
      <4>1. \A v \in c.workers : worker'[v] # "getting" /\ hand'[v] # 0
                                   <=> worker[v] # "getting" /\ hand[v] # 0
        BY <1>1, <1>4, <2>3
      <4> QED BY <4>1 DEF Batch!Busy, Batch!EndMark
    <3>2. Batch(c)!Count(inq', Batch(c)!Items) = Batch(c)!Count(inq, Batch(c)!Items)
      <4>1. x \notin Batch(c)!Items BY <1>3, <2>3
      <4>2. inq \in Seq(Int) BY <1>0 DEF BatchNums
      <4> QED BY <1>1, <4>1, <4>2, CountTailOther DEF x
    <3> QED BY <1>1, <2>0, <2>1, <2>2, <3>1, <3>2 DEF Batch!Accounted
  <2>4. CASE x # 0
    <3>1. x \in Batch(c)!Items BY <1>2, <2>4
    <3>2. Batch(c)!Busy' = Batch(c)!Busy \cup {w} /\ w \notin Batch(c)!Busy
      <4>1. \A v \in c.workers : worker'[v] # "getting" /\ hand'[v] # 0
                                   <=> (worker[v] # "getting" /\ hand[v] # 0) \/ v = w
        BY <1>1, <1>4, <2>4
      <4> QED BY <1>1, <4>1 DEF Batch!Busy, Batch!EndMark
    <3>3. Cardinality(Batch(c)!Busy') = Cardinality(Batch(c)!Busy) + 1
      BY <1>0, <3>2, FS_AddElement DEF BatchAmounts
    <3>4. Batch(c)!Count(inq', Batch(c)!Items) = Batch(c)!Count(inq, Batch(c)!Items) - 1
          /\ Batch(c)!Count(inq, Batch(c)!Items) >= 1
      <4>2. inq \in Seq(Int) /\ inq[1] \in Batch(c)!Items BY <1>0, <1>2, <3>1 DEF BatchNums
      <4>3. Len(inq) \in 0 .. Len(inq) /\ 1 \in 1 .. Len(inq) BY <1>2
      <4>4. Batch(c)!Count(inq, Batch(c)!Items) >= 1 BY <4>2, <4>3, CountSome DEF Batch!Count
      <4> QED BY <1>1, <3>1, <4>2, <4>4, CountTailIn DEF x
    <3>5. BatchAdds(c)'
      <4>1. BatchAdds(c) BY <1>0, <2>0, BatchSums
      <4> QED BY <1>1, <3>3, <3>4, <4>1, AddsSteps DEF BatchAdds
    <3>6. Batch(c)!Cardinality(Batch(c)!Busy') = Cardinality(Batch(c)!Busy') BY BatchCounts
    <3> QED BY <1>1, <2>0, <2>1, <2>2, <3>5, <3>6 DEF Batch!Accounted, BatchAdds, Adds
  <2> QED BY <2>3, <2>4
<1> QED BY <1>1, <1>5, <1>6, <1>7, <1>8 DEF Batch!BatchInv

LEMMA BatchRuns ==
    ASSUME NEW c, Batch(c)!PersistConstantsOK, Batch(c)!BatchInv,
           NEW w \in c.workers, Batch(c)!WorkerRuns(w)
    PROVE  Batch(c)!BatchInv'
<1>0. Batch(c)!TypeOK /\ BatchNums(c) /\ BatchAmounts(c) BY BatchFacts DEF Batch!BatchInv
<1> DEFINE y == IF hand[w] \in bad THEN -1 ELSE hand[w]
<1>1. /\ worker[w] = "running" /\ worker' = [worker EXCEPT ![w] = "putting"]
      /\ hand' = [hand EXCEPT ![w] = y]
      /\ UNCHANGED <<bad, producer, next, closed, inq, outq, consumer, got, ended, record, spooled>>
  BY DEF Batch!WorkerRuns, Batch!Error
<1>2. /\ worker \in [c.workers -> {"getting", "running", "putting", "done"}]
      /\ hand \in [c.workers -> Batch(c)!Items \cup {0, -1}]
  BY <1>0 DEF Batch!TypeOK, Batch!EndMark, Batch!Error
<1>3. /\ \A v \in c.workers : v # w => worker'[v] = worker[v] /\ hand'[v] = hand[v]
      /\ worker'[w] = "putting" /\ hand'[w] = y
  BY <1>1, <1>2
<1>4. bad \in SUBSET (1 .. c.items) /\ Batch(c)!Items = 1 .. c.items /\ c.items \in Nat
  BY <1>0, BatchNumbers DEF Batch!TypeOK, Batch!Items
<1>5. Batch(c)!TypeOK'
  <2>1. hand' \in [c.workers -> Batch(c)!Items \cup {0, -1}]
        /\ worker' \in [c.workers -> {"getting", "running", "putting", "done"}]
    BY <1>1, <1>2
  <2> QED BY <1>0, <1>1, <2>1 DEF Batch!TypeOK, Batch!EndMark, Batch!Error
<1>6. ASSUME consumer = "getting"
      PROVE  Batch(c)!MarksAreLast' /\ Batch(c)!WorkersInOrder' /\ Batch(c)!Accounted'
  <2>0. Batch(c)!MarksAreLast /\ Batch(c)!WorkersInOrder /\ Batch(c)!Accounted
    BY <1>6, BatchGetting
  <2>1. hand[w] \in Batch(c)!Items BY <1>1, <2>0 DEF Batch!WorkersInOrder
  <2>2. y \notin bad /\ y # 0 /\ hand[w] # 0 BY <1>4, <2>1
  <2>3. Batch(c)!MarksAreLast'
    <3>1. \A v \in c.workers : worker'[v] \in {"putting", "done"} /\ hand'[v] = 0
             => worker[v] \in {"putting", "done"} /\ hand[v] = 0
      BY <1>3, <2>2
    <3> QED BY <1>1, <2>0, <3>1 DEF Batch!MarksAreLast, Batch!EndMark
  <2>4. Batch(c)!WorkersInOrder'
    <3>1. ASSUME NEW v \in c.workers
          PROVE  /\ worker'[v] = "running" => hand'[v] \in Batch(c)!Items
                 /\ worker'[v] = "done" => hand'[v] \notin Batch(c)!Items
                 /\ worker'[v] = "putting" => hand'[v] \notin bad
      <4>1. CASE v = w BY <1>3, <2>2, <4>1
      <4>2. CASE v # w BY <1>3, <2>0, <4>2 DEF Batch!WorkersInOrder
      <4> QED BY <4>1, <4>2
    <3> QED BY <1>1, <2>0, <3>1 DEF Batch!WorkersInOrder
  <2>5. Batch(c)!Busy' = Batch(c)!Busy
    <3>1. \A v \in c.workers : worker'[v] # "getting" /\ hand'[v] # 0
                                 <=> worker[v] # "getting" /\ hand[v] # 0
      BY <1>1, <1>3, <2>2
    <3> QED BY <3>1 DEF Batch!Busy, Batch!EndMark
  <2>6. Batch(c)!Ended' = Batch(c)!Ended
    <3>1. \A v \in c.workers : worker'[v] = "done" /\ hand'[v] = 0
                                 <=> worker[v] = "done" /\ hand[v] = 0
      BY <1>1, <1>3
    <3> QED BY <3>1 DEF Batch!Ended, Batch!EndMark
  <2>7. ASSUME NEW i, Batch(c)!Somewhere(i) PROVE Batch(c)!Somewhere(i)'
    <3>1. ASSUME NEW v \in c.workers, worker[v] \in {"running", "putting"} /\ hand[v] = i
          PROVE  Batch(c)!Somewhere(i)'
      <4>1. CASE v = w BY <1>3, <3>1, <4>1 DEF Batch!Somewhere, Batch!Error
      <4>2. CASE v # w BY <1>3, <3>1, <4>2 DEF Batch!Somewhere
      <4> QED BY <4>1, <4>2
    <3>2. ASSUME NEW v \in c.workers, worker[v] \in {"putting", "done"} /\ hand[v] = Batch(c)!Error
          PROVE  Batch(c)!Somewhere(i)'
      <4>1. v # w BY <1>1, <3>2
      <4> QED BY <1>3, <3>2, <4>1 DEF Batch!Somewhere
    <3> QED BY <1>1, <2>7, <3>1, <3>2 DEF Batch!Somewhere
  <2>8. Batch(c)!Accounted' BY <1>1, <2>0, <2>5, <2>6, <2>7 DEF Batch!Accounted
  <2> QED BY <2>3, <2>4, <2>8
<1> QED BY <1>1, <1>5, <1>6 DEF Batch!BatchInv

LEMMA BatchPuts ==
    ASSUME NEW c, Batch(c)!PersistConstantsOK, Batch(c)!BatchInv,
           NEW w \in c.workers, Batch(c)!WorkerPuts(w)
    PROVE  Batch(c)!BatchInv'
<1>0. Batch(c)!TypeOK /\ BatchNums(c) /\ BatchAmounts(c) BY BatchFacts DEF Batch!BatchInv
<1> DEFINE x == hand[w]
           state == IF x \in Batch(c)!Items THEN "getting" ELSE "done"
<1>1. /\ worker[w] = "putting" /\ Len(outq) < c.queue /\ outq' = Append(outq, x)
      /\ worker' = [worker EXCEPT ![w] = state]
      /\ UNCHANGED <<bad, producer, next, closed, inq, hand, consumer, got, ended, record, spooled>>
  BY DEF Batch!WorkerPuts, Batch!Room
<1>2. /\ worker \in [c.workers -> {"getting", "running", "putting", "done"}]
      /\ hand \in [c.workers -> Batch(c)!Items \cup {0, -1}]
      /\ outq \in Seq(Batch(c)!Items \cup {0, -1})
      /\ Batch(c)!Items = 1 .. c.items /\ c.items \in Nat
  BY <1>0 DEF Batch!TypeOK, Batch!EndMark, Batch!Error, Batch!Items, BatchNums
<1>3. /\ \A v \in c.workers : v # w => worker'[v] = worker[v]
      /\ worker'[w] = state /\ x \in Batch(c)!Items \cup {0, -1} /\ x \in Int
  BY <1>1, <1>2
<1> HIDE DEF x
<1>4. /\ outq' \in Seq(Batch(c)!Items \cup {0, -1})
      /\ Len(outq') = Len(outq) + 1 /\ outq'[Len(outq) + 1] = x
      /\ (\A k \in 1 .. Len(outq) : outq'[k] = outq[k]) /\ Len(outq) \in Nat
      /\ \A k \in 1 .. Len(outq') : k \in 1 .. Len(outq) \/ k = Len(outq) + 1
  <2>1. /\ outq' \in Seq(Batch(c)!Items \cup {0, -1})
        /\ Len(outq') = Len(outq) + 1 /\ outq'[Len(outq) + 1] = x
        /\ (\A k \in 1 .. Len(outq) : outq'[k] = outq[k]) /\ Len(outq) \in Nat
    BY <1>1, <1>2, <1>3, AppendProperties
  <2> QED BY <2>1
<1>5. Batch(c)!TypeOK'
  <2>1. Len(outq') <= c.queue BY <1>0, <1>1, <1>4 DEF BatchNums
  <2>2. worker' \in [c.workers -> {"getting", "running", "putting", "done"}] BY <1>1, <1>2
  <2> QED BY <1>0, <1>1, <1>4, <2>1, <2>2 DEF Batch!TypeOK, Batch!EndMark, Batch!Error
<1>6. ASSUME consumer = "getting"
      PROVE  Batch(c)!MarksAreLast' /\ Batch(c)!WorkersInOrder'
  <2>0. Batch(c)!MarksAreLast /\ Batch(c)!WorkersInOrder BY <1>6, BatchGetting
  <2>1. \A v \in c.workers : worker'[v] \in {"putting", "done"} /\ hand[v] = 0
             => worker[v] \in {"putting", "done"} /\ hand[v] = 0
    BY <1>1, <1>3
  <2>2. Batch(c)!MarksAreLast' BY <1>1, <2>0, <2>1 DEF Batch!MarksAreLast, Batch!EndMark
  <2>3. x \notin bad BY <1>1, <2>0 DEF Batch!WorkersInOrder, x
  <2>4. \A k \in 1 .. Len(outq') : outq'[k] \notin bad
    BY <1>4, <2>0, <2>3 DEF Batch!WorkersInOrder
  <2>5. ASSUME NEW v \in c.workers
        PROVE  /\ worker'[v] = "running" => hand[v] \in Batch(c)!Items
               /\ worker'[v] = "done" => hand[v] \notin Batch(c)!Items
               /\ worker'[v] = "putting" => hand[v] \notin bad
    <3>1. CASE v = w BY <1>3, <3>1 DEF x
    <3>2. CASE v # w BY <1>3, <2>0, <3>2 DEF Batch!WorkersInOrder
    <3> QED BY <3>1, <3>2
  <2> QED BY <1>1, <2>0, <2>2, <2>4, <2>5 DEF Batch!WorkersInOrder
<1>7. ASSUME consumer = "getting" PROVE Batch(c)!Accounted'
  <2>0. Batch(c)!Accounted BY <1>7, BatchGetting
  <2>1. ASSUME NEW i \in 1 .. next' - 1 PROVE Batch(c)!Somewhere(i)'
    <3>1. i \in 1 .. next - 1 /\ i \in 1 .. c.items BY <1>0, <1>1 DEF BatchNums
    <3>2. Batch(c)!Somewhere(i) BY <2>0, <3>1 DEF Batch!Accounted
    <3>3. ASSUME NEW v \in c.workers, worker[v] \in {"running", "putting"} /\ hand[v] = i
          PROVE  Batch(c)!Somewhere(i)'
      <4>1. CASE v = w
        <5>1. x = i BY <3>3, <4>1 DEF x
        <5>2. Len(outq) + 1 \in 1 .. Len(outq') BY <1>4
        <5> QED BY <1>4, <5>1, <5>2 DEF Batch!Somewhere
      <4>2. CASE v # w BY <1>1, <1>3, <3>3, <4>2 DEF Batch!Somewhere
      <4> QED BY <4>1, <4>2
    <3>4. ASSUME NEW v \in c.workers, worker[v] \in {"putting", "done"} /\ hand[v] = -1
          PROVE  Batch(c)!Somewhere(i)'
      <4>1. worker'[v] \in {"putting", "done"}
        <5>1. -1 \notin Batch(c)!Items BY <1>2
        <5> QED BY <1>3, <3>4, <5>1 DEF x
      <4> QED BY <1>1, <3>4, <4>1 DEF Batch!Somewhere, Batch!Error
    <3>5. ASSUME NEW k \in 1 .. Len(outq), outq[k] = i PROVE Batch(c)!Somewhere(i)'
      <4>1. k \in 1 .. Len(outq') /\ outq'[k] = i BY <1>4, <3>5
      <4> QED BY <4>1 DEF Batch!Somewhere
    <3> QED BY <1>1, <3>2, <3>3, <3>4, <3>5 DEF Batch!Somewhere, Batch!Error
  <2>2. BatchAdds(c) BY <1>0, <2>0, BatchSums
  <2>3. \A n \in 0 .. Len(outq) : Batch(c)!CountTo(outq', n, {0}) = Batch(c)!CountTo(outq, n, {0})
    <3>1. outq \in Seq(Int) BY <1>0 DEF BatchNums
    <3> QED BY <1>1, <1>3, <3>1, CountAppend
  <2>4. ASSUME NEW k \in 1 .. Len(outq), outq'[k] \in Batch(c)!Items
        PROVE  ended + Batch(c)!CountTo(outq', k - 1, {0}) < Cardinality(c.workers)
    <3>1. k - 1 \in 0 .. Len(outq) BY <1>4
    <3>2. Batch(c)!CountTo(outq', k - 1, {0}) = Batch(c)!CountTo(outq, k - 1, {0}) BY <2>3, <3>1
    <3>3. ended + Batch(c)!CountTo(outq, k - 1, {0}) < Batch(c)!Cardinality(c.workers)
      BY <1>4, <2>0, <2>4 DEF Batch!Accounted, Batch!EndMark
    <3> QED BY <1>0, <3>2, <3>3 DEF BatchNums
  <2>5. outq \in Seq(Int) /\ Batch(c)!EndMark = 0 BY <1>0 DEF BatchNums, Batch!EndMark
  <2>6. CASE x \in Batch(c)!Items
    <3>1. x # 0 /\ state = "getting" BY <1>2, <2>6
    <3>2. Batch(c)!Busy' = Batch(c)!Busy \ {w} /\ w \in Batch(c)!Busy
      <4>1. \A v \in c.workers : worker'[v] # "getting" /\ hand[v] # 0
                                   <=> (worker[v] # "getting" /\ hand[v] # 0) /\ v # w
        BY <1>1, <1>3, <3>1
      <4>2. w \in Batch(c)!Busy BY <1>1, <3>1 DEF Batch!Busy, Batch!EndMark, x
      <4>3. \A v : v \in Batch(c)!Busy' <=> v \in Batch(c)!Busy /\ v # w
        BY <1>1, <4>1 DEF Batch!Busy, Batch!EndMark
      <4> QED BY <4>2, <4>3
    <3>3. Cardinality(Batch(c)!Busy') = Cardinality(Batch(c)!Busy) - 1
          /\ Cardinality(Batch(c)!Busy) >= 1
      <4>1. Cardinality(Batch(c)!Busy') = Cardinality(Batch(c)!Busy) - 1
        BY <1>0, <3>2, FS_RemoveElement DEF BatchAmounts
      <4>2. Cardinality(Batch(c)!Busy) # 0 BY <1>0, <3>2, FS_EmptySet DEF BatchAmounts
      <4> QED BY <1>0, <4>1, <4>2 DEF BatchAmounts
    <3>4. Batch(c)!Ended' = Batch(c)!Ended
      <4>1. \A v \in c.workers : worker'[v] = "done" /\ hand[v] = 0
                                   <=> worker[v] = "done" /\ hand[v] = 0
        BY <1>1, <1>3, <3>1
      <4> QED BY <1>1, <4>1 DEF Batch!Ended, Batch!EndMark
    <3>5. /\ Batch(c)!Count(outq', Batch(c)!Items) = Batch(c)!Count(outq, Batch(c)!Items) + 1
          /\ Batch(c)!Count(outq', {0}) = Batch(c)!Count(outq, {0})
      <4>1. x \notin {0} BY <3>1
      <4> QED BY <1>1, <1>3, <2>5, <2>6, <4>1, CountAppendIn, CountAppendOther
    <3>6. BatchAdds(c)' BY <1>1, <2>2, <3>3, <3>5, AddsSteps DEF BatchAdds
    <3>7. ended + Batch(c)!CountTo(outq', Len(outq), {0}) < Cardinality(c.workers)
      <4>1. Batch(c)!CountTo(outq', Len(outq), {0}) = Batch(c)!Count(outq, {0})
        <5>1. Len(outq) \in 0 .. Len(outq) BY <1>4
        <5> QED BY <2>3, <5>1 DEF Batch!Count
      <4>2. Cardinality(Batch(c)!Ended) = ended + Batch(c)!Count(outq, {0})
        BY <1>0, <2>0, <2>5 DEF Batch!Accounted, BatchAmounts
      <4>3. Cardinality(Batch(c)!Ended) < Cardinality(c.workers)
        <5>1. w \notin Batch(c)!Ended /\ Batch(c)!Ended \in SUBSET c.workers
          BY <1>1 DEF Batch!Ended
        <5>2. IsFiniteSet(c.workers) BY BatchNumbers
        <5>3. Cardinality(Batch(c)!Ended) <= Cardinality(c.workers)
              /\ (Cardinality(Batch(c)!Ended) = Cardinality(c.workers) => Batch(c)!Ended = c.workers)
          BY <5>1, <5>2, FS_Subset
        <5>4. Cardinality(Batch(c)!Ended) # Cardinality(c.workers) BY <5>1, <5>3
        <5> QED BY <1>0, <5>3, <5>4 DEF BatchNums, BatchAmounts
      <4> QED BY <4>1, <4>2, <4>3
    <3>8. ASSUME NEW k \in 1 .. Len(outq'), outq'[k] \in Batch(c)!Items
          PROVE  ended + Batch(c)!CountTo(outq', k - 1, {0}) < Cardinality(c.workers)
      <4>1. CASE k \in 1 .. Len(outq) BY <2>4, <3>8, <4>1
      <4>2. CASE k = Len(outq) + 1
        <5>1. k - 1 = Len(outq) BY <1>4, <4>2
        <5> QED BY <3>7, <5>1
      <4> QED BY <1>4, <4>1, <4>2
    <3>9. Batch(c)!Cardinality(Batch(c)!Busy') = Cardinality(Batch(c)!Busy') BY BatchCounts
    <3> QED BY <1>0, <1>1, <2>0, <2>1, <2>5, <3>4, <3>5, <3>6, <3>8, <3>9
         DEF Batch!Accounted, BatchAdds, Adds, BatchNums
  <2>7. CASE x \notin Batch(c)!Items
    <3>1. state = "done" /\ x \in {0, -1} BY <1>3, <2>7
    <3>2. Batch(c)!Busy' = Batch(c)!Busy
      <4>1. \A v \in c.workers : worker'[v] # "getting" <=> worker[v] # "getting"
        BY <1>1, <1>3, <3>1
      <4> QED BY <1>1, <4>1 DEF Batch!Busy
    <3>3. Batch(c)!Count(outq', Batch(c)!Items) = Batch(c)!Count(outq, Batch(c)!Items)
      BY <1>1, <1>3, <2>5, <2>7, CountAppendOther
    <3>4. ASSUME NEW k \in 1 .. Len(outq'), outq'[k] \in Batch(c)!Items
          PROVE  ended + Batch(c)!CountTo(outq', k - 1, {0}) < Cardinality(c.workers)
      <4>1. k \in 1 .. Len(outq) BY <1>4, <2>7, <3>4
      <4> QED BY <2>4, <3>4, <4>1
    <3>5. Batch(c)!Cardinality(Batch(c)!Ended') = ended + Batch(c)!Count(outq', {0})
      <4>1. Cardinality(Batch(c)!Ended) = ended + Batch(c)!Count(outq, {0})
        BY <1>0, <2>0, <2>5 DEF Batch!Accounted, BatchAmounts
      <4>2. Batch(c)!Cardinality(Batch(c)!Ended') = Cardinality(Batch(c)!Ended') BY BatchCounts
      <4>3. CASE x = 0
        <5>1. Batch(c)!Ended' = Batch(c)!Ended \cup {w} /\ w \notin Batch(c)!Ended
          <6>1. \A v \in c.workers : worker'[v] = "done" /\ hand[v] = 0
                                       <=> (worker[v] = "done" /\ hand[v] = 0) \/ v = w
            BY <1>1, <1>3, <3>1, <4>3 DEF x
          <6>2. \A v : v \in Batch(c)!Ended' <=> v \in Batch(c)!Ended \/ v = w
            BY <1>1, <6>1 DEF Batch!Ended, Batch!EndMark
          <6>3. w \notin Batch(c)!Ended BY <1>1 DEF Batch!Ended
          <6> QED BY <6>2, <6>3
        <5>2. Cardinality(Batch(c)!Ended') = Cardinality(Batch(c)!Ended) + 1
          BY <1>0, <5>1, FS_AddElement DEF BatchAmounts
        <5>3. Batch(c)!Count(outq', {0}) = Batch(c)!Count(outq, {0}) + 1
          <6>1. x \in {0} BY <4>3
          <6> QED BY <1>1, <1>3, <2>5, <6>1, CountAppendIn
        <5>4. Batch(c)!Count(outq, {0}) \in Nat /\ ended \in Nat
          BY <1>0, <2>5 DEF BatchNums, BatchAmounts
        <5> QED BY <4>1, <4>2, <5>2, <5>3, <5>4
      <4>4. CASE x # 0
        <5>1. Batch(c)!Ended' = Batch(c)!Ended
          <6>1. \A v \in c.workers : worker'[v] = "done" /\ hand[v] = 0
                                       <=> worker[v] = "done" /\ hand[v] = 0
            BY <1>1, <1>3, <4>4 DEF x
          <6> QED BY <1>1, <6>1 DEF Batch!Ended, Batch!EndMark
        <5>2. Batch(c)!Count(outq', {0}) = Batch(c)!Count(outq, {0})
          <6>1. x \notin {0} BY <4>4
          <6> QED BY <1>1, <1>3, <2>5, <6>1, CountAppendOther
        <5> QED BY <4>1, <4>2, <5>1, <5>2
      <4> QED BY <4>3, <4>4
    <3> QED BY <1>0, <1>1, <2>0, <2>1, <2>5, <3>2, <3>3, <3>4, <3>5 DEF Batch!Accounted, BatchNums
  <2> QED BY <2>6, <2>7
<1> QED BY <1>1, <1>5, <1>6, <1>7 DEF Batch!BatchInv

\* When the last end mark is taken every worker has ended, so nothing is under
\* way and what the caller has is the batch.
LEMMA BatchComplete ==
    ASSUME NEW c, Batch(c)!PersistConstantsOK, Batch(c)!BatchInv, consumer = "getting",
           outq # <<>>, Head(outq) = 0, ended + 1 = Cardinality(c.workers)
    PROVE  bad = {} /\ Len(got) = c.items /\ {got[k] : k \in 1 .. Len(got)} = Batch(c)!Items
<1>0. Batch(c)!TypeOK /\ BatchNums(c) /\ BatchAmounts(c) BY BatchFacts DEF Batch!BatchInv
<1>1. Batch(c)!MarksAreLast /\ Batch(c)!WorkersInOrder /\ Batch(c)!Accounted BY BatchGetting
<1>2. /\ outq \in Seq(Int) /\ Len(outq) \in Nat \ {0} /\ outq[1] = 0 /\ Batch(c)!EndMark = 0
      /\ inq \in Seq(Int) /\ Len(inq) \in Nat
      /\ Batch(c)!Items = 1 .. c.items /\ c.items \in Nat
  BY <1>0, HeadTailProperties, EmptySeq DEF BatchNums, Batch!EndMark, Batch!Items
<1>3. \A w \in c.workers : worker[w] = "done" /\ hand[w] = 0
  <2>1. Batch(c)!Count(outq, {0}) >= 1 /\ Batch(c)!Count(outq, {0}) \in Nat
    <3>1. Len(outq) \in 0 .. Len(outq) /\ 1 \in 1 .. Len(outq) /\ outq[1] \in {0} BY <1>2
    <3>2. Batch(c)!CountTo(outq, Len(outq), {0}) >= 1 BY <1>2, <3>1, CountSome
    <3> QED BY <1>0, <1>2, <3>2 DEF Batch!Count, BatchAmounts
  <2>2. Cardinality(Batch(c)!Ended) = ended + Batch(c)!Count(outq, {0})
    BY <1>0, <1>1, <1>2 DEF Batch!Accounted, BatchAmounts
  <2>3. Batch(c)!Ended \in SUBSET c.workers /\ IsFiniteSet(c.workers)
    BY BatchNumbers DEF Batch!Ended
  <2>4. Cardinality(Batch(c)!Ended) = Cardinality(c.workers)
    <3>1. Cardinality(Batch(c)!Ended) \in 0 .. Cardinality(c.workers) /\ ended \in Nat
          /\ Cardinality(c.workers) \in Nat
      BY <1>0 DEF BatchAmounts, BatchNums
    <3> QED BY <2>1, <2>2, <3>1
  <2>5. Batch(c)!Ended = c.workers BY <2>3, <2>4, FS_Subset
  <2> QED BY <1>2, <2>5 DEF Batch!Ended
<1>4. producer # "putting" /\ \A k \in 1 .. Len(inq) : inq[k] = 0
  <2>1. PICK w : w \in c.workers BY <1>0, BatchNumbers, FS_EmptySet
  <2> QED BY <1>1, <1>2, <1>3, <2>1 DEF Batch!MarksAreLast
<1>5. next = c.items + 1
  BY <1>0, <1>1, <1>4 DEF Batch!MarksAreLast, Batch!TypeOK
<1>6. \A k \in 1 .. Len(outq) : outq[k] \notin Batch(c)!Items
  <2> SUFFICES ASSUME NEW k \in 1 .. Len(outq), outq[k] \in Batch(c)!Items PROVE FALSE
    OBVIOUS
  <2>1. k # 1 BY <1>2
  <2>2. k - 1 \in 0 .. Len(outq) /\ 1 \in 1 .. k - 1 /\ outq[1] \in {0} BY <1>2, <2>1
  <2>3. Batch(c)!CountTo(outq, k - 1, {0}) >= 1 /\ Batch(c)!CountTo(outq, k - 1, {0}) \in Nat
    <3>1. Batch(c)!CountTo(outq, k - 1, {0}) >= 1 BY <1>2, <2>2, CountSome
    <3>2. outq \in Seq(Int) /\ k - 1 \in 0 .. Len(outq) BY <1>2, <2>2
    <3>3. Batch(c)!CountTo(outq, k - 1, {0}) \in Nat BY <3>2, CountToType
    <3> QED BY <3>1, <3>3
  <2>4. ended + Batch(c)!CountTo(outq, k - 1, {0}) < Cardinality(c.workers)
    BY <1>0, <1>1, <1>2 DEF Batch!Accounted, BatchNums
  <2>5. ended \in Nat BY <1>0 DEF BatchNums
  <2> QED BY <2>3, <2>4, <2>5
<1>7. ASSUME NEW i \in Batch(c)!Items PROVE \E k \in 1 .. Len(got) : got[k] = i
  <2>1. i \in 1 .. next - 1 /\ i # 0 BY <1>2, <1>5
  <2>2. Batch(c)!Somewhere(i) BY <1>1, <2>1 DEF Batch!Accounted
  <2> QED BY <1>2, <1>3, <1>4, <1>6, <2>1, <2>2 DEF Batch!Somewhere, Batch!Error
<1>8. Len(got) = c.items
  <2>1. \A k \in 1 .. Len(inq) : inq[k] \notin Batch(c)!Items BY <1>2, <1>4
  <2>2. Len(inq) \in 0 .. Len(inq) /\ Len(outq) \in 0 .. Len(outq) BY <1>2
  <2>3. Batch(c)!Count(inq, Batch(c)!Items) = 0 /\ Batch(c)!Count(outq, Batch(c)!Items) = 0
    BY <1>2, <1>6, <2>1, <2>2, CountNone DEF Batch!Count
  <2>4. Batch(c)!Busy = {} BY <1>2, <1>3 DEF Batch!Busy
  <2>5. Cardinality(Batch(c)!Busy) = 0 BY <2>4, FS_EmptySet
  <2>6. BatchAdds(c) BY <1>0, <1>1, BatchSums
  <2>7. Adds(next, 0, 0, 0, Len(got)) BY <2>3, <2>5, <2>6 DEF BatchAdds
  <2> QED BY <1>2, <1>5, <2>7 DEF Adds
<1>9. got \in Seq(Batch(c)!Items) BY <1>0 DEF Batch!TypeOK
<1>10. \A k \in 1 .. Len(got) : got[k] \in Batch(c)!Items BY <1>9, ElementOfSeq
<1>11. bad = {}
  <2>1. bad \in SUBSET Batch(c)!Items BY <1>0, <1>2, BatchNumbers DEF Batch!TypeOK
  <2> QED BY <1>1, <1>7, <2>1 DEF Batch!WorkersInOrder
<1> QED BY <1>7, <1>8, <1>10, <1>11

LEMMA BatchTake ==
    ASSUME NEW c, Batch(c)!PersistConstantsOK, Batch(c)!BatchInv, Batch(c)!Take
    PROVE  Batch(c)!BatchInv'
<1>0. Batch(c)!TypeOK /\ BatchNums(c) /\ BatchAmounts(c) BY BatchFacts DEF Batch!BatchInv
<1> DEFINE x == Head(outq)
<1>1. /\ consumer = "getting" /\ outq # <<>> /\ outq' = Tail(outq)
      /\ UNCHANGED <<bad, next, closed, inq, record, spooled>>
  BY DEF Batch!Take
<1>2. /\ outq' \in Seq(Batch(c)!Items \cup {0, -1}) /\ x \in Batch(c)!Items \cup {0, -1}
      /\ Len(outq') = Len(outq) - 1 /\ Len(outq) \in Nat \ {0} /\ x = outq[1]
      /\ \A k \in 1 .. Len(outq) - 1 : outq'[k] = outq[k + 1]
  <2>1. outq \in Seq(Batch(c)!Items \cup {0, -1})
    BY <1>0 DEF Batch!TypeOK, Batch!EndMark, Batch!Error
  <2> QED BY <1>1, <2>1, HeadTailProperties, EmptySeq
<1>3. Batch(c)!Items = 1 .. c.items /\ c.items \in Nat /\ outq \in Seq(Int)
      /\ Batch(c)!EndMark = 0 /\ Batch(c)!Error = -1
  BY <1>0 DEF BatchNums, Batch!Items, Batch!EndMark, Batch!Error
<1>4. Batch(c)!MarksAreLast /\ Batch(c)!WorkersInOrder /\ Batch(c)!Accounted
  BY <1>1, BatchGetting
<1>5. Len(outq') <= c.queue BY <1>0, <1>2 DEF BatchNums
<1>6. ~spooled BY <1>1 DEF Batch!BatchInv
<1>7. \A k \in 1 .. Len(outq') : k + 1 \in 1 .. Len(outq) /\ outq'[k] = outq[k + 1] BY <1>2
<1> HIDE DEF x
\* The last result ends the map.
<1>8. ASSUME Batch(c)!TasksCanceled, consumer' \in {"ok", "error"}, got' = got,
             ended' \in 0 .. Cardinality(c.workers),
             consumer' = "ok" => x = 0 /\ ended + 1 = Cardinality(c.workers)
      PROVE  Batch(c)!BatchInv'
  <2>1. /\ producer' \in {"raising", "done"}
        /\ worker' \in [c.workers -> {"putting", "done"}]
        /\ hand' \in [c.workers -> {-1}]
        /\ producer' # "done" => producer # "done"
    BY <1>3, <1>8 DEF Batch!TasksCanceled
  <2>2. Batch(c)!TypeOK'
    <3>1. ended' \in 0 .. Batch(c)!Cardinality(c.workers) BY <1>0, <1>8 DEF BatchNums
    <3>2. worker' \in [c.workers -> {"getting", "running", "putting", "done"}]
          /\ hand' \in [c.workers -> Batch(c)!Items \cup {0, -1}]
      BY <2>1
    <3>3. outq' \in Seq(Batch(c)!Items \cup {Batch(c)!EndMark, Batch(c)!Error}) BY <1>2, <1>3
    <3> QED BY <1>0, <1>1, <1>3, <1>5, <1>8, <2>1, <3>1, <3>2, <3>3 DEF Batch!TypeOK
  <2>3. consumer' = "ok" => /\ bad = {} /\ Len(got) = c.items
                            /\ {got[k] : k \in 1 .. Len(got)} = Batch(c)!Items
    BY <1>1, <1>8, BatchComplete DEF x
  <2>4. producer' # "done" => closed < Batch(c)!Cardinality(c.workers)
    BY <2>1 DEF Batch!BatchInv
  <2> QED BY <1>1, <1>6, <1>8, <2>2, <2>3, <2>4 DEF Batch!BatchInv
\* Any other goes on.
<1>9. ASSUME UNCHANGED <<producer, worker, hand, consumer>>, got' \in Seq(Batch(c)!Items),
             ended' \in 0 .. Cardinality(c.workers), Batch(c)!Accounted',
             \A k \in 1 .. Len(got') : got'[k] \notin bad
      PROVE  Batch(c)!BatchInv'
  <2>1. Batch(c)!TypeOK'
    <3>1. ended' \in 0 .. Batch(c)!Cardinality(c.workers) BY <1>0, <1>9 DEF BatchNums
    <3>2. outq' \in Seq(Batch(c)!Items \cup {Batch(c)!EndMark, Batch(c)!Error}) BY <1>2, <1>3
    <3> QED BY <1>0, <1>1, <1>5, <1>9, <3>1, <3>2 DEF Batch!TypeOK
  <2>2. Batch(c)!MarksAreLast' BY <1>1, <1>4, <1>9 DEF Batch!MarksAreLast
  <2>3. Batch(c)!WorkersInOrder' BY <1>1, <1>4, <1>7, <1>9 DEF Batch!WorkersInOrder
  <2> QED BY <1>1, <1>6, <1>9, <2>1, <2>2, <2>3 DEF Batch!BatchInv
<1>10. ended \in 0 .. Cardinality(c.workers) /\ ended + 1 \in Nat
       /\ got \in Seq(Batch(c)!Items) /\ Cardinality(c.workers) \in Nat
       /\ Batch(c)!Cardinality(c.workers) = Cardinality(c.workers)
  BY <1>0 DEF Batch!TypeOK, BatchNums
<1>11. \A k \in 1 .. Len(got) : got[k] \notin bad BY <1>4 DEF Batch!WorkersInOrder
\* End marks ahead of an item, after the first entry has gone.
<1>12. ASSUME NEW k \in 1 .. Len(outq'), outq'[k] \in Batch(c)!Items
       PROVE  /\ x # 0 => ended + Batch(c)!CountTo(outq', k - 1, {0}) < Cardinality(c.workers)
              /\ x = 0 => ended + 1 + Batch(c)!CountTo(outq', k - 1, {0}) < Cardinality(c.workers)
  <2>1. k - 1 \in 0 .. Len(outq) - 1 /\ (k - 1) + 1 = k /\ (k + 1) - 1 = k
        /\ k + 1 \in 1 .. Len(outq) /\ outq[k + 1] \in Batch(c)!Items /\ k \in 0 .. Len(outq)
    BY <1>2, <1>12
  <2>2. /\ x \in {0} => Batch(c)!CountTo(outq', k - 1, {0}) = Batch(c)!CountTo(outq, (k - 1) + 1, {0}) - 1
        /\ x \notin {0} => Batch(c)!CountTo(outq', k - 1, {0}) = Batch(c)!CountTo(outq, (k - 1) + 1, {0})
    BY <1>1, <1>3, <2>1, CountTail DEF x
  <2>3. ended + Batch(c)!CountTo(outq, (k + 1) - 1, {0}) < Cardinality(c.workers)
    BY <1>3, <1>4, <1>10, <2>1 DEF Batch!Accounted
  <2>4. Batch(c)!CountTo(outq, k, {0}) \in Nat BY <1>3, <2>1, CountToType
  <2>5. ended + Batch(c)!CountTo(outq, k, {0}) < Cardinality(c.workers) BY <2>1, <2>3
  <2>6. CASE x = 0
    <3>1. Batch(c)!CountTo(outq', k - 1, {0}) = Batch(c)!CountTo(outq, k, {0}) - 1
      BY <2>1, <2>2, <2>6
    <3> QED BY <1>10, <2>4, <2>5, <2>6, <3>1
  <2>7. CASE x # 0
    <3>1. Batch(c)!CountTo(outq', k - 1, {0}) = Batch(c)!CountTo(outq, k, {0})
      BY <2>1, <2>2, <2>7
    <3> QED BY <2>5, <2>7, <3>1
  <2> QED BY <2>6, <2>7
<1>13. BatchAdds(c) BY <1>0, <1>4, BatchSums
<1>14. /\ Cardinality(Batch(c)!Ended) = ended + Batch(c)!Count(outq, {0})
       /\ Batch(c)!Count(outq, {0}) \in Nat
       /\ Batch(c)!Cardinality(Batch(c)!Ended) = Cardinality(Batch(c)!Ended)
       /\ Cardinality(Batch(c)!Ended) \in 0 .. Cardinality(c.workers)
  BY <1>0, <1>3, <1>4 DEF Batch!Accounted, BatchAmounts
<1>15. ASSUME UNCHANGED <<producer, worker, hand, consumer>>
       PROVE  UNCHANGED <<Batch(c)!Busy, Batch(c)!Ended>>
  BY <1>15 DEF Batch!Busy, Batch!Ended
<1>16. CASE x \in Batch(c)!Items
  <2>1. got' = Append(got, x) /\ UNCHANGED <<producer, worker, hand, consumer, ended>>
    <3>1. x # Batch(c)!Error BY <1>3, <1>16
    <3> QED BY <1>16, <3>1 DEF Batch!Take, x
  <2>2. /\ got' \in Seq(Batch(c)!Items) /\ Len(got') = Len(got) + 1 /\ got'[Len(got) + 1] = x
        /\ (\A k \in 1 .. Len(got) : got'[k] = got[k]) /\ Len(got) \in Nat
    BY <1>10, <1>16, <2>1, AppendProperties
  <2>3. \A k \in 1 .. Len(got') : k \in 1 .. Len(got) \/ k = Len(got) + 1 BY <2>2
  <2>4. x \notin bad
    <3>1. 1 \in 1 .. Len(outq) BY <1>2
    <3> QED BY <1>2, <1>4, <3>1 DEF Batch!WorkersInOrder
  <2>5. x # 0 /\ x \notin {0} BY <1>3, <1>16
  <2>6. /\ Batch(c)!Count(outq', Batch(c)!Items) = Batch(c)!Count(outq, Batch(c)!Items) - 1
        /\ Batch(c)!Count(outq', {0}) = Batch(c)!Count(outq, {0})
        /\ Batch(c)!Count(outq, Batch(c)!Items) >= 1
    <3>1. Len(outq) \in 0 .. Len(outq) /\ 1 \in 1 .. Len(outq) /\ outq[1] \in Batch(c)!Items
      BY <1>2, <1>16
    <3>2. Batch(c)!Count(outq, Batch(c)!Items) >= 1 BY <1>3, <3>1, CountSome DEF Batch!Count
    <3> QED BY <1>1, <1>3, <1>16, <2>5, <3>2, CountTailIn, CountTailOther DEF x
  <2>7. ASSUME NEW i \in 1 .. next' - 1 PROVE Batch(c)!Somewhere(i)'
    <3>1. Batch(c)!Somewhere(i) BY <1>1, <1>4, <2>7 DEF Batch!Accounted
    <3>2. ASSUME NEW k \in 1 .. Len(outq), outq[k] = i PROVE Batch(c)!Somewhere(i)'
      <4>1. CASE k = 1
        <5>1. Len(got) + 1 \in 1 .. Len(got') BY <2>2
        <5> QED BY <1>2, <2>2, <3>2, <4>1, <5>1 DEF Batch!Somewhere
      <4>2. CASE k # 1
        <5>1. k - 1 \in 1 .. Len(outq) - 1 /\ (k - 1) + 1 = k BY <1>2, <4>2
        <5>2. outq'[k - 1] = outq[(k - 1) + 1] BY <1>2, <5>1
        <5>3. k - 1 \in 1 .. Len(outq') /\ outq'[k - 1] = i BY <1>2, <3>2, <5>1, <5>2
        <5> QED BY <5>3 DEF Batch!Somewhere
      <4> QED BY <4>1, <4>2
    <3>3. ASSUME NEW k \in 1 .. Len(got), got[k] = i PROVE Batch(c)!Somewhere(i)'
      <4>1. k \in 1 .. Len(got') /\ got'[k] = i BY <2>2, <3>3
      <4> QED BY <4>1 DEF Batch!Somewhere
    <3> QED BY <1>1, <2>1, <3>1, <3>2, <3>3 DEF Batch!Somewhere
  <2>8. BatchAdds(c)' BY <1>1, <1>13, <1>15, <2>1, <2>2, <2>6, AddsSteps DEF BatchAdds
  <2>9. Batch(c)!Cardinality(Batch(c)!Busy') = Cardinality(Batch(c)!Busy') BY BatchCounts
  <2>10. Batch(c)!Accounted'
    BY <1>3, <1>10, <1>12, <1>14, <1>15, <2>1, <2>5, <2>6, <2>7, <2>8, <2>9
    DEF Batch!Accounted, BatchAdds, Adds
  <2>11. \A k \in 1 .. Len(got') : got'[k] \notin bad BY <1>11, <2>2, <2>3, <2>4
  <2> QED BY <1>9, <1>10, <2>1, <2>2, <2>10, <2>11
<1>17. CASE x = -1
  <2>1. consumer' = "error" /\ Batch(c)!TasksCanceled /\ UNCHANGED <<got, ended>>
    <3>1. x \notin Batch(c)!Items BY <1>3, <1>17
    <3> QED BY <1>3, <1>17, <3>1 DEF Batch!Take, Batch!Finish, x
  <2> QED BY <1>8, <1>10, <2>1
<1>18. CASE x = 0
  <2>1. x \notin Batch(c)!Items /\ x # -1 BY <1>3, <1>18
  <2>2. /\ ended' = ended + 1 /\ got' = got
        /\ \/ ended + 1 = Cardinality(c.workers) /\ consumer' = "ok" /\ Batch(c)!TasksCanceled
           \/ ended + 1 # Cardinality(c.workers) /\ UNCHANGED <<producer, worker, hand, consumer>>
    BY <1>3, <1>10, <2>1 DEF Batch!Take, Batch!Finish, x
  <2>3. Batch(c)!Count(outq, {0}) >= 1
    <3>1. Len(outq) \in 0 .. Len(outq) /\ 1 \in 1 .. Len(outq) /\ outq[1] \in {0}
      BY <1>2, <1>18
    <3> QED BY <1>3, <3>1, CountSome DEF Batch!Count
  <2>4. ended' \in 0 .. Cardinality(c.workers) BY <1>10, <1>14, <2>2, <2>3
  <2>5. CASE consumer' = "ok" /\ Batch(c)!TasksCanceled /\ ended + 1 = Cardinality(c.workers)
    BY <1>8, <1>18, <2>2, <2>4, <2>5
  <2>6. CASE UNCHANGED <<producer, worker, hand, consumer>>
    <3>1. Batch(c)!Count(outq', Batch(c)!Items) = Batch(c)!Count(outq, Batch(c)!Items)
      BY <1>1, <1>3, <2>1, CountTailOther DEF x
    <3>2. Batch(c)!Count(outq', {0}) = Batch(c)!Count(outq, {0}) - 1
      <4>1. x \in {0} BY <1>18
      <4> QED BY <1>1, <1>3, <4>1, CountTailIn DEF x
    <3>3. ASSUME NEW i \in 1 .. next' - 1 PROVE Batch(c)!Somewhere(i)'
      <4>1. Batch(c)!Somewhere(i) /\ i # 0 BY <1>1, <1>4, <3>3 DEF Batch!Accounted
      <4>2. ASSUME NEW k \in 1 .. Len(outq), outq[k] = i PROVE Batch(c)!Somewhere(i)'
        <5>1. k # 1 BY <1>2, <1>18, <4>1, <4>2
        <5>2. k - 1 \in 1 .. Len(outq) - 1 /\ (k - 1) + 1 = k BY <1>2, <5>1
        <5>3. outq'[k - 1] = outq[(k - 1) + 1] BY <1>2, <5>2
        <5>4. k - 1 \in 1 .. Len(outq') /\ outq'[k - 1] = i BY <1>2, <4>2, <5>2, <5>3
        <5> QED BY <5>4 DEF Batch!Somewhere
      <4> QED BY <1>1, <2>2, <2>6, <4>1, <4>2 DEF Batch!Somewhere
    <3>4. Batch(c)!Cardinality(Batch(c)!Ended') = ended' + Batch(c)!Count(outq', {0})
      <4>1. ended + Batch(c)!Count(outq, {0}) = (ended + 1) + (Batch(c)!Count(outq, {0}) - 1)
        BY <1>10, <1>14
      <4> QED BY <1>14, <1>15, <2>2, <2>6, <3>2, <4>1
    <3>5. Batch(c)!Accounted'
      BY <1>1, <1>3, <1>4, <1>10, <1>12, <1>15, <1>18, <2>2, <2>6, <3>1, <3>3, <3>4
      DEF Batch!Accounted
    <3> QED BY <1>9, <1>10, <1>11, <2>2, <2>4, <2>6, <3>5
  <2> QED BY <2>2, <2>5, <2>6
<1> QED BY <1>2, <1>16, <1>17, <1>18

LEMMA BatchStays ==
    ASSUME NEW c, Batch(c)!BatchInv, UNCHANGED batchVars
    PROVE  Batch(c)!BatchInv'
<1>1. UNCHANGED <<bad, producer, next, closed, inq, outq, worker, hand, consumer, got, ended,
                  record, spooled>>
  BY DEF batchVars
<1>2. Batch(c)!TypeOK' BY <1>1 DEF Batch!BatchInv, Batch!TypeOK
<1>3. UNCHANGED <<Batch(c)!Busy, Batch(c)!Ended>> BY <1>1 DEF Batch!Busy, Batch!Ended
<1>4. ASSUME Batch(c)!MarksAreLast /\ Batch(c)!WorkersInOrder /\ Batch(c)!Accounted
      PROVE  (Batch(c)!MarksAreLast /\ Batch(c)!WorkersInOrder /\ Batch(c)!Accounted)'
  <2>1. Batch(c)!MarksAreLast' BY <1>1, <1>4 DEF Batch!MarksAreLast
  <2>2. Batch(c)!WorkersInOrder' BY <1>1, <1>4 DEF Batch!WorkersInOrder
  <2>3. \A i : Batch(c)!Somewhere(i)' = Batch(c)!Somewhere(i) BY <1>1 DEF Batch!Somewhere
  <2>4. Batch(c)!Accounted' BY <1>1, <1>3, <1>4, <2>3 DEF Batch!Accounted
  <2> QED BY <2>1, <2>2, <2>4
<1> QED BY <1>1, <1>2, <1>4 DEF Batch!BatchInv

LEMMA BatchNext ==
    ASSUME NEW c, Batch(c)!PersistConstantsOK
    PROVE  Batch(c)!BatchInv /\ [Batch(c)!Next]_(Batch(c)!vars) => Batch(c)!BatchInv'
<1> SUFFICES ASSUME Batch(c)!BatchInv, [Batch(c)!Next]_(Batch(c)!vars)
             PROVE  Batch(c)!BatchInv'
  OBVIOUS
<1>1. CASE UNCHANGED Batch(c)!vars
  <2>1. UNCHANGED batchVars BY <1>1 DEF batchVars, Batch!vars, Batch!map
  <2> QED BY <2>1, BatchStays
<1>2. CASE Batch(c)!Step
  BY <1>2, BatchProduce, BatchRaises, BatchClose, BatchTake, BatchEndsTask, BatchGet,
     BatchRuns, BatchPuts DEF Batch!Step
<1>3. CASE Batch(c)!MapCanceled BY <1>3, BatchCancels
<1> QED BY <1>1, <1>2, <1>3 DEF Batch!Next

LEMMA BatchInvariant ==
    ASSUME NEW c, Batch(c)!PersistConstantsOK
    PROVE  Batch(c)!Spec => []Batch(c)!BatchInv
<1>1. Batch(c)!Init => Batch(c)!BatchInv BY BatchInit
<1> QED BY <1>1, BatchNext, PTL DEF Batch!Spec

LEMMA BatchIsWhole == ASSUME NEW c, Batch(c)!BatchInv PROVE Batch(c)!SpooledIsWhole
BY DEF Batch!BatchInv, Batch!SpooledIsWhole

LEMMA BatchIsBounded ==
    ASSUME NEW c, Batch(c)!PersistConstantsOK, Batch(c)!BatchInv
    PROVE  Batch(c)!InFlightBounded
<1> SUFFICES ASSUME consumer = "getting"
             PROVE  next - 1 - Len(got) <= 2 * c.queue + Batch(c)!Cardinality(c.workers)
  BY DEF Batch!InFlightBounded
<1>0. BatchNums(c) /\ BatchAmounts(c) BY BatchFacts DEF Batch!BatchInv
<1>1. BatchAdds(c) BY <1>0, BatchGetting, BatchSums
<1>2. /\ Batch(c)!Count(inq, Batch(c)!Items) \in 0 .. c.queue
      /\ Batch(c)!Count(outq, Batch(c)!Items) \in 0 .. c.queue
  BY <1>0 DEF BatchNums, BatchAmounts
<1>3. /\ Cardinality(Batch(c)!Busy) \in 0 .. Cardinality(c.workers)
      /\ Cardinality(c.workers) \in Nat /\ c.queue \in Nat
      /\ Batch(c)!Cardinality(c.workers) = Cardinality(c.workers)
  BY <1>0 DEF BatchNums, BatchAmounts
<1>4. ASSUME NEW n, NEW i \in 0 .. c.queue, NEW b \in 0 .. Cardinality(c.workers),
             NEW o \in 0 .. c.queue, NEW g, Adds(n, i, b, o, g)
      PROVE  n - 1 - g <= 2 * c.queue + Cardinality(c.workers)
  BY <1>3, <1>4 DEF Adds
<1> QED BY <1>1, <1>2, <1>3, <1>4 DEF BatchAdds

\* Of every batch: what is spooled is all of it, once, and the history has it.
THEOREM BatchesAreWhole ==
    ASSUME NEW c, Batch(c)!PersistConstantsOK
    PROVE  Batch(c)!Spec => []Batch(c)!SpooledIsWhole
BY BatchInvariant, BatchIsWhole, PTL

\* However long a batch, only what its queues and its workers hold is under way.
THEOREM BatchesAreBounded ==
    ASSUME NEW c, Batch(c)!PersistConstantsOK
    PROVE  Batch(c)!Spec => []Batch(c)!InFlightBounded
BY BatchInvariant, BatchIsBounded, PTL

-----------------------------------------------------------------------------
\* The parts of the composition: each keeps its own invariant, and the steps of
\* the others leave its variables alone.
BatchesInv ==
    /\ part = "narrow" => Batch(Narrow)!BatchInv
    /\ part = "failing" => Batch(Failing)!BatchInv

LEMMA BatchesStep == BatchesInv /\ [PartNext]_all => BatchesInv'
<1> SUFFICES ASSUME BatchesInv, [PartNext]_all PROVE BatchesInv' OBVIOUS
<1>0. Batch(Narrow)!PersistConstantsOK /\ Batch(Failing)!PersistConstantsOK BY PartsOK
<1>1. CASE UNCHANGED <<part, batchVars>>
  BY <1>0, <1>1, BatchStays DEF BatchesInv
<1>2. CASE part = "narrow" /\ Batch(Narrow)!Next /\ OnlyBatch
  <2>1. part' = "narrow" /\ Batch(Narrow)!BatchInv BY <1>2 DEF OnlyBatch, BatchesInv
  <2>2. Batch(Narrow)!BatchInv' BY <1>0, <1>2, <2>1, BatchNext
  <2> QED BY <2>1, <2>2 DEF BatchesInv
<1>3. CASE part = "failing" /\ Batch(Failing)!Next /\ OnlyBatch
  <2>1. part' = "failing" /\ Batch(Failing)!BatchInv BY <1>3 DEF OnlyBatch, BatchesInv
  <2>2. Batch(Failing)!BatchInv' BY <1>0, <1>3, <2>1, BatchNext
  <2> QED BY <2>1, <2>2 DEF BatchesInv
<1>4. UNCHANGED <<part, batchVars>> \/ PartNext BY DEF all
<1> QED BY <1>1, <1>2, <1>3, <1>4
  DEF PartNext, OnlyService, OnlySizer, OnlyJournal, OnlyPromotion

LEMMA BatchesInvariant == PartSpec => []BatchesInv
<1>0. Batch(Narrow)!PersistConstantsOK /\ Batch(Failing)!PersistConstantsOK BY PartsOK
<1>1. PartInit => BatchesInv BY <1>0, BatchInit DEF PartInit, BatchesInv
<1> QED BY <1>1, BatchesStep, PTL DEF PartSpec

\* What is spooled is every item of the batch, once, and the batch is in the
\* history, whatever raises, fails or is cancelled.
THEOREM SpooledBatchesAreWhole == PartSpec => []SpooledIsWhole
<1>1. BatchesInv => SpooledIsWhole BY BatchIsWhole DEF BatchesInv, SpooledIsWhole
<1> QED BY <1>1, BatchesInvariant, PTL

-----------------------------------------------------------------------------
(* Promotion of the records of a cycle *)

LEMMA PromotionConstants ==
    ASSUME NEW c, Promoted(c)!PromotionConstantsOK
    PROVE  /\ IsFiniteSet(c.listings) /\ None \notin c.listings
           /\ c.part \in [c.listings -> c.parts]
           /\ c.observations \subseteq Promoted(c)!Evidence
           /\ c.refetch \in Nat /\ c.runs \in Nat /\ c.crashes \in Nat
           /\ \A S : Promoted(c)!Cardinality(S) = Cardinality(S)
<1>1. \A S : Promoted(c)!IsFiniteSet(S) = IsFiniteSet(S)
  BY DEF Promoted!IsFiniteSet, IsFiniteSet
<1>2. \A S : Promoted(c)!Cardinality(S) = Cardinality(S)
  BY DEF Promoted!Cardinality, Cardinality
<1> QED BY <1>1, <1>2 DEF Promoted!PromotionConstantsOK, Promoted!Evidence

LEMMA PromotionInit ==
    ASSUME NEW c, Promoted(c)!PromotionConstantsOK, Promoted(c)!Init
    PROVE  Promoted(c)!PromotionInv
<1> USE DEF Promoted!Init
<1>1. DOMAIN report.decision = {} OBVIOUS
<1>2. Promoted(c)!Unseen.run = 0 /\ Promoted(c)!Unseen.evidence \in Promoted(c)!Evidence
  BY DEF Promoted!Unseen, Promoted!Evidence
<1>3. Promoted(c)!TypeOK
  <2>1. report.decision \in [DOMAIN report.decision -> Promoted(c)!Decisions] BY <1>1
  <2>2. DOMAIN records = {} OBVIOUS
  <2> QED BY <1>2, <2>1, <2>2, PromotionConstants DEF Promoted!TypeOK
<1> QED BY <1>1, <1>3
  DEF Promoted!PromotionInv, Promoted!CycleInOrder, Promoted!FreshIsWhole,
      Promoted!ReportIsCatalogued

\* The scan.
LEMMA PromotionScans ==
    ASSUME NEW c, Promoted(c)!PromotionConstantsOK, Promoted(c)!PromotionInv,
           Promoted(c)!Start \/ Promoted(c)!Complete \/ Promoted(c)!Publish
    PROVE  Promoted(c)!PromotionInv'
<1> USE DEF Promoted!files
<1>0. Promoted(c)!TypeOK /\ runs \in Nat /\ Promoted(c)!CycleInOrder
  BY PromotionConstants DEF Promoted!PromotionInv, Promoted!TypeOK
<1>1. CASE Promoted(c)!Start
  <2>1. /\ runs' = runs + 1 /\ promotionAt' = "running" /\ seen' = {} /\ runs < c.runs
        /\ promotionAt = "idle" /\ done' \in BOOLEAN
        /\ UNCHANGED <<active, promotionOutput, catalog, report, promotionHealth, records,
                       attempted, crashes, settled>>
    BY <1>1 DEF Promoted!Start
  <2>2. Promoted(c)!TypeOK'
    BY <1>0, <2>1, PromotionConstants DEF Promoted!TypeOK
  <2>3. promotionHealth.run < runs' BY <1>0, <2>1 DEF Promoted!TypeOK
  <2>4. Promoted(c)!CycleInOrder' BY <1>0, <2>1, <2>3 DEF Promoted!CycleInOrder
  <2>5. Promoted(c)!FreshIsWhole' BY <1>0, <2>1, <2>3 DEF Promoted!FreshIsWhole, Promoted!TypeOK
  <2> QED BY <2>1, <2>2, <2>4, <2>5 DEF Promoted!PromotionInv, Promoted!ReportIsCatalogued
<1>2. CASE Promoted(c)!Complete
  <2>1. /\ promotionAt = "running" /\ promotionAt' \in {"completed", "idle"} /\ done' = TRUE
        /\ UNCHANGED <<active, runs, promotionOutput, catalog, report, promotionHealth, selected,
                       seen, records, attempted, crashes, settled>>
    BY <1>2 DEF Promoted!Complete
  <2>2. Promoted(c)!TypeOK' BY <1>0, <2>1 DEF Promoted!TypeOK
  <2>3. Promoted(c)!CycleInOrder' BY <1>0, <2>1 DEF Promoted!CycleInOrder
  <2>4. Promoted(c)!FreshIsWhole' BY <1>0, <2>1 DEF Promoted!PromotionInv, Promoted!FreshIsWhole
  <2> QED BY <2>1, <2>2, <2>3, <2>4 DEF Promoted!PromotionInv, Promoted!ReportIsCatalogued
<1>3. CASE Promoted(c)!Publish
  <2>1. /\ promotionAt = "completed" /\ promotionAt' = "published"
        /\ promotionOutput' = [run |-> runs, listings |-> seen]
        /\ UNCHANGED <<active, runs, done, catalog, report, promotionHealth, selected, seen,
                       records, attempted, crashes, settled>>
    BY <1>3 DEF Promoted!Publish
  <2>2. Promoted(c)!TypeOK' BY <1>0, <2>1 DEF Promoted!TypeOK
  <2>3. Promoted(c)!CycleInOrder' BY <1>0, <2>1 DEF Promoted!CycleInOrder
  <2>4. Promoted(c)!FreshIsWhole'
    BY <1>0, <2>1 DEF Promoted!FreshIsWhole, Promoted!CycleInOrder, Promoted!TypeOK
  <2> QED BY <2>1, <2>2, <2>3, <2>4 DEF Promoted!PromotionInv, Promoted!ReportIsCatalogued
<1> QED BY <1>1, <1>2, <1>3

LEMMA PromotionObserves ==
    ASSUME NEW c, Promoted(c)!PromotionConstantsOK, Promoted(c)!PromotionInv,
           NEW l \in c.listings, Promoted(c)!Observe(l)
    PROVE  Promoted(c)!PromotionInv'
<1>0. Promoted(c)!TypeOK /\ Promoted(c)!CycleInOrder
  BY DEF Promoted!PromotionInv
<1>1. PICK e \in c.observations : active' = [active EXCEPT ![l] = [run |-> runs, evidence |-> e]]
  BY DEF Promoted!Observe
<1>2. /\ promotionAt = "running" /\ seen' = seen \cup {l} /\ c.source[l] \in selected
      /\ UNCHANGED <<runs, done, promotionOutput, catalog, report, promotionHealth, promotionAt,
                     selected, records, attempted, crashes, settled>>
  BY DEF Promoted!Observe, Promoted!files
<1>3. /\ DOMAIN active' = c.listings /\ active'[l].run = runs
      /\ active'[l].evidence \in Promoted(c)!Evidence
      /\ \A m \in c.listings \ {l} : active'[m] = active[m]
  BY <1>1, PromotionConstants DEF Promoted!PromotionInv
<1>4. Promoted(c)!TypeOK'
  <2>1. runs \in 0 .. runs BY <1>0, PromotionConstants DEF Promoted!TypeOK
  <2>2. \A m \in c.listings : active'[m].run \in 0 .. runs
                              /\ active'[m].evidence \in Promoted(c)!Evidence
    BY <1>0, <1>3, <2>1 DEF Promoted!TypeOK
  <2> QED BY <1>0, <1>2, <2>2 DEF Promoted!TypeOK
<1>5. Promoted(c)!CycleInOrder'
  <2>1. seen \subseteq c.listings BY <1>0 DEF Promoted!TypeOK
  <2>2. \A m \in seen' : active'[m].run = runs
    BY <1>0, <1>2, <1>3, <2>1 DEF Promoted!CycleInOrder
  <2> QED BY <1>0, <1>2, <2>2 DEF Promoted!CycleInOrder
<1>6. Promoted(c)!FreshIsWhole'
  BY <1>0, <1>2 DEF Promoted!FreshIsWhole, Promoted!CycleInOrder, Promoted!TypeOK
<1> QED BY <1>2, <1>3, <1>4, <1>5, <1>6 DEF Promoted!PromotionInv, Promoted!ReportIsCatalogued

\* What enrichment adds is evidence.
LEMMA EnrichedIsEvidence ==
    ASSUME NEW c, NEW l, NEW e \in Promoted(c)!Evidence
    PROVE  /\ Promoted(c)!WithIdentity(l, e) \in Promoted(c)!Evidence
           /\ Promoted(c)!Merged(l, e) \in Promoted(c)!Evidence
BY DEF Promoted!Evidence, Promoted!WithIdentity, Promoted!Merged

LEMMA PromotionEnriches ==
    ASSUME NEW c, Promoted(c)!PromotionConstantsOK, Promoted(c)!PromotionInv,
           Promoted(c)!Enrich
    PROVE  Promoted(c)!PromotionInv'
<1>0. Promoted(c)!TypeOK /\ Promoted(c)!CycleInOrder BY DEF Promoted!PromotionInv
<1> DEFINE base == [l \in promotionOutput.listings |->
                      Promoted(c)!WithIdentity(l, active[l].evidence)]
<1>1. PICK fetched \in SUBSET Promoted(c)!Candidates(base) :
        /\ Cardinality(fetched) <= c.refetch /\ attempted' = Cardinality(fetched)
        /\ \E found \in SUBSET fetched :
             records' = [l \in DOMAIN base |->
                           IF l \in found THEN Promoted(c)!Merged(l, base[l]) ELSE base[l]]
  BY PromotionConstants DEF Promoted!Enrich
<1>2. PICK found : records' = [l \in DOMAIN base |->
                     IF l \in found THEN Promoted(c)!Merged(l, base[l]) ELSE base[l]]
  BY <1>1
<1>3. /\ promotionAt = "published" /\ promotionAt' = "enriched"
      /\ UNCHANGED <<active, runs, done, promotionOutput, catalog, report, promotionHealth,
                     selected, seen, crashes, settled>>
  BY DEF Promoted!Enrich, Promoted!files
<1>4. promotionOutput.listings \subseteq c.listings BY <1>0 DEF Promoted!TypeOK
<1>5. \A l \in DOMAIN base : base[l] \in Promoted(c)!Evidence
  BY <1>0, <1>4, EnrichedIsEvidence DEF Promoted!TypeOK
<1>6. DOMAIN records' = promotionOutput.listings
      /\ \A l \in DOMAIN records' : records'[l] \in Promoted(c)!Evidence
  BY <1>2, <1>5, EnrichedIsEvidence
<1>7. attempted' \in 0 .. c.refetch
  <2>1. IsFiniteSet(fetched)
    <3>1. fetched \in SUBSET c.listings BY <1>4 DEF Promoted!Candidates
    <3> QED BY <3>1, PromotionConstants, FS_Subset
  <2>2. Cardinality(fetched) \in Nat BY <2>1, FS_CardinalityType
  <2> QED BY <1>1, <2>2, PromotionConstants
<1>8. Promoted(c)!TypeOK' BY <1>0, <1>3, <1>4, <1>6, <1>7 DEF Promoted!TypeOK
<1>9. Promoted(c)!CycleInOrder' BY <1>0, <1>3, <1>6 DEF Promoted!CycleInOrder
<1>10. Promoted(c)!FreshIsWhole' BY <1>3 DEF Promoted!PromotionInv, Promoted!FreshIsWhole
<1> QED BY <1>3, <1>8, <1>9, <1>10 DEF Promoted!PromotionInv, Promoted!ReportIsCatalogued

\* A listing stays under its id: what was in the catalog is there after it was
\* written, and so is each record that passes.
LEMMA PromotionCatalogs ==
    ASSUME NEW c, Promoted(c)!PromotionConstantsOK, Promoted(c)!PromotionInv,
           Promoted(c)!WriteCatalog
    PROVE  Promoted(c)!PromotionInv'
<1>0. Promoted(c)!TypeOK /\ Promoted(c)!CycleInOrder BY DEF Promoted!PromotionInv
<1>1. PICK last \in [{i \in Promoted(c)!Ids : Promoted(c)!Becoming(i) # {}} -> c.listings] :
        /\ \A i \in DOMAIN last : last[i] \in Promoted(c)!Becoming(i)
        /\ catalog' = [i \in Promoted(c)!Ids |-> IF i \in DOMAIN last THEN last[i] ELSE catalog[i]]
  BY DEF Promoted!WriteCatalog
<1>2. /\ promotionAt = "enriched" /\ promotionAt' = "cataloged"
      /\ UNCHANGED <<active, runs, done, promotionOutput, report, promotionHealth, selected,
                     seen, records, attempted, crashes, settled>>
  BY DEF Promoted!WriteCatalog
<1>3. /\ catalog' \in [Promoted(c)!Ids -> c.listings \cup {None}]
      /\ \A i \in Promoted(c)!Ids : catalog[i] # None => catalog'[i] # None
      /\ \A i \in Promoted(c)!Ids : Promoted(c)!Becoming(i) # {} => catalog'[i] # None
  BY <1>0, <1>1, PromotionConstants DEF Promoted!TypeOK
<1>4. \A l \in c.listings : l \in Promoted(c)!Ids /\ c.part[l] \in Promoted(c)!Ids
  BY PromotionConstants DEF Promoted!Ids
<1>5. ASSUME NEW l \in Promoted(c)!Passing
      PROVE  catalog'[c.part[l]] # None \/ catalog'[l] # None
  <2>1. l \in c.listings BY <1>0, <1>5 DEF Promoted!Passing, Promoted!TypeOK
  <2>2. PICK i : i = Promoted(c)!Id(l, records[l]) OBVIOUS
  <2>3. i \in {c.part[l], l} BY <2>2 DEF Promoted!Id
  <2>4. l \in Promoted(c)!Becoming(i) BY <1>5, <2>2 DEF Promoted!Becoming
  <2> QED BY <1>3, <1>4, <2>1, <2>3, <2>4
<1>6. Promoted(c)!TypeOK' BY <1>0, <1>2, <1>3 DEF Promoted!TypeOK
<1>7. Promoted(c)!Passing' = Promoted(c)!Passing
  BY <1>2 DEF Promoted!Passing, Promoted!Reasons
<1>8. Promoted(c)!CycleInOrder' BY <1>0, <1>2, <1>5, <1>7 DEF Promoted!CycleInOrder
<1>9. Promoted(c)!FreshIsWhole' BY <1>2 DEF Promoted!PromotionInv, Promoted!FreshIsWhole
<1>10. Promoted(c)!ReportIsCatalogued'
  <2> SUFFICES ASSUME NEW l \in DOMAIN report.decision, report.decision[l] = "canonical"
               PROVE  catalog'[c.part[l]] # None \/ catalog'[l] # None
    BY <1>2 DEF Promoted!ReportIsCatalogued
  <2>1. l \in c.listings /\ (catalog[c.part[l]] # None \/ catalog[l] # None)
    BY DEF Promoted!PromotionInv, Promoted!ReportIsCatalogued
  <2> QED BY <1>3, <1>4, <2>1
<1> QED BY <1>2, <1>6, <1>8, <1>9, <1>10 DEF Promoted!PromotionInv

LEMMA PromotionReports ==
    ASSUME NEW c, Promoted(c)!PromotionConstantsOK, Promoted(c)!PromotionInv,
           Promoted(c)!WriteReport
    PROVE  Promoted(c)!PromotionInv'
<1>0. Promoted(c)!TypeOK /\ Promoted(c)!CycleInOrder BY DEF Promoted!PromotionInv
<1>1. /\ promotionAt = "cataloged" /\ promotionAt' = "reported"
      /\ report' = [run |-> runs, decision |-> Promoted(c)!Decided]
      /\ settled' = [l \in c.listings |-> IF l \in DOMAIN records THEN Promoted(c)!Decided[l]
                                          ELSE settled[l]]
      /\ UNCHANGED <<active, runs, done, promotionOutput, catalog, promotionHealth, selected,
                     seen, records, attempted, crashes>>
  BY DEF Promoted!WriteReport
<1>2. /\ DOMAIN Promoted(c)!Decided = DOMAIN records
      /\ Promoted(c)!Decided \in [DOMAIN records -> Promoted(c)!Decisions]
      /\ \A l \in DOMAIN records : Promoted(c)!Decided[l] = "canonical" => l \in Promoted(c)!Passing
  BY DEF Promoted!Decided, Promoted!Decisions
<1>3. DOMAIN records = promotionOutput.listings /\ DOMAIN records \subseteq c.listings
  <2>1. DOMAIN records \subseteq c.listings BY <1>0 DEF Promoted!TypeOK
  <2>2. DOMAIN records = promotionOutput.listings BY <1>0, <1>1 DEF Promoted!CycleInOrder
  <2> QED BY <2>1, <2>2
<1>4. report'.run = runs /\ report'.decision = Promoted(c)!Decided BY <1>1
<1>5. Promoted(c)!TypeOK'
  <2>1. settled' \in [c.listings -> Promoted(c)!Decisions \cup {"none"}]
    BY <1>0, <1>1, <1>2 DEF Promoted!TypeOK
  <2>2. runs \in 0 .. runs BY <1>0, PromotionConstants DEF Promoted!TypeOK
  <2>3. report'.decision \in [DOMAIN report'.decision -> Promoted(c)!Decisions]
    BY <1>2, <1>4
  <2> QED BY <1>0, <1>1, <1>4, <2>1, <2>2, <2>3 DEF Promoted!TypeOK
<1>6. Promoted(c)!CycleInOrder' BY <1>0, <1>1, <1>2, <1>3, <1>4 DEF Promoted!CycleInOrder
<1>7. Promoted(c)!FreshIsWhole'
  BY <1>0, <1>1 DEF Promoted!CycleInOrder, Promoted!TypeOK, Promoted!FreshIsWhole
<1>8. Promoted(c)!ReportIsCatalogued'
  BY <1>0, <1>1, <1>2, <1>4 DEF Promoted!CycleInOrder, Promoted!ReportIsCatalogued
<1> QED BY <1>1, <1>2, <1>3, <1>4, <1>5, <1>6, <1>7, <1>8 DEF Promoted!PromotionInv

LEMMA PromotionEnds ==
    ASSUME NEW c, Promoted(c)!PromotionConstantsOK, Promoted(c)!PromotionInv,
           Promoted(c)!WriteHealth \/ Promoted(c)!Fail \/ Promoted(c)!Crash
    PROVE  Promoted(c)!PromotionInv'
<1>0. Promoted(c)!TypeOK /\ Promoted(c)!CycleInOrder /\ runs \in Nat
  BY PromotionConstants DEF Promoted!PromotionInv, Promoted!TypeOK
<1>1. /\ promotionAt # "idle" /\ promotionAt' = "idle"
      /\ UNCHANGED <<active, runs, done, promotionOutput, catalog, report, selected, seen,
                     records, attempted, settled>>
  BY DEF Promoted!WriteHealth, Promoted!Fail, Promoted!Crash, Promoted!files
<1>2. \/ /\ promotionHealth' = [status |-> "ok", run |-> runs] /\ promotionAt = "reported"
      \/ promotionHealth' = [status |-> "degraded", run |-> 0]
      \/ promotionHealth' = promotionHealth
  BY DEF Promoted!WriteHealth, Promoted!Fail, Promoted!Crash, Promoted!files
<1>3. Promoted(c)!TypeOK' BY <1>0, <1>1, <1>2 DEF Promoted!TypeOK
<1>4. Promoted(c)!CycleInOrder' BY <1>1 DEF Promoted!CycleInOrder
<1>5. Promoted(c)!FreshIsWhole'
  BY <1>0, <1>1, <1>2 DEF Promoted!CycleInOrder, Promoted!FreshIsWhole, Promoted!TypeOK
<1> QED BY <1>1, <1>3, <1>4, <1>5 DEF Promoted!PromotionInv, Promoted!ReportIsCatalogued

LEMMA PromotionStays ==
    ASSUME NEW c, Promoted(c)!PromotionInv, UNCHANGED promotionVars
    PROVE  Promoted(c)!PromotionInv'
<1>1. UNCHANGED <<active, runs, done, promotionOutput, catalog, report, promotionHealth,
                  promotionAt, selected, seen, records, attempted, settled>>
  BY DEF promotionVars
<1>2. Promoted(c)!TypeOK' BY <1>1 DEF Promoted!PromotionInv, Promoted!TypeOK
<1>3. Promoted(c)!Passing' = Promoted(c)!Passing
  BY <1>1 DEF Promoted!Passing, Promoted!Reasons
<1>4. Promoted(c)!CycleInOrder'
  BY <1>1, <1>3 DEF Promoted!PromotionInv, Promoted!CycleInOrder
<1>5. Promoted(c)!FreshIsWhole' BY <1>1 DEF Promoted!PromotionInv, Promoted!FreshIsWhole
<1> QED BY <1>1, <1>2, <1>4, <1>5 DEF Promoted!PromotionInv, Promoted!ReportIsCatalogued

LEMMA PromotionNext ==
    ASSUME NEW c, Promoted(c)!PromotionConstantsOK
    PROVE  Promoted(c)!PromotionInv /\ [Promoted(c)!Next]_(Promoted(c)!vars)
             => Promoted(c)!PromotionInv'
<1> SUFFICES ASSUME Promoted(c)!PromotionInv, [Promoted(c)!Next]_(Promoted(c)!vars)
             PROVE  Promoted(c)!PromotionInv'
  OBVIOUS
<1>1. CASE UNCHANGED Promoted(c)!vars
  <2>1. UNCHANGED promotionVars BY <1>1 DEF promotionVars, Promoted!vars, Promoted!files
  <2> QED BY <2>1, PromotionStays
<1>2. CASE Promoted(c)!Next
  BY <1>2, PromotionScans, PromotionObserves, PromotionEnriches, PromotionCatalogs,
     PromotionReports, PromotionEnds DEF Promoted!Next
<1> QED BY <1>1, <1>2

LEMMA PromotionInvariant ==
    ASSUME NEW c, Promoted(c)!PromotionConstantsOK
    PROVE  Promoted(c)!Spec => []Promoted(c)!PromotionInv
<1>1. Promoted(c)!Init => Promoted(c)!PromotionInv BY PromotionInit
<1> QED BY <1>1, PromotionNext, PTL DEF Promoted!Spec

LEMMA PromotionDecides ==
    ASSUME NEW c, Promoted(c)!PromotionConstantsOK, Promoted(c)!PromotionInv
    PROVE  Promoted(c)!ReportIsCatalogued /\ Promoted(c)!FreshIsDecided
<1>1. Promoted(c)!ReportIsCatalogued BY DEF Promoted!PromotionInv
<1> SUFFICES ASSUME done, Promoted(c)!Fresh
             PROVE  /\ report.run = runs /\ promotionOutput.listings \subseteq Promoted(c)!Shown
                    /\ \A l \in promotionOutput.listings :
                         Promoted(c)!State(l) \in Promoted(c)!Decisions
  BY <1>1 DEF Promoted!FreshIsDecided
<1>2. promotionHealth.status = "ok" /\ promotionHealth.run = runs /\ runs \in Nat
  BY PromotionConstants DEF Promoted!Fresh, Promoted!PromotionInv, Promoted!TypeOK
<1>3. /\ runs >= 1 /\ report.run = runs
      /\ promotionOutput.listings \subseteq DOMAIN report.decision
      /\ \A l \in promotionOutput.listings : active[l].run = runs
  BY <1>2 DEF Promoted!PromotionInv, Promoted!FreshIsWhole
<1>4. promotionOutput.listings \subseteq c.listings
      /\ report.decision \in [DOMAIN report.decision -> Promoted(c)!Decisions]
  BY DEF Promoted!PromotionInv, Promoted!TypeOK
<1>5. promotionOutput.listings \subseteq Promoted(c)!Shown
  BY <1>2, <1>3, <1>4 DEF Promoted!Shown
<1>6. ASSUME NEW l \in promotionOutput.listings
      PROVE  Promoted(c)!State(l) \in Promoted(c)!Decisions
  <2>1. report.decision[l] \in Promoted(c)!Decisions BY <1>3, <1>4
  <2>2. report.run # 0 /\ ~(active[l].run > report.run) /\ l \in DOMAIN report.decision
    BY <1>2, <1>3
  <2> QED BY <2>1, <2>2 DEF Promoted!State, Promoted!Decisions
<1> QED BY <1>3, <1>5, <1>6

\* Of every promotion: what the report calls canonical is in the catalog,
\* wherever the process died, and promotion called fresh after a completed run
\* decided all of its listings.
THEOREM PromotionsAgree ==
    ASSUME NEW c, Promoted(c)!PromotionConstantsOK
    PROVE  Promoted(c)!Spec => [](Promoted(c)!ReportIsCatalogued /\ Promoted(c)!FreshIsDecided)
BY PromotionInvariant, PromotionDecides, PTL

-----------------------------------------------------------------------------
(* The files of the service *)

PromotedInv == part = "promoted" => Promoted(Mixed)!PromotionInv

LEMMA PromotedInvariant == PartSpec => []PromotedInv
<1>0. Promoted(Mixed)!PromotionConstantsOK BY PartsOK
<1>1. PartInit => PromotedInv BY <1>0, PromotionInit DEF PartInit, PromotedInv
<1>2. PromotedInv /\ [PartNext]_all => PromotedInv'
  <2> SUFFICES ASSUME PromotedInv, [PartNext]_all PROVE PromotedInv' OBVIOUS
  <2>1. CASE UNCHANGED <<part, promotionVars>>
    BY <2>1, PromotionStays DEF PromotedInv
  <2>2. CASE part = "promoted" /\ Promoted(Mixed)!Next /\ OnlyPromotion
    <3>1. part' = "promoted" /\ Promoted(Mixed)!PromotionInv
      BY <2>2 DEF OnlyPromotion, PromotedInv
    <3>2. Promoted(Mixed)!PromotionInv' BY <1>0, <2>2, <3>1, PromotionNext
    <3> QED BY <3>1, <3>2 DEF PromotedInv
  <2>3. UNCHANGED <<part, promotionVars>> \/ PartNext BY DEF all
  <2> QED BY <2>1, <2>2, <2>3 DEF PartNext, OnlyService, OnlyBatch, OnlySizer, OnlyJournal
<1> QED BY <1>1, <1>2, PTL DEF PartSpec

\* The files written one after another agree wherever the process dies: what
\* sources are rated by, debug artifacts, readiness, catalog and report.
THEOREM FilesAgree == PartSpec => []OutputsAgree
<1>1. Promoted(Mixed)!PromotionConstantsOK BY PartsOK
<1>2. PromotedInv => ReportIsCatalogued /\ FreshIsDecided
  BY <1>1, PromotionDecides DEF PromotedInv, ReportIsCatalogued, FreshIsDecided
<1>3. RatedByRun /\ LatestIsWhole /\ ReadyIsPublished /\ PromotedInv => OutputsAgree
  BY <1>2 DEF OutputsAgree
<1> QED
  BY <1>3, PartsImplementLoop, RatingsAreARun, LatestIsThere, ReadyMeansPublished,
     PromotedInvariant, PTL

\* In the composition too, what is published is one finished run.
THEOREM PublishedOutputIsARun == PartSpec => []PublishedIsRecorded
BY PartsImplementLoop, OutputIsARun, PTL

-----------------------------------------------------------------------------
(* The size of a batch *)

\* A step by one is a step by a window.
LEMMA OneMore ==
    ASSUME NEW w \in Nat \ {0}, NEW m \in Int, NEW n \in Int, m < n
    PROVE  w * m + w <= w * n
<1>1. ASSUME NEW d \in Nat PROVE w * d >= 0 BY <1>1
<1>2. w * (n - m - 1) >= 0 BY <1>1
<1>3. w * (n - m - 1) = w * n - w * m - w OBVIOUS
<1> QED BY <1>2, <1>3

LEMMA Quarters == ASSUME NEW n \in Nat \ {0} PROVE (n + 3) \div 4 \in Int /\ (n + 3) \div 4 >= 1
OBVIOUS

LEMMA SizerStep ==
    ASSUME NEW c, Sizer(c)!SizerConstantsOK, Sizer(c)!SizerInv, Sizer(c)!Next
    PROVE  Sizer(c)!SizerInv'
<1> USE DEF Sizer!SizerInv, Sizer!TypeOK
<1>1. /\ c.minimum \in Nat \ {0} /\ c.maximum \in Nat \ {0} /\ c.window \in Nat \ {0}
      /\ c.minimum <= c.maximum
  BY DEF Sizer!SizerConstantsOK
<1>2. PICK s \in {"relaxed", "pressed", "between"} : Sizer(c)!Observe(s) BY DEF Sizer!Next
<1>3. /\ current \in c.minimum .. c.maximum /\ healthy \in 0 .. c.window
      /\ calm \in 0 .. Sizer(c)!CalmEnough /\ pressed \in 0 .. c.maximum
      /\ Sizer(c)!CalmEnough = c.window * (c.maximum - c.minimum)
      /\ Sizer(c)!CalmEnough \in Nat
  <2>1. c.window * (c.maximum - c.minimum) \in Nat
    <3>1. c.maximum - c.minimum \in Nat BY <1>1
    <3>2. ASSUME NEW d \in Nat PROVE c.window * d \in Nat BY <1>1
    <3> QED BY <3>1, <3>2
  <2> QED BY <1>1, <2>1 DEF Sizer!CalmEnough, Sizer!PressedEnough
<1>4. /\ pressed' \in 0 .. c.maximum /\ calm' \in 0 .. Sizer(c)!CalmEnough
      /\ s = "pressed" => pressed' <= pressed + 1
      /\ s # "pressed" => pressed' = 0
      /\ s = "relaxed" => calm' <= calm + 1
      /\ s # "relaxed" => calm' = 0
  BY <1>1, <1>2, <1>3 DEF Sizer!Observe, Sizer!AtMost, Sizer!PressedEnough
<1>5. ASSUME NEW n \in c.minimum .. c.maximum PROVE c.window * (n - c.minimum) \in Nat
  <2>1. n - c.minimum \in Nat BY <1>1
  <2>2. ASSUME NEW d \in Nat PROVE c.window * d \in Nat BY <1>1
  <2> QED BY <2>1, <2>2
<1>6. CASE s = "pressed"
  <2>1. current' = Sizer(c)!Halved(current) /\ healthy' = 0
    BY <1>2, <1>6 DEF Sizer!Observe
  <2>2. current' \in c.minimum .. c.maximum /\ (current > c.minimum => current' < current)
        /\ (current = c.minimum => current' = c.minimum)
    BY <1>1, <1>3, <2>1 DEF Sizer!Halved
  <2>3. calm' = 0 /\ pressed' <= pressed + 1 BY <1>4, <1>6
  <2>4. current' > c.minimum => current' <= c.maximum - pressed'
    <3>1. current > c.minimum => current <= c.maximum - pressed OBVIOUS
    <3>2. /\ pressed \in Int /\ pressed' \in Int /\ current \in Int /\ current' \in Int
          /\ c.minimum \in Int /\ c.maximum \in Int /\ current >= c.minimum
      BY <1>1, <1>3, <1>4, <2>2
    <3> QED BY <2>2, <2>3, <3>1, <3>2
  <2>5. sample' \in {"relaxed", "pressed", "between"} BY <1>2 DEF Sizer!Observe
  <2>6. 0 <= c.window * (current' - c.minimum) BY <1>5, <2>2
  <2> QED BY <1>1, <1>4, <2>1, <2>2, <2>3, <2>4, <2>5, <2>6 DEF Sizer!PressedEnough
<1>7. CASE s # "pressed"
  <2> DEFINE h == Sizer(c)!HealthyAfter(healthy, s)
  <2>1. /\ h >= c.window /\ current < c.maximum =>
              current' = Sizer(c)!Grown(current) /\ healthy' = 0
        /\ ~(h >= c.window /\ current < c.maximum) =>
              current' = current /\ healthy' = Sizer(c)!AtMost(h, c.window)
        /\ sample' \in {"relaxed", "pressed", "between"}
    BY <1>2, <1>7 DEF Sizer!Observe
  <2>2. h \in Nat /\ h <= healthy + 1 /\ (s = "relaxed" => h = healthy + 1)
    BY <1>3 DEF Sizer!HealthyAfter
  <2>3. pressed' = 0 BY <1>4, <1>7
  <2> HIDE DEF h
  <2>4. CASE h >= c.window /\ current < c.maximum
    <3>1. current' = Sizer(c)!Grown(current) /\ healthy' = 0 BY <2>1, <2>4
    <3>2. current' \in c.minimum .. c.maximum /\ current' > current
      <4>1. (current + 3) \div 4 \in Int /\ (current + 3) \div 4 >= 1
        <5>1. current \in Nat \ {0} BY <1>1, <1>3
        <5> QED BY <5>1, Quarters
      <4> QED BY <1>1, <1>3, <2>4, <3>1, <4>1 DEF Sizer!Grown
    <3>3. current' < c.maximum => calm' <= c.window * (current' - c.minimum)
      <4>1. calm <= c.window * (current - c.minimum) + healthy /\ healthy < c.window
        BY <2>4
      <4>2. c.window * (current - c.minimum) + c.window <= c.window * (current' - c.minimum)
        <5>1. current - c.minimum \in Int /\ current' - c.minimum \in Int
              /\ current - c.minimum < current' - c.minimum
          BY <1>1, <1>3, <3>2
        <5> QED BY <1>1, <5>1, OneMore
      <4>3. c.window * (current - c.minimum) \in Nat /\ c.window * (current' - c.minimum) \in Nat
        BY <1>3, <1>5, <3>2
      <4> QED BY <1>1, <1>3, <1>4, <4>1, <4>2, <4>3
    <3> QED BY <1>1, <1>4, <2>1, <2>3, <3>1, <3>2, <3>3 DEF Sizer!PressedEnough
  <2>5. CASE ~(h >= c.window /\ current < c.maximum)
    <3>1. current' = current /\ healthy' = Sizer(c)!AtMost(h, c.window) BY <2>1, <2>5
    <3>2. healthy' \in 0 .. c.window BY <1>1, <2>2, <3>1 DEF Sizer!AtMost
    <3>3. ASSUME current < c.maximum
          PROVE  healthy' < c.window /\ calm' <= c.window * (current - c.minimum) + healthy'
      <4>1. healthy' = h /\ h < c.window BY <1>1, <2>2, <2>5, <3>1, <3>3 DEF Sizer!AtMost
      <4>2. c.window * (current - c.minimum) \in Nat BY <1>3, <1>5
      <4>3. calm <= c.window * (current - c.minimum) + healthy BY <3>3
      <4> QED BY <1>3, <1>4, <2>2, <4>1, <4>2, <4>3
    <3> QED BY <1>1, <1>3, <1>4, <2>1, <2>3, <3>1, <3>2, <3>3 DEF Sizer!PressedEnough
  <2> QED BY <2>4, <2>5
<1> QED BY <1>6, <1>7

LEMMA SizerInit ==
    ASSUME NEW c, Sizer(c)!SizerConstantsOK, Sizer(c)!Init
    PROVE  Sizer(c)!SizerInv
<1>1. /\ c.minimum \in Nat \ {0} /\ c.maximum \in Nat \ {0} /\ c.window \in Nat \ {0}
      /\ current \in c.minimum .. c.maximum /\ healthy = 0 /\ calm = 0 /\ pressed = 0
  BY DEF Sizer!SizerConstantsOK, Sizer!Init
<1>2. ASSUME NEW d \in Nat PROVE c.window * d \in Nat BY <1>1
<1>3. c.maximum - c.minimum \in Nat /\ current - c.minimum \in Nat BY <1>1
<1>4. c.window * (c.maximum - c.minimum) \in Nat /\ c.window * (current - c.minimum) \in Nat
  BY <1>2, <1>3
<1> QED BY <1>1, <1>4
  DEF Sizer!Init, Sizer!SizerInv, Sizer!TypeOK, Sizer!CalmEnough, Sizer!PressedEnough

LEMMA SizerStays == ASSUME NEW c, Sizer(c)!SizerInv, UNCHANGED sizerVars PROVE Sizer(c)!SizerInv'
BY DEF sizerVars, Sizer!SizerInv, Sizer!TypeOK

LEMMA SizerAdapts ==
    ASSUME NEW c, Sizer(c)!SizerConstantsOK, Sizer(c)!SizerInv
    PROVE  Sizer(c)!Adapts
<1>1. /\ c.minimum \in Nat \ {0} /\ c.maximum \in Nat \ {0} /\ c.window \in Nat \ {0}
      /\ current \in c.minimum .. c.maximum /\ healthy \in 0 .. c.window
  BY DEF Sizer!SizerConstantsOK, Sizer!SizerInv, Sizer!TypeOK
<1>2. ASSUME pressed = c.maximum PROVE current = c.minimum
  BY <1>1, <1>2 DEF Sizer!SizerInv
<1>3. ASSUME calm = c.window * (c.maximum - c.minimum) PROVE current = c.maximum
  <2> SUFFICES ASSUME current < c.maximum PROVE FALSE BY <1>1
  <2>1. /\ healthy < c.window
        /\ c.window * (c.maximum - c.minimum) <= c.window * (current - c.minimum) + healthy
    BY <1>3 DEF Sizer!SizerInv
  <2>2. c.window * (current - c.minimum) + c.window <= c.window * (c.maximum - c.minimum)
    <3>1. current - c.minimum \in Int /\ c.maximum - c.minimum \in Int
          /\ current - c.minimum < c.maximum - c.minimum
      BY <1>1
    <3> QED BY <1>1, <3>1, OneMore
  <2>3. c.window * (current - c.minimum) \in Int /\ c.window * (c.maximum - c.minimum) \in Int
    BY <1>1
  <2> QED BY <1>1, <2>1, <2>2, <2>3
<1> QED BY <1>2, <1>3 DEF Sizer!Adapts, Sizer!CalmEnough, Sizer!PressedEnough

\* Of every batch size: pressure that lasts brings it to the minimum, and rest
\* that lasts to the maximum.
THEOREM SizesAdapt ==
    ASSUME NEW c, Sizer(c)!SizerConstantsOK
    PROVE  Sizer(c)!Spec => []Sizer(c)!Adapts
<1>1. Sizer(c)!SizerInv /\ [Sizer(c)!Next]_(Sizer(c)!vars) => Sizer(c)!SizerInv'
  <2>1. UNCHANGED Sizer(c)!vars => UNCHANGED sizerVars BY DEF Sizer!vars, sizerVars
  <2> QED BY <2>1, SizerStep, SizerStays
<1>2. Sizer(c)!Init => Sizer(c)!SizerInv BY SizerInit
<1> QED BY <1>1, <1>2, SizerAdapts, PTL DEF Sizer!Spec

-----------------------------------------------------------------------------
(* The event journal *)

LEMMA JournalConstants ==
    ASSUME NEW c, Journal(c)!JournalConstantsOK
    PROVE  /\ IsFiniteSet(c.writers) /\ Cardinality(c.writers) \in Nat
           /\ c.lines \in Nat \ {0} /\ c.tail \in Nat /\ c.events \in Nat
           /\ \A S : Journal(c)!Cardinality(S) = Cardinality(S)
           /\ Journal(c)!Generations = 1 .. c.events * Cardinality(c.writers)
           /\ c.events * Cardinality(c.writers) \in Nat
           /\ Journal(c)!Events = c.writers \X (1 .. c.events)
<1>1. \A S : Journal(c)!IsFiniteSet(S) = IsFiniteSet(S)
  BY DEF Journal!IsFiniteSet, IsFiniteSet
<1>2. \A S : Journal(c)!Cardinality(S) = Cardinality(S)
  BY DEF Journal!Cardinality, Cardinality
<1>3. IsFiniteSet(c.writers) /\ c.events \in Nat BY <1>1 DEF Journal!JournalConstantsOK
<1>4. Cardinality(c.writers) \in Nat BY <1>3, FS_CardinalityType
<1>5. c.events * Cardinality(c.writers) \in Nat
  <2>1. ASSUME NEW m \in Nat, NEW n \in Nat PROVE m * n \in Nat BY <2>1
  <2> QED BY <1>3, <1>4, <2>1
<1> QED BY <1>2, <1>3, <1>4, <1>5
  DEF Journal!JournalConstantsOK, Journal!Generations, Journal!Events

\* What the type invariant says of the files.
LEMMA JournalTypes ==
    ASSUME NEW c, Journal(c)!JournalConstantsOK, Journal(c)!TypeOK
    PROVE  /\ \A g \in Journal(c)!Generations :
                 /\ content[g] \in Seq(Journal(c)!Events) /\ Len(content[g]) \in Nat
                 /\ DOMAIN content[g] = 1 .. Len(content[g])
                 /\ \A i \in 1 .. Len(content[g]) : content[g][i] \in Journal(c)!Events
           /\ \A g \in Journal(c)!Generations : g \in Nat \ {0}
           /\ live \in Journal(c)!Generations \cup {0} /\ old \in Journal(c)!Generations \cup {0}
           /\ Journal(c)!Lines \in Seq(Journal(c)!Events)
           /\ Len(Journal(c)!Lines) = Journal(c)!Size /\ Journal(c)!Size \in Nat
           /\ DOMAIN Journal(c)!Lines = 1 .. Journal(c)!Size
           /\ \A i \in 1 .. Journal(c)!Size : Journal(c)!Lines[i] \in Journal(c)!Events
           /\ DOMAIN journalGot = 1 .. Len(journalGot) /\ Len(journalGot) \in Nat
           /\ \A i \in 1 .. Len(journalGot) : journalGot[i] \in Journal(c)!Events
           /\ Len(log) \in Nat /\ seq \in [c.writers -> Nat]
<1> USE DEF Journal!TypeOK
<1>1. \A g \in Journal(c)!Generations :
        /\ content[g] \in Seq(Journal(c)!Events) /\ Len(content[g]) \in Nat
        /\ DOMAIN content[g] = 1 .. Len(content[g])
        /\ \A i \in 1 .. Len(content[g]) : content[g][i] \in Journal(c)!Events
  BY LenProperties, ElementOfSeq
<1>2. /\ DOMAIN journalGot = 1 .. Len(journalGot) /\ Len(journalGot) \in Nat
      /\ \A i \in 1 .. Len(journalGot) : journalGot[i] \in Journal(c)!Events
      /\ Len(log) \in Nat
  BY LenProperties, ElementOfSeq
<1>3. \A g \in Journal(c)!Generations : g \in Nat \ {0} BY JournalConstants
<1>4. live \in Journal(c)!Generations \cup {0} /\ old \in Journal(c)!Generations \cup {0}
      /\ seq \in [c.writers -> Nat]
  BY JournalConstants
<1>5. /\ Journal(c)!Lines \in Seq(Journal(c)!Events)
      /\ Len(Journal(c)!Lines) = Journal(c)!Size
  <2>1. CASE live = 0 BY <2>1, EmptySeq DEF Journal!Lines, Journal!Size
  <2>2. CASE live # 0 BY <1>1, <1>4, <2>2 DEF Journal!Lines, Journal!Size
  <2> QED BY <2>1, <2>2
<1>6. /\ Journal(c)!Size \in Nat /\ DOMAIN Journal(c)!Lines = 1 .. Journal(c)!Size
      /\ \A i \in 1 .. Journal(c)!Size : Journal(c)!Lines[i] \in Journal(c)!Events
  BY <1>5, LenProperties, ElementOfSeq
<1> QED BY <1>1, <1>2, <1>3, <1>4, <1>5, <1>6

\* There is a new file for a writer that is about to open one: each file in use
\* has a line of its own or is open for one, and this writer's is not among them.
LEMMA FreshFile ==
    ASSUME NEW c, Journal(c)!JournalConstantsOK, Journal(c)!JournalInv,
           NEW w \in c.writers, pc[w] = "open"
    PROVE  \E g \in Journal(c)!Generations : ~Journal(c)!Used(g)
<1> SUFFICES ASSUME \A g \in Journal(c)!Generations : Journal(c)!Used(g) PROVE FALSE
  OBVIOUS
<1> DEFINE Holds(g, v) == v \in c.writers /\ handle[v] = g
           holder(g) == CHOOSE v : Holds(g, v)
           first(g) == IF content[g] # <<>> THEN content[g][1]
                       ELSE <<holder(g), seq[holder(g)]>>
           me == <<w, seq[w]>>
<1>0. /\ Journal(c)!TypeOK /\ Journal(c)!FilesInOrder
      /\ seq \in [c.writers -> 0 .. c.events]
  BY DEF Journal!JournalInv, Journal!TypeOK
<1>1. \A v \in c.writers : /\ handle[v] # 0 => pc[v] = "write"
                           /\ pc[v] # "idle" => seq[v] \in 1 .. c.events
  BY <1>0 DEF Journal!FilesInOrder
<1>2. ASSUME NEW g \in Journal(c)!Generations
      PROVE  \/ /\ content[g] # <<>> /\ first(g) = content[g][1] /\ 1 \in 1 .. Len(content[g])
                /\ content[g][1] \in Journal(c)!Events
             \/ /\ content[g] = <<>> /\ first(g) = <<holder(g), seq[holder(g)]>>
                /\ holder(g) \in c.writers /\ handle[holder(g)] = g
                /\ pc[holder(g)] = "write"
  <2>1. CASE content[g] # <<>>
    <3>1. Len(content[g]) \in Nat \ {0} BY <1>0, <2>1, JournalTypes, EmptySeq
    <3> QED BY <1>0, <2>1, <3>1, JournalTypes
  <2>2. CASE content[g] = <<>>
    <3>1. \E v : Holds(g, v) BY <2>2 DEF Journal!Used
    <3>2. Holds(g, holder(g)) BY <3>1
    <3>3. g # 0 BY <1>0, JournalTypes
    <3> QED BY <1>1, <2>2, <3>2, <3>3
  <2> QED BY <2>1, <2>2
<1>3. \A g \in Journal(c)!Generations : \A i \in 1 .. Len(content[g]) :
        /\ content[g][i][2] <= seq[content[g][i][1]]
        /\ pc[content[g][i][1]] # "idle" => content[g][i][2] < seq[content[g][i][1]]
  BY <1>0, JournalTypes DEF Journal!FilesInOrder, Journal!Past
<1> HIDE DEF holder, first
<1> DEFINE f == [g \in Journal(c)!Generations |-> first(g)]
<1>4. \A g \in Journal(c)!Generations : first(g) \in Journal(c)!Events \ {me}
  <2> SUFFICES ASSUME NEW g \in Journal(c)!Generations
               PROVE  first(g) \in Journal(c)!Events \ {me}
    OBVIOUS
  <2>1. CASE /\ first(g) = content[g][1] /\ 1 \in 1 .. Len(content[g])
             /\ content[g][1] \in Journal(c)!Events
    <3>1. content[g][1] # me
      <4>1. seq[w] \in Nat BY <1>0
      <4> QED BY <1>3, <2>1, <4>1
    <3> QED BY <2>1, <3>1
  <2>2. CASE /\ first(g) = <<holder(g), seq[holder(g)]>>
             /\ holder(g) \in c.writers /\ pc[holder(g)] = "write"
    <3>1. seq[holder(g)] \in 1 .. c.events BY <1>1, <2>2
    <3> QED BY <2>2, <3>1, JournalConstants
  <2> QED BY <1>2, <2>1, <2>2
<1>5. \A g, h \in Journal(c)!Generations : first(g) = first(h) => g = h
  <2> SUFFICES ASSUME NEW g \in Journal(c)!Generations, NEW h \in Journal(c)!Generations,
                      first(g) = first(h)
               PROVE  g = h
    OBVIOUS
  <2>1. ASSUME content[g] # <<>>, content[h] # <<>> PROVE g = h
    <3>1. /\ 1 \in DOMAIN content[g] /\ 1 \in DOMAIN content[h]
          /\ content[g][1] = content[h][1]
      BY <1>0, <1>2, <2>1, JournalTypes
    <3> QED BY <1>0, <3>1 DEF Journal!FilesInOrder
  <2>2. ASSUME NEW a \in Journal(c)!Generations, NEW b \in Journal(c)!Generations,
               content[a] # <<>>, content[b] = <<>>, first(a) = first(b)
        PROVE  FALSE
    <3>1. /\ content[a][1] = <<holder(b), seq[holder(b)]>> /\ 1 \in 1 .. Len(content[a])
          /\ holder(b) \in c.writers /\ pc[holder(b)] = "write"
      BY <1>2, <2>2
    <3>2. content[a][1][1] = holder(b) /\ content[a][1][2] = seq[holder(b)] BY <3>1
    <3>3. content[a][1][2] < seq[holder(b)] BY <1>3, <3>1, <3>2
    <3>4. seq[holder(b)] \in Nat BY <1>0, <3>1
    <3> QED BY <3>2, <3>3, <3>4
  <2>3. ASSUME content[g] = <<>>, content[h] = <<>> PROVE g = h
    <3>1. holder(g) = holder(h) BY <1>2, <2>3
    <3> QED BY <1>2, <2>3, <3>1
  <2> QED BY <2>1, <2>2, <2>3
<1>6. f \in [Journal(c)!Generations -> Journal(c)!Events \ {me}] BY <1>4
<1>7. /\ IsFiniteSet(Journal(c)!Generations) /\ IsFiniteSet(Journal(c)!Events \ {me})
      /\ Cardinality(Journal(c)!Events \ {me}) < Cardinality(Journal(c)!Generations)
  <2>1. /\ IsFiniteSet(1 .. c.events) /\ Cardinality(1 .. c.events) = c.events
    <3>1. c.events \in Nat BY JournalConstants
    <3>2. ASSUME NEW n \in Nat PROVE IsFiniteSet(1 .. n) /\ Cardinality(1 .. n) = n
      BY FS_Interval
    <3> QED BY <3>1, <3>2
  <2>2. /\ IsFiniteSet(Journal(c)!Events)
        /\ Cardinality(Journal(c)!Events) = Cardinality(c.writers) * c.events
    <3>1. ASSUME NEW S, NEW T, IsFiniteSet(S), IsFiniteSet(T)
          PROVE  /\ IsFiniteSet(S \X T)
                 /\ Cardinality(S \X T) = Cardinality(S) * Cardinality(T)
      BY <3>1, FS_Product
    <3>2. IsFiniteSet(c.writers) /\ Journal(c)!Events = c.writers \X (1 .. c.events)
      BY JournalConstants
    <3>3. /\ IsFiniteSet(c.writers \X (1 .. c.events))
          /\ Cardinality(c.writers \X (1 .. c.events))
               = Cardinality(c.writers) * Cardinality(1 .. c.events)
      BY <2>1, <3>1, <3>2
    <3> QED BY <2>1, <3>2, <3>3
  <2>3. /\ IsFiniteSet(Journal(c)!Generations)
        /\ Cardinality(Journal(c)!Generations) = c.events * Cardinality(c.writers)
    <3>1. c.events * Cardinality(c.writers) \in Nat BY JournalConstants
    <3>2. ASSUME NEW n \in Nat PROVE IsFiniteSet(1 .. n) /\ Cardinality(1 .. n) = n
      BY FS_Interval
    <3> QED BY <3>1, <3>2, JournalConstants
  <2>4. me \in Journal(c)!Events BY <1>1, JournalConstants
  <2>5. /\ IsFiniteSet(Journal(c)!Events \ {me})
        /\ Cardinality(Journal(c)!Events \ {me}) = Cardinality(Journal(c)!Events) - 1
    BY <2>2, <2>4, FS_RemoveElement
  <2>6. Cardinality(Journal(c)!Events) = Cardinality(Journal(c)!Generations)
        /\ Cardinality(Journal(c)!Generations) \in Nat
    <3>1. c.events \in Nat /\ Cardinality(c.writers) \in Nat BY JournalConstants
    <3> QED BY <2>2, <2>3, <3>1, JournalConstants
  <2> QED BY <2>3, <2>5, <2>6
<1>8. PICK g \in Journal(c)!Generations, h \in Journal(c)!Generations : g # h /\ f[g] = f[h]
  BY <1>6, <1>7, FS_PigeonHole
<1> QED BY <1>5, <1>8


\* A step of a writer that touches no file: what is in the files, open or
\* yielded stays, and so does what is past.
LEMMA JournalMoves ==
    ASSUME NEW c, Journal(c)!JournalConstantsOK, Journal(c)!JournalInv, NEW w \in c.writers,
           \/ Journal(c)!Emit(w) \/ Journal(c)!Check(w)
           \/ Journal(c)!Unlink(w) \/ Journal(c)!Replace(w)
    PROVE  Journal(c)!JournalInv'
<1>0. /\ Journal(c)!TypeOK /\ Journal(c)!FilesInOrder /\ Journal(c)!StreamInOrder
  BY DEF Journal!JournalInv
<1>t. /\ pc \in [c.writers -> {"idle", "check", "unlink", "replace", "open", "write", "failed"}]
      /\ seq \in [c.writers -> 0 .. c.events] /\ handle \in [c.writers -> Journal(c)!Generations \cup {0}]
      /\ c.events \in Nat
  BY <1>0, JournalConstants DEF Journal!TypeOK
<1>1. /\ content' = content /\ handle' = handle /\ log' = log /\ stream' = stream
      /\ offset' = offset /\ journalGot' = journalGot /\ since' = since
  BY DEF Journal!Emit, Journal!Check, Journal!Unlink, Journal!Replace,
     Journal!files, Journal!writers, Journal!reader
<1>2. /\ live' = live \/ live' = 0
      /\ old' = old \/ old' = 0 \/ (old' = live /\ live' = 0)
  BY DEF Journal!Emit, Journal!Check, Journal!Unlink, Journal!Replace,
     Journal!files, Journal!writers, Journal!reader
<1>3. /\ pc' \in [c.writers -> {"idle", "check", "unlink", "replace", "open", "write", "failed"}]
      /\ seq' \in [c.writers -> 0 .. c.events]
      /\ \A v \in c.writers :
            /\ pc'[v] = "write" <=> pc[v] = "write"
            /\ \/ seq'[v] = seq[v] + 1
               \/ seq'[v] = seq[v] /\ (pc'[v] # "idle" => pc[v] # "idle")
  <2>1. CASE Journal(c)!Emit(w)
    <3>1. /\ pc[w] = "idle" /\ pc' = [pc EXCEPT ![w] = "check"]
          /\ seq[w] < c.events /\ seq' = [seq EXCEPT ![w] = seq[w] + 1]
      BY <2>1 DEF Journal!Emit, Journal!At
    <3> QED BY <1>t, <3>1
  <2>2. CASE Journal(c)!Check(w) \/ Journal(c)!Unlink(w) \/ Journal(c)!Replace(w)
    <3>1. seq' = seq
      BY <2>2 DEF Journal!Check, Journal!Unlink, Journal!Replace
    <3>2. PICK s \in {"unlink", "open", "replace", "failed"} : pc' = [pc EXCEPT ![w] = s]
      BY <2>2 DEF Journal!Check, Journal!Unlink, Journal!Replace, Journal!At
    <3>3. pc[w] \in {"check", "unlink", "replace"}
      BY <2>2 DEF Journal!Check, Journal!Unlink, Journal!Replace, Journal!At
    <3> QED BY <1>t, <3>1, <3>2, <3>3
  <2> QED BY <2>1, <2>2
<1>4. Journal(c)!TypeOK'
  BY <1>0, <1>1, <1>2, <1>3 DEF Journal!TypeOK
<1>5. \A e \in Journal(c)!Events : Journal(c)!Past(e) => Journal(c)!Past(e)'
  <2> SUFFICES ASSUME NEW e \in Journal(c)!Events, Journal(c)!Past(e)
               PROVE  Journal(c)!Past(e)'
    OBVIOUS
  <2>1. e[1] \in c.writers /\ e[2] \in Nat BY JournalConstants
  <2>2. seq[e[1]] \in Nat BY <1>t, <2>1
  <2> QED BY <1>3, <2>1, <2>2 DEF Journal!Past
<1>6. \A g : Journal(c)!Used(g)' <=> Journal(c)!Used(g) BY <1>1 DEF Journal!Used
<1>7. Journal(c)!FilesInOrder'
  <2>1. \A v \in c.writers : /\ handle'[v] # 0 <=> pc'[v] = "write"
                             /\ pc'[v] # "idle" => seq'[v] >= 1
    BY <1>0, <1>1, <1>3, <1>t DEF Journal!FilesInOrder
  <2>2. /\ live' # 0 => Journal(c)!Used(live)'
        /\ old' # 0 => Journal(c)!Used(old)'
    BY <1>0, <1>1, <1>2 DEF Journal!FilesInOrder, Journal!Used
  <2>3. \A g \in Journal(c)!Generations :
           /\ Journal(c)!Ordered(content[g]) /\ Len(content[g]) <= Len(log)
           /\ \A i \in DOMAIN content[g] : Journal(c)!Past(content[g][i])
    BY <1>0 DEF Journal!FilesInOrder
  <2>4. \A g \in Journal(c)!Generations : Journal(c)!Ordered(content[g])'
    BY <1>1, <2>3 DEF Journal!Ordered
  <2>5. \A g \in Journal(c)!Generations : \A i \in DOMAIN content'[g] :
           Journal(c)!Past(content[g][i])'
    <3> SUFFICES ASSUME NEW g \in Journal(c)!Generations, NEW i \in DOMAIN content[g]
                 PROVE  Journal(c)!Past(content[g][i])'
      BY <1>1
    <3>1. PICK e \in Journal(c)!Events : e = content[g][i]
      BY <1>0, JournalTypes
    <3>2. Journal(c)!Past(e)' BY <1>5, <2>3, <3>1
    <3> QED BY <1>1, <3>1, <3>2 DEF Journal!Past
  <2>6. \A g, h \in Journal(c)!Generations : \A i \in DOMAIN content'[g], j \in DOMAIN content'[h] :
           content'[g][i] = content'[h][j] => g = h
    BY <1>0, <1>1 DEF Journal!FilesInOrder
  <2> QED BY <1>1, <2>1, <2>2, <2>3, <2>4, <2>5, <2>6 DEF Journal!FilesInOrder
<1>8. Journal(c)!StreamInOrder'
  <2>1. Journal(c)!Ordered(journalGot)' BY <1>0, <1>1 DEF Journal!StreamInOrder, Journal!Ordered
  <2>2. \A i \in DOMAIN journalGot' : Journal(c)!Past(journalGot[i])'
    <3> SUFFICES ASSUME NEW i \in DOMAIN journalGot PROVE Journal(c)!Past(journalGot[i])'
      BY <1>1
    <3>1. PICK e \in Journal(c)!Events : e = journalGot[i] BY <1>0, JournalTypes
    <3>2. Journal(c)!Past(e)' BY <1>0, <1>5, <3>1 DEF Journal!StreamInOrder
    <3> QED BY <1>1, <3>1, <3>2 DEF Journal!Past
  <2>3. ASSUME stream' \in {"poll", "read"}
        PROVE  Journal(c)!Later(offset)' /\ (Journal(c)!Size' < offset' => Journal(c)!Later(0)')
    <3>1. CASE live' = live
      BY <1>0, <1>1, <2>3, <3>1 DEF Journal!StreamInOrder, Journal!Later, Journal!Lines, Journal!Size
    <3>2. CASE live' = 0
      BY <3>2 DEF Journal!Later, Journal!Lines
    <3> QED BY <1>2, <3>1, <3>2
  <2> QED BY <2>1, <2>2, <2>3 DEF Journal!StreamInOrder
<1> QED BY <1>4, <1>7, <1>8 DEF Journal!JournalInv

\* Opening the journal, which makes a new file if there is none.
LEMMA JournalOpens ==
    ASSUME NEW c, Journal(c)!JournalConstantsOK, Journal(c)!JournalInv, NEW w \in c.writers,
           Journal(c)!Open(w)
    PROVE  /\ Journal(c)!JournalInv'
           /\ live' \in Journal(c)!Generations
           /\ live = 0 => content[live'] = <<>> /\ live' # old
                          /\ \A v \in c.writers : handle[v] # live'
<1>0. /\ Journal(c)!TypeOK /\ Journal(c)!FilesInOrder /\ Journal(c)!StreamInOrder
  BY DEF Journal!JournalInv
<1>t. /\ pc \in [c.writers -> {"idle", "check", "unlink", "replace", "open", "write", "failed"}]
      /\ seq \in [c.writers -> 0 .. c.events] /\ handle \in [c.writers -> Journal(c)!Generations \cup {0}]
      /\ c.events \in Nat
  BY <1>0, JournalConstants DEF Journal!TypeOK
<1>1. /\ content' = content /\ old' = old /\ seq' = seq /\ log' = log /\ stream' = stream
      /\ offset' = offset /\ journalGot' = journalGot /\ since' = since
      /\ pc[w] = "open" /\ pc' = [pc EXCEPT ![w] = "write"]
      /\ handle' = [handle EXCEPT ![w] = live']
      /\ live # 0 => live' = live
  BY DEF Journal!Open, Journal!At, Journal!reader
<1>2. /\ live' \in Journal(c)!Generations
      /\ live = 0 => content[live'] = <<>> /\ live' # old /\ \A v \in c.writers : handle[v] # live'
  <2>1. CASE live # 0 BY <1>0, <1>1, <2>1, JournalTypes
  <2>2. CASE live = 0
    <3> DEFINE New(g) == content[g] = <<>> /\ g # old /\ \A v \in c.writers : handle[v] # g
    <3>1. live' = CHOOSE g \in Journal(c)!Generations : New(g)
      BY <2>2 DEF Journal!Open
    <3>2. PICK g \in Journal(c)!Generations : ~Journal(c)!Used(g) BY <1>1, FreshFile
    <3>3. New(g)
      <4>1. g # 0 BY <1>0, JournalTypes
      <4> QED BY <1>0, <3>2, <4>1 DEF Journal!FilesInOrder, Journal!Used
    <3> HIDE DEF New
    <3>4. live' \in Journal(c)!Generations /\ New(live') BY <3>1, <3>3
    <3> QED BY <3>4 DEF New
  <2> QED BY <2>1, <2>2
<1>3. live' # 0 BY <1>0, <1>2, JournalTypes
<1>4. Journal(c)!TypeOK'
  <2>1. live' # old'
    BY <1>0, <1>1, <1>2, <1>3 DEF Journal!TypeOK
  <2> QED BY <1>0, <1>1, <1>2, <1>t, <2>1 DEF Journal!TypeOK
<1>5. /\ handle[w] = 0
      /\ \A v \in c.writers : handle[v] # 0 <=> pc[v] = "write"
      /\ \A v \in c.writers : pc[v] # "idle" => seq[v] >= 1
  BY <1>0, <1>1 DEF Journal!FilesInOrder
<1>6. \A g \in Journal(c)!Generations : Journal(c)!Used(g) => Journal(c)!Used(g)'
  <2> SUFFICES ASSUME NEW g \in Journal(c)!Generations, Journal(c)!Used(g)
               PROVE  Journal(c)!Used(g)'
    OBVIOUS
  <2>1. g # 0 BY <1>0, JournalTypes
  <2>2. CASE content[g] # <<>> BY <1>1, <2>2 DEF Journal!Used
  <2>3. ASSUME NEW v \in c.writers, handle[v] = g PROVE Journal(c)!Used(g)'
    <3>1. handle'[v] = g BY <1>1, <1>5, <1>t, <2>1, <2>3
    <3> QED BY <3>1 DEF Journal!Used
  <2> QED BY <2>2, <2>3 DEF Journal!Used
<1>7. Journal(c)!Used(live)'
  <2>1. handle'[w] = live' BY <1>1, <1>t
  <2> QED BY <2>1 DEF Journal!Used
<1>8. \A e \in Journal(c)!Events : Journal(c)!Past(e) => Journal(c)!Past(e)'
  <2> SUFFICES ASSUME NEW e \in Journal(c)!Events, Journal(c)!Past(e)
               PROVE  Journal(c)!Past(e)'
    OBVIOUS
  <2>1. e[1] \in c.writers BY JournalConstants
  <2>2. pc'[e[1]] # "idle" => pc[e[1]] # "idle" BY <1>1, <1>t, <2>1
  <2> QED BY <1>1, <2>2 DEF Journal!Past
<1>9. Journal(c)!FilesInOrder'
  <2>1. \A v \in c.writers : /\ handle'[v] # 0 <=> pc'[v] = "write"
                             /\ pc'[v] # "idle" => seq'[v] >= 1
    BY <1>1, <1>3, <1>5, <1>t
  <2>2. old' # 0 => Journal(c)!Used(old)'
    <3> SUFFICES ASSUME old # 0 PROVE Journal(c)!Used(old)' BY <1>1
    <3>1. old \in Journal(c)!Generations /\ Journal(c)!Used(old)
      BY <1>0, JournalTypes DEF Journal!FilesInOrder
    <3>2. PICK g \in Journal(c)!Generations : g = old BY <3>1
    <3>3. Journal(c)!Used(g)' BY <1>6, <3>1, <3>2
    <3> QED BY <1>1, <3>2, <3>3 DEF Journal!Used
  <2>3. \A g \in Journal(c)!Generations :
           /\ Journal(c)!Ordered(content[g]) /\ Len(content[g]) <= Len(log)
           /\ \A i \in DOMAIN content[g] : Journal(c)!Past(content[g][i])
    BY <1>0 DEF Journal!FilesInOrder
  <2>4. \A g \in Journal(c)!Generations : Journal(c)!Ordered(content[g])'
    BY <1>1, <2>3 DEF Journal!Ordered
  <2>5. \A g \in Journal(c)!Generations : \A i \in DOMAIN content'[g] :
           Journal(c)!Past(content[g][i])'
    <3> SUFFICES ASSUME NEW g \in Journal(c)!Generations, NEW i \in DOMAIN content[g]
                 PROVE  Journal(c)!Past(content[g][i])'
      BY <1>1
    <3>1. PICK e \in Journal(c)!Events : e = content[g][i]
      BY <1>0, JournalTypes
    <3>2. Journal(c)!Past(e)' BY <1>8, <2>3, <3>1
    <3> QED BY <1>1, <3>1, <3>2 DEF Journal!Past
  <2>6. \A g, h \in Journal(c)!Generations : \A i \in DOMAIN content'[g], j \in DOMAIN content'[h] :
           content'[g][i] = content'[h][j] => g = h
    BY <1>0, <1>1 DEF Journal!FilesInOrder
  <2> QED BY <1>1, <1>7, <2>1, <2>2, <2>3, <2>4, <2>5, <2>6 DEF Journal!FilesInOrder
<1>10. Journal(c)!StreamInOrder'
  <2>1. Journal(c)!Ordered(journalGot)' BY <1>0, <1>1 DEF Journal!StreamInOrder, Journal!Ordered
  <2>2. \A i \in DOMAIN journalGot' : Journal(c)!Past(journalGot[i])'
    <3> SUFFICES ASSUME NEW i \in DOMAIN journalGot PROVE Journal(c)!Past(journalGot[i])'
      BY <1>1
    <3>1. PICK e \in Journal(c)!Events : e = journalGot[i] BY <1>0, JournalTypes
    <3>2. Journal(c)!Past(e)' BY <1>0, <1>8, <3>1 DEF Journal!StreamInOrder
    <3> QED BY <1>1, <3>1, <3>2 DEF Journal!Past
  <2>3. ASSUME stream' \in {"poll", "read"}
        PROVE  Journal(c)!Later(offset)' /\ (Journal(c)!Size' < offset' => Journal(c)!Later(0)')
    <3>1. CASE live # 0
      BY <1>0, <1>1, <2>3, <3>1 DEF Journal!StreamInOrder, Journal!Later, Journal!Lines, Journal!Size
    <3>2. CASE live = 0
      <4>1. Journal(c)!Lines' = <<>> BY <1>1, <1>2, <1>3, <3>2 DEF Journal!Lines
      <4>2. DOMAIN Journal(c)!Lines' = {} BY <4>1
      <4> QED BY <4>2 DEF Journal!Later
    <3> QED BY <3>1, <3>2
  <2> QED BY <2>1, <2>2, <2>3 DEF Journal!StreamInOrder
<1> QED BY <1>2, <1>4, <1>9, <1>10 DEF Journal!JournalInv

\* What a write does to the file it has open, and that its line is new.
LEMMA JournalAppends ==
    ASSUME NEW c, Journal(c)!JournalConstantsOK, Journal(c)!JournalInv, NEW w \in c.writers,
           Journal(c)!Write(w)
    PROVE  /\ handle[w] \in Journal(c)!Generations /\ <<w, seq[w]>> \in Journal(c)!Events
           /\ content' \in [Journal(c)!Generations -> Seq(Journal(c)!Events)]
           /\ log' \in Seq(Journal(c)!Events) /\ Len(log') = Len(log) + 1
           /\ log'[Len(log) + 1] = <<w, seq[w]>>
           /\ \A i \in 1 .. Len(log) : log'[i] = log[i]
           /\ \A g \in Journal(c)!Generations : g # handle[w] => content'[g] = content[g]
           /\ Len(content'[handle[w]]) = Len(content[handle[w]]) + 1
           /\ content'[handle[w]][Len(content[handle[w]]) + 1] = <<w, seq[w]>>
           /\ \A i \in 1 .. Len(content[handle[w]]) :
                 content'[handle[w]][i] = content[handle[w]][i]
<1>0. /\ Journal(c)!TypeOK /\ Journal(c)!FilesInOrder
  BY DEF Journal!JournalInv
<1>1. /\ pc[w] = "write" /\ log' = Append(log, <<w, seq[w]>>)
      /\ content' = [content EXCEPT ![handle[w]] = Append(content[handle[w]], <<w, seq[w]>>)]
  BY DEF Journal!Write, Journal!At
<1>2. /\ handle[w] \in Journal(c)!Generations /\ seq[w] \in 1 .. c.events
  BY <1>0, <1>1, JournalConstants DEF Journal!TypeOK, Journal!FilesInOrder
<1>3. <<w, seq[w]>> \in Journal(c)!Events BY <1>2, JournalConstants
<1>4. /\ content \in [Journal(c)!Generations -> Seq(Journal(c)!Events)]
      /\ log \in Seq(Journal(c)!Events)
  BY <1>0 DEF Journal!TypeOK
<1>5. /\ log' \in Seq(Journal(c)!Events) /\ Len(log') = Len(log) + 1
      /\ log'[Len(log) + 1] = <<w, seq[w]>>
      /\ \A i \in 1 .. Len(log) : log'[i] = log[i]
  BY <1>1, <1>3, <1>4, AppendProperties
<1>6. content'[handle[w]] = Append(content[handle[w]], <<w, seq[w]>>)
  BY <1>1, <1>2, <1>4
<1>7. content[handle[w]] \in Seq(Journal(c)!Events) BY <1>2, <1>4
<1>8. /\ content'[handle[w]] \in Seq(Journal(c)!Events)
      /\ Len(content'[handle[w]]) = Len(content[handle[w]]) + 1
      /\ content'[handle[w]][Len(content[handle[w]]) + 1] = <<w, seq[w]>>
      /\ \A i \in 1 .. Len(content[handle[w]]) :
            content'[handle[w]][i] = content[handle[w]][i]
  BY <1>3, <1>6, <1>7, AppendProperties
<1>9. /\ content' \in [Journal(c)!Generations -> Seq(Journal(c)!Events)]
      /\ \A g \in Journal(c)!Generations : g # handle[w] => content'[g] = content[g]
  <2>1. Append(content[handle[w]], <<w, seq[w]>>) \in Seq(Journal(c)!Events)
    BY <1>6, <1>8
  <2> QED BY <1>1, <1>2, <1>4, <2>1
<1> QED BY <1>2, <1>3, <1>5, <1>8, <1>9

\* The line that is written is the last of its writer, in its file and of what
\* was yielded.
LEMMA JournalWrites ==
    ASSUME NEW c, Journal(c)!JournalConstantsOK, Journal(c)!JournalInv, NEW w \in c.writers,
           Journal(c)!Write(w)
    PROVE  Journal(c)!JournalInv'
<1>0. /\ Journal(c)!TypeOK /\ Journal(c)!FilesInOrder /\ Journal(c)!StreamInOrder
  BY DEF Journal!JournalInv
<1>t. /\ pc \in [c.writers -> {"idle", "check", "unlink", "replace", "open", "write", "failed"}]
      /\ seq \in [c.writers -> 0 .. c.events] /\ handle \in [c.writers -> Journal(c)!Generations \cup {0}]
      /\ c.events \in Nat
  BY <1>0, JournalConstants DEF Journal!TypeOK
<1>1. /\ pc[w] = "write" /\ pc' = [pc EXCEPT ![w] = "idle"]
      /\ handle' = [handle EXCEPT ![w] = 0]
      /\ live' = live /\ old' = old /\ seq' = seq /\ stream' = stream
      /\ offset' = offset /\ journalGot' = journalGot /\ since' = since
  BY DEF Journal!Write, Journal!At, Journal!reader
<1>2. /\ handle[w] \in Journal(c)!Generations /\ <<w, seq[w]>> \in Journal(c)!Events
      /\ content' \in [Journal(c)!Generations -> Seq(Journal(c)!Events)]
      /\ log' \in Seq(Journal(c)!Events) /\ Len(log') = Len(log) + 1
      /\ \A g \in Journal(c)!Generations : g # handle[w] => content'[g] = content[g]
      /\ Len(content'[handle[w]]) = Len(content[handle[w]]) + 1
      /\ content'[handle[w]][Len(content[handle[w]]) + 1] = <<w, seq[w]>>
      /\ \A i \in 1 .. Len(content[handle[w]]) :
            content'[handle[w]][i] = content[handle[w]][i]
  BY JournalAppends
<1>3. Journal(c)!TypeOK'
  <2>1. Len(log) \in Nat BY <1>0, JournalTypes
  <2> QED BY <1>0, <1>1, <1>2, <1>t, <2>1 DEF Journal!TypeOK
<1>4. PICK h \in Journal(c)!Generations : h = handle[w] BY <1>2
<1>5. PICK e \in Journal(c)!Events : e = <<w, seq[w]>> BY <1>2
<1>6. e[1] = w /\ e[2] = seq[w] /\ seq[w] \in Nat BY <1>5, <1>t
<1>7. PICK n \in Nat : n = Len(content[h]) BY <1>0, JournalTypes
<1>8. /\ \A g \in Journal(c)!Generations : g # h => content'[g] = content[g]
      /\ DOMAIN content[h] = 1 .. n /\ DOMAIN content'[h] = 1 .. (n + 1)
      /\ content'[h][n + 1] = e
      /\ \A i \in 1 .. n : content'[h][i] = content[h][i]
  <2>1. content'[h] \in Seq(Journal(c)!Events) BY <1>2
  <2>2. DOMAIN content'[h] = 1 .. Len(content'[h]) BY <2>1, LenProperties
  <2> QED BY <1>0, <1>2, <1>4, <1>5, <1>7, <2>2, JournalTypes
<1>9. \A g \in Journal(c)!Generations : \A i \in DOMAIN content'[g] :
        \/ i \in DOMAIN content[g] /\ content'[g][i] = content[g][i]
        \/ g = h /\ i = n + 1 /\ content'[g][i] = e
  <2> SUFFICES ASSUME NEW g \in Journal(c)!Generations, NEW i \in DOMAIN content'[g]
               PROVE  \/ i \in DOMAIN content[g] /\ content'[g][i] = content[g][i]
                      \/ g = h /\ i = n + 1 /\ content'[g][i] = e
    OBVIOUS
  <2>1. CASE g # h BY <1>8, <2>1
  <2>2. CASE g = h
    <3>1. i \in 1 .. n \/ i = n + 1 BY <1>8, <2>2
    <3> QED BY <1>8, <2>2, <3>1
  <2> QED BY <2>1, <2>2
<1>10. \A x : Journal(c)!Past(x) => x # e /\ (x[1] = e[1] => x[2] < e[2])
  BY <1>1, <1>6 DEF Journal!Past
<1>11. \A x \in Journal(c)!Events : Journal(c)!Past(x) => Journal(c)!Past(x)'
  <2> SUFFICES ASSUME NEW x \in Journal(c)!Events, Journal(c)!Past(x)
               PROVE  Journal(c)!Past(x)'
    OBVIOUS
  <2>1. x[1] \in c.writers BY JournalConstants
  <2>2. pc'[x[1]] # "idle" => pc[x[1]] # "idle" BY <1>1, <1>t, <2>1
  <2> QED BY <1>1, <2>2 DEF Journal!Past
<1>12. Journal(c)!Past(e)'
  <2>1. pc'[w] = "idle" BY <1>1, <1>t
  <2> QED BY <1>1, <1>6, <2>1 DEF Journal!Past
<1>13. \A g \in Journal(c)!Generations :
          /\ Journal(c)!Ordered(content[g]) /\ Len(content[g]) <= Len(log)
          /\ \A i \in DOMAIN content[g] : Journal(c)!Past(content[g][i])
  BY <1>0 DEF Journal!FilesInOrder
<1>14. Journal(c)!FilesInOrder'
  <2>1. \A v \in c.writers : /\ handle'[v] # 0 <=> pc'[v] = "write"
                             /\ pc'[v] # "idle" => seq'[v] >= 1
    BY <1>0, <1>1, <1>t DEF Journal!FilesInOrder
  <2>2. \A g \in Journal(c)!Generations : Journal(c)!Used(g) => Journal(c)!Used(g)'
    <3> SUFFICES ASSUME NEW g \in Journal(c)!Generations, Journal(c)!Used(g)
                 PROVE  Journal(c)!Used(g)'
      OBVIOUS
    <3>1. CASE g = h
      <4>1. n + 1 \in DOMAIN content'[h] BY <1>8
      <4>2. content'[h] # <<>> BY <4>1, EmptySeq
      <4> QED BY <3>1, <4>2 DEF Journal!Used
    <3>2. CASE g # h
      <4>1. content'[g] = content[g] BY <1>8, <3>2
      <4>2. \A v \in c.writers : handle[v] = g => handle'[v] = g
        BY <1>1, <1>4, <1>t, <3>2
      <4> QED BY <4>1, <4>2 DEF Journal!Used
    <3> QED BY <3>1, <3>2
  <2>3. \A g \in {live, old} : g # 0 => g \in Journal(c)!Generations /\ Journal(c)!Used(g)
    BY <1>0, JournalTypes DEF Journal!FilesInOrder
  <2>4. \A g \in {live, old} : g # 0 => Journal(c)!Used(g)'
    <3> SUFFICES ASSUME NEW g \in {live, old}, g # 0 PROVE Journal(c)!Used(g)'
      OBVIOUS
    <3> QED BY <2>2, <2>3
  <2>5. /\ live' # 0 => Journal(c)!Used(live)'
        /\ old' # 0 => Journal(c)!Used(old)'
    BY <1>1, <2>4 DEF Journal!Used
  <2>6. \A g \in Journal(c)!Generations : Journal(c)!Ordered(content[g])'
    <3> SUFFICES ASSUME NEW g \in Journal(c)!Generations,
                        NEW i \in DOMAIN content'[g], NEW j \in DOMAIN content'[g],
                        i < j, content'[g][i][1] = content'[g][j][1]
                 PROVE  content'[g][i][2] < content'[g][j][2]
      BY DEF Journal!Ordered
    <3>1. CASE j \in DOMAIN content[g] /\ content'[g][j] = content[g][j]
      <4>1. i \in DOMAIN content[g] /\ content'[g][i] = content[g][i]
        <5>1. DOMAIN content[g] = 1 .. Len(content[g]) BY <1>0, JournalTypes
        <5>2. i # n + 1 \/ g # h BY <1>8, <3>1
        <5> QED BY <1>9, <5>2
      <4> QED BY <1>13, <3>1, <4>1 DEF Journal!Ordered
    <3>2. CASE g = h /\ j = n + 1 /\ content'[g][j] = e
      <4>1. i \in DOMAIN content[g] /\ content'[g][i] = content[g][i] BY <1>8, <3>2
      <4> QED BY <1>10, <1>13, <3>2, <4>1
    <3> QED BY <1>9, <3>1, <3>2
  <2>7. \A g \in Journal(c)!Generations : Len(content'[g]) <= Len(log')
    <3> SUFFICES ASSUME NEW g \in Journal(c)!Generations PROVE Len(content'[g]) <= Len(log')
      OBVIOUS
    <3>1. /\ Len(content[g]) <= Len(log) /\ Len(content[g]) \in Nat /\ Len(log) \in Nat
      BY <1>0, <1>13, JournalTypes
    <3>2. Len(content'[g]) = Len(content[g]) \/ Len(content'[g]) = Len(content[g]) + 1
      BY <1>2
    <3> QED BY <1>2, <3>1, <3>2
  <2>8. \A g \in Journal(c)!Generations : \A i \in DOMAIN content'[g] :
           Journal(c)!Past(content[g][i])'
    <3> SUFFICES ASSUME NEW g \in Journal(c)!Generations, NEW i \in DOMAIN content'[g]
                 PROVE  Journal(c)!Past(content[g][i])'
      OBVIOUS
    <3>1. CASE i \in DOMAIN content[g] /\ content'[g][i] = content[g][i]
      <4>1. PICK x \in Journal(c)!Events : x = content[g][i]
        BY <1>0, <3>1, JournalTypes
      <4>2. Journal(c)!Past(x)' BY <1>11, <1>13, <3>1, <4>1
      <4> QED BY <3>1, <4>1, <4>2 DEF Journal!Past
    <3>2. CASE content'[g][i] = e BY <1>12, <3>2 DEF Journal!Past
    <3> QED BY <1>9, <3>1, <3>2
  <2>9. ASSUME NEW f \in Journal(c)!Generations, NEW g \in Journal(c)!Generations,
               NEW i \in DOMAIN content'[f], NEW j \in DOMAIN content'[g],
               content'[f][i] = content'[g][j]
        PROVE  f = g
    <3>1. CASE i \in DOMAIN content[f] /\ content'[f][i] = content[f][i]
      <4>1. Journal(c)!Past(content[f][i]) BY <1>13, <3>1
      <4>2. content'[g][j] # e BY <1>10, <2>9, <3>1, <4>1
      <4>3. j \in DOMAIN content[g] /\ content'[g][j] = content[g][j] BY <1>9, <4>2
      <4> QED BY <1>0, <2>9, <3>1, <4>3 DEF Journal!FilesInOrder
    <3>2. CASE f = h /\ content'[f][i] = e
      <4>1. ~(j \in DOMAIN content[g] /\ content'[g][j] = content[g][j])
        BY <1>10, <1>13, <2>9, <3>2
      <4> QED BY <1>9, <3>2, <4>1
    <3> QED BY <1>9, <3>1, <3>2
  <2> QED BY <2>1, <2>5, <2>6, <2>7, <2>8, <2>9 DEF Journal!FilesInOrder
<1>15. Journal(c)!StreamInOrder'
  <2>1. Journal(c)!Ordered(journalGot)' BY <1>0, <1>1 DEF Journal!StreamInOrder, Journal!Ordered
  <2>2. \A i \in DOMAIN journalGot' : Journal(c)!Past(journalGot[i])'
    <3> SUFFICES ASSUME NEW i \in DOMAIN journalGot PROVE Journal(c)!Past(journalGot[i])'
      BY <1>1
    <3>1. PICK x \in Journal(c)!Events : x = journalGot[i] BY <1>0, JournalTypes
    <3>2. Journal(c)!Past(x)' BY <1>0, <1>11, <3>1 DEF Journal!StreamInOrder
    <3> QED BY <1>1, <3>1, <3>2 DEF Journal!Past
  <2>3. ASSUME NEW m, Journal(c)!Later(m) PROVE Journal(c)!Later(m)'
    <3>1. CASE live = 0
      <4>1. DOMAIN Journal(c)!Lines' = {} BY <1>1, <3>1 DEF Journal!Lines
      <4> QED BY <4>1 DEF Journal!Later
    <3>2. CASE live # 0
      <4>1. live \in Journal(c)!Generations /\ live' # 0 BY <1>0, <1>1, <3>2, JournalTypes
      <4>2. Journal(c)!Lines = content[live] /\ Journal(c)!Lines' = content'[live]
        BY <1>1, <3>2, <4>1 DEF Journal!Lines
      <4> SUFFICES ASSUME NEW i \in DOMAIN journalGot, NEW j \in DOMAIN content'[live],
                          j > m, journalGot[i][1] = content'[live][j][1]
                   PROVE  journalGot[i][2] < content'[live][j][2]
        BY <1>1, <4>2 DEF Journal!Later
      <4>3. CASE j \in DOMAIN content[live] /\ content'[live][j] = content[live][j]
        BY <2>3, <4>2, <4>3 DEF Journal!Later
      <4>4. CASE content'[live][j] = e
        BY <1>0, <1>10, <4>4 DEF Journal!StreamInOrder
      <4> QED BY <1>9, <4>1, <4>3, <4>4
    <3> QED BY <3>1, <3>2
  <2>4. ASSUME Journal(c)!Size' < offset' PROVE Journal(c)!Size < offset
    <3>1. offset \in Nat BY <1>0, JournalTypes DEF Journal!TypeOK
    <3>2. CASE live = 0 BY <1>1, <2>4, <3>2 DEF Journal!Size
    <3>3. CASE live # 0
      <4>1. live \in Journal(c)!Generations BY <1>0, <3>3, JournalTypes
      <4>2. /\ Journal(c)!Size = Len(content[live]) /\ Journal(c)!Size' = Len(content'[live])
        BY <1>1, <3>3 DEF Journal!Size
      <4>3. Len(content[live]) \in Nat BY <1>0, <4>1, JournalTypes
      <4>4. Len(content'[live]) = Len(content[live]) \/ Len(content'[live]) = Len(content[live]) + 1
        BY <1>2, <4>1
      <4> QED BY <1>1, <2>4, <3>1, <4>2, <4>3, <4>4
    <3> QED BY <3>2, <3>3
  <2>5. ASSUME stream' \in {"poll", "read"}
        PROVE  Journal(c)!Later(offset)' /\ (Journal(c)!Size' < offset' => Journal(c)!Later(0)')
    <3>1. Journal(c)!Later(offset) /\ (Journal(c)!Size < offset => Journal(c)!Later(0))
      BY <1>0, <1>1, <2>5 DEF Journal!StreamInOrder
    <3>2. PICK m : m = offset OBVIOUS
    <3>3. Journal(c)!Later(m)' BY <2>3, <3>1, <3>2
    <3>4. Journal(c)!Later(offset)' BY <1>1, <3>2, <3>3 DEF Journal!Later
    <3> QED BY <2>3, <2>4, <3>1, <3>4
  <2> QED BY <2>1, <2>2, <2>5 DEF Journal!StreamInOrder
<1> QED BY <1>3, <1>14, <1>15 DEF Journal!JournalInv

\* A part of lines in order is in order, and what is in a file is past.
LEMMA OrderedPart ==
    ASSUME NEW c, Journal(c)!JournalConstantsOK, Journal(c)!JournalInv, live # 0,
           NEW m \in Nat \ {0}
    PROVE  LET s == SubSeq(content[live], m, Journal(c)!Size) IN
           /\ s \in Seq(Journal(c)!Events) /\ Journal(c)!Ordered(s)
           /\ \A i \in DOMAIN s : Journal(c)!Past(s[i])
           /\ \A i \in DOMAIN s : m + i - 1 \in DOMAIN Journal(c)!Lines
                                  /\ s[i] = Journal(c)!Lines[m + i - 1]
<1> DEFINE n == Journal(c)!Size
           s == SubSeq(content[live], m, n)
<1>0. Journal(c)!TypeOK /\ Journal(c)!FilesInOrder BY DEF Journal!JournalInv
<1>1. /\ live \in Journal(c)!Generations /\ n \in Nat /\ n = Len(content[live])
      /\ Journal(c)!Lines = content[live] /\ DOMAIN content[live] = 1 .. n
      /\ \A i \in 1 .. n : content[live][i] \in Journal(c)!Events
  BY <1>0, JournalTypes DEF Journal!Lines, Journal!Size
<1>2. /\ Journal(c)!Ordered(content[live])
      /\ \A i \in 1 .. n : Journal(c)!Past(content[live][i])
  BY <1>0, <1>1 DEF Journal!FilesInOrder
<1> HIDE DEF n
<1>3. /\ s \in Seq(Journal(c)!Events) /\ Len(s) = IF m <= n THEN n - m + 1 ELSE 0
      /\ \A i \in 1 .. n - m + 1 : s[i] = content[live][m + i - 1]
  <2>1. \A i \in m .. n : content[live][i] \in Journal(c)!Events BY <1>1
  <2> QED BY <1>1, <2>1, SubSeqProperties
<1>4. DOMAIN s = 1 .. Len(s) BY <1>3, LenProperties
<1>5. \A i \in DOMAIN s : m + i - 1 \in 1 .. n /\ s[i] = content[live][m + i - 1]
  BY <1>1, <1>3, <1>4
<1>6. Journal(c)!Ordered(s)
  <2> SUFFICES ASSUME NEW i \in DOMAIN s, NEW j \in DOMAIN s, i < j, s[i][1] = s[j][1]
               PROVE  s[i][2] < s[j][2]
    BY DEF Journal!Ordered
  <2>1. m + i - 1 < m + j - 1
    <3>1. i \in Nat /\ j \in Nat BY <1>1, <1>3, <1>4
    <3> QED BY <3>1
  <2>2. s[i] = content[live][m + i - 1] /\ s[j] = content[live][m + j - 1] BY <1>5
  <2> QED BY <1>1, <1>2, <1>5, <2>1, <2>2 DEF Journal!Ordered
<1> QED BY <1>1, <1>2, <1>3, <1>5, <1>6 DEF n

\* Steps of the event stream: what it yields is behind its offset, and so later
\* than what it yielded.
LEMMA JournalStreams ==
    ASSUME NEW c, Journal(c)!JournalConstantsOK, Journal(c)!JournalInv,
           Journal(c)!TailFirst \/ Journal(c)!Follow \/ Journal(c)!Poll \/ Journal(c)!Read
    PROVE  /\ Journal(c)!JournalInv'
           /\ UNCHANGED <<content, live, old, pc, seq, handle, log>>
<1>0. /\ Journal(c)!TypeOK /\ Journal(c)!FilesInOrder /\ Journal(c)!StreamInOrder
  BY DEF Journal!JournalInv
<1>1. UNCHANGED <<content, live, old, pc, seq, handle, log>>
  BY DEF Journal!TailFirst, Journal!Follow, Journal!Poll, Journal!Read, Journal!files,
     Journal!writers
<1>2. Journal(c)!FilesInOrder'
  <2>1. \A w \in c.writers : /\ handle'[w] # 0 <=> pc'[w] = "write"
                             /\ pc'[w] # "idle" => seq'[w] >= 1
    BY <1>0, <1>1 DEF Journal!FilesInOrder
  <2>2. (live' # 0 => Journal(c)!Used(live)') /\ (old' # 0 => Journal(c)!Used(old)')
    BY <1>0, <1>1 DEF Journal!FilesInOrder, Journal!Used
  <2>3. \A g \in Journal(c)!Generations :
           /\ Journal(c)!Ordered(content[g])' /\ Len(content'[g]) <= Len(log')
           /\ \A i \in DOMAIN content'[g] : Journal(c)!Past(content[g][i])'
    BY <1>0, <1>1 DEF Journal!FilesInOrder, Journal!Ordered, Journal!Past
  <2>4. \A g, h \in Journal(c)!Generations : \A i \in DOMAIN content'[g], j \in DOMAIN content'[h] :
           content'[g][i] = content'[h][j] => g = h
    BY <1>0, <1>1 DEF Journal!FilesInOrder
  <2> QED BY <2>1, <2>2, <2>3, <2>4 DEF Journal!FilesInOrder
<1>3. UNCHANGED <<Journal(c)!Size, Journal(c)!Lines>>
  BY <1>1 DEF Journal!Size, Journal!Lines
<1>4. /\ Journal(c)!Size \in 0 .. Len(log) /\ Len(log) \in Nat
      /\ DOMAIN Journal(c)!Lines = 1 .. Journal(c)!Size
  <2>1. CASE live = 0 BY <1>0, <2>1, JournalTypes DEF Journal!Size
  <2>2. CASE live # 0 BY <1>0, <2>2, JournalTypes DEF Journal!Size, Journal!FilesInOrder
  <2> QED BY <1>0, <2>1, <2>2, JournalTypes
<1>5. /\ offset \in 0 .. Len(log) /\ since \in 0 .. Len(log)
      /\ journalGot \in Seq(Journal(c)!Events)
  BY <1>0 DEF Journal!TypeOK
<1>6. ASSUME /\ stream' \in {"none", "tailed", "poll", "read", "failed"}
             /\ offset' \in 0 .. Len(log) /\ since' \in 0 .. Len(log)
             /\ journalGot' \in Seq(Journal(c)!Events)
      PROVE  Journal(c)!TypeOK'
  BY <1>0, <1>1, <1>6 DEF Journal!TypeOK
<1>7. CASE Journal(c)!TailFirst
  <2>1. /\ stream' = "tailed" /\ offset' = offset /\ since' = Len(log)
        /\ \/ live = 0 /\ journalGot' = <<>>
           \/ live # 0 /\ \E m \in Nat \ {0} : journalGot' = SubSeq(content[live], m, Journal(c)!Size)
    <3>1. /\ stream' = "tailed" /\ offset' = offset /\ since' = Len(log)
          /\ journalGot' = IF live = 0 THEN <<>>
               ELSE SubSeq(content[live], IF Journal(c)!Size > c.tail
                                          THEN Journal(c)!Size - c.tail + 1 ELSE 1,
                           Journal(c)!Size)
      BY <1>7 DEF Journal!TailFirst
    <3>2. (IF Journal(c)!Size > c.tail THEN Journal(c)!Size - c.tail + 1 ELSE 1) \in Nat \ {0}
      BY <1>4, JournalConstants
    <3> QED BY <3>1, <3>2
  <2>2. /\ journalGot' \in Seq(Journal(c)!Events) /\ Journal(c)!Ordered(journalGot')
        /\ \A i \in DOMAIN journalGot' : Journal(c)!Past(journalGot'[i])
    <3>1. CASE live = 0 /\ journalGot' = <<>>
      <4>1. DOMAIN journalGot' = {} BY <3>1
      <4> QED BY <3>1, <4>1, EmptySeq DEF Journal!Ordered
    <3>2. CASE live # 0 /\ \E m \in Nat \ {0} : journalGot' = SubSeq(content[live], m, Journal(c)!Size)
      BY <3>2, OrderedPart
    <3> QED BY <2>1, <3>1, <3>2
  <2>3. Journal(c)!TypeOK' BY <1>4, <1>5, <1>6, <2>1, <2>2
  <2>4. Journal(c)!StreamInOrder'
    BY <1>1, <2>1, <2>2 DEF Journal!StreamInOrder, Journal!Ordered, Journal!Past
  <2> QED BY <1>1, <1>2, <2>3, <2>4 DEF Journal!JournalInv
<1>8. CASE Journal(c)!Follow
  <2>1. /\ stream' = "poll" /\ offset' = Journal(c)!Size
        /\ journalGot' = journalGot /\ since' = since
    BY <1>8 DEF Journal!Follow
  <2>2. Journal(c)!TypeOK' BY <1>4, <1>5, <1>6, <2>1
  <2>3. Journal(c)!Later(offset)' /\ ~(Journal(c)!Size' < offset')
    <3>1. ~(Journal(c)!Size' < offset') BY <1>3, <1>4, <2>1
    <3>2. \A j \in DOMAIN Journal(c)!Lines' : ~(j > offset') BY <1>3, <1>4, <2>1
    <3> QED BY <3>1, <3>2 DEF Journal!Later
  <2>4. Journal(c)!StreamInOrder'
    BY <1>0, <1>1, <2>1, <2>3 DEF Journal!StreamInOrder, Journal!Ordered, Journal!Past
  <2> QED BY <1>1, <1>2, <2>2, <2>4 DEF Journal!JournalInv
<1>9. CASE Journal(c)!Poll
  <2>1. /\ stream = "poll" /\ stream' \in {"poll", "read"}
        /\ journalGot' = journalGot /\ since' = since
        /\ \/ offset' = offset /\ ~(Journal(c)!Size < offset)
           \/ offset' = 0 /\ Journal(c)!Size < offset
    BY <1>9 DEF Journal!Poll
  <2>2. Journal(c)!TypeOK' BY <1>4, <1>5, <1>6, <2>1
  <2>3. Journal(c)!Later(offset)' /\ ~(Journal(c)!Size' < offset')
    <3>1. /\ Journal(c)!Later(offset) /\ (Journal(c)!Size < offset => Journal(c)!Later(0))
      BY <1>0, <2>1 DEF Journal!StreamInOrder
    <3>2. ~(Journal(c)!Size' < offset') BY <1>3, <1>4, <2>1
    <3> QED BY <1>3, <2>1, <3>1, <3>2 DEF Journal!Later
  <2>4. Journal(c)!StreamInOrder'
    BY <1>0, <1>1, <2>1, <2>3 DEF Journal!StreamInOrder, Journal!Ordered, Journal!Past
  <2> QED BY <1>1, <1>2, <2>2, <2>4 DEF Journal!JournalInv
<1>10. CASE Journal(c)!Read /\ live = 0
  <2>1. stream' = "failed" /\ offset' = offset /\ journalGot' = journalGot /\ since' = since
    BY <1>10 DEF Journal!Read
  <2>2. Journal(c)!TypeOK' BY <1>4, <1>5, <1>6, <2>1
  <2>3. Journal(c)!StreamInOrder'
    BY <1>0, <1>1, <2>1 DEF Journal!StreamInOrder, Journal!Ordered, Journal!Past
  <2> QED BY <1>1, <1>2, <2>2, <2>3 DEF Journal!JournalInv
<1>11. CASE Journal(c)!Read /\ live # 0
  <2> DEFINE s == SubSeq(content[live], offset + 1, Journal(c)!Size)
  <2>1. /\ stream = "read" /\ stream' = "poll" /\ since' = since
        /\ journalGot' = journalGot \o s
        /\ offset' = IF Journal(c)!Size > offset THEN Journal(c)!Size ELSE offset
    BY <1>11 DEF Journal!Read
  <2>2. offset + 1 \in Nat \ {0} /\ offset \in Nat BY <1>4, <1>5
  <2>3. /\ s \in Seq(Journal(c)!Events) /\ Journal(c)!Ordered(s)
        /\ \A i \in DOMAIN s : Journal(c)!Past(s[i])
        /\ \A i \in DOMAIN s : offset + 1 + i - 1 \in DOMAIN Journal(c)!Lines
                               /\ s[i] = Journal(c)!Lines[offset + 1 + i - 1]
    BY <1>11, <2>2, OrderedPart
  <2>4. Journal(c)!Later(offset) /\ (Journal(c)!Size < offset => Journal(c)!Later(0))
    BY <1>0, <2>1 DEF Journal!StreamInOrder
  <2> HIDE DEF s
  <2>5. PICK a \in Nat : a = Len(journalGot) BY <1>5, LenProperties
  <2>6. PICK b \in Nat : b = Len(s) BY <2>3, LenProperties
  <2>7. /\ journalGot' \in Seq(Journal(c)!Events)
        /\ DOMAIN journalGot = 1 .. a /\ DOMAIN s = 1 .. b /\ DOMAIN journalGot' = 1 .. (a + b)
        /\ \A i \in 1 .. a : journalGot'[i] = journalGot[i]
        /\ \A i \in a + 1 .. a + b : i - a \in 1 .. b /\ journalGot'[i] = s[i - a]
    <3>1. /\ journalGot \o s \in Seq(Journal(c)!Events) /\ Len(journalGot \o s) = a + b
          /\ \A i \in 1 .. a + b : (journalGot \o s)[i] =
                IF i <= a THEN journalGot[i] ELSE s[i - a]
      BY <1>5, <2>3, <2>5, <2>6, ConcatProperties
    <3>2. DOMAIN (journalGot \o s) = 1 .. (a + b) BY <3>1, LenProperties
    <3>3. DOMAIN journalGot = 1 .. a /\ DOMAIN s = 1 .. b
      BY <1>5, <2>3, <2>5, <2>6, LenProperties
    <3> QED BY <2>1, <3>1, <3>2, <3>3
  <2>8. \A i \in DOMAIN journalGot' :
          \/ i \in 1 .. a /\ journalGot'[i] = journalGot[i]
          \/ i \in a + 1 .. a + b /\ i - a \in DOMAIN s /\ journalGot'[i] = s[i - a]
    BY <2>7
  <2>9. Journal(c)!Ordered(journalGot')
    <3> SUFFICES ASSUME NEW i \in DOMAIN journalGot', NEW j \in DOMAIN journalGot',
                        i < j, journalGot'[i][1] = journalGot'[j][1]
                 PROVE  journalGot'[i][2] < journalGot'[j][2]
      BY DEF Journal!Ordered
    <3>1. CASE j \in 1 .. a
      <4>1. i \in 1 .. a BY <2>7, <3>1
      <4>2. i \in DOMAIN journalGot /\ j \in DOMAIN journalGot
            /\ journalGot'[i] = journalGot[i] /\ journalGot'[j] = journalGot[j]
        BY <2>7, <3>1, <4>1
      <4> QED BY <1>0, <4>2 DEF Journal!StreamInOrder, Journal!Ordered
    <3>2. CASE i \in 1 .. a /\ j - a \in DOMAIN s /\ journalGot'[j] = s[j - a]
      <4>1. PICK k \in DOMAIN s : k = j - a BY <3>2
      <4>2. k \in Nat \ {0} /\ offset + 1 + k - 1 > offset BY <2>2, <2>7, <4>1
      <4>3. /\ offset + 1 + k - 1 \in DOMAIN Journal(c)!Lines
            /\ journalGot'[j] = Journal(c)!Lines[offset + 1 + k - 1]
        BY <2>3, <3>2, <4>1
      <4>4. i \in DOMAIN journalGot /\ journalGot'[i] = journalGot[i] BY <2>7, <3>2
      <4> QED BY <2>4, <4>2, <4>3, <4>4 DEF Journal!Later
    <3>3. CASE i \in a + 1 .. a + b /\ j \in a + 1 .. a + b
      <4>1. /\ i - a \in DOMAIN s /\ j - a \in DOMAIN s /\ i - a < j - a
            /\ journalGot'[i] = s[i - a] /\ journalGot'[j] = s[j - a]
        BY <2>7, <3>3
      <4> QED BY <2>3, <4>1 DEF Journal!Ordered
    <3>4. i \in a + 1 .. a + b => j \in a + 1 .. a + b BY <2>7
    <3> QED BY <2>8, <3>1, <3>2, <3>3, <3>4
  <2>10. \A i \in DOMAIN journalGot' : Journal(c)!Past(journalGot'[i])
    BY <1>0, <2>3, <2>7, <2>8 DEF Journal!StreamInOrder
  <2>11. offset' \in 0 .. Len(log) BY <1>4, <1>5, <2>1
  <2>12. Journal(c)!TypeOK' BY <1>5, <1>6, <2>1, <2>7, <2>11
  <2>13. Journal(c)!Later(offset)' /\ (Journal(c)!Size' < offset' => Journal(c)!Later(0)')
    <3>1. CASE Journal(c)!Size < offset
      <4>1. offset' = offset /\ b = 0
        <5>1. offset' = offset BY <1>4, <2>1, <2>2, <3>1
        <5>2. ASSUME b # 0 PROVE FALSE
          <6>1. 1 \in DOMAIN s BY <2>7, <5>2
          <6>2. offset + 1 + 1 - 1 \in 1 .. Journal(c)!Size BY <1>4, <2>3, <6>1
          <6> QED BY <1>4, <2>2, <3>1, <6>2
        <5> QED BY <5>1, <5>2
      <4>2. DOMAIN journalGot' = DOMAIN journalGot
            /\ \A i \in DOMAIN journalGot : journalGot'[i] = journalGot[i]
        BY <2>7, <4>1
      <4> QED BY <1>3, <2>4, <3>1, <4>1, <4>2 DEF Journal!Later
    <3>2. CASE ~(Journal(c)!Size < offset)
      <4>1. offset' = Journal(c)!Size BY <1>4, <2>1, <2>2, <3>2
      <4>2. \A j \in DOMAIN Journal(c)!Lines' : ~(j > offset') BY <1>3, <1>4, <4>1
      <4>3. ~(Journal(c)!Size' < offset') BY <1>3, <1>4, <4>1
      <4> QED BY <4>2, <4>3 DEF Journal!Later
    <3> QED BY <3>1, <3>2
  <2>14. Journal(c)!StreamInOrder'
    BY <1>1, <2>9, <2>10, <2>13 DEF Journal!StreamInOrder, Journal!Ordered, Journal!Past
  <2> QED BY <1>1, <1>2, <2>12, <2>14 DEF Journal!JournalInv
<1> QED BY <1>1, <1>7, <1>8, <1>9, <1>10, <1>11

LEMMA JournalInit ==
    ASSUME NEW c, Journal(c)!JournalConstantsOK, Journal(c)!Init
    PROVE  Journal(c)!JournalInv /\ Journal(c)!Size = 0
<1> USE DEF Journal!Init
<1>1. Journal(c)!TypeOK
  <2>1. c.events \in Nat BY JournalConstants
  <2> QED BY <2>1, EmptySeq DEF Journal!TypeOK
<1>2. \A g \in Journal(c)!Generations : content[g] = <<>> /\ DOMAIN content[g] = {}
                                        /\ Len(content[g]) = 0
  BY EmptySeq
<1>3. Journal(c)!FilesInOrder
  BY <1>2, EmptySeq DEF Journal!FilesInOrder, Journal!Ordered
<1>4. DOMAIN journalGot = {} OBVIOUS
<1>5. Journal(c)!StreamInOrder BY <1>4 DEF Journal!StreamInOrder, Journal!Ordered
<1> QED BY <1>1, <1>3, <1>5 DEF Journal!JournalInv, Journal!Size

LEMMA JournalNext ==
    ASSUME NEW c, Journal(c)!JournalConstantsOK, Journal(c)!JournalInv, Journal(c)!Next
    PROVE  Journal(c)!JournalInv'
<1>1. CASE \E w \in c.writers : \/ Journal(c)!Emit(w) \/ Journal(c)!Check(w)
                                \/ Journal(c)!Unlink(w) \/ Journal(c)!Replace(w)
  BY <1>1, JournalMoves
<1>2. CASE \E w \in c.writers : Journal(c)!Open(w) BY <1>2, JournalOpens
<1>3. CASE \E w \in c.writers : Journal(c)!Write(w) BY <1>3, JournalWrites
<1>4. CASE Journal(c)!TailFirst \/ Journal(c)!Follow \/ Journal(c)!Poll \/ Journal(c)!Read
  BY <1>4, JournalStreams
<1> QED BY <1>1, <1>2, <1>3, <1>4 DEF Journal!Next, Journal!Writing

LEMMA JournalUnchanged ==
    ASSUME NEW c, UNCHANGED journalVars
    PROVE  /\ UNCHANGED <<content, live, old, pc, seq, handle, stream, offset, journalGot, log,
                          since>>
           /\ UNCHANGED <<Journal(c)!Size, Journal(c)!OldSize, Journal(c)!Lines,
                          Journal(c)!Ahead>>
           /\ \A g : UNCHANGED Journal(c)!Holding(g)
<1>1. UNCHANGED <<content, live, old, pc, seq, handle, stream, offset, journalGot, log, since>>
  BY DEF journalVars
<1>2. UNCHANGED <<Journal(c)!Size, Journal(c)!OldSize, Journal(c)!Lines>>
  BY <1>1 DEF Journal!Size, Journal!OldSize, Journal!Lines
<1>3. UNCHANGED Journal(c)!Ahead /\ \A g : UNCHANGED Journal(c)!Holding(g)
  BY <1>1 DEF Journal!Ahead, Journal!Holding
<1> QED BY <1>1, <1>2, <1>3

LEMMA JournalStays ==
    ASSUME NEW c, Journal(c)!JournalInv, UNCHANGED journalVars
    PROVE  Journal(c)!JournalInv'
<1>0. /\ Journal(c)!TypeOK /\ Journal(c)!FilesInOrder /\ Journal(c)!StreamInOrder
  BY DEF Journal!JournalInv
<1>1. /\ UNCHANGED <<content, live, old, pc, seq, handle, stream, offset, journalGot, log, since>>
      /\ UNCHANGED <<Journal(c)!Size, Journal(c)!Lines>>
  BY JournalUnchanged
<1>2. Journal(c)!TypeOK' BY <1>0, <1>1 DEF Journal!TypeOK
<1>3. Journal(c)!FilesInOrder'
  <2>1. \A w \in c.writers : /\ handle'[w] # 0 <=> pc'[w] = "write"
                             /\ pc'[w] # "idle" => seq'[w] >= 1
    BY <1>0, <1>1 DEF Journal!FilesInOrder
  <2>2. (live' # 0 => Journal(c)!Used(live)') /\ (old' # 0 => Journal(c)!Used(old)')
    BY <1>0, <1>1 DEF Journal!FilesInOrder, Journal!Used
  <2>3. \A g \in Journal(c)!Generations :
           /\ Journal(c)!Ordered(content[g])' /\ Len(content'[g]) <= Len(log')
           /\ \A i \in DOMAIN content'[g] : Journal(c)!Past(content[g][i])'
    BY <1>0, <1>1 DEF Journal!FilesInOrder, Journal!Ordered, Journal!Past
  <2>4. \A g, h \in Journal(c)!Generations : \A i \in DOMAIN content'[g], j \in DOMAIN content'[h] :
           content'[g][i] = content'[h][j] => g = h
    BY <1>0, <1>1 DEF Journal!FilesInOrder
  <2> QED BY <2>1, <2>2, <2>3, <2>4 DEF Journal!FilesInOrder
<1>4. Journal(c)!StreamInOrder'
  BY <1>0, <1>1 DEF Journal!StreamInOrder, Journal!Ordered, Journal!Past, Journal!Later
<1> QED BY <1>2, <1>3, <1>4 DEF Journal!JournalInv

\* Any journal of several writers: the stream yields no event twice and those
\* of a writer in order, across rotations.
THEOREM StreamsInOrder ==
    ASSUME NEW c, Journal(c)!JournalConstantsOK
    PROVE  Journal(c)!Spec => []Journal(c)!InOrder
<1>1. Journal(c)!Init => Journal(c)!JournalInv BY JournalInit
<1>2. Journal(c)!JournalInv /\ [Journal(c)!Next]_(Journal(c)!vars) => Journal(c)!JournalInv'
  <2>1. UNCHANGED Journal(c)!vars => UNCHANGED journalVars
    BY DEF Journal!vars, Journal!files, Journal!writers, Journal!reader, journalVars
  <2> QED BY <2>1, JournalNext, JournalStays
<1>3. Journal(c)!JournalInv => Journal(c)!InOrder
  BY DEF Journal!JournalInv, Journal!StreamInOrder, Journal!Ordered, Journal!InOrder
<1> QED BY <1>1, <1>2, <1>3, PTL DEF Journal!Spec

-----------------------------------------------------------------------------
\* Sets of writers.
LEMMA SomeWriters ==
    ASSUME NEW c, Journal(c)!JournalConstantsOK
    PROVE  /\ \A S \in SUBSET c.writers :
                 Cardinality(S) \in Nat /\ Cardinality(S) <= Cardinality(c.writers)
           /\ \A S, T \in SUBSET c.writers : S \subseteq T => Cardinality(S) <= Cardinality(T)
           /\ \A S \in SUBSET c.writers : \A w \in S :
                 Cardinality(S \ {w}) = Cardinality(S) - 1
<1>1. IsFiniteSet(c.writers) BY JournalConstants
<1>2. \A T \in SUBSET c.writers : IsFiniteSet(T) /\ Cardinality(T) \in Nat
  BY <1>1, FS_Subset, FS_CardinalityType
<1>3. \A S, T \in SUBSET c.writers : S \subseteq T => Cardinality(S) <= Cardinality(T)
  BY <1>2, FS_Subset
<1>4. \A S \in SUBSET c.writers : \A w \in S : Cardinality(S \ {w}) = Cardinality(S) - 1
  BY <1>2, FS_RemoveElement
<1> QED BY <1>2, <1>3, <1>4

\* What RoomInv says, with the cardinality of the standard module.
LEMMA Room ==
    ASSUME NEW c, Journal(c)!JournalConstantsOK
    PROVE  Journal(c)!RoomInv <=>
             /\ Journal(c)!Size + Cardinality(Journal(c)!Ahead)
                  < c.lines + Cardinality(c.writers)
             /\ old # 0 =>
                  Len(content[old]) + Cardinality(Journal(c)!Holding(old))
                    < c.lines + Cardinality(c.writers)
BY JournalConstants DEF Journal!RoomInv

LEMMA RoomNext ==
    ASSUME NEW c, Journal(c)!JournalConstantsOK, Journal(c)!JournalInv, Journal(c)!RoomInv,
           Journal(c)!Next
    PROVE  Journal(c)!RoomInv'
<1> DEFINE N == c.lines + Cardinality(c.writers)
           Some == SUBSET c.writers
           Ahead == Journal(c)!Ahead
           Size == Journal(c)!Size
           Holding(g) == Journal(c)!Holding(g)
<1>0. Journal(c)!TypeOK /\ Journal(c)!FilesInOrder BY DEF Journal!JournalInv
<1>t. /\ pc \in [c.writers -> {"idle", "check", "unlink", "replace", "open", "write", "failed"}]
      /\ handle \in [c.writers -> Journal(c)!Generations \cup {0}]
      /\ Ahead \in Some /\ Ahead' \in Some
      /\ \A g : Holding(g) \in Some /\ Holding(g)' \in Some
      /\ Size \in Nat
  BY <1>0, JournalTypes DEF Journal!TypeOK, Journal!Ahead, Journal!Holding
<1>n. /\ c.lines \in Nat \ {0} /\ Cardinality(c.writers) \in Nat /\ N \in Nat
      /\ \A S \in Some : Cardinality(S) \in Nat /\ c.lines + Cardinality(S) <= N
      /\ \A S, T \in Some : S \subseteq T => Cardinality(S) <= Cardinality(T)
      /\ \A S \in Some : \A w \in S : Cardinality(S \ {w}) = Cardinality(S) - 1
  BY JournalConstants, SomeWriters
<1>r. /\ Size + Cardinality(Ahead) < N
      /\ old # 0 => Len(content[old]) + Cardinality(Holding(old)) < N
  BY Room
<1> SUFFICES /\ Size' + Cardinality(Ahead') < N
             /\ old' # 0 => Len(content[old])' + Cardinality(Holding(old)') < N
  BY Room, JournalConstants DEF Journal!RoomInv
<1> HIDE DEF N, Some
<1>1. ASSUME UNCHANGED <<content, live, handle>>, Ahead' \subseteq Ahead, old' \in {old, 0}
      PROVE  /\ Size' + Cardinality(Ahead') < N
             /\ old' # 0 => Len(content[old])' + Cardinality(Holding(old)') < N
  <2>1. Size' = Size BY <1>1 DEF Journal!Size
  <2>2. Cardinality(Ahead') <= Cardinality(Ahead) /\ Cardinality(Ahead') \in Nat
        /\ Cardinality(Ahead) \in Nat
    BY <1>1, <1>n, <1>t
  <2>3. ASSUME old' # 0 PROVE Len(content[old])' + Cardinality(Holding(old)') < N
    <3>1. old' = old BY <1>1, <2>3
    <3>2. Holding(old)' = Holding(old) BY <1>1, <3>1 DEF Journal!Holding
    <3> QED BY <1>1, <1>r, <2>3, <3>1, <3>2
  <2> QED BY <1>n, <1>r, <1>t, <2>1, <2>2, <2>3
<1>2. ASSUME NEW w \in c.writers, Journal(c)!Emit(w) \/ Journal(c)!Unlink(w)
      PROVE  /\ Size' + Cardinality(Ahead') < N
             /\ old' # 0 => Len(content[old])' + Cardinality(Holding(old)') < N
  <2>1. /\ UNCHANGED <<content, live, handle>> /\ old' \in {old, 0}
        /\ \E s \in {"check", "replace"} : pc' = [pc EXCEPT ![w] = s]
    BY <1>2 DEF Journal!Emit, Journal!Unlink, Journal!At, Journal!files
  <2>2. Ahead' \subseteq Ahead BY <1>t, <2>1 DEF Journal!Ahead
  <2> QED BY <1>1, <2>1, <2>2
<1>3. ASSUME NEW w \in c.writers, Journal(c)!Check(w)
      PROVE  /\ Size' + Cardinality(Ahead') < N
             /\ old' # 0 => Len(content[old])' + Cardinality(Holding(old)') < N
  <2>1. /\ UNCHANGED <<content, live, old, handle>>
        /\ \/ pc' = [pc EXCEPT ![w] = "unlink"]
           \/ pc' = [pc EXCEPT ![w] = "open"] /\ ~(Size >= c.lines)
    BY <1>3 DEF Journal!Check, Journal!At, Journal!files
  <2>2. CASE pc' = [pc EXCEPT ![w] = "unlink"]
    <3>1. Ahead' \subseteq Ahead BY <1>t, <2>1, <2>2 DEF Journal!Ahead
    <3> QED BY <1>1, <2>1, <3>1
  <2>3. CASE ~(Size >= c.lines)
    <3>1. Size' = Size BY <2>1 DEF Journal!Size
    <3>2. Cardinality(Ahead') \in Nat /\ c.lines + Cardinality(Ahead') <= N BY <1>n, <1>t
    <3>3. Size' + Cardinality(Ahead') < N BY <1>n, <1>t, <2>3, <3>1, <3>2
    <3>4. Holding(old)' = Holding(old) BY <2>1 DEF Journal!Holding
    <3> QED BY <1>r, <2>1, <3>3, <3>4
  <2> QED BY <2>1, <2>2, <2>3
<1>4. ASSUME NEW w \in c.writers, Journal(c)!Replace(w)
      PROVE  /\ Size' + Cardinality(Ahead') < N
             /\ old' # 0 => Len(content[old])' + Cardinality(Holding(old)') < N
  <2>1. CASE live # 0
    <3>1. UNCHANGED <<content, handle>> /\ old' = live /\ live' = 0
      BY <1>4, <2>1 DEF Journal!Replace
    <3>2. Size' = 0 BY <3>1 DEF Journal!Size
    <3>3. Size' + Cardinality(Ahead') < N
      <4>1. Cardinality(Ahead') \in Nat /\ c.lines + Cardinality(Ahead') <= N BY <1>n, <1>t
      <4> QED BY <1>n, <3>2, <4>1
    <3>4. Holding(old)' = Holding(live) BY <3>1 DEF Journal!Holding
    <3>5. Holding(live) \subseteq Ahead
      <4>1. \A v \in c.writers : handle[v] = live => pc[v] = "write"
        BY <1>0, <2>1 DEF Journal!FilesInOrder
      <4> QED BY <4>1 DEF Journal!Holding, Journal!Ahead
    <3>6. /\ Cardinality(Holding(live)) <= Cardinality(Ahead)
          /\ Cardinality(Holding(live)) \in Nat /\ Cardinality(Ahead) \in Nat
      BY <1>n, <1>t, <3>5
    <3>7. Size = Len(content[live]) BY <2>1 DEF Journal!Size
    <3>8. Len(content[live]) + Cardinality(Holding(live)) < N
      BY <1>n, <1>r, <1>t, <3>6, <3>7
    <3> QED BY <3>1, <3>3, <3>4, <3>8
  <2>2. CASE live = 0
    <3>1. UNCHANGED <<content, live, handle, old>> /\ pc' = [pc EXCEPT ![w] = "failed"]
      BY <1>4, <2>2 DEF Journal!Replace, Journal!At, Journal!files
    <3>2. Ahead' \subseteq Ahead BY <1>t, <3>1 DEF Journal!Ahead
    <3> QED BY <1>1, <3>1, <3>2
  <2> QED BY <2>1, <2>2
<1>5. ASSUME NEW w \in c.writers, Journal(c)!Open(w)
      PROVE  /\ Size' + Cardinality(Ahead') < N
             /\ old' # 0 => Len(content[old])' + Cardinality(Holding(old)') < N
  <2>1. /\ UNCHANGED <<content, old>> /\ pc[w] = "open" /\ pc' = [pc EXCEPT ![w] = "write"]
        /\ handle' = [handle EXCEPT ![w] = live'] /\ (live # 0 => live' = live)
    BY <1>5 DEF Journal!Open, Journal!At
  <2>2. /\ live' \in Journal(c)!Generations
        /\ live = 0 => content[live'] = <<>> /\ live' # old
        /\ live' # 0
    BY <1>0, <1>5, JournalOpens, JournalTypes
  <2>3. live' # old BY <1>0, <2>1, <2>2 DEF Journal!TypeOK
  <2>4. Size' + Cardinality(Ahead') < N
    <3>1. CASE live # 0
      <4>1. Size' = Size BY <2>1, <3>1 DEF Journal!Size
      <4>2. Ahead' \subseteq Ahead BY <1>t, <2>1, <3>1 DEF Journal!Ahead
      <4>3. Cardinality(Ahead') <= Cardinality(Ahead) /\ Cardinality(Ahead') \in Nat
            /\ Cardinality(Ahead) \in Nat
        BY <1>n, <1>t, <4>2
      <4> QED BY <1>n, <1>r, <1>t, <4>1, <4>3
    <3>2. CASE live = 0
      <4>1. Size' = 0 BY <2>1, <2>2, <3>2, EmptySeq DEF Journal!Size
      <4>2. Cardinality(Ahead') \in Nat /\ c.lines + Cardinality(Ahead') <= N BY <1>n, <1>t
      <4> QED BY <1>n, <4>1, <4>2
    <3> QED BY <3>1, <3>2
  <2>5. Holding(old)' \subseteq Holding(old) BY <1>t, <2>1, <2>3 DEF Journal!Holding
  <2>6. Cardinality(Holding(old)') <= Cardinality(Holding(old))
        /\ Cardinality(Holding(old)') \in Nat /\ Cardinality(Holding(old)) \in Nat
    <3>1. Holding(old) \in Some /\ Holding(old)' \in Some
      BY DEF Journal!Holding, Some
    <3> QED BY <1>n, <2>5, <3>1
  <2>7. ASSUME old # 0 PROVE Len(content[old]) + Cardinality(Holding(old)') < N
    <3>1. Len(content[old]) \in Nat BY <1>0, <2>7, JournalTypes
    <3> QED BY <1>n, <1>r, <2>6, <2>7, <3>1
  <2> QED BY <2>1, <2>4, <2>7
<1>6. ASSUME NEW w \in c.writers, Journal(c)!Write(w)
      PROVE  /\ Size' + Cardinality(Ahead') < N
             /\ old' # 0 => Len(content[old])' + Cardinality(Holding(old)') < N
  <2>1. /\ UNCHANGED <<live, old>> /\ pc[w] = "write" /\ pc' = [pc EXCEPT ![w] = "idle"]
        /\ handle' = [handle EXCEPT ![w] = 0]
    BY <1>6 DEF Journal!Write, Journal!At
  <2>2. /\ handle[w] \in Journal(c)!Generations /\ handle[w] # 0
        /\ \A g \in Journal(c)!Generations : g # handle[w] => content'[g] = content[g]
        /\ Len(content'[handle[w]]) = Len(content[handle[w]]) + 1
        /\ Len(content[handle[w]]) \in Nat
    BY <1>0, <1>6, JournalAppends, JournalTypes
  <2>3. Size' + Cardinality(Ahead') < N
    <3>1. CASE handle[w] = live
      <4>1. Size = Len(content[live]) /\ Size' = Len(content'[live])
        BY <2>1, <2>2, <3>1 DEF Journal!Size
      <4>2. Size' = Size + 1 BY <2>2, <3>1, <4>1
      <4>3. w \in Ahead /\ Ahead' \subseteq Ahead \ {w}
        BY <1>t, <2>1, <2>2, <3>1 DEF Journal!Ahead
      <4>4. Ahead \ {w} \in Some BY DEF Some, Journal!Ahead
      <4>5. /\ Cardinality(Ahead \ {w}) = Cardinality(Ahead) - 1
            /\ Cardinality(Ahead') <= Cardinality(Ahead \ {w})
            /\ Cardinality(Ahead') \in Nat /\ Cardinality(Ahead) \in Nat
        BY <1>n, <1>t, <4>3, <4>4
      <4> QED BY <1>n, <1>r, <1>t, <4>2, <4>5
    <3>2. CASE handle[w] # live
      <4>1. Size' = Size
        BY <1>0, <2>1, <2>2, <3>2, JournalTypes DEF Journal!Size
      <4>2. Ahead' \subseteq Ahead
        <5>1. \A v \in c.writers : pc'[v] = "write" => pc[v] = "write" /\ handle'[v] = handle[v]
          BY <1>t, <2>1
        <5>2. \A v \in c.writers : pc'[v] = "open" => pc[v] = "open" BY <1>t, <2>1
        <5> QED BY <2>1, <5>1, <5>2 DEF Journal!Ahead
      <4>3. Cardinality(Ahead') <= Cardinality(Ahead) /\ Cardinality(Ahead') \in Nat
            /\ Cardinality(Ahead) \in Nat
        BY <1>n, <1>t, <4>2
      <4> QED BY <1>n, <1>r, <1>t, <4>1, <4>3
    <3> QED BY <3>1, <3>2
  <2>4. ASSUME old # 0 PROVE Len(content'[old]) + Cardinality(Holding(old)') < N
    <3>0. old \in Journal(c)!Generations /\ Len(content[old]) \in Nat
          /\ Holding(old) \in Some /\ Holding(old)' \in Some
      <4>1. old \in Journal(c)!Generations BY <1>0, <2>4, JournalTypes
      <4>2. Len(content[old]) \in Nat BY <1>0, <4>1, JournalTypes
      <4> QED BY <4>1, <4>2 DEF Journal!Holding, Some
    <3>1. CASE handle[w] = old
      <4>1. w \in Holding(old) /\ Holding(old)' \subseteq Holding(old) \ {w}
        BY <1>t, <2>1, <2>2, <3>1 DEF Journal!Holding
      <4>2. Holding(old) \ {w} \in Some BY DEF Some, Journal!Holding
      <4>3. /\ Cardinality(Holding(old) \ {w}) = Cardinality(Holding(old)) - 1
            /\ Cardinality(Holding(old)') <= Cardinality(Holding(old) \ {w})
            /\ Cardinality(Holding(old)') \in Nat /\ Cardinality(Holding(old)) \in Nat
        BY <1>n, <3>0, <4>1, <4>2
      <4>4. Len(content'[old]) = Len(content[old]) + 1 BY <2>2, <3>1
      <4> QED BY <1>n, <1>r, <2>4, <3>0, <4>3, <4>4
    <3>2. CASE handle[w] # old
      <4>1. content'[old] = content[old] BY <2>2, <3>0, <3>2
      <4>2. Holding(old)' \subseteq Holding(old)
        BY <1>t, <2>1, <2>4 DEF Journal!Holding
      <4>3. /\ Cardinality(Holding(old)') <= Cardinality(Holding(old))
            /\ Cardinality(Holding(old)') \in Nat /\ Cardinality(Holding(old)) \in Nat
        BY <1>n, <3>0, <4>2
      <4> QED BY <1>n, <1>r, <2>4, <3>0, <4>1, <4>3
    <3> QED BY <3>1, <3>2
  <2> QED BY <2>1, <2>3, <2>4
<1>7. CASE Journal(c)!TailFirst \/ Journal(c)!Follow \/ Journal(c)!Poll \/ Journal(c)!Read
  <2>1. UNCHANGED <<content, live, old, pc, seq, handle, log>> BY <1>7, JournalStreams
  <2>2. Ahead' \subseteq Ahead BY <2>1 DEF Journal!Ahead
  <2> QED BY <1>1, <2>1, <2>2
<1> QED BY <1>2, <1>3, <1>4, <1>5, <1>6, <1>7 DEF Journal!Next, Journal!Writing

LEMMA RoomInit ==
    ASSUME NEW c, Journal(c)!JournalConstantsOK, Journal(c)!Init
    PROVE  Journal(c)!RoomInv
<1>1. Journal(c)!Ahead = {}
  BY DEF Journal!Init, Journal!Ahead
<1>2. Journal(c)!Size = 0 /\ old = 0 BY DEF Journal!Init, Journal!Size
<1>3. Cardinality(Journal(c)!Ahead) = 0 BY <1>1, FS_EmptySet
<1>4. c.lines \in Nat \ {0} /\ Cardinality(c.writers) \in Nat BY JournalConstants
<1>5. Journal(c)!Size + Cardinality(Journal(c)!Ahead) < c.lines + Cardinality(c.writers)
  BY <1>2, <1>3, <1>4
<1> QED BY <1>2, <1>5, Room

LEMMA RoomStays ==
    ASSUME NEW c, Journal(c)!RoomInv, UNCHANGED journalVars
    PROVE  Journal(c)!RoomInv'
<1>1. UNCHANGED <<content, old, Journal(c)!Size, Journal(c)!Ahead>> BY JournalUnchanged
<1>2. UNCHANGED Journal(c)!Holding(old) BY <1>1, JournalUnchanged DEF Journal!Holding, journalVars
<1> QED BY <1>1, <1>2 DEF Journal!RoomInv

\* With room for those that write next the bound holds.
LEMMA RoomIsBounded ==
    ASSUME NEW c, Journal(c)!JournalConstantsOK, Journal(c)!JournalInv, Journal(c)!RoomInv
    PROVE  Journal(c)!Bounded
<1>0. Journal(c)!TypeOK BY DEF Journal!JournalInv
<1>1. /\ Cardinality(Journal(c)!Ahead) \in Nat /\ Cardinality(Journal(c)!Holding(old)) \in Nat
  BY SomeWriters DEF Journal!Ahead, Journal!Holding
<1>2. /\ c.lines \in Nat /\ Cardinality(c.writers) \in Nat
      /\ Journal(c)!Cardinality(c.writers) = Cardinality(c.writers)
  BY JournalConstants
<1>3. live # 0 => Journal(c)!Size = Len(content[live]) /\ Len(content[live]) \in Nat
  BY <1>0, JournalTypes DEF Journal!Size
<1>4. old # 0 => Len(content[old]) \in Nat BY <1>0, JournalTypes
<1>5. live # 0 => Len(content[live]) < c.lines + Cardinality(c.writers)
  BY <1>1, <1>2, <1>3, Room
<1>6. old # 0 => Len(content[old]) < c.lines + Cardinality(c.writers)
  BY <1>1, <1>2, <1>4, Room
<1> QED BY <1>2, <1>5, <1>6 DEF Journal!Bounded

\* Any journal of several writers stays within its bound, but for a line of each.
THEOREM JournalsAreBounded ==
    ASSUME NEW c, Journal(c)!JournalConstantsOK
    PROVE  Journal(c)!Spec => []Journal(c)!Bounded
<1> DEFINE Inv == Journal(c)!JournalInv /\ Journal(c)!RoomInv
<1>1. Journal(c)!Init => Inv BY JournalInit, RoomInit
<1>2. Inv /\ [Journal(c)!Next]_(Journal(c)!vars) => Inv'
  <2>1. UNCHANGED Journal(c)!vars => UNCHANGED journalVars
    BY DEF Journal!vars, Journal!files, Journal!writers, Journal!reader, journalVars
  <2> QED BY <2>1, JournalNext, JournalStays, RoomNext, RoomStays
<1>3. Inv => Journal(c)!Bounded BY RoomIsBounded
<1> QED BY <1>1, <1>2, <1>3, PTL DEF Journal!Spec

-----------------------------------------------------------------------------
\* What a journal of one writer keeps.
LEMMA RecentInit ==
    ASSUME NEW c, Journal(c)!JournalConstantsOK, Journal(c)!Init
    PROVE  Journal(c)!RecentInv
<1>1. Journal(c)!Size = 0 /\ Journal(c)!OldSize = 0 /\ Len(log) = 0
  BY EmptySeq DEF Journal!Init, Journal!Size, Journal!OldSize
<1>2. \A w \in c.writers : pc[w] = "idle" BY DEF Journal!Init
<1> QED BY <1>1, <1>2 DEF Journal!RecentInv

LEMMA RecentStays ==
    ASSUME NEW c, Journal(c)!RecentInv, UNCHANGED journalVars
    PROVE  Journal(c)!RecentInv'
BY JournalUnchanged DEF Journal!RecentInv

LEMMA RecentNext ==
    ASSUME NEW c, Journal(c)!JournalConstantsOK, Journal(c)!JournalInv, Journal(c)!RecentInv,
           Journal(c)!Next, NEW v, c.writers = {v}
    PROVE  Journal(c)!RecentInv'
<1> DEFINE n == Journal(c)!Size
           m == Journal(c)!OldSize
<1>0. Journal(c)!TypeOK /\ Journal(c)!FilesInOrder BY DEF Journal!JournalInv
<1>t. /\ pc \in [c.writers -> {"idle", "check", "unlink", "replace", "open", "write", "failed"}]
      /\ handle \in [c.writers -> Journal(c)!Generations \cup {0}]
      /\ n \in Nat /\ m \in Nat /\ Len(log) \in Nat /\ c.lines \in Nat \ {0}
      /\ v \in c.writers
  BY <1>0, JournalTypes, JournalConstants DEF Journal!TypeOK, Journal!OldSize
<1>r. /\ n + m <= Len(log) /\ (n + m >= c.lines \/ n + m = Len(log))
      /\ \A i \in 1 .. n : log[Len(log) - n + i] = content[live][i]
      /\ \A i \in 1 .. m : log[Len(log) - n - m + i] = content[old][i]
      /\ pc[v] = "write" => handle[v] = live
      /\ pc[v] \in {"unlink", "replace"} => n >= c.lines
      /\ pc[v] = "replace" => old = 0
  BY <1>t DEF Journal!RecentInv
<1>p. ASSUME NEW s, pc' = [pc EXCEPT ![v] = s] PROVE pc'[v] = s BY <1>p, <1>t
<1>1. ASSUME UNCHANGED <<content, live, old, log>>,
             pc'[v] = "write" => handle'[v] = live,
             pc'[v] \in {"unlink", "replace"} => n >= c.lines,
             pc'[v] = "replace" => old = 0
      PROVE  Journal(c)!RecentInv'
  <2>1. n' = n /\ m' = m BY <1>1 DEF Journal!Size, Journal!OldSize
  <2> HIDE DEF n, m
  <2> QED BY <1>1, <1>r, <2>1 DEF Journal!RecentInv, n, m
<1>2. CASE Journal(c)!Emit(v)
  <2>1. /\ UNCHANGED <<content, live, old, log>> /\ pc' = [pc EXCEPT ![v] = "check"]
    BY <1>2 DEF Journal!Emit, Journal!At, Journal!files
  <2> QED BY <1>1, <1>p, <2>1
<1>3. CASE Journal(c)!Check(v)
  <2>1. /\ UNCHANGED <<content, live, old, log>>
        /\ \/ pc' = [pc EXCEPT ![v] = "unlink"] /\ n >= c.lines
           \/ pc' = [pc EXCEPT ![v] = "open"]
    BY <1>3 DEF Journal!Check, Journal!At, Journal!files
  <2> QED BY <1>1, <1>p, <2>1
<1>4. CASE Journal(c)!Unlink(v)
  <2>1. /\ UNCHANGED <<content, live, log>> /\ pc' = [pc EXCEPT ![v] = "replace"]
        /\ old' = 0 /\ pc[v] = "unlink"
    BY <1>4 DEF Journal!Unlink, Journal!At
  <2>2. n' = n /\ m' = 0 BY <2>1 DEF Journal!Size, Journal!OldSize
  <2>3. n >= c.lines /\ n <= Len(log) /\ pc'[v] = "replace" BY <1>p, <1>r, <1>t, <2>1
  <2>4. /\ n' + m' <= Len(log') /\ n' + m' >= c.lines
    BY <1>t, <2>1, <2>2, <2>3
  <2>5. /\ \A i \in 1 .. n' : log'[Len(log') - n' + i] = content'[live'][i]
        /\ \A i \in 1 .. m' : log'[Len(log') - n' - m' + i] = content'[old'][i]
    BY <1>r, <2>1, <2>2
  <2>6. \A w \in c.writers : /\ pc'[w] = "write" => handle'[w] = live'
                             /\ pc'[w] \in {"unlink", "replace"} => n' >= c.lines
                             /\ pc'[w] = "replace" => old' = 0
    BY <2>1, <2>2, <2>3
  <2> QED BY <2>4, <2>5, <2>6 DEF Journal!RecentInv
<1>5. CASE Journal(c)!Replace(v) /\ live # 0
  <2>1. /\ UNCHANGED <<content, log>> /\ pc' = [pc EXCEPT ![v] = "open"]
        /\ old' = live /\ live' = 0 /\ pc[v] = "replace"
    BY <1>5 DEF Journal!Replace, Journal!At
  <2>2. n' = 0 /\ m' = n /\ m = 0
    BY <1>5, <1>r, <2>1 DEF Journal!Size, Journal!OldSize
  <2>3. n >= c.lines /\ n <= Len(log) /\ pc'[v] = "open" BY <1>p, <1>r, <1>t, <2>1, <2>2
  <2>4. /\ n' + m' <= Len(log') /\ n' + m' >= c.lines
    BY <1>t, <2>1, <2>2, <2>3
  <2>5. \A i \in 1 .. n' : log'[Len(log') - n' + i] = content'[live'][i]
    BY <2>2
  <2>6. \A i \in 1 .. m' : log'[Len(log') - n' - m' + i] = content'[old'][i]
    <3>1. Len(log') - n' - m' = Len(log) - n BY <1>t, <2>1, <2>2
    <3> QED BY <1>r, <2>1, <2>2, <3>1
  <2>7. \A w \in c.writers : pc'[w] = "open" BY <2>3
  <2> QED BY <2>4, <2>5, <2>6, <2>7 DEF Journal!RecentInv
<1>6. CASE Journal(c)!Replace(v) /\ live = 0
  <2>1. /\ UNCHANGED <<content, live, old, log>> /\ pc' = [pc EXCEPT ![v] = "failed"]
    BY <1>6 DEF Journal!Replace, Journal!At, Journal!files
  <2> QED BY <1>1, <1>p, <2>1
<1>7. CASE Journal(c)!Open(v)
  <2>1. /\ UNCHANGED <<content, old, log>> /\ pc' = [pc EXCEPT ![v] = "write"]
        /\ handle' = [handle EXCEPT ![v] = live']
        /\ live # 0 => live' = live
    BY <1>7 DEF Journal!Open, Journal!At
  <2>2. pc'[v] = "write" /\ handle'[v] = live' BY <1>p, <1>t, <2>1
  <2>3. m' = m BY <2>1 DEF Journal!OldSize
  <2>4. CASE live # 0 BY <1>1, <2>1, <2>2, <2>4
  <2>5. CASE live = 0
    <3>1. content[live'] = <<>> BY <1>7, <2>5, JournalOpens
    <3>2. n = 0 /\ n' = 0 BY <2>1, <2>5, <3>1, EmptySeq DEF Journal!Size
    <3>3. /\ n' + m' <= Len(log') /\ (n' + m' >= c.lines \/ n' + m' = Len(log'))
      BY <1>r, <2>1, <2>3, <3>2
    <3>4. /\ \A i \in 1 .. n' : log'[Len(log') - n' + i] = content'[live'][i]
          /\ \A i \in 1 .. m' : log'[Len(log') - n' - m' + i] = content'[old'][i]
      BY <1>r, <2>1, <2>3, <3>2
    <3> QED BY <2>2, <3>3, <3>4 DEF Journal!RecentInv
  <2> QED BY <2>4, <2>5
<1>8. CASE Journal(c)!Write(v)
  <2>1. /\ UNCHANGED <<live, old>> /\ pc[v] = "write" /\ pc' = [pc EXCEPT ![v] = "idle"]
    BY <1>8 DEF Journal!Write, Journal!At
  <2>2. handle[v] = live /\ live \in Journal(c)!Generations /\ live # 0
    BY <1>0, <1>8, <1>r, <2>1, JournalAppends, JournalTypes
  <2>3. /\ Len(log') = Len(log) + 1 /\ log'[Len(log) + 1] = <<v, seq[v]>>
        /\ \A i \in 1 .. Len(log) : log'[i] = log[i]
        /\ \A g \in Journal(c)!Generations : g # live => content'[g] = content[g]
        /\ Len(content'[live]) = Len(content[live]) + 1
        /\ content'[live][Len(content[live]) + 1] = <<v, seq[v]>>
        /\ \A i \in 1 .. Len(content[live]) : content'[live][i] = content[live][i]
    <3> DEFINE Appends(h) ==
          /\ Len(log') = Len(log) + 1 /\ log'[Len(log) + 1] = <<v, seq[v]>>
          /\ \A i \in 1 .. Len(log) : log'[i] = log[i]
          /\ \A g \in Journal(c)!Generations : g # h => content'[g] = content[g]
          /\ Len(content'[h]) = Len(content[h]) + 1
          /\ content'[h][Len(content[h]) + 1] = <<v, seq[v]>>
          /\ \A i \in 1 .. Len(content[h]) : content'[h][i] = content[h][i]
    <3>1. Appends(handle[v]) BY <1>8, <1>t, JournalAppends
    <3> HIDE DEF Appends
    <3>2. Appends(live) BY <2>2, <3>1
    <3> QED BY <3>2 DEF Appends
  <2>4. n = Len(content[live]) /\ n' = n + 1
    BY <2>1, <2>2, <2>3 DEF Journal!Size
  <2>5. old # 0 => content'[old] = content[old]
    BY <1>0, <2>2, <2>3, JournalTypes DEF Journal!TypeOK
  <2>6. m' = m BY <2>1, <2>5 DEF Journal!OldSize
  <2>7. old = 0 => m = 0 BY DEF Journal!OldSize
  <2> HIDE DEF n, m
  <2>a. PICK a \in Nat : a = n BY <1>t
  <2>b. PICK b \in Nat : b = m BY <1>t
  <2>l. PICK l \in Nat : l = Len(log) BY <1>t
  <2>k. PICK k \in Nat : k = c.lines BY <1>t
  <2>e. /\ n = a /\ n' = a + 1 /\ m = b /\ m' = b /\ Len(log) = l /\ Len(log') = l + 1
        /\ c.lines = k
    BY <2>3, <2>4, <2>6, <2>a, <2>b, <2>l, <2>k
  <2>f. a + b <= l /\ (a + b >= k \/ a + b = l) BY <1>r, <2>e
  <2>8. /\ n' + m' <= Len(log') /\ (n' + m' >= c.lines \/ n' + m' = Len(log'))
    <3>1. /\ (a + 1) + b <= l + 1 /\ ((a + 1) + b >= k \/ (a + 1) + b = l + 1) BY <2>f
    <3> QED BY <2>e, <3>1
  <2>9. ASSUME NEW i \in 1 .. n' PROVE log'[Len(log') - n' + i] = content'[live'][i]
    <3>1. Len(log') - n' + i = l - a + i /\ i \in 1 .. a + 1
      <4>1. i \in 1 .. a + 1 BY <2>e
      <4>2. (l + 1) - (a + 1) + i = l - a + i BY <4>1
      <4> QED BY <2>e, <4>1, <4>2
    <3>2. CASE i = a + 1
      <4>1. l - a + i = l + 1 BY <3>2
      <4>2. log'[l + 1] = <<v, seq[v]>> BY <2>3, <2>e
      <4>3. content'[live][a + 1] = <<v, seq[v]>> BY <2>3, <2>4, <2>e
      <4> QED BY <2>1, <3>1, <3>2, <4>1, <4>2, <4>3
    <3>3. CASE i \in 1 .. a
      <4>1. l - a + i \in 1 .. l BY <2>f, <3>3
      <4>2. log'[l - a + i] = log[l - a + i] BY <2>3, <2>e, <4>1
      <4>3. log[l - a + i] = content[live][i] BY <1>r, <2>e, <3>3
      <4>4. content'[live][i] = content[live][i] BY <2>3, <2>4, <2>e, <3>3
      <4> QED BY <2>1, <3>1, <4>2, <4>3, <4>4
    <3> QED BY <3>1, <3>2, <3>3
  <2>10. ASSUME NEW i \in 1 .. m' PROVE log'[Len(log') - n' - m' + i] = content'[old'][i]
    <3>0. i \in 1 .. b BY <2>e
    <3>1. /\ (l + 1) - (a + 1) - b + i = l - a - b + i /\ l - a - b + i \in 1 .. l
      BY <2>f, <3>0
    <3>2. Len(log') - n' - m' + i = l - a - b + i BY <2>e, <3>1
    <3>3. old # 0 BY <2>7, <2>e, <3>0
    <3>4. log'[l - a - b + i] = log[l - a - b + i] BY <2>3, <2>e, <3>1
    <3>5. log[l - a - b + i] = content[old][i] BY <1>r, <2>e, <3>0
    <3> QED BY <2>1, <2>5, <3>2, <3>3, <3>4, <3>5
  <2>11. \A w \in c.writers : pc'[w] = "idle" BY <1>p, <2>1
  <2> QED BY <2>8, <2>9, <2>10, <2>11 DEF Journal!RecentInv, n, m
<1>9. CASE Journal(c)!TailFirst \/ Journal(c)!Follow \/ Journal(c)!Poll \/ Journal(c)!Read
  <2>1. UNCHANGED <<content, live, old, pc, seq, handle, log>> BY <1>9, JournalStreams
  <2> QED BY <1>1, <1>r, <2>1
<1> QED BY <1>2, <1>3, <1>4, <1>5, <1>6, <1>7, <1>8, <1>9
  DEF Journal!Next, Journal!Writing

LEMMA RecentIsOnDisk ==
    ASSUME NEW c, Journal(c)!JournalConstantsOK, Journal(c)!JournalInv, Journal(c)!RecentInv
    PROVE  Journal(c)!RecentOnDisk
<1> DEFINE n == Journal(c)!Size
           m == Journal(c)!OldSize
<1>0. Journal(c)!TypeOK BY DEF Journal!JournalInv
<1>t. /\ n \in Nat /\ m \in Nat /\ Len(log) \in Nat /\ c.lines \in Nat \ {0}
      /\ DOMAIN log = 1 .. Len(log)
  BY <1>0, JournalTypes, JournalConstants, LenProperties DEF Journal!TypeOK, Journal!OldSize
<1>r. /\ n + m <= Len(log) /\ (n + m >= c.lines \/ n + m = Len(log))
      /\ \A i \in 1 .. n : log[Len(log) - n + i] = content[live][i]
      /\ \A i \in 1 .. m : log[Len(log) - n - m + i] = content[old][i]
  BY DEF Journal!RecentInv
<1>1. n >= 1 => live # 0 /\ DOMAIN content[live] = 1 .. n
  BY <1>0, JournalTypes DEF Journal!Size
<1>2. m >= 1 => old # 0 /\ DOMAIN content[old] = 1 .. m
  BY <1>0, JournalTypes DEF Journal!OldSize
<1> HIDE DEF n, m
<1> SUFFICES ASSUME NEW i \in DOMAIN log, i > Len(log) - c.lines
             PROVE  \E g \in {live, old} \ {0} : Journal(c)!Has(content[g], log[i])
  BY DEF Journal!RecentOnDisk
<1>3. i \in 1 .. Len(log) /\ i > Len(log) - n - m BY <1>r, <1>t
<1>4. CASE i > Len(log) - n
  <2>1. PICK j \in Int : j = i - (Len(log) - n) BY <1>3, <1>t
  <2>2. j \in 1 .. n /\ Len(log) - n + j = i BY <1>3, <1>4, <1>t, <2>1
  <2>3. log[i] = content[live][j] BY <1>r, <2>2
  <2>4. live # 0 /\ j \in DOMAIN content[live] BY <1>1, <1>t, <2>2
  <2> QED BY <2>3, <2>4 DEF Journal!Has
<1>5. CASE ~(i > Len(log) - n)
  <2>1. PICK j \in Int : j = i - (Len(log) - n - m) BY <1>3, <1>t
  <2>2. j \in 1 .. m /\ Len(log) - n - m + j = i BY <1>3, <1>5, <1>t, <2>1
  <2>3. log[i] = content[old][j] BY <1>r, <2>2
  <2>4. old # 0 /\ j \in DOMAIN content[old] BY <1>2, <1>t, <2>2
  <2> QED BY <2>3, <2>4 DEF Journal!Has
<1> QED BY <1>4, <1>5

\* Any journal of one writer: its last lines, as many as it may hold, are on disk,
\* whatever was rotated away.
THEOREM LastLinesStay ==
    ASSUME NEW c, Journal(c)!JournalConstantsOK, NEW v, c.writers = {v}
    PROVE  Journal(c)!Spec => []Journal(c)!RecentOnDisk
<1> DEFINE Inv == Journal(c)!JournalInv /\ Journal(c)!RecentInv
<1>1. Journal(c)!Init => Inv BY JournalInit, RecentInit
<1>2. Inv /\ [Journal(c)!Next]_(Journal(c)!vars) => Inv'
  <2>1. UNCHANGED Journal(c)!vars => UNCHANGED journalVars
    BY DEF Journal!vars, Journal!files, Journal!writers, Journal!reader, journalVars
  <2> QED BY <2>1, JournalNext, JournalStays, RecentNext, RecentStays
<1>3. Inv => Journal(c)!RecentOnDisk BY RecentIsOnDisk
<1> QED BY <1>1, <1>2, <1>3, PTL DEF Journal!Spec

-----------------------------------------------------------------------------
\* The journals of the composition.
JournalsInv ==
    /\ part = "shared" => Journal(Shared)!JournalInv /\ Journal(Shared)!RoomInv
    /\ part = "own" => Journal(Own)!JournalInv /\ Journal(Own)!RecentInv
    /\ part = "long" => Journal(Long)!JournalInv

LEMMA JournalsInvariant == PartSpec => []JournalsInv
<1>0. /\ Journal(Shared)!JournalConstantsOK /\ Journal(Own)!JournalConstantsOK
      /\ Journal(Long)!JournalConstantsOK /\ Own.writers = {service}
  BY PartsOK DEF Own
<1>1. PartInit => JournalsInv
  BY <1>0, JournalInit, RoomInit, RecentInit DEF PartInit, JournalsInv
<1>2. JournalsInv /\ [PartNext]_all => JournalsInv'
  <2> SUFFICES ASSUME JournalsInv, [PartNext]_all PROVE JournalsInv' OBVIOUS
  <2>1. CASE UNCHANGED <<part, journalVars>>
    BY <1>0, <2>1, JournalStays, RoomStays, RecentStays DEF JournalsInv
  <2>2. CASE part = "shared" /\ Journal(Shared)!Next /\ OnlyJournal
    <3>1. part' = "shared" /\ Journal(Shared)!JournalInv /\ Journal(Shared)!RoomInv
      BY <2>2 DEF OnlyJournal, JournalsInv
    <3>2. Journal(Shared)!JournalInv' BY <1>0, <2>2, <3>1, JournalNext
    <3>3. Journal(Shared)!RoomInv' BY <1>0, <2>2, <3>1, RoomNext
    <3> QED BY <3>1, <3>2, <3>3 DEF JournalsInv
  <2>3. CASE part = "own" /\ Journal(Own)!Next /\ OnlyJournal
    <3>1. part' = "own" /\ Journal(Own)!JournalInv /\ Journal(Own)!RecentInv
      BY <2>3 DEF OnlyJournal, JournalsInv
    <3>2. Journal(Own)!JournalInv' BY <1>0, <2>3, <3>1, JournalNext
    <3>3. Journal(Own)!RecentInv' BY <1>0, <2>3, <3>1, RecentNext
    <3> QED BY <3>1, <3>2, <3>3 DEF JournalsInv
  <2>4. CASE part = "long" /\ Journal(Long)!Next /\ OnlyJournal
    <3>1. part' = "long" /\ Journal(Long)!JournalInv
      BY <2>4 DEF OnlyJournal, JournalsInv
    <3>2. Journal(Long)!JournalInv' BY <1>0, <2>4, <3>1, JournalNext
    <3> QED BY <3>1, <3>2 DEF JournalsInv
  <2>5. UNCHANGED <<part, journalVars>> \/ PartNext BY DEF all
  <2> QED BY <2>1, <2>2, <2>3, <2>4, <2>5
    DEF PartNext, OnlyService, OnlyBatch, OnlySizer, OnlyPromotion
<1> QED BY <1>1, <1>2, PTL DEF PartSpec

\* Within its bounds the journal loses nothing, and its stream repeats nothing.
THEOREM JournalIsKept == PartSpec => []JournalKept
<1>1. JournalsInv => InOrder
  BY DEF JournalsInv, InOrder, Journal!JournalInv, Journal!StreamInOrder, Journal!Ordered,
     Journal!InOrder
<1>2. JournalsInv => RecentOnDisk
  BY PartsOK, RecentIsOnDisk DEF JournalsInv, RecentOnDisk
<1>3. JournalsInv => JournalKept BY <1>1, <1>2 DEF JournalKept
<1> QED BY <1>3, JournalsInvariant, PTL

-----------------------------------------------------------------------------
(* The load of the service *)

SizedInv == part = "sizer" => Sizer(Small)!SizerInv

LEMMA SizedInvariant == PartSpec => []SizedInv
<1>0. Sizer(Small)!SizerConstantsOK BY PartsOK
<1>1. PartInit => SizedInv BY <1>0, SizerInit DEF PartInit, SizedInv
<1>2. SizedInv /\ [PartNext]_all => SizedInv'
  <2> SUFFICES ASSUME SizedInv, [PartNext]_all PROVE SizedInv' OBVIOUS
  <2>1. CASE UNCHANGED <<part, sizerVars>> BY <2>1, SizerStays DEF SizedInv
  <2>2. CASE part = "sizer" /\ Sizer(Small)!Next /\ OnlySizer
    <3>1. part' = "sizer" /\ Sizer(Small)!SizerInv BY <2>2 DEF OnlySizer, SizedInv
    <3>2. Sizer(Small)!SizerInv' BY <1>0, <2>2, <3>1, SizerStep
    <3> QED BY <3>1, <3>2 DEF SizedInv
  <2>3. UNCHANGED <<part, sizerVars>> \/ PartNext BY DEF all
  <2> QED BY <2>1, <2>2, <2>3
    DEF PartNext, OnlyService, OnlyBatch, OnlyJournal, OnlyPromotion
<1> QED BY <1>1, <1>2, PTL DEF PartSpec

\* The service's load is bounded: what its loop keeps, what is under way of a
\* batch, the size of batches, and the journal.
THEOREM LoadIsBounded == PartSpec => []LoadBounded
<1>1. BatchesInv => InFlightBounded
  BY PartsOK, BatchIsBounded DEF BatchesInv, InFlightBounded
<1>2. SizedInv => Adapts BY PartsOK, SizerAdapts DEF SizedInv, Adapts
<1>3. JournalsInv => Bounded BY PartsOK, RoomIsBounded DEF JournalsInv, Bounded
<1>4. BatchesInv /\ SizedInv /\ JournalsInv /\ PromotedInv => PartsTyped
  BY DEF BatchesInv, SizedInv, JournalsInv, PromotedInv, PartsTyped, Batch!BatchInv,
     Sizer!SizerInv, Journal!JournalInv, Promoted!PromotionInv
<1>5. TypeOK /\ BatchesInv /\ SizedInv /\ JournalsInv /\ PromotedInv => LoadBounded
  BY <1>1, <1>2, <1>3, <1>4 DEF LoadBounded
<1> QED
  BY <1>5, PartsImplementLoop, LoopIsBounded, BatchesInvariant, SizedInvariant,
     JournalsInvariant, PromotedInvariant, PTL
=============================================================================
