------------------------- MODULE HistoryCompaction -------------------------
(***************************************************************************)
(* What the compacting catalog history keeps of the observations it is     *)
(* given (history_compaction.py over history.py).  An observation is       *)
(* stored once per run and listing; when it says what the listing's last   *)
(* stored observation says and that one is recent, what the run stored of  *)
(* the listing is deleted again, in a second transaction.                  *)
(***************************************************************************)
EXTENDS Integers

CONSTANTS
    Listings,
    Payloads, Shown,    \* Shown: the columns of listing_state a payload gives
    Heartbeat,          \* unchanged_heartbeat_s
    EndOfTime, MaxRuns  \* bounds

CompactionConstantsOK ==
    /\ Heartbeat \in Nat \ {0} /\ EndOfTime \in Nat /\ MaxRuns \in Nat
    /\ DOMAIN Shown = Payloads

VARIABLES
    now,
    runs, running,  \* refresh_runs, and whether the last one is under way
    rows,           \* stored observations of each listing
    last,           \* listing_state: payload and last_seen_at; <<>> when there is none
    gone,           \* listings that disappeared
    done,           \* listings the run has recorded
    again,          \* listings that some run has recorded more than once
    removable       \* of the batch that was just stored

vars == <<now, runs, running, rows, last, gone, done, again, removable>>

StoredRow == [run : 1 .. MaxRuns, at : 0 .. EndOfTime, payload : Payloads]

\* UNIQUE(run_id, source, source_id).
OnePerRun(l) == \A row, other \in rows[l] : row.run = other.run => row = other

\* ORDER BY id DESC LIMIT 1: ids are given in the order of the runs.
Latest(l) == CHOOSE row \in rows[l] : \A other \in rows[l] : other.run <= row.run

TypeOK ==
    /\ now \in 0 .. EndOfTime /\ runs \in 0 .. MaxRuns /\ running \in BOOLEAN
    /\ rows \in [Listings -> SUBSET StoredRow] /\ \A l \in Listings : OnePerRun(l)
    /\ \A l \in Listings : last[l] = <<>> \/ last[l] \in Payloads \X (0 .. now)
    /\ gone \subseteq Listings /\ done \subseteq Listings /\ again \subseteq Listings
    /\ removable \subseteq done

Init ==
    /\ now = 0 /\ runs = 0 /\ running = FALSE
    /\ rows = [l \in Listings |-> {}] /\ last = [l \in Listings |-> <<>>]
    /\ gone = {} /\ done = {} /\ again = {} /\ removable = {}

Tick == now < EndOfTime /\ now' = now + 1 /\ UNCHANGED <<runs, running, rows, last, gone, done, again, removable>>

BeginRefresh ==
    /\ ~running /\ runs < MaxRuns
    /\ runs' = runs + 1 /\ running' = TRUE /\ done' = {}
    /\ UNCHANGED <<now, rows, last, gone, again, removable>>

\* Some listings the run has not seen have been missing for long enough.
FinishRefresh(missing) ==
    /\ running /\ removable = {}
    /\ missing \subseteq {l \in Listings \ done : last[l] # <<>>}
    /\ gone' = gone \cup missing /\ running' = FALSE
    /\ UNCHANGED <<now, runs, rows, last, done, again, removable>>

\* The run is aborted, or its process dies: a deletion may not have happened.
Stop ==
    /\ running
    /\ running' = FALSE /\ removable' = {}
    /\ UNCHANGED <<now, runs, rows, last, gone, done, again>>

\* The listing changes of _record_batch_sync.
Changed(l, payload) ==
    last[l] # <<>> /\ (Shown[last[l][1]] # Shown[payload] \/ l \in gone)

\* Faulty: only what listing_state shows is compared.
UnchangedShown(l, payload) ==
    /\ ~Changed(l, payload)
    /\ rows[l] # {} /\ now - Latest(l).at < Heartbeat

\* Faulty: the last sighting is compared, not the last stored observation.
UnchangedSinceSeen(l, payload) ==
    /\ ~Changed(l, payload)
    /\ rows[l] # {} /\ Latest(l).payload = payload /\ now - last[l][2] < Heartbeat

Unchanged(l, payload) ==
    /\ ~Changed(l, payload)
    /\ rows[l] # {} /\ Latest(l).payload = payload /\ now - Latest(l).at < Heartbeat

\* INSERT OR IGNORE.
Stored(l, payload) ==
    IF \E row \in rows[l] : row.run = runs THEN rows[l]
    ELSE rows[l] \cup {[run |-> runs, at |-> now, payload |-> payload]}

\* super()._record_batch_sync, with what was read before it.
RecordBatch(batch) ==
    /\ running /\ removable = {}
    /\ rows' = [l \in Listings |-> IF l \in DOMAIN batch THEN Stored(l, batch[l]) ELSE rows[l]]
    /\ last' = [l \in Listings |-> IF l \in DOMAIN batch THEN <<batch[l], now>> ELSE last[l]]
    /\ gone' = gone \ DOMAIN batch /\ done' = done \cup DOMAIN batch
    /\ again' = again \cup (DOMAIN batch \cap done)
    /\ removable' = {l \in DOMAIN batch : Unchanged(l, batch[l])}
    /\ UNCHANGED <<now, runs, running>>

\* Faulty: whatever is stored of the listing.
RemainingNone(l) == {}

Remaining(l) == {row \in rows[l] : row.run # runs}

Compact ==
    /\ removable # {}
    /\ rows' = [l \in Listings |-> IF l \in removable THEN Remaining(l) ELSE rows[l]]
    /\ removable' = {}
    /\ UNCHANGED <<now, runs, running, last, gone, done, again>>

Next ==
    \/ Tick \/ BeginRefresh \/ Stop \/ Compact
    \/ \E missing \in SUBSET Listings : FinishRefresh(missing)
    \/ \E ls \in SUBSET Listings \ {{}} : \E batch \in [ls -> Payloads] : RecordBatch(batch)

Spec == Init /\ [][Next]_vars

-----------------------------------------------------------------------------
(* Properties *)

\* The active record of a listing is put together from its last stored payload
\* (active_records.py), which is the one it was last seen with, unless a run
\* recorded the listing more than once: the deletion of an unchanged sighting
\* then takes the run's earlier, changed one as well.
LatestKept ==
    \A l \in Listings \ again : last[l] # <<>> => rows[l] # {} /\ Latest(l).payload = last[l][1]

\* A listing that is seen, once in a run, has a stored observation younger than
\* the heartbeat, however often it was compacted.
HeartbeatKept ==
    \A l \in Listings \ (removable \cup again) :
        last[l] # <<>> => last[l][2] - Latest(l).at < Heartbeat

Before(l, row) == {other \in rows[l] : other.run < row.run}

\* The observations that say something new of a listing.
Changes(l) ==
    {row \in rows[l] : \A previous \in Before(l, row) :
        Before(l, row) = Before(l, previous) \cup {previous} => previous.payload # row.payload}

\* Compaction never reaches the observations of earlier runs.
OlderRunsKept == \A l \in Listings : {row \in rows[l] : row.run < runs} \subseteq rows'[l]

\* No step takes back a change of payload that was stored by an earlier run, nor,
\* of a listing that no run recorded more than once, by this one.
EvidenceGrows ==
    /\ OlderRunsKept
    /\ \A l \in Listings \ again : Changes(l) \subseteq Changes(l)'

\* The stored observation that stands for what was last seen of a listing: but
\* for what may be deleted, the last one.
StandsFor(l, row) ==
    /\ row.payload = last[l][1] /\ last[l][2] - row.at < Heartbeat
    /\ l \in removable => row.run < runs
    /\ \A other \in rows[l] \ {row} :
          other.run < row.run \/ (l \in removable /\ other.run = runs)

\* What holds of every listing.
RunsInv ==
    /\ TypeOK /\ (running => runs >= 1) /\ (~running => removable = {})
    /\ \A l \in Listings : \A row \in rows[l] : row.run <= runs

\* The inductive invariant: what may be deleted of a listing that every run recorded
\* once is of the run under way, and an earlier observation stands for it.
CompactionInv ==
    /\ RunsInv
    /\ \A l \in Listings \ again :
          /\ \A row \in rows[l] : running /\ row.run = runs => l \in done
          /\ last[l] = <<>> => rows[l] = {} /\ l \notin removable
          /\ last[l] # <<>> => \E row \in rows[l] : StandsFor(l, row)
    /\ \A l \in removable \ again : \E row \in rows[l] :
          row.run = runs /\ row.payload = last[l][1] /\ row.at = last[l][2]
=============================================================================
