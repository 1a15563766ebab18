--------------------------- MODULE CatalogHistory --------------------------
(***************************************************************************)
(* The canonical catalog history (history.py): when a listing counts as    *)
(* disappeared.                                                            *)
(*                                                                         *)
(* A refresh run records the batches it is given and is then finished with *)
(* the sources that were polled successfully and what was seen of them.    *)
(* Every database operation is one transaction on a single-threaded        *)
(* executor, so it is one step; the run itself is not atomic: it may be    *)
(* aborted, or its process may die, between any two of them.               *)
(***************************************************************************)
EXTENDS Integers

CONSTANTS
    Sources, Listings,
    SourceOf,          \* the source of a listing
    DisappearAfter     \* disappearance_after_runs

VARIABLES
    listing,   \* listing_state: missing_runs and disappeared of each row
    run,       \* the refresh run being written: none or running
    seen       \* its seen_by_source

historyVars == <<listing, run, seen>>

\* missing_runs is kept up to the threshold, past which nothing reads it.
Row == [known : BOOLEAN, missing : 0 .. DisappearAfter, gone : BOOLEAN]

HistoryTypeOK ==
    /\ listing \in [Listings -> Row]
    /\ run \in {"none", "running"}
    /\ seen \subseteq Listings

\* The database may hold listings of earlier cycles.
HistoryInit ==
    /\ \E known \in SUBSET Listings :
          listing = [l \in Listings |-> [known |-> l \in known, missing |-> 0, gone |-> FALSE]]
    /\ run = "none"
    /\ seen = {}

BeginRefresh ==
    /\ run = "none"
    /\ run' = "running"
    /\ seen' = {}
    /\ UNCHANGED listing

\* One batch: its listings are upserted with missing_runs = 0, disappeared = 0.
RecordBatch(observations) ==
    /\ run = "running"
    /\ seen' = seen \cup observations
    /\ listing' = [l \in Listings |->
                     IF l \in observations THEN [known |-> TRUE, missing |-> 0, gone |-> FALSE]
                     ELSE listing[l]]
    /\ UNCHANGED run

\* A known listing of a successful source that the run has not seen.
Missed(row) ==
    LET missing == IF row.missing < DisappearAfter THEN row.missing + 1 ELSE row.missing
    IN  [row EXCEPT !.missing = missing, !.gone = missing >= DisappearAfter]

FinishRefresh(successful) ==
    /\ run = "running"
    /\ listing' = [l \in Listings |->
                     IF SourceOf[l] \in successful /\ listing[l].known /\ l \notin seen
                     THEN Missed(listing[l]) ELSE listing[l]]
    /\ run' = "none"
    /\ seen' = {}

\* The run is aborted, or its process dies: what it recorded stays.
AbortRefresh ==
    /\ run = "running"
    /\ run' = "none"
    /\ seen' = {}
    /\ UNCHANGED listing
=============================================================================
