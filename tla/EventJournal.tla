---------------------------- MODULE EventJournal ----------------------------
(***************************************************************************)
(* The event journal (event_log.py): a file of lines that the discovery    *)
(* service and the dashboard both append to, each through an EventJournal  *)
(* of its own process, that is rotated when it is full, and that the       *)
(* dashboard's event stream (dashboard_service.py, _events) follows.  The  *)
(* lock of a journal orders the writes of its process only; the file       *)
(* operations of two processes interleave.                                 *)
(*                                                                         *)
(* Lines have the same length here; sizes and offsets count lines.  A file *)
(* is a generation with a content: an open handle keeps its generation     *)
(* whatever its path is renamed to.                                        *)
(***************************************************************************)
EXTENDS Integers, Sequences, FiniteSets

CONSTANTS
    Writers,
    MaxLines,       \* max_bytes
    TailLines,      \* lines the stream shows first
    MaxEvents       \* bound: events of each writer

JournalConstantsOK ==
    /\ IsFiniteSet(Writers) /\ MaxLines \in Nat \ {0}
    /\ TailLines \in Nat /\ MaxEvents \in Nat

Generations == 1 .. MaxEvents * Cardinality(Writers)

VARIABLES
    content, live, old,     \* the files; the one at the path, the one at path.1 (0: none)
    pc, seq, handle,        \* each writer: its next file operation, _sequence, open file
    stream, offset, got,    \* the follower: its next operation, its offset, what it yielded
    log, since              \* observed: lines in the order written; those before the stream

files == <<content, live, old>>
writers == <<pc, seq, handle>>
reader == <<stream, offset, got, since>>
vars == <<files, writers, reader, log>>

Events == Writers \X (1 .. MaxEvents)
Has(lines, e) == \E i \in DOMAIN lines : lines[i] = e
Size == IF live = 0 THEN 0 ELSE Len(content[live])

TypeOK ==
    /\ content \in [Generations -> Seq(Events)] /\ {live, old} \subseteq Generations \cup {0}
    /\ live = 0 \/ live # old
    /\ pc \in [Writers -> {"idle", "check", "unlink", "replace", "open", "write", "failed"}]
    /\ seq \in [Writers -> 0 .. MaxEvents] /\ handle \in [Writers -> Generations \cup {0}]
    /\ stream \in {"none", "tailed", "poll", "read", "failed"}
    /\ log \in Seq(Events) /\ {offset, since} \subseteq 0 .. Len(log) /\ got \in Seq(Events)

Init ==
    /\ content = [g \in Generations |-> <<>>] /\ live = 0 /\ old = 0
    /\ pc = [w \in Writers |-> "idle"] /\ seq = [w \in Writers |-> 0]
    /\ handle = [w \in Writers |-> 0]
    /\ stream = "none" /\ offset = 0 /\ got = <<>> /\ log = <<>> /\ since = 0

-----------------------------------------------------------------------------
(* Writers *)

At(w, here, there) == pc[w] = here /\ pc' = [pc EXCEPT ![w] = there]

Emit(w) ==
    /\ seq[w] < MaxEvents /\ At(w, "idle", "check")
    /\ seq' = [seq EXCEPT ![w] = @ + 1]
    /\ UNCHANGED <<files, handle, reader, log>>

\* _append_sync: is the file full?
Check(w) ==
    /\ At(w, "check", IF Size >= MaxLines THEN "unlink" ELSE "open")
    /\ UNCHANGED <<files, seq, handle, reader, log>>

Unlink(w) ==
    /\ At(w, "unlink", "replace")
    /\ old' = 0
    /\ UNCHANGED <<content, live, seq, handle, reader, log>>

\* Faulty: the full file is deleted.
ReplaceDeleting(w) ==
    /\ At(w, "replace", "open") /\ live # 0
    /\ live' = 0 /\ UNCHANGED <<content, old, seq, handle, reader, log>>

\* The file may have been rotated by the other process meanwhile; emit then
\* raises FileNotFoundError.
Replace(w) ==
    \/ /\ At(w, "replace", "open") /\ live # 0
       /\ old' = live /\ live' = 0
       /\ UNCHANGED <<content, seq, handle, reader, log>>
    \/ /\ At(w, "replace", "failed") /\ live = 0
       /\ UNCHANGED <<files, seq, handle, reader, log>>

Open(w) ==
    /\ At(w, "open", "write")
    /\ live' = IF live # 0 THEN live
               ELSE CHOOSE g \in Generations :
                      content[g] = <<>> /\ g # old /\ \A v \in Writers : handle[v] # g
    /\ handle' = [handle EXCEPT ![w] = live']
    /\ UNCHANGED <<content, old, seq, reader, log>>

Write(w) ==
    /\ At(w, "write", "idle")
    /\ content' = [content EXCEPT ![handle[w]] = Append(@, <<w, seq[w]>>)]
    /\ handle' = [handle EXCEPT ![w] = 0]
    /\ log' = Append(log, <<w, seq[w]>>)
    /\ UNCHANGED <<live, old, seq, reader>>

-----------------------------------------------------------------------------
(* The event stream *)

\* tail
TailFirst ==
    /\ stream = "none" /\ stream' = "tailed"
    /\ got' = IF live = 0 THEN <<>>
              ELSE SubSeq(content[live], IF Size > TailLines THEN Size - TailLines + 1 ELSE 1, Size)
    /\ since' = Len(log)
    /\ UNCHANGED <<files, writers, offset, log>>

\* follow(start_at_end=True)
Follow ==
    /\ stream = "tailed" /\ stream' = "poll"
    /\ offset' = Size
    /\ UNCHANGED <<files, writers, got, since, log>>

\* Faulty: a file that did not grow counts as a new one.
PollRepeating ==
    /\ stream = "poll" /\ live # 0
    /\ stream' = "read"
    /\ offset' = IF Size <= offset THEN 0 ELSE offset
    /\ UNCHANGED <<files, writers, got, since, log>>

\* Faulty: the stream starts at the end at every look.
PollAtEnd ==
    /\ stream = "poll" /\ live # 0 /\ offset # Size
    /\ offset' = Size
    /\ UNCHANGED <<files, writers, stream, got, since, log>>

\* A shorter file is a new one.
Poll ==
    /\ stream = "poll" /\ live # 0
    /\ LET from == IF Size < offset THEN 0 ELSE offset IN
       /\ from # Size \/ from # offset
       /\ offset' = from
       /\ stream' = IF from = Size THEN "poll" ELSE "read"
    /\ UNCHANGED <<files, writers, got, since, log>>

\* _read_from opens the path again; what it finds there may be another file,
\* or none.
Read ==
    /\ stream = "read"
    /\ IF live = 0
       THEN stream' = "failed" /\ UNCHANGED <<offset, got>>
       ELSE /\ stream' = "poll"
            /\ got' = got \o SubSeq(content[live], offset + 1, Size)
            /\ offset' = IF Size > offset THEN Size ELSE offset
    /\ UNCHANGED <<files, writers, since, log>>

Writing(w) == Check(w) \/ Unlink(w) \/ Replace(w) \/ Open(w) \/ Write(w)

Next == \/ \E w \in Writers : Emit(w) \/ Writing(w)
        \/ TailFirst \/ Follow \/ Poll \/ Read

\* The stream's task keeps polling, and a write that began ends.
Fairness == /\ WF_vars(Follow) /\ WF_vars(Poll) /\ WF_vars(Read)
            /\ \A w \in Writers : WF_vars(Writing(w))

Spec == Init /\ [][Next]_vars /\ Fairness

-----------------------------------------------------------------------------
(* Properties *)

\* The journal stays within its bound: each other writer may add one line
\* after its own look at the size (_append_sync).
Bounded == \A g \in {live, old} \ {0} : Len(content[g]) < MaxLines + Cardinality(Writers)

\* The stream yields no event twice and the events of each writer in order,
\* across rotations and files that changed between size and read (follow).
InOrder ==
    \A i, j \in DOMAIN got : i < j /\ got[i][1] = got[j][1] => got[i][2] < got[j][2]

\* The last MaxLines lines are on disk, in the journal or in the rotated file
\* ("The journal is bounded and rotates to `events.jsonl.1`").
RecentOnDisk ==
    \A i \in DOMAIN log : i > Len(log) - MaxLines =>
        \E g \in {live, old} \ {0} : Has(content[g], log[i])

\* An event of its writer that it has written, if it is not writing it now.
Past(e) == e[2] <= seq[e[1]] /\ (pc[e[1]] # "idle" => e[2] < seq[e[1]])

\* A file has lines or is open for its first, if it is not new.
Used(g) == content[g] # <<>> \/ \E w \in Writers : handle[w] = g

\* The lines of each writer are in order.
Ordered(lines) ==
    \A i, j \in DOMAIN lines :
        i < j /\ lines[i][1] = lines[j][1] => lines[i][2] < lines[j][2]

Lines == IF live = 0 THEN <<>> ELSE content[live]

\* What is behind the first n lines is later than what was yielded.
Later(n) ==
    \A i \in DOMAIN got : \A j \in DOMAIN Lines :
        j > n /\ got[i][1] = Lines[j][1] => got[i][2] < Lines[j][2]

\* Each line is in one file, in the order of its writer, and the files in use
\* are not taken for new ones.
FilesInOrder ==
    /\ \A w \in Writers : /\ handle[w] # 0 <=> pc[w] = "write"
                          /\ pc[w] # "idle" => seq[w] >= 1
    /\ live # 0 => Used(live)
    /\ old # 0 => Used(old)
    /\ \A g \in Generations : /\ Ordered(content[g]) /\ Len(content[g]) <= Len(log)
                              /\ \A i \in DOMAIN content[g] : Past(content[g][i])
    /\ \A g, h \in Generations : \A i \in DOMAIN content[g], j \in DOMAIN content[h] :
          content[g][i] = content[h][j] => g = h

\* The follower's file may have been replaced by another one, which is new to it
\* as far as its offset does not say otherwise.
StreamInOrder ==
    /\ Ordered(got) /\ \A i \in DOMAIN got : Past(got[i])
    /\ stream \in {"poll", "read"} => Later(offset) /\ (Size < offset => Later(0))

\* The inductive invariant.
JournalInv == TypeOK /\ FilesInOrder /\ StreamInOrder

\* Who will write to the journal without another look at its size, and who to a
\* file g.
Ahead == {w \in Writers : pc[w] = "open" \/ (pc[w] = "write" /\ handle[w] = live)}
Holding(g) == {w \in Writers : handle[w] = g}

\* With it, Bounded is inductive.
RoomInv ==
    /\ Size + Cardinality(Ahead) < MaxLines + Cardinality(Writers)
    /\ old # 0 =>
          Len(content[old]) + Cardinality(Holding(old)) < MaxLines + Cardinality(Writers)

OldSize == IF old = 0 THEN 0 ELSE Len(content[old])

\* With one writer the log ends with the rotated file and the journal, and what
\* was deleted before is further back than MaxLines.
RecentInv ==
    /\ Size + OldSize <= Len(log)
    /\ Size + OldSize >= MaxLines \/ Size + OldSize = Len(log)
    /\ \A i \in 1 .. Size : log[Len(log) - Size + i] = content[live][i]
    /\ \A i \in 1 .. OldSize : log[Len(log) - Size - OldSize + i] = content[old][i]
    /\ \A w \in Writers : /\ pc[w] = "write" => handle[w] = live
                          /\ pc[w] \in {"unlink", "replace"} => Size >= MaxLines
                          /\ pc[w] = "replace" => old = 0

\* A line that was written while the stream follows is yielded at last
\* (follow); the file is not rotated here.
Delivered ==
    \A e \in Events : stream = "poll" /\ ~Has(log, e) /\ <>Has(log, e) ~> Has(got, e)

\* What was written since the stream began and lies behind its offset was
\* yielded ("service and database events as they occur").
NoneSkipped ==
    stream \in {"poll", "read"} =>
        \A i \in since + 1 .. Len(log) :
            live # 0 /\ Has(SubSeq(content[live], 1, offset), log[i]) => Has(got, log[i])
=============================================================================
