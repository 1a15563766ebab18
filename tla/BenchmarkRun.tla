----------------------------- MODULE BenchmarkRun -----------------------------
(***************************************************************************)
(* A benchmark with its power windows (benchmarking/power.py, adapters.py, *)
(* runner.py).  One phase after another runs a command, except for the     *)
(* idle phase, which waits; beside it a sampler asks the power probe, one  *)
(* for all phases, until it is told to stop.  The samples of a window are  *)
(* integrated into its energy.                                             *)
(***************************************************************************)
EXTENDS Integers, Sequences, Functions

CONSTANTS
    Phases,         \* the phases, in order; "idle" is the one without a command
    Watts,          \* what the probe may measure
    TimeLimit,      \* timeout_s, or None
    IdleTime,       \* idle_duration_s
    Interval,       \* sample_interval_s
    MaxTime,        \* bound on how long a phase takes
    None

ASSUME BenchmarkConstantsOK ==
    /\ Len(Phases) \in Nat \ {0} /\ Phases \in Seq(Range(Phases))
    /\ TimeLimit \in Nat \cup {None} /\ {IdleTime, Interval, MaxTime} \cup Watts \subseteq Nat
    /\ None \notin {"new", "asking", "resting", "running", "exited", "failed", "killed"}

VARIABLES
    step,           \* the caller: "next", "running", "draining", "ended", "raised", "cancelled"
    window,         \* the window being measured: phase, start, end, samples
    windows,        \* the windows measured
    process,        \* the phase's command: None, "running", "exited", "failed" or "killed"
    held,           \* whether descendants of the command hold its pipes
    sampler,        \* the sampler: None, "new", "asking", "resting", "done" or "failed"
    asked,          \* when the sampler last asked, or went to rest
    probePhase,     \* the phase the probe was told of
    stop,           \* the event that ends the sampler
    now             \* the clock

vars == <<step, window, windows, process, held, sampler, asked, probePhase, stop, now>>
samplerVars == <<sampler, asked, probePhase>>

NoWindow == [phase |-> None, start |-> 0, end |-> 0, samples |-> <<>>]
Phase == Phases[Len(windows) + 1]

Init ==
    /\ step = "next" /\ window = NoWindow /\ windows = <<>>
    /\ process = None /\ held = FALSE /\ sampler = None /\ asked = 0
    /\ probePhase = None /\ stop = FALSE /\ now = 0

\* measure_idle and run_process_with_power start the command and the sampler
Begin ==
    /\ step = "next"
    /\ window' = [phase |-> Phase, start |-> now, end |-> 0, samples |-> <<>>]
    /\ process' = IF Phase = "idle" THEN None ELSE "running"
    /\ held' = FALSE
    /\ sampler' = "new" /\ stop' = FALSE
    /\ step' = "running"
    /\ UNCHANGED <<windows, asked, probePhase, now>>

\* _collect_samples: while not stop.is_set()
Loop == IF stop THEN sampler' = "done" /\ UNCHANGED asked
        ELSE sampler' = "asking" /\ asked' = now

\* Faulty: a probe that was told of a phase keeps it.
SamplerStartsFirst ==
    /\ sampler = "new"
    /\ probePhase' = IF probePhase = None THEN window.phase ELSE probePhase
    /\ Loop
    /\ UNCHANGED <<step, window, windows, process, held, stop, now>>

SamplerStarts ==
    /\ sampler = "new"
    /\ probePhase' = window.phase
    /\ Loop
    /\ UNCHANGED <<step, window, windows, process, held, stop, now>>

\* sample_watts; a meter's command has a time limit of its own
Sampled(w) ==
    /\ sampler = "asking"
    /\ window' = [window EXCEPT !.samples = Append(@, [t |-> asked, watts |-> w, phase |-> probePhase])]
    /\ sampler' = "resting" /\ asked' = now
    /\ UNCHANGED <<step, windows, process, held, probePhase, stop, now>>

SampleFails ==
    /\ sampler = "asking"
    /\ sampler' = "failed"
    /\ UNCHANGED <<step, window, windows, process, held, asked, probePhase, stop, now>>

\* wait_for(stop.wait(), interval_s)
Rested ==
    /\ sampler = "resting"
    /\ stop \/ now >= asked + Interval
    /\ Loop
    /\ UNCHANGED <<step, window, windows, process, held, probePhase, stop, now>>

ProcessEnds(how) ==
    /\ process = "running"
    /\ process' = how
    /\ UNCHANGED <<step, window, windows, held, samplerVars, stop, now>>

\* The command starts something that inherits its pipes; its descendants end.
Forks ==
    /\ process = "running" /\ ~held
    /\ held' = TRUE
    /\ UNCHANGED <<step, window, windows, process, samplerVars, stop, now>>
DescendantsEnd ==
    /\ held
    /\ held' = FALSE
    /\ UNCHANGED <<step, window, windows, process, samplerVars, stop, now>>

\* Faulty: a command that never ends is waited for.
TimedOutNever == FALSE /\ UNCHANGED vars

\* wait_for(communicate, timeout_s), and the kill after it, which reaches the command
\* only: communicate is awaited again, without a limit
TimedOut ==
    /\ step = "running"
    /\ process = "running" \/ (held /\ process \in {"exited", "failed"})
    /\ TimeLimit # None /\ now >= window.start + TimeLimit
    /\ process' = "killed"
    /\ UNCHANGED <<step, window, windows, held, samplerVars, stop, now>>

\* communicate returns when the command is over and both pipes are at their end,
\* whoever holds them
CommandEnds ==
    /\ step = "running" /\ process \in {"exited", "failed", "killed"} /\ ~held
    /\ stop' = TRUE
    /\ window' = [window EXCEPT !.end = now]
    /\ step' = "draining"
    /\ UNCHANGED <<windows, process, held, samplerVars, now>>
IdleEnds ==
    /\ step = "running" /\ process = None
    /\ now >= window.start + IdleTime
    /\ stop' = TRUE
    /\ step' = "draining"
    /\ UNCHANGED <<window, windows, process, held, samplerVars, now>>

\* Faulty: the sampler is told to stop and left to itself.
DrainedAnyway == TRUE

\* await sampler
Drained == sampler \in {"done", "failed"}

\* The end of an idle window is taken after its sampler's.
Ended(w) == IF w.phase = "idle" THEN [w EXCEPT !.end = now] ELSE w

Collect ==
    /\ step = "draining" /\ Drained
    /\ IF sampler # "failed" /\ process \in {None, "exited"}
       THEN /\ windows' = Append(windows, Ended(window))
            /\ step' = IF Len(windows) + 1 = Len(Phases) THEN "ended" ELSE "next"
       ELSE step' = "raised" /\ UNCHANGED windows
    /\ UNCHANGED <<window, process, held, samplerVars, stop, now>>

\* The caller is cancelled. At its command it tells the sampler to stop, at its
\* sampler it cancels it; otherwise it leaves to the loop's end what it started.
Cancelled ==
    /\ step \in {"running", "draining"}
    /\ step' = "cancelled"
    /\ stop' = (stop \/ process # None)
    /\ sampler' = IF step = "draining" /\ sampler # "done" THEN "failed" ELSE sampler
    /\ UNCHANGED <<window, windows, process, held, asked, probePhase, now>>

Tick ==
    /\ step \in {"running", "draining"} /\ now < window.start + MaxTime
    /\ now' = now + 1
    /\ UNCHANGED <<step, window, windows, process, held, samplerVars, stop>>

Over == step \in {"ended", "raised", "cancelled"}
Finished == Over /\ UNCHANGED vars

Next ==
    \/ Begin \/ SamplerStarts \/ SampleFails \/ Rested
    \/ \E w \in Watts : Sampled(w)
    \/ \E how \in {"exited", "failed"} : ProcessEnds(how)
    \/ Forks \/ DescendantsEnd
    \/ TimedOut \/ CommandEnds \/ IdleEnds \/ Collect \/ Cancelled \/ Tick \/ Finished

\* The event loop runs what is ready, a probe answers or fails (the command of one
\* that leaves no descendants does so in time), and time passes. Commands need not
\* end, nor their descendants.
Fairness ==
    /\ WF_vars(Begin) /\ WF_vars(SamplerStarts) /\ WF_vars(Rested)
    /\ WF_vars(SampleFails \/ \E w \in Watts : Sampled(w))
    /\ WF_vars(TimedOut) /\ WF_vars(CommandEnds) /\ WF_vars(IdleEnds)
    /\ WF_vars(Collect) /\ WF_vars(Tick)

Spec == Init /\ [][Next]_vars /\ Fairness

-----------------------------------------------------------------------------
Time(t, previous, end) ==
    LET late == IF t > previous THEN t ELSE previous IN IF late < end THEN late ELSE end

Rest(last, end) == 2 * last.watts * (end - last.t)

\* _integrate_energy, times two: trapezoids between samples, the first one's
\* value before it and the last one's until the end
Trapezoids(w) ==
    LET s == w.samples
        upTo[i \in 1 .. Len(s)] ==
            IF i = 1 THEN [t |-> w.start, watts |-> s[1].watts, sum |-> 0]
            ELSE LET t == Time(s[i].t, upTo[i - 1].t, w.end)
                 IN  [t |-> t, watts |-> s[i].watts,
                      sum |-> upTo[i - 1].sum + (s[i - 1].watts + s[i].watts) * (t - upTo[i - 1].t)]
    IN  upTo
Energy2(w) ==
    LET s == w.samples
        last == Trapezoids(w)[Len(s)]
    IN  IF s = <<>> \/ w.end <= w.start THEN None
        ELSE IF Len(s) = 1 THEN 2 * s[1].watts * (w.end - w.start)
        ELSE last.sum + Rest(last, w.end)

\* The state is of its type, and a window is kept only for a phase that is
\* over, an idle one after its time.
TypeOK ==
    /\ step \in {"next", "running", "draining", "ended", "raised", "cancelled"}
    /\ held \in BOOLEAN
    /\ process \in {None, "running", "exited", "failed", "killed"}
    /\ sampler \in {None, "new", "asking", "resting", "done", "failed"}
    /\ stop \in BOOLEAN /\ now \in 0 .. MaxTime * Len(Phases)
    /\ \A i \in DOMAIN windows :
        /\ windows[i].phase = Phases[i] /\ windows[i].end >= windows[i].start
        /\ windows[i].phase = "idle" => windows[i].end >= windows[i].start + IdleTime

\* When the caller has returned or raised, nothing it started is under way, nor
\* holds anything of the command's descendants its pipes (run_process_with_power):
\* a sampler left over would ask the probe in the next phase's name. A caller
\* that is cancelled does leave the command and the sampler.
NothingLeftRunning ==
    step \in {"next", "ended", "raised"} =>
        process # "running" /\ ~held /\ sampler \in {None, "done", "failed"}

\* A window holds only what was asked within it, of the probe of its phase.
SamplesOfTheirPhase ==
    \A i \in DOMAIN windows : \A j \in DOMAIN windows[i].samples :
        LET x == windows[i].samples[j]
        IN  x.phase = windows[i].phase /\ x.t >= windows[i].start /\ x.t <= windows[i].end

\* The energy of a window lies between those of the power of two of its samples
\* over its time: canonical efficiencies are drawn from it.
EnergyWithinSamples ==
    \A i \in DOMAIN windows :
        LET w == windows[i]
            OfPower(x) == 2 * x.watts * (w.end - w.start)
        IN  Energy2(w) # None =>
              \E j, k \in DOMAIN w.samples :
                  OfPower(w.samples[j]) <= Energy2(w) /\ Energy2(w) <= OfPower(w.samples[k])

\* With a time limit every benchmark ends, also when a command does not, unless
\* some descendant of it holds its pipes for ever.
HeldForEver == <>[]held
BenchmarkEnds == HeldForEver \/ <>Over
=============================================================================
