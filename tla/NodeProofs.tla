------------------------------ MODULE NodeProofs -------------------------------
(* Proofs about BenchmarkRun, PowerEvidence, SpecEnrichment, BootReadiness   *)
(* and Compatibility, and what they give of NodeMC, whose parts are          *)
(* instances of the five.  A theorem about a part assumes what the           *)
(* configuration states of its constants and, where the property needs it,   *)
(* the one condition that section 5 of the README names.                     *)
EXTENDS NodeMC, FiniteSetTheorems, WellFoundedInduction, TLAPS

LEMMA LeastNatural ==
    ASSUME NEW S \in SUBSET Nat, S # {}
    PROVE  \E n \in S : \A m \in S : n <= m
<1> DEFINE R == {p \in Nat \X Nat : p[1] < p[2]}
<1>1. IsWellFoundedOn(OpToRel(<, Nat), Nat) BY NatLessThanWellFounded, Zenon
<1>2. OpToRel(<, Nat) = R BY Zenon DEF OpToRel
<1>3. IsWellFoundedOn(R, Nat) BY <1>1, <1>2, Zenon
<1>4. \A x \in Nat, y \in Nat : y < x => <<y, x>> \in R OBVIOUS
<1> HIDE DEF R
<1>5. PICK x \in S : \A y \in S : ~ (<<y, x>> \in R) BY <1>3, WFMin
<1>6. \A y \in S : ~(y < x) BY <1>4, <1>5
<1> QED BY <1>6

Named == Range(Phases) \cup {None}
Sample == [t : Nat, watts : Watts, phase : Named]
Window == [phase : Named, start : Nat, end : Nat, samples : Seq(Sample)]

Typed ==
    /\ step \in {"next", "running", "draining", "ended", "raised", "cancelled"}
    /\ held \in BOOLEAN
    /\ window \in Window /\ windows \in Seq(Window)
    /\ process \in {None, "running", "exited", "failed", "killed"}
    /\ sampler \in {None, "new", "asking", "resting", "done", "failed"}
    /\ asked \in Nat /\ probePhase \in Named /\ stop \in BOOLEAN /\ now \in Nat
    /\ step \in {"next", "running", "draining"} => Len(windows) < Len(Phases)

\* What is running belongs to the phase.
Running ==
    /\ step \in {"next", "draining", "ended", "raised"} => process # "running" /\ ~held
    /\ process = None => ~held
    /\ step \in {"next", "ended", "raised"} => sampler \in {None, "done", "failed"}
    /\ step \in {"running", "draining"} => (process = None <=> window.phase = "idle")
    /\ step = "running" => ~stop
    /\ step = "draining" => stop

\* What a sampler is asking for lies in the window, and so do its samples; the
\* end of a command's window is not before them.
InWindow ==
    step \in {"running", "draining", "cancelled"} =>
        /\ window.start <= now
        /\ sampler \in {"asking", "resting"} => probePhase = window.phase
        /\ sampler = "asking" => window.start <= asked /\ asked <= now
        /\ \A j \in DOMAIN window.samples :
              LET x == window.samples[j]
              IN  x.phase = window.phase /\ window.start <= x.t /\ x.t <= now
        /\ step = "draining" /\ window.phase # "idle" =>
              /\ sampler = "asking" => asked <= window.end
              /\ \A j \in DOMAIN window.samples : window.samples[j].t <= window.end

IInv == Typed /\ Running /\ InWindow /\ SamplesOfTheirPhase

LEMMA Constants ==
    /\ Len(Phases) \in Nat \ {0} /\ \A i \in 1 .. Len(Phases) : Phases[i] \in Named
    /\ None \in Named
    /\ None \notin {"new", "asking", "resting", "running", "exited", "failed", "killed"}
BY BenchmarkConstantsOK DEF Named

LEMMA InitIInv == Init => IInv
<1> SUFFICES ASSUME Init PROVE IInv OBVIOUS
<1>1. <<>> \in Seq(Sample) /\ <<>> \in Seq(Window) /\ Len(<<>>) = 0 OBVIOUS
<1>2. window \in Window BY <1>1, Constants DEF Init, NoWindow, Window
<1>3. Typed
  <2>1. /\ step = "next" /\ windows = <<>> /\ process = None /\ held = FALSE /\ sampler = None /\ asked = 0
        /\ probePhase = None /\ stop = FALSE /\ now = 0
    BY DEF Init
  <2>2. windows \in Seq(Window) /\ Len(windows) < Len(Phases) BY <1>1, <2>1, Constants
  <2>3. stop \in BOOLEAN /\ probePhase \in Named BY <2>1, Constants
  <2> QED BY <1>2, <2>1, <2>2, <2>3 DEF Typed
<1>4. Running BY Constants DEF Init, Running
<1>5. InWindow /\ SamplesOfTheirPhase BY DEF Init, InWindow, SamplesOfTheirPhase
<1> QED BY <1>3, <1>4, <1>5 DEF IInv

LEMMA BeginKeeps == ASSUME IInv, Begin PROVE IInv'
<1>1. /\ step = "next" /\ step' = "running" /\ sampler' = "new" /\ stop' = FALSE
      /\ window' = [phase |-> Phase, start |-> now, end |-> 0, samples |-> <<>>]
      /\ process' = IF Phase = "idle" THEN None ELSE "running"
      /\ held' = FALSE
      /\ UNCHANGED <<windows, asked, probePhase, now>>
  BY DEF Begin
<1>2. Len(windows) \in Nat /\ Len(windows) < Len(Phases) /\ now \in Nat BY <1>1 DEF IInv, Typed
<1>3. Phase \in Named BY <1>2, Constants DEF Phase
<1> HIDE DEF Phase
<1>4. window' \in Window BY <1>1, <1>2, <1>3 DEF Window
<1>5. window'.phase = Phase /\ window'.start = now /\ window'.samples = <<>> BY <1>1
<1>6. Typed' BY <1>1, <1>4 DEF IInv, Typed
<1>7. Running' BY <1>1, <1>5, Constants DEF Running
<1>8. InWindow' BY <1>1, <1>2, <1>5, Constants DEF InWindow
<1>9. SamplesOfTheirPhase' BY <1>1 DEF IInv, SamplesOfTheirPhase
<1> QED BY <1>6, <1>7, <1>8, <1>9 DEF IInv

\* The sampler begins, or goes on after its rest, unless it is told to stop.
LEMMA LoopKeeps ==
    ASSUME IInv, Loop, sampler \in {"new", "resting"}, probePhase' = window.phase,
           UNCHANGED <<step, window, windows, process, held, stop, now>>
    PROVE  IInv'
<1>1. step \in {"running", "draining", "cancelled"} /\ window.phase \in Named
  BY Constants DEF IInv, Typed, Running, Window
<1>2. Typed' BY <1>1 DEF IInv, Typed, Loop
<1>3. Running' BY <1>1, Constants DEF IInv, Running
<1>4. InWindow' BY <1>1 DEF IInv, Typed, Running, InWindow, Window, Loop
<1>5. SamplesOfTheirPhase' BY DEF IInv, SamplesOfTheirPhase
<1> QED BY <1>2, <1>3, <1>4, <1>5 DEF IInv

LEMMA StartsKeeps == ASSUME IInv, SamplerStarts PROVE IInv'
BY LoopKeeps DEF SamplerStarts

LEMMA RestedKeeps == ASSUME IInv, Rested PROVE IInv'
<1>1. step \in {"running", "draining", "cancelled"} BY Constants DEF Rested, IInv, Typed, Running
<1>2. probePhase' = window.phase BY <1>1 DEF Rested, IInv, InWindow
<1> QED BY <1>2, LoopKeeps DEF Rested

LEMMA SampledKeeps == ASSUME IInv, NEW w \in Watts, Sampled(w) PROVE IInv'
<1> DEFINE x == [t |-> asked, watts |-> w, phase |-> probePhase]
           samples == Append(window.samples, x)
<1>1. /\ sampler = "asking" /\ sampler' = "resting" /\ asked' = now
      /\ window' = [window EXCEPT !.samples = samples]
      /\ UNCHANGED <<step, windows, process, held, probePhase, stop, now>>
  BY DEF Sampled
<1>2. window \in Window /\ asked \in Nat /\ probePhase \in Named /\ now \in Nat BY DEF IInv, Typed
<1>3. x \in Sample /\ x.t = asked /\ x.phase = probePhase BY <1>2 DEF Sample
<1> HIDE DEF x
<1>4. window.samples \in Seq(Sample) BY <1>2 DEF Window
<1>5. /\ samples \in Seq(Sample) /\ DOMAIN samples = 1 .. Len(window.samples) + 1
      /\ samples[Len(window.samples) + 1] = x
      /\ \A j \in DOMAIN window.samples : samples[j] = window.samples[j]
      /\ DOMAIN window.samples = 1 .. Len(window.samples) /\ Len(window.samples) \in Nat
  BY <1>3, <1>4
<1> HIDE DEF samples
<1>6. /\ window' \in Window /\ window'.samples = samples /\ window'.phase = window.phase
      /\ window'.start = window.start /\ window'.end = window.end
  BY <1>1, <1>2, <1>5 DEF Window
<1>7. step \in {"running", "draining", "cancelled"} BY <1>1, Constants DEF IInv, Typed, Running
<1>8. Typed' BY <1>1, <1>2, <1>6 DEF IInv, Typed
<1>9. Running' BY <1>1, <1>6, <1>7 DEF IInv, Running
<1>10. ASSUME NEW j \in DOMAIN samples
       PROVE  /\ samples[j].phase = window.phase
              /\ window.start <= samples[j].t /\ samples[j].t <= now
              /\ step = "draining" /\ window.phase # "idle" => samples[j].t <= window.end
  <2>1. CASE j \in DOMAIN window.samples BY <1>5, <1>7, <2>1 DEF IInv, InWindow
  <2>2. CASE j = Len(window.samples) + 1 BY <1>1, <1>3, <1>5, <1>7, <2>2 DEF IInv, InWindow
  <2> QED BY <1>5, <2>1, <2>2
<1>11. InWindow' BY <1>1, <1>6, <1>7, <1>10 DEF IInv, InWindow
<1>12. SamplesOfTheirPhase' BY <1>1 DEF IInv, SamplesOfTheirPhase
<1> QED BY <1>8, <1>9, <1>11, <1>12 DEF IInv

\* The command ends, or is killed; a sample fails; time passes.
LEMMA SampleFailsKeeps == ASSUME IInv, SampleFails PROVE IInv'
<1>1. sampler' = "failed" /\ UNCHANGED <<step, window, windows, process, held, asked, probePhase, stop, now>>
  BY DEF SampleFails
<1> QED BY <1>1, Constants DEF IInv, Typed, Running, InWindow, SamplesOfTheirPhase

LEMMA ProcessKeeps ==
    ASSUME IInv, (\E how \in {"exited", "failed"} : ProcessEnds(how)) \/ TimedOut
    PROVE  IInv'
<1>1. /\ process \in {"running", "exited", "failed"} /\ process' \in {"exited", "failed", "killed"}
      /\ UNCHANGED <<step, window, windows, held, sampler, asked, probePhase, stop, now>>
  BY DEF ProcessEnds, TimedOut, samplerVars
<1> QED BY <1>1, Constants DEF IInv, Typed, Running, InWindow, SamplesOfTheirPhase

\* What the command starts holds its pipes, or lets go of them.
LEMMA HeldKeeps == ASSUME IInv, Forks \/ DescendantsEnd PROVE IInv'
<1>1. /\ held' \in BOOLEAN /\ (process = "running" \/ ~held')
      /\ UNCHANGED <<step, window, windows, process, sampler, asked, probePhase, stop, now>>
  BY DEF Forks, DescendantsEnd, samplerVars
<1> QED BY <1>1, Constants DEF IInv, Typed, Running, InWindow, SamplesOfTheirPhase

LEMMA CancelKeeps == ASSUME IInv, Cancelled PROVE IInv'
<1>1. /\ step \in {"running", "draining"} /\ step' = "cancelled" /\ stop' \in BOOLEAN
      /\ sampler' \in {sampler, "failed"}
      /\ UNCHANGED <<window, windows, process, held, asked, probePhase, now>>
  BY DEF Cancelled
<1>2. Typed' BY <1>1 DEF IInv, Typed
<1>3. Running' BY <1>1 DEF IInv, Running
<1>4. InWindow' BY <1>1 DEF IInv, InWindow
<1>5. SamplesOfTheirPhase' BY <1>1 DEF IInv, SamplesOfTheirPhase
<1> QED BY <1>2, <1>3, <1>4, <1>5 DEF IInv

LEMMA TickKeeps == ASSUME IInv, Tick PROVE IInv'
<1>1. /\ step \in {"running", "draining"} /\ now' = now + 1
      /\ UNCHANGED <<step, window, windows, process, held, sampler, asked, probePhase, stop>>
  BY DEF Tick, samplerVars
<1>2. Typed' /\ Running' /\ SamplesOfTheirPhase'
  BY <1>1 DEF IInv, Typed, Running, SamplesOfTheirPhase
<1>3. ASSUME NEW j \in DOMAIN window.samples PROVE window.samples[j].t \in Nat
  <2>1. window.samples \in Seq(Sample) BY DEF IInv, Typed, Window
  <2>2. window.samples[j] \in Sample BY <2>1
  <2> QED BY <2>2 DEF Sample
<1>4. window.start \in Nat /\ asked \in Nat /\ now \in Nat BY DEF IInv, Typed, Window
<1>5. InWindow' BY <1>1, <1>3, <1>4 DEF IInv, InWindow
<1> QED BY <1>2, <1>5 DEF IInv

LEMMA CommandKeeps == ASSUME IInv, CommandEnds PROVE IInv'
<1>1. /\ step = "running" /\ step' = "draining" /\ process \in {"exited", "failed", "killed"} /\ stop' = TRUE
      /\ ~held
      /\ window' = [window EXCEPT !.end = now]
      /\ UNCHANGED <<windows, process, held, sampler, asked, probePhase, now>>
  BY DEF CommandEnds, samplerVars
<1>2. window \in Window /\ now \in Nat BY DEF IInv, Typed
<1>3. /\ window' \in Window /\ window'.phase = window.phase /\ window'.start = window.start
      /\ window'.end = now /\ window'.samples = window.samples
  BY <1>1, <1>2 DEF Window
<1>4. Typed' BY <1>1, <1>3 DEF IInv, Typed
<1>5. Running' BY <1>1, <1>3, Constants DEF IInv, Running
<1>6. InWindow' BY <1>1, <1>3 DEF IInv, InWindow
<1>7. SamplesOfTheirPhase' BY <1>1 DEF IInv, SamplesOfTheirPhase
<1> QED BY <1>4, <1>5, <1>6, <1>7 DEF IInv

LEMMA IdleKeeps == ASSUME IInv, IdleEnds PROVE IInv'
<1>1. /\ step = "running" /\ step' = "draining" /\ process = None /\ stop' = TRUE
      /\ UNCHANGED <<window, windows, process, held, sampler, asked, probePhase, now>>
  BY DEF IdleEnds, samplerVars
<1>2. window.phase = "idle" BY <1>1 DEF IInv, Running
<1> QED BY <1>1, <1>2, Constants DEF IInv, Typed, Running, InWindow, SamplesOfTheirPhase

\* A window is kept when its sampler is done; its samples end with it.
LEMMA CollectKeeps == ASSUME IInv, Collect PROVE IInv'
<1>1. /\ step = "draining" /\ sampler \in {"done", "failed"}
      /\ UNCHANGED <<window, process, held, sampler, asked, probePhase, stop, now>>
  BY DEF Collect, Drained, samplerVars
<1>2. process # "running" /\ ~held BY <1>1 DEF IInv, Running
<1>3. CASE step' = "raised" /\ windows' = windows
  BY <1>1, <1>2, <1>3 DEF IInv, Typed, Running, InWindow, SamplesOfTheirPhase
<1>4. CASE /\ windows' = Append(windows, Ended(window))
           /\ step' = IF Len(windows) + 1 = Len(Phases) THEN "ended" ELSE "next"
  <2> DEFINE d == Ended(window)
  <2>1. window \in Window /\ now \in Nat /\ windows \in Seq(Window) BY DEF IInv, Typed
  <2>2. /\ d \in Window /\ d.phase = window.phase /\ d.start = window.start /\ d.samples = window.samples
        /\ d.end = IF window.phase = "idle" THEN now ELSE window.end
    BY <2>1 DEF Ended, Window
  <2> HIDE DEF d
  <2>3. \A j \in DOMAIN d.samples :
           d.samples[j].phase = d.phase /\ d.samples[j].t >= d.start /\ d.samples[j].t <= d.end
    BY <1>1, <2>2 DEF IInv, InWindow
  <2>4. /\ windows' \in Seq(Window) /\ Len(windows') = Len(windows) + 1 /\ Len(windows) \in Nat
        /\ DOMAIN windows' = 1 .. Len(windows) + 1 /\ DOMAIN windows = 1 .. Len(windows)
        /\ windows'[Len(windows) + 1] = d /\ \A i \in DOMAIN windows : windows'[i] = windows[i]
    BY <1>4, <2>1, <2>2 DEF d
  <2>5. SamplesOfTheirPhase'
    <3> SUFFICES ASSUME NEW i \in DOMAIN windows', NEW j \in DOMAIN windows'[i].samples
                 PROVE  LET x == windows'[i].samples[j]
                        IN  /\ x.phase = windows'[i].phase
                            /\ x.t >= windows'[i].start /\ x.t <= windows'[i].end
      BY DEF SamplesOfTheirPhase
    <3>1. CASE i \in DOMAIN windows BY <2>4, <3>1 DEF IInv, SamplesOfTheirPhase
    <3>2. CASE i = Len(windows) + 1 BY <2>3, <2>4, <3>2
    <3> QED BY <2>4, <3>1, <3>2
  <2>6. Len(windows) < Len(Phases) BY <1>1 DEF IInv, Typed
  <2>7. Typed' BY <1>1, <1>4, <2>4, <2>6, Constants DEF IInv, Typed
  <2> QED BY <1>1, <1>2, <1>4, <2>5, <2>7 DEF IInv, Running, InWindow
<1> QED BY <1>3, <1>4 DEF Collect

LEMMA StepKeeps == ASSUME IInv, [Next]_vars PROVE IInv'
<1>1. CASE UNCHANGED vars \/ Finished
  <2>1. UNCHANGED <<step, window, windows, process, held, sampler, asked, probePhase, stop, now>>
    BY <1>1 DEF Finished, vars
  <2> QED BY <2>1 DEF IInv, Typed, Running, InWindow, SamplesOfTheirPhase
<1>2. CASE Begin BY <1>2, BeginKeeps
<1>3. CASE SamplerStarts BY <1>3, StartsKeeps
<1>4. CASE SampleFails BY <1>4, SampleFailsKeeps
<1>5. CASE Rested BY <1>5, RestedKeeps
<1>6. CASE \E w \in Watts : Sampled(w) BY <1>6, SampledKeeps
<1>7. CASE (\E how \in {"exited", "failed"} : ProcessEnds(how)) \/ TimedOut BY <1>7, ProcessKeeps
<1>8. CASE CommandEnds BY <1>8, CommandKeeps
<1>9. CASE IdleEnds BY <1>9, IdleKeeps
<1>10. CASE Collect BY <1>10, CollectKeeps
<1>11. CASE Tick BY <1>11, TickKeeps
<1>12. CASE Forks \/ DescendantsEnd BY <1>12, HeldKeeps
<1>13. CASE Cancelled BY <1>13, CancelKeeps
<1> QED
  BY <1>1, <1>2, <1>3, <1>4, <1>5, <1>6, <1>7, <1>8, <1>9, <1>10, <1>11, <1>12, <1>13 DEF Next

LEMMA Inductive == Spec => []IInv
BY InitIInv, StepKeeps, PTL DEF Spec

\* When a benchmark's caller goes on, returns or raises, neither the command nor
\* the sampler it started (run_process_with_power) is under way, and no descendant
\* of the command holds its pipes. Of a caller that is cancelled it says nothing.
THEOREM NothingIsLeft == Spec => []NothingLeftRunning
<1>1. IInv => NothingLeftRunning BY DEF IInv, Running, NothingLeftRunning
<1> QED BY <1>1, Inductive, PTL

\* Every sample of a kept window was asked within the window, of the probe
\* told of its phase, whatever the command and the meter do meanwhile.
THEOREM SamplesBelong == Spec => []SamplesOfTheirPhase
<1>1. IInv => SamplesOfTheirPhase BY DEF IInv
<1> QED BY <1>1, Inductive, PTL

-----------------------------------------------------------------------------
(* The energy of a window *)

\* One more trapezoid.
Onto(w, i, below) ==
    LET t == Time(w.samples[i].t, below.t, w.end)
    IN  [t |-> t, watts |-> w.samples[i].watts,
         sum |-> below.sum + (w.samples[i - 1].watts + w.samples[i].watts) * (t - below.t)]
Base(w) == [t |-> w.start, watts |-> w.samples[1].watts, sum |-> 0]

LEMMA TrapezoidsAre ==
    ASSUME NEW w, Len(w.samples) \in Nat
    PROVE  LET g == Trapezoids(w)
           IN  g = [i \in 1 .. Len(w.samples) |-> IF i = 1 THEN Base(w) ELSE Onto(w, i, g[i - 1])]
<1> DEFINE n == Len(w.samples)
           UpTo(m, g) == g = [i \in 1 .. m |-> IF i = 1 THEN Base(w) ELSE Onto(w, i, g[i - 1])]
<1>1. \E g : UpTo(n, g)
  <2> DEFINE Without == {m \in 0 .. n : ~ \E g : UpTo(m, g)}
  <2> SUFFICES ASSUME Without # {} PROVE FALSE OBVIOUS
  <2>1. PICK m \in Without : \A k \in Without : m <= k
    <3> Without \in SUBSET Nat OBVIOUS
    <3> HIDE DEF Without
    <3> QED BY LeastNatural
  <2>2. m \in 0 .. n /\ ~ \E g : UpTo(m, g) BY <2>1
  <2>3. CASE m = 0
    <3> DEFINE e == [i \in 1 .. 0 |-> Base(w)]
    <3>1. 1 .. 0 = {} OBVIOUS
    <3>2. UpTo(0, e) BY <3>1
    <3> QED BY <2>2, <2>3, <3>2
  <2>4. CASE m # 0
    <3>1. m - 1 \in 0 .. n /\ ~ (m <= m - 1) BY <2>2, <2>4
    <3>2. PICK g : UpTo(m - 1, g)
      <4>1. m - 1 \notin Without
        <5> HIDE DEF Without
        <5> QED BY <2>1, <3>1
      <4> HIDE DEF UpTo
      <4> QED BY <3>1, <4>1
    <3> DEFINE last == IF m = 1 THEN Base(w) ELSE Onto(w, m, g[m - 1])
               h == [i \in 1 .. m |-> IF i = m THEN last ELSE g[i]]
    <3>3. ASSUME NEW i \in 1 .. m PROVE h[i] = IF i = 1 THEN Base(w) ELSE Onto(w, i, h[i - 1])
      <4>1. CASE i = m
        <5>1. i - 1 # m /\ (i # 1 => i - 1 \in 1 .. m) BY <2>4, <2>2, <4>1
        <5> QED BY <4>1, <5>1
      <4>2. CASE i # m
        <5>1. i \in 1 .. m - 1 /\ i - 1 # m /\ (i # 1 => i - 1 \in 1 .. m) BY <2>2, <4>2
        <5>2. h[i] = g[i] /\ (i # 1 => h[i - 1] = g[i - 1]) BY <4>2, <5>1
        <5>3. g[i] = IF i = 1 THEN Base(w) ELSE Onto(w, i, g[i - 1]) BY <3>2, <5>1, Zenon
        <5> QED BY <5>2, <5>3
      <4> QED BY <4>1, <4>2
    <3>4. h = [i \in 1 .. m |-> h[i]] OBVIOUS
    <3> HIDE DEF h
    <3>5. UpTo(m, h) BY <3>3, <3>4
    <3> QED BY <2>2, <3>5
  <2> QED BY <2>3, <2>4
<1>2. Trapezoids(w) = CHOOSE g : UpTo(n, g)
  BY DEF Trapezoids, Base, Onto
<1> QED BY <1>1, <1>2

LEMMA Grows == ASSUME NEW x \in Nat, NEW y \in Nat, NEW d \in Nat, x <= y PROVE x * d <= y * d /\ x * d \in Nat
OBVIOUS

\* A stretch at a mean of two powers keeps the energy above that of a least one.
LEMMA LeastStays ==
    ASSUME NEW x \in Nat, NEW a \in Nat, NEW b \in Nat, NEW d \in Nat, NEW e \in Nat, NEW sum \in Nat,
           2 * x * d <= sum
    PROVE  \E y \in {x, a, b} : 2 * y * (d + e) <= sum + (a + b) * e
<1>1. PICK y \in {x, a, b} : y <= x /\ y <= a /\ y <= b OBVIOUS
<1>2. y * d <= x * d /\ y * e <= a * e /\ y * e <= b * e BY <1>1, Grows
<1>3. /\ y * (d + e) = y * d + y * e /\ (a + b) * e = a * e + b * e
      /\ 2 * y * (d + e) = 2 * (y * (d + e)) /\ 2 * x * d = 2 * (x * d)
      /\ y * d \in Nat /\ x * d \in Nat /\ y * e \in Nat /\ a * e \in Nat /\ b * e \in Nat
  BY <1>1
<1>4. 2 * (y * (d + e)) <= sum + (a * e + b * e) BY <1>2, <1>3
<1> QED BY <1>1, <1>3, <1>4

\* And below that of a greatest one.
LEMMA GreatestStays ==
    ASSUME NEW x \in Nat, NEW a \in Nat, NEW b \in Nat, NEW d \in Nat, NEW e \in Nat, NEW sum \in Nat,
           sum <= 2 * x * d
    PROVE  \E y \in {x, a, b} : sum + (a + b) * e <= 2 * y * (d + e)
<1>1. PICK y \in {x, a, b} : x <= y /\ a <= y /\ b <= y OBVIOUS
<1>2. x * d <= y * d /\ a * e <= y * e /\ b * e <= y * e BY <1>1, Grows
<1>3. /\ y * (d + e) = y * d + y * e /\ (a + b) * e = a * e + b * e
      /\ 2 * y * (d + e) = 2 * (y * (d + e)) /\ 2 * x * d = 2 * (x * d)
      /\ y * d \in Nat /\ x * d \in Nat /\ y * e \in Nat /\ a * e \in Nat /\ b * e \in Nat
  BY <1>1
<1>4. sum + (a * e + b * e) <= 2 * (y * (d + e)) BY <1>2, <1>3
<1> QED BY <1>1, <1>3, <1>4

\* What the sums have come to at the i-th sample.
Between(w, i) ==
    LET s == w.samples
        below == Trapezoids(w)[i]
    IN  /\ below.t \in w.start .. w.end /\ below.watts = s[i].watts /\ below.sum \in Nat
        /\ \E j \in 1 .. Len(s) : 2 * s[j].watts * (below.t - w.start) <= below.sum
        /\ \E k \in 1 .. Len(s) : below.sum <= 2 * s[k].watts * (below.t - w.start)

LEMMA SampleTyped ==
    ASSUME NEW w \in Window
    PROVE  /\ Len(w.samples) \in Nat /\ w.start \in Nat /\ w.end \in Nat
           /\ DOMAIN w.samples = 1 .. Len(w.samples)
           /\ \A i \in 1 .. Len(w.samples) : w.samples[i].t \in Nat /\ w.samples[i].watts \in Nat
<1>1. Watts \subseteq Nat BY BenchmarkConstantsOK
<1>2. w.samples \in Seq(Sample) /\ w.start \in Nat /\ w.end \in Nat BY DEF Window
<1>3. Len(w.samples) \in Nat /\ DOMAIN w.samples = 1 .. Len(w.samples) BY <1>2
<1>4. \A i \in 1 .. Len(w.samples) : w.samples[i] \in Sample BY <1>2
<1>5. \A x \in Sample : x.t \in Nat /\ x.watts \in Nat BY <1>1 DEF Sample
<1> QED BY <1>2, <1>3, <1>4, <1>5

LEMMA AreaBetween ==
    ASSUME NEW w \in Window, w.start < w.end PROVE \A i \in 1 .. Len(w.samples) : Between(w, i)
<1> DEFINE n == Len(w.samples)
           g == Trapezoids(w)
           Outside == {i \in 1 .. n : ~Between(w, i)}
<1>1. /\ n \in Nat /\ w.start \in Nat /\ w.end \in Nat
      /\ \A i \in 1 .. n : w.samples[i].t \in Nat /\ w.samples[i].watts \in Nat
  BY SampleTyped
<1>2. \A i \in 1 .. n : g[i] = IF i = 1 THEN Base(w) ELSE Onto(w, i, g[i - 1])
  <2>1. g = [i \in 1 .. n |-> IF i = 1 THEN Base(w) ELSE Onto(w, i, g[i - 1])] BY <1>1, TrapezoidsAre
  <2> HIDE DEF g
  <2> QED BY <2>1, Zenon
<1> SUFFICES ASSUME Outside # {} PROVE FALSE OBVIOUS
<1>3. PICK i \in Outside : \A k \in Outside : i <= k
  <2> Outside \in SUBSET Nat OBVIOUS
  <2> HIDE DEF Outside
  <2> QED BY LeastNatural
<1>4. i \in 1 .. n /\ ~Between(w, i) BY <1>3
<1>5. CASE i = 1
  <2>1. g[1] = Base(w) BY <1>2, <1>4, <1>5
  <2> HIDE DEF g
  <2>2. g[1].t = w.start /\ g[1].watts = w.samples[1].watts /\ g[1].sum = 0 BY <2>1 DEF Base
  <2>3. w.samples[1].watts \in Nat /\ w.start - w.start = 0 BY <1>1, <1>4, <1>5
  <2>4. 2 * w.samples[1].watts * (w.start - w.start) = 0 BY <2>3
  <2>5. w.start \in w.start .. w.end BY <1>1
  <2>6. /\ \E j \in 1 .. n : 2 * w.samples[j].watts * (g[1].t - w.start) <= g[1].sum
        /\ \E k \in 1 .. n : g[1].sum <= 2 * w.samples[k].watts * (g[1].t - w.start)
    BY <1>4, <1>5, <2>2, <2>4
  <2>7. Between(w, 1) BY <2>2, <2>5, <2>6 DEF Between, g
  <2> QED BY <1>4, <1>5, <2>7
<1>6. CASE i # 1
  <2>1. i - 1 \in 1 .. n /\ ~ (i <= i - 1) BY <1>1, <1>4, <1>6
  <2>2. Between(w, i - 1)
    <3>1. i - 1 \notin Outside
      <4> HIDE DEF Outside
      <4> QED BY <1>3, <2>1
    <3> QED BY <2>1, <3>1
  <2>3. g[i] = Onto(w, i, g[i - 1]) BY <1>2, <1>4, <1>6
  <2> DEFINE below == g[i - 1]
             a == w.samples[i - 1].watts
             b == w.samples[i].watts
             t == Time(w.samples[i].t, below.t, w.end)
             d == below.t - w.start
             e == t - below.t
  <2>4. /\ below.t \in w.start .. w.end /\ below.sum \in Nat
        /\ \E j \in 1 .. n : 2 * w.samples[j].watts * d <= below.sum
        /\ \E k \in 1 .. n : below.sum <= 2 * w.samples[k].watts * d
    BY <2>2 DEF Between
  <2>5. a \in Nat /\ b \in Nat BY <1>1, <1>4, <2>1
  <2>6. below.t \in Nat /\ w.start <= below.t /\ below.t <= w.end /\ t \in Nat /\ below.t <= t /\ t <= w.end
    <3> DEFINE x == w.samples[i].t
               u == below.t
    <3>1. x \in Nat /\ u \in w.start .. w.end BY <1>1, <1>4, <2>4
    <3> HIDE DEF x, u
    <3>2. u \in Nat /\ w.start <= u /\ u <= w.end BY <1>1, <3>1
    <3>3. /\ Time(x, u, w.end) \in Nat /\ u <= Time(x, u, w.end)
          /\ Time(x, u, w.end) <= w.end
      BY <1>1, <3>1, <3>2 DEF Time
    <3> QED BY <3>2, <3>3 DEF x, u
  <2>7. g[i].t = t /\ g[i].watts = b /\ g[i].sum = below.sum + (a + b) * e BY <2>3 DEF Onto
  <2> HIDE DEF g, below, a, b, t
  <2>8. d \in Nat /\ e \in Nat /\ g[i].t - w.start = d + e /\ g[i].t \in w.start .. w.end
    <3> DEFINE u == below.t
    <3>1. u \in Nat /\ w.start <= u /\ u <= w.end /\ u <= t BY <2>6
    <3> HIDE DEF u
    <3>2. u - w.start \in Nat /\ t - u \in Nat /\ t - w.start = (u - w.start) + (t - u) /\ t \in w.start .. w.end
      BY <1>1, <2>6, <3>1
    <3> QED BY <2>7, <3>2 DEF u
  <2> HIDE DEF d, e
  <2>9. PICK j \in 1 .. n : 2 * w.samples[j].watts * d <= below.sum BY <2>4
  <2>10. PICK k \in 1 .. n : below.sum <= 2 * w.samples[k].watts * d BY <2>4
  <2>11. \E y \in {w.samples[j].watts, a, b} : 2 * y * (d + e) <= below.sum + (a + b) * e
    BY <1>1, <2>4, <2>5, <2>8, <2>9, LeastStays
  <2>12. \E y \in {w.samples[k].watts, a, b} : below.sum + (a + b) * e <= 2 * y * (d + e)
    BY <1>1, <2>4, <2>5, <2>8, <2>10, GreatestStays
  <2>13. \E y \in 1 .. n : 2 * w.samples[y].watts * (g[i].t - w.start) <= g[i].sum
    BY <1>4, <2>1, <2>7, <2>8, <2>11, Zenon DEF a, b
  <2>14. \E y \in 1 .. n : g[i].sum <= 2 * w.samples[y].watts * (g[i].t - w.start)
    BY <1>4, <2>1, <2>7, <2>8, <2>12, Zenon DEF a, b
  <2>15. g[i].sum \in Nat
    <3> DEFINE s == below.sum
    <3>1. s \in Nat BY <2>4
    <3> HIDE DEF s
    <3>2. (a + b) * e \in Nat BY <2>5, <2>8
    <3>3. s + (a + b) * e \in Nat BY <3>1, <3>2
    <3> QED BY <2>7, <3>3 DEF s
  <2>16. g[i].watts = w.samples[i].watts BY <2>7 DEF b
  <2> QED BY <1>4, <2>8, <2>13, <2>14, <2>15, <2>16 DEF Between, g
<1> QED BY <1>5, <1>6

\* The energy of a window, whatever the times of its samples.
LEMMA EnergyBetween ==
    ASSUME NEW w \in Window, Energy2(w) # None
    PROVE  \E j, k \in DOMAIN w.samples :
               /\ 2 * w.samples[j].watts * (w.end - w.start) <= Energy2(w)
               /\ Energy2(w) <= 2 * w.samples[k].watts * (w.end - w.start)
<1> DEFINE n == Len(w.samples)
           last == Trapezoids(w)[n]
           a == w.samples[n].watts
<1>1. /\ n \in Nat /\ w.start \in Nat /\ w.end \in Nat /\ DOMAIN w.samples = 1 .. n
      /\ \A i \in 1 .. n : w.samples[i].t \in Nat /\ w.samples[i].watts \in Nat
  BY SampleTyped
<1>2. w.samples # <<>> /\ w.start < w.end BY <1>1 DEF Energy2
<1>3. n \in 1 .. n /\ w.samples \in Seq(Sample)
  <2>1. w.samples \in Seq(Sample) BY DEF Window
  <2> QED BY <1>2, <2>1
<1>4. CASE n = 1
  <2>1. Energy2(w) = 2 * w.samples[1].watts * (w.end - w.start) BY <1>2, <1>4 DEF Energy2
  <2>2. Energy2(w) \in Nat
    <3> DEFINE x == w.samples[1].watts
               d == w.end - w.start
    <3>1. x \in Nat /\ d \in Nat BY <1>1, <1>2, <1>3, <1>4
    <3> HIDE DEF x, d
    <3>2. 2 * x * d \in Nat BY <3>1
    <3> QED BY <2>1, <3>2 DEF x, d
  <2> QED BY <1>1, <1>3, <1>4, <2>1, <2>2
<1>5. CASE n # 1
  <2>1. Energy2(w) = last.sum + 2 * last.watts * (w.end - last.t) BY <1>2, <1>5 DEF Energy2, Rest
  <2>2. Between(w, n) BY <1>2, <1>3, AreaBetween
  <2> HIDE DEF last
  <2>3. /\ last.t \in w.start .. w.end /\ last.watts = a /\ last.sum \in Nat
        /\ \E j \in 1 .. n : 2 * w.samples[j].watts * (last.t - w.start) <= last.sum
        /\ \E k \in 1 .. n : last.sum <= 2 * w.samples[k].watts * (last.t - w.start)
    BY <2>2 DEF Between, last
  <2> DEFINE d == last.t - w.start
             e == w.end - last.t
  <2>4. a \in Nat BY <1>1, <1>3
  <2> HIDE DEF a
  <2>5. d \in Nat /\ e \in Nat /\ d + e = w.end - w.start
    <3> DEFINE u == last.t
    <3>1. u \in w.start .. w.end BY <2>3
    <3> HIDE DEF u
    <3>2. u \in Nat /\ w.start <= u /\ u <= w.end BY <1>1, <3>1
    <3>3. u - w.start \in Nat /\ w.end - u \in Nat /\ (u - w.start) + (w.end - u) = w.end - w.start
      BY <1>1, <3>2
    <3> QED BY <3>3 DEF u
  <2>6. Energy2(w) = last.sum + 2 * a * e BY <2>1, <2>3
  <2> HIDE DEF d, e
  <2>7. Energy2(w) = last.sum + (a + a) * e BY <2>3, <2>4, <2>5, <2>6
  <2>8. PICK j \in 1 .. n : 2 * w.samples[j].watts * d <= last.sum BY <2>3 DEF d
  <2>9. PICK k \in 1 .. n : last.sum <= 2 * w.samples[k].watts * d BY <2>3 DEF d
  <2>10. \E y \in {w.samples[j].watts, a, a} : 2 * y * (d + e) <= last.sum + (a + a) * e
    BY <1>1, <2>3, <2>4, <2>5, <2>8, LeastStays
  <2>11. \E y \in {w.samples[k].watts, a, a} : last.sum + (a + a) * e <= 2 * y * (d + e)
    BY <1>1, <2>3, <2>4, <2>5, <2>9, GreatestStays
  <2>12. \E y \in 1 .. n : 2 * w.samples[y].watts * (w.end - w.start) <= Energy2(w)
    BY <1>3, <2>5, <2>7, <2>10, Zenon DEF a
  <2>13. \E y \in 1 .. n : Energy2(w) <= 2 * w.samples[y].watts * (w.end - w.start)
    BY <1>3, <2>5, <2>7, <2>11, Zenon DEF a
  <2> QED BY <1>1, <2>12, <2>13
<1> QED BY <1>4, <1>5

LEMMA EnergyFollows == IInv => EnergyWithinSamples
<1> SUFFICES ASSUME IInv, NEW i \in DOMAIN windows, Energy2(windows[i]) # None
             PROVE  \E j, k \in DOMAIN windows[i].samples :
                       /\ 2 * windows[i].samples[j].watts * (windows[i].end - windows[i].start)
                            <= Energy2(windows[i])
                       /\ Energy2(windows[i])
                            <= 2 * windows[i].samples[k].watts * (windows[i].end - windows[i].start)
  BY DEF EnergyWithinSamples
<1>1. windows \in Seq(Window) BY DEF IInv, Typed
<1>2. windows[i] \in Window BY <1>1
<1> QED BY <1>2, EnergyBetween

\* The energy a window is given lies between those of the powers of two of its
\* samples (_integrate_energy), whenever and however often the meter answered.
THEOREM EnergyIsMeasured == Spec => []EnergyWithinSamples
BY EnergyFollows, Inductive, PTL

-----------------------------------------------------------------------------
(* The time a benchmark takes *)

\* A phase starts when those before it have taken no more than their time; a
\* window that is about to be kept is over.
Timely ==
    /\ step = "next" => now <= MaxTime * Len(windows)
    /\ step \in {"running", "draining"} =>
          /\ window.phase = Phases[Len(windows) + 1]
          /\ window.start <= MaxTime * Len(windows) /\ now <= window.start + MaxTime
    /\ step = "draining" =>
          IF window.phase = "idle" THEN now >= window.start + IdleTime ELSE window.end >= window.start
    /\ now <= MaxTime * Len(Phases)
    /\ \A i \in DOMAIN windows :
          /\ windows[i].phase = Phases[i] /\ windows[i].end >= windows[i].start
          /\ windows[i].phase = "idle" => windows[i].end >= windows[i].start + IdleTime

LEMMA MorePhases ==
    ASSUME NEW k \in Nat, NEW n \in Nat, NEW d \in Nat, k < n
    PROVE  d * k + d <= d * n /\ d * k \in Nat /\ d * (k + 1) = d * k + d /\ d * n \in Nat
<1>1. PICK m \in Nat : n = k + 1 + m
  <2>1. n - k - 1 \in Nat /\ n = k + 1 + (n - k - 1) OBVIOUS
  <2> QED BY <2>1
<1>2. d * n = d * k + d + d * m BY <1>1
<1>3. d * k \in Nat /\ d * m \in Nat /\ d * (k + 1) = d * k + d /\ d * n \in Nat OBVIOUS
<1> QED BY <1>2, <1>3

LEMMA TimelyStep == ASSUME IInv, Timely, [Next]_vars PROVE Timely'
<1> DEFINE k == Len(windows)
<1>1. k \in Nat /\ now \in Nat /\ window \in Window /\ windows \in Seq(Window) BY DEF IInv, Typed
<1>2. window.start \in Nat /\ window.end \in Nat BY <1>1 DEF Window
<1>3. MaxTime \in Nat /\ IdleTime \in Nat BY BenchmarkConstantsOK
<1>4. Len(Phases) \in Nat BY Constants
<1>5. step \in {"next", "running", "draining"} => k < Len(Phases) BY DEF IInv, Typed
<1>6. k < Len(Phases) =>
         /\ MaxTime * k + MaxTime <= MaxTime * Len(Phases) /\ MaxTime * k \in Nat
         /\ MaxTime * (k + 1) = MaxTime * k + MaxTime /\ MaxTime * Len(Phases) \in Nat
  BY <1>1, <1>3, <1>4, MorePhases
<1>7. CASE UNCHANGED <<step, window, windows, now>>
  BY <1>7 DEF Timely
<1>8. CASE Begin
  <2>1. /\ step = "next" /\ step' = "running" /\ window'.phase = Phases[k + 1] /\ window'.start = now
        /\ UNCHANGED <<windows, now>>
    BY <1>8 DEF Begin, Phase
  <2> QED BY <1>1, <1>3, <2>1 DEF Timely
<1>9. CASE \E w \in Watts : Sampled(w)
  <2>1. /\ window'.phase = window.phase /\ window'.start = window.start /\ window'.end = window.end
        /\ UNCHANGED <<step, windows, now>>
    BY <1>1, <1>9 DEF Sampled, Window
  <2> QED BY <2>1 DEF Timely
<1>10. CASE CommandEnds
  <2>1. /\ step = "running" /\ step' = "draining" /\ window'.phase = window.phase /\ window'.start = window.start
        /\ window'.end = now /\ process # None /\ process' = process /\ UNCHANGED <<windows, now>>
    BY <1>1, <1>10, Constants DEF CommandEnds, Window
  <2>2. window.phase # "idle" /\ window.start <= now BY <2>1 DEF IInv, Running, InWindow
  <2> QED BY <1>1, <1>2, <2>1, <2>2 DEF Timely
<1>11. CASE IdleEnds
  <2>1. /\ step = "running" /\ step' = "draining" /\ process = None /\ now >= window.start + IdleTime
        /\ UNCHANGED <<window, windows, now>>
    BY <1>11 DEF IdleEnds
  <2>2. window.phase = "idle" BY <2>1 DEF IInv, Running
  <2> QED BY <2>1, <2>2 DEF Timely
<1>12. CASE Tick
  <2>1. /\ step \in {"running", "draining"} /\ now < window.start + MaxTime /\ now' = now + 1
        /\ UNCHANGED <<step, window, windows>>
    BY <1>12 DEF Tick
  <2>2. now + 1 <= window.start + MaxTime BY <1>1, <1>2, <1>3, <2>1
  <2>3. window.start <= MaxTime * k BY <2>1 DEF Timely
  <2>4. MaxTime * k + MaxTime <= MaxTime * Len(Phases) /\ MaxTime * k \in Nat /\ MaxTime * Len(Phases) \in Nat
    BY <1>5, <1>6, <2>1
  <2>5. now + 1 <= MaxTime * Len(Phases) BY <1>1, <1>2, <1>3, <2>2, <2>3, <2>4
  <2>6. step = "draining" /\ window.phase = "idle" => now + 1 >= window.start + IdleTime
    BY <1>1, <1>2, <1>3 DEF Timely
  <2> QED BY <2>1, <2>2, <2>5, <2>6 DEF Timely
<1>13. CASE Collect
  <2>1. step = "draining" /\ UNCHANGED <<window, now>> BY <1>13 DEF Collect
  <2>2. CASE step' = "raised" /\ windows' = windows BY <2>1, <2>2 DEF Timely
  <2>3. CASE windows' = Append(windows, Ended(window)) /\ step' = IF k + 1 = Len(Phases) THEN "ended" ELSE "next"
    <3> DEFINE d == Ended(window)
    <3>1. /\ d.phase = window.phase /\ d.start = window.start
          /\ d.end = IF window.phase = "idle" THEN now ELSE window.end
      BY <1>1 DEF Ended, Window
    <3>2. d.end >= d.start /\ (d.phase = "idle" => d.end >= d.start + IdleTime)
      <4>1. CASE window.phase = "idle" BY <1>1, <1>2, <1>3, <2>1, <3>1, <4>1 DEF Timely
      <4>2. CASE window.phase # "idle" BY <1>1, <1>2, <2>1, <3>1, <4>2 DEF Timely
      <4> QED BY <4>1, <4>2
    <3>3. d.phase = Phases[k + 1] BY <2>1, <3>1 DEF Timely
    <3> HIDE DEF d
    <3>4. /\ Len(windows') = k + 1 /\ DOMAIN windows' = 1 .. k + 1 /\ DOMAIN windows = 1 .. k
          /\ windows'[k + 1] = d /\ \A i \in DOMAIN windows : windows'[i] = windows[i]
      <4>1. windows' = Append(windows, d) BY <2>3 DEF d
      <4> QED BY <1>1, <4>1
    <3>5. ASSUME NEW i \in DOMAIN windows'
          PROVE  /\ windows'[i].phase = Phases[i] /\ windows'[i].end >= windows'[i].start
                 /\ windows'[i].phase = "idle" => windows'[i].end >= windows'[i].start + IdleTime
      <4>1. CASE i \in DOMAIN windows BY <3>4, <4>1 DEF Timely
      <4>2. CASE i = k + 1 BY <3>2, <3>3, <3>4, <4>2
      <4> QED BY <1>1, <3>4, <4>1, <4>2
    <3>6. now' <= MaxTime * (k + 1)
      <4>1. now <= window.start + MaxTime /\ window.start <= MaxTime * k BY <2>1 DEF Timely
      <4>2. MaxTime * k \in Nat /\ MaxTime * (k + 1) = MaxTime * k + MaxTime BY <1>5, <1>6, <2>1
      <4> QED BY <1>1, <1>2, <1>3, <2>1, <4>1, <4>2
    <3>7. now' <= MaxTime * Len(Phases) BY <2>1 DEF Timely
    <3>8. step' \in {"ended", "next"} BY <2>3
    <3> QED BY <3>4, <3>5, <3>6, <3>7, <3>8 DEF Timely
  <2> QED BY <1>13, <2>2, <2>3 DEF Collect
<1>14. CASE SamplerStarts \/ SampleFails \/ Rested \/ TimedOut \/ Finished \/ Forks \/ DescendantsEnd
  BY <1>7, <1>14 DEF SamplerStarts, SampleFails, Rested, TimedOut, Finished, Forks, DescendantsEnd, vars
<1>15. CASE \E how \in {"exited", "failed"} : ProcessEnds(how) BY <1>7, <1>15 DEF ProcessEnds
<1>16. CASE UNCHANGED vars BY <1>7, <1>16 DEF vars
<1>17. CASE Cancelled
  <2>1. /\ step \in {"running", "draining"} /\ step' = "cancelled"
        /\ UNCHANGED <<window, windows, now>>
    BY <1>17 DEF Cancelled
  <2> QED BY <2>1 DEF Timely
<1> QED
  BY <1>8, <1>9, <1>10, <1>11, <1>12, <1>13, <1>14, <1>15, <1>16, <1>17 DEF Next

LEMMA TimelyInit == Init => Timely
<1> SUFFICES ASSUME Init PROVE Timely OBVIOUS
<1>1. step = "next" /\ windows = <<>> /\ now = 0 BY DEF Init
<1>2. Len(windows) = 0 /\ DOMAIN windows = {} BY <1>1
<1>3. MaxTime \in Nat /\ Len(Phases) \in Nat BY BenchmarkConstantsOK, Constants
<1>4. 0 <= MaxTime * 0 /\ 0 <= MaxTime * Len(Phases)
  <2>1. MaxTime * Len(Phases) \in Nat BY <1>3
  <2> QED BY <1>3, <2>1
<1> QED BY <1>1, <1>2, <1>4 DEF Timely

LEMMA TypeFollows == IInv /\ Timely => TypeOK
<1> SUFFICES ASSUME IInv, Timely PROVE TypeOK OBVIOUS
<1>1. MaxTime * Len(Phases) \in Nat
  <2>1. MaxTime \in Nat /\ Len(Phases) \in Nat BY BenchmarkConstantsOK, Constants
  <2> QED BY <2>1
<1>2. now \in 0 .. MaxTime * Len(Phases) BY <1>1 DEF IInv, Typed, Timely
<1> QED BY <1>2 DEF IInv, Typed, Timely, TypeOK

\* A benchmark is of its type, and keeps a window only for a phase that is over,
\* the idle one after its time (measure_idle).
THEOREM BenchmarkTyped == Spec => []TypeOK
<1>1. IInv /\ Timely /\ [Next]_vars => Timely' BY TimelyStep
<1> QED BY Inductive, TimelyInit, <1>1, TypeFollows, PTL DEF Spec

-----------------------------------------------------------------------------
(* PowerEvidence *)

\* The sources say what they may say, and the store holds what they may have
\* said, each once; so does what is about to be written.
Unique(rows) == \A o, e \in rows : o.id = e.id => o = e
SourcesOf(c) ==
    /\ catalog \in [c.parts -> Power(c)!Rows(c.catalogRows)] /\ \A p \in c.parts : catalog[p] \in c.catalogRows[p]
    /\ pages \in [c.parts -> Power(c)!Rows(c.pageRows) \cup {None}]
    /\ \A p \in c.parts : pages[p] # None => pages[p] \in c.pageRows[p]
    /\ runs \in [c.runIds -> Power(c)!Rows(c.runRows) \cup {None}]
    /\ \A i \in c.runIds : runs[i] # None => runs[i] \in c.runRows[i]
StoreOf(c) ==
    /\ evidence \subseteq Power(c)!Observable /\ Unique(evidence)
    /\ copy \in [c.writers -> Power(c)!Copies \cup {None}]
    /\ \A w \in c.writers : copy[w] # None => Unique(copy[w].rows)
    /\ stale \in BOOLEAN /\ edits \in 0 .. c.maxEdits
PowerInv(c) == SourcesOf(c) /\ StoreOf(c)

\* The first of two facts is known if one of them is.
LEMMA FirstKnown ==
    ASSUME NEW CONSTANT c, NEW a, NEW b, a # None \/ b # None PROVE Power(c)!First(<<a, b>>) # None
<1> DEFINE s == <<a, b>>
           Is(i) == s[i] # None /\ \A j \in 1 .. (i - 1) : ~ (s[j] # None)
<1>1. DOMAIN s = {1, 2} /\ s[1] = a /\ s[2] = b OBVIOUS
<1>2. \E i \in DOMAIN s : s[i] # None BY <1>1
<1>3. \E i \in DOMAIN s : Is(i)
  <2>1. CASE a # None
    <3>1. 1 .. (1 - 1) = {} OBVIOUS
    <3> QED BY <1>1, <2>1, <3>1
  <2>2. CASE a = None
    <3>1. 1 .. (2 - 1) = {1} OBVIOUS
    <3> QED BY <1>1, <2>2, <3>1
  <2> QED BY <2>1, <2>2
<1>4. Power(c)!First(s) = s[CHOOSE i \in DOMAIN s : Is(i)] BY <1>2 DEF Power!First, Power!Known
<1> QED BY <1>3, <1>4

\* What the sources yield may be yielded, each observation once.
LEMMA ObservationsAre ==
    ASSUME NEW CONSTANT c, SourcesOf(c)
    PROVE  Power(c)!Observations \subseteq Power(c)!Observable /\ Unique(Power(c)!Observations)
<1>1. ASSUME NEW o \in Power(c)!CatalogObservations PROVE o \in Power(c)!Observable
  <2>1. PICK p \in c.parts : Power(c)!HasLoad(catalog[p]) /\ o = Power(c)!OfCatalog(p, catalog[p])
    BY DEF Power!CatalogObservations
  <2>2. catalog[p] \in {r \in c.catalogRows[p] : Power(c)!HasLoad(r)} BY <2>1 DEF SourcesOf
  <2>3. o \in {Power(c)!OfCatalog(p, row) : row \in {r \in c.catalogRows[p] : Power(c)!HasLoad(r)}} BY <2>1, <2>2
  <2> QED BY <2>3, Zenon DEF Power!Observable
<1>2. ASSUME NEW o \in Power(c)!PageObservations PROVE o \in Power(c)!Observable
  <2>1. PICK p \in c.parts : pages[p] # None /\ Power(c)!Known(pages[p].fact) /\ o = Power(c)!OfPage(p, pages[p])
    BY DEF Power!PageObservations
  <2>2. pages[p] \in {r \in c.pageRows[p] : Power(c)!Known(r.fact)} BY <2>1 DEF SourcesOf
  <2>3. o \in {Power(c)!OfPage(p, row) : row \in {r \in c.pageRows[p] : Power(c)!Known(r.fact)}} BY <2>1, <2>2
  <2> QED BY <2>3, Zenon DEF Power!Observable
<1>3. ASSUME NEW o \in Power(c)!RunObservations PROVE o \in Power(c)!Observable
  <2>1. PICK i \in c.runIds : runs[i] # None /\ Power(c)!HasPower(runs[i]) /\ o = Power(c)!OfRun(i, runs[i])
    BY DEF Power!RunObservations
  <2>2. runs[i] \in {r \in c.runRows[i] : Power(c)!HasPower(r)} BY <2>1 DEF SourcesOf
  <2>3. o \in {Power(c)!OfRun(i, row) : row \in {r \in c.runRows[i] : Power(c)!HasPower(r)}} BY <2>1, <2>2
  <2> QED BY <2>3, Zenon DEF Power!Observable
<1>4. ASSUME NEW o \in Power(c)!Observations, NEW e \in Power(c)!Observations, o.id = e.id PROVE o = e
  <2>1. ASSUME NEW x \in Power(c)!CatalogObservations
        PROVE  \E p \in c.parts : x = Power(c)!OfCatalog(p, catalog[p]) /\ x.id[1] = "catalog" /\ x.id[2] = p
    BY DEF Power!CatalogObservations, Power!OfCatalog
  <2>2. ASSUME NEW x \in Power(c)!PageObservations
        PROVE  \E p \in c.parts : x = Power(c)!OfPage(p, pages[p]) /\ x.id[1] = "page" /\ x.id[2] = p
    BY DEF Power!PageObservations, Power!OfPage
  <2>3. ASSUME NEW x \in Power(c)!RunObservations
        PROVE  \E i \in c.runIds : x = Power(c)!OfRun(i, runs[i]) /\ x.id[1] = "run" /\ x.id[2] = i
    BY DEF Power!RunObservations, Power!OfRun
  <2>4. CASE o \in Power(c)!CatalogObservations
    <3>1. e \in Power(c)!CatalogObservations BY <1>4, <2>1, <2>2, <2>3, <2>4 DEF Power!Observations
    <3> QED BY <1>4, <2>1, <2>4, <3>1
  <2>5. CASE o \in Power(c)!PageObservations
    <3>1. e \in Power(c)!PageObservations BY <1>4, <2>1, <2>2, <2>3, <2>5 DEF Power!Observations
    <3> QED BY <1>4, <2>2, <2>5, <3>1
  <2>6. CASE o \in Power(c)!RunObservations
    <3>1. e \in Power(c)!RunObservations BY <1>4, <2>1, <2>2, <2>3, <2>6 DEF Power!Observations
    <3> QED BY <1>4, <2>3, <2>6, <3>1
  <2> QED BY <2>4, <2>5, <2>6 DEF Power!Observations
<1> QED BY <1>1, <1>2, <1>3, <1>4 DEF Power!Observations, Unique

\* A refresh adds what is new and leaves what is there.
LEMMA AddedIs ==
    ASSUME NEW CONSTANT c, SourcesOf(c), NEW rows \in SUBSET Power(c)!Observable, Unique(rows)
    PROVE  /\ Power(c)!Added(rows) \in SUBSET Power(c)!Observable /\ Unique(Power(c)!Added(rows))
           /\ rows \subseteq Power(c)!Added(rows) /\ Power(c)!Ids(Power(c)!Observations) \subseteq Power(c)!Ids(Power(c)!Added(rows))
<1>1. Power(c)!Observations \subseteq Power(c)!Observable /\ Unique(Power(c)!Observations) BY ObservationsAre
<1>2. Power(c)!Added(rows) = rows \cup {o \in Power(c)!Observations : o.id \notin Power(c)!Ids(rows)} BY DEF Power!Added
<1>3. \A o \in rows : o.id \in Power(c)!Ids(rows) BY DEF Power!Ids
<1>4. Unique(Power(c)!Added(rows)) BY <1>1, <1>2, <1>3 DEF Unique
<1>5. ASSUME NEW x \in Power(c)!Ids(Power(c)!Observations) PROVE x \in Power(c)!Ids(Power(c)!Added(rows))
  <2>1. PICK o \in Power(c)!Observations : x = o.id BY DEF Power!Ids
  <2>2. CASE x \in Power(c)!Ids(rows)
    <3>1. PICK e \in rows : x = e.id BY <2>2 DEF Power!Ids
    <3> QED BY <1>2, <3>1 DEF Power!Ids
  <2>3. CASE x \notin Power(c)!Ids(rows)
    <3>1. o \in Power(c)!Added(rows) BY <1>2, <2>1, <2>3
    <3> QED BY <2>1, <3>1 DEF Power!Ids
  <2> QED BY <2>2, <2>3
<1> QED BY <1>1, <1>2, <1>4, <1>5

LEMMA PowerInit ==
    ASSUME NEW CONSTANT c, Power(c)!PowerConstantsOK, Power(c)!Init PROVE PowerInv(c)
<1>1. /\ catalog \in [c.parts -> UNION {c.catalogRows[p] : p \in c.parts}]
      /\ \A p \in c.parts : catalog[p] \in c.catalogRows[p]
      /\ pages = [p \in c.parts |-> None] /\ runs = [i \in c.runIds |-> None]
      /\ evidence = {} /\ copy = [w \in c.writers |-> None] /\ stale = TRUE /\ edits = 0
  BY DEF Power!Init
<1>2. c.maxEdits \in Nat /\ DOMAIN c.catalogRows = c.parts BY DEF Power!PowerConstantsOK
<1>3. SourcesOf(c) BY <1>1, <1>2 DEF SourcesOf, Power!Rows
<1>4. StoreOf(c) BY <1>1, <1>2 DEF StoreOf, Unique
<1> QED BY <1>3, <1>4 DEF PowerInv

\* An edit makes what is about to be written stale and changes no row of it.
LEMMA StaleCopies ==
    ASSUME NEW CONSTANT c, Power(c)!PowerConstantsOK, StoreOf(c),
           copy' = [w \in c.writers |-> IF copy[w] = None THEN None ELSE [copy[w] EXCEPT !.stale = TRUE]]
    PROVE  /\ copy' \in [c.writers -> Power(c)!Copies \cup {None}]
           /\ \A w \in c.writers :
                /\ copy'[w] # None <=> copy[w] # None
                /\ copy'[w] # None => /\ copy'[w].rows = copy[w].rows /\ copy'[w].read = copy[w].read
                                      /\ copy'[w].stale = TRUE
<1>1. copy \in [c.writers -> Power(c)!Copies \cup {None}] /\ None \notin Power(c)!Copies BY DEF StoreOf, Power!PowerConstantsOK
<1> DEFINE Stale(d) == [d EXCEPT !.stale = TRUE]
<1>2. ASSUME NEW w \in c.writers, copy[w] # None
      PROVE  /\ Stale(copy[w]) \in Power(c)!Copies /\ Stale(copy[w]).rows = copy[w].rows
             /\ Stale(copy[w]).read = copy[w].read /\ Stale(copy[w]).stale = TRUE
  <2>1. copy[w] \in Power(c)!Copies BY <1>1, <1>2
  <2> QED BY <2>1 DEF Power!Copies
<1>3. \A w \in c.writers : copy'[w] = IF copy[w] = None THEN None ELSE Stale(copy[w]) OBVIOUS
<1>4. copy' = [w \in c.writers |-> copy'[w]] OBVIOUS
<1> HIDE DEF Stale
<1>5. \A w \in c.writers : copy'[w] \in Power(c)!Copies \cup {None} BY <1>2, <1>3
<1>6. copy' \in [c.writers -> Power(c)!Copies \cup {None}] BY <1>4, <1>5
<1>7. ASSUME NEW w \in c.writers, copy[w] # None
      PROVE  copy'[w] = Stale(copy[w]) /\ copy'[w] # None
  BY <1>1, <1>2, <1>3, <1>7
<1>8. ASSUME NEW w \in c.writers, copy[w] = None PROVE copy'[w] = None BY <1>3, <1>8
<1>9. ASSUME NEW w \in c.writers, copy'[w] # None
      PROVE  /\ copy[w] # None /\ copy'[w].rows = copy[w].rows /\ copy'[w].read = copy[w].read
             /\ copy'[w].stale = TRUE
  <2>1. copy[w] # None BY <1>8, <1>9
  <2> QED BY <1>2, <1>7, <2>1
<1> QED BY <1>6, <1>7, <1>9

LEMMA PowerStep ==
    ASSUME NEW CONSTANT c, Power(c)!PowerConstantsOK, PowerInv(c), [Power(c)!Next]_powerVars
    PROVE  PowerInv(c)'
<1>1. SourcesOf(c) /\ StoreOf(c) BY DEF PowerInv
<1>2. CASE UNCHANGED powerVars
  <2>1. UNCHANGED <<catalog, pages, runs, evidence, copy, stale, edits>> BY <1>2 DEF powerVars
  <2>2. SourcesOf(c)' BY <1>1, <2>1 DEF SourcesOf
  <2>3. StoreOf(c)' BY <1>1, <2>1 DEF StoreOf
  <2> QED BY <2>2, <2>3 DEF PowerInv
<1>3. CASE Power(c)!Edit
  <2>1. /\ edits < c.maxEdits /\ edits' = edits + 1 /\ stale' = TRUE /\ UNCHANGED evidence
        /\ copy' = [w \in c.writers |-> IF copy[w] = None THEN None ELSE [copy[w] EXCEPT !.stale = TRUE]]
    BY <1>3 DEF Power!Edit
  <2>2. c.maxEdits \in Nat /\ DOMAIN c.catalogRows = c.parts /\ DOMAIN c.pageRows = c.parts
        /\ DOMAIN c.runRows = c.runIds
    BY DEF Power!PowerConstantsOK
  <2>3. StoreOf(c)'
    <3>1. /\ copy' \in [c.writers -> Power(c)!Copies \cup {None}]
          /\ \A w \in c.writers :
               /\ copy'[w] # None <=> copy[w] # None
               /\ copy'[w] # None => /\ copy'[w].rows = copy[w].rows /\ copy'[w].read = copy[w].read
                                     /\ copy'[w].stale = TRUE
      BY <1>1, <2>1, StaleCopies
    <3>2. \A w \in c.writers : copy'[w] # None => Unique(copy'[w].rows) BY <1>1, <3>1 DEF StoreOf
    <3> QED BY <1>1, <2>1, <2>2, <3>1, <3>2 DEF StoreOf
  <2>4. CASE /\ \E p \in c.parts : \E row \in c.catalogRows[p] : catalog' = [catalog EXCEPT ![p] = row]
             /\ UNCHANGED <<pages, runs>>
    <3>1. PICK p \in c.parts, row \in UNION {c.catalogRows[q] : q \in c.parts} :
             row \in c.catalogRows[p] /\ catalog' = [catalog EXCEPT ![p] = row]
      BY <2>4
    <3>2. row \in Power(c)!Rows(c.catalogRows) BY <2>2, <3>1 DEF Power!Rows
    <3>3. catalog' \in [c.parts -> Power(c)!Rows(c.catalogRows)] BY <1>1, <3>1, <3>2 DEF SourcesOf
    <3>4. \A q \in c.parts : catalog'[q] = IF q = p THEN row ELSE catalog[q] BY <1>1, <3>1 DEF SourcesOf
    <3>5. SourcesOf(c)' BY <1>1, <2>4, <3>1, <3>3, <3>4 DEF SourcesOf
    <3> QED BY <2>3, <3>5 DEF PowerInv
  <2>5. CASE /\ \E p \in c.parts : \E row \in c.pageRows[p] : pages' = [pages EXCEPT ![p] = row]
             /\ UNCHANGED <<catalog, runs>>
    <3>1. PICK p \in c.parts, row \in UNION {c.pageRows[q] : q \in c.parts} :
             row \in c.pageRows[p] /\ pages' = [pages EXCEPT ![p] = row]
      BY <2>5
    <3>2. row \in Power(c)!Rows(c.pageRows) BY <2>2, <3>1 DEF Power!Rows
    <3>3. pages' \in [c.parts -> Power(c)!Rows(c.pageRows) \cup {None}] BY <1>1, <3>1, <3>2 DEF SourcesOf
    <3>4. \A q \in c.parts : pages'[q] = IF q = p THEN row ELSE pages[q] BY <1>1, <3>1 DEF SourcesOf
    <3>5. SourcesOf(c)' BY <1>1, <2>5, <3>1, <3>3, <3>4 DEF SourcesOf
    <3> QED BY <2>3, <3>5 DEF PowerInv
  <2>6. CASE /\ \E i \in c.runIds : \E row \in c.runRows[i] : runs' = [runs EXCEPT ![i] = row]
             /\ UNCHANGED <<catalog, pages>>
    <3>1. PICK i \in c.runIds, row \in UNION {c.runRows[q] : q \in c.runIds} :
             row \in c.runRows[i] /\ runs' = [runs EXCEPT ![i] = row]
      BY <2>6
    <3>2. row \in Power(c)!Rows(c.runRows) BY <2>2, <3>1 DEF Power!Rows
    <3>3. runs' \in [c.runIds -> Power(c)!Rows(c.runRows) \cup {None}] BY <1>1, <3>1, <3>2 DEF SourcesOf
    <3>4. \A q \in c.runIds : runs'[q] = IF q = i THEN row ELSE runs[q] BY <1>1, <3>1 DEF SourcesOf
    <3>5. SourcesOf(c)' BY <1>1, <2>6, <3>1, <3>3, <3>4 DEF SourcesOf
    <3> QED BY <2>3, <3>5 DEF PowerInv
  <2> QED BY <1>3, <2>3, <2>4, <2>5, <2>6 DEF PowerInv, Power!Edit
<1>4. ASSUME NEW w \in c.writers, Power(c)!Collect(w) PROVE PowerInv(c)'
  <2>1. /\ copy' = [copy EXCEPT ![w] = [read |-> evidence, rows |-> Power(c)!Added(evidence), stale |-> FALSE]]
        /\ UNCHANGED <<catalog, pages, runs, evidence, stale, edits>>
    BY <1>4 DEF Power!Collect
  <2>2. Power(c)!Added(evidence) \in SUBSET Power(c)!Observable /\ Unique(Power(c)!Added(evidence)) /\ evidence \in SUBSET Power(c)!Observable
    BY <1>1, AddedIs DEF StoreOf
  <2> DEFINE d == [read |-> evidence, rows |-> Power(c)!Added(evidence), stale |-> FALSE]
  <2>3. d \in Power(c)!Copies /\ d.rows = Power(c)!Added(evidence) BY <2>2 DEF Power!Copies
  <2> HIDE DEF d
  <2>4. copy' = [copy EXCEPT ![w] = d] BY <2>1 DEF d
  <2>5. Unique(d.rows) BY <2>2, <2>3
  <2>6. copy' \in [c.writers -> Power(c)!Copies \cup {None}] /\ \A v \in c.writers : copy'[v] = IF v = w THEN d ELSE copy[v]
    BY <1>1, <2>3, <2>4 DEF StoreOf
  <2>7. StoreOf(c)' BY <1>1, <2>1, <2>5, <2>6 DEF StoreOf
  <2>8. SourcesOf(c)' BY <1>1, <2>1 DEF SourcesOf
  <2> QED BY <2>7, <2>8 DEF PowerInv
<1>5. ASSUME NEW w \in c.writers, Power(c)!Save(w) PROVE PowerInv(c)'
  <2>1. /\ copy[w] # None /\ evidence' = copy[w].rows /\ copy' = [copy EXCEPT ![w] = None]
        /\ stale' = copy[w].stale /\ UNCHANGED <<catalog, pages, runs, edits>>
    BY <1>5 DEF Power!Save
  <2>2. copy[w] \in Power(c)!Copies BY <1>1, <2>1 DEF StoreOf
  <2>3. evidence' \subseteq Power(c)!Observable /\ stale' \in BOOLEAN BY <2>1, <2>2 DEF Power!Copies
  <2>4. StoreOf(c)' BY <1>1, <2>1, <2>3 DEF StoreOf
  <2>5. SourcesOf(c)' BY <1>1, <2>1 DEF SourcesOf
  <2> QED BY <2>4, <2>5 DEF PowerInv
<1> QED BY <1>2, <1>3, <1>4, <1>5 DEF Power!Next

LEMMA PowerAlways ==
    ASSUME NEW CONSTANT c, Power(c)!PowerConstantsOK PROVE Power(c)!Spec => []PowerInv(c)
<1>1. Power(c)!Init => PowerInv(c) BY PowerInit
<1>2. UNCHANGED Power(c)!vars => UNCHANGED powerVars BY DEF Power!vars, powerVars
<1>3. [Power(c)!Next]_(Power(c)!vars) => [Power(c)!Next]_powerVars BY <1>2
<1>4. PowerInv(c) /\ [Power(c)!Next]_(Power(c)!vars) => PowerInv(c)' BY <1>3, PowerStep
<1> QED BY <1>1, <1>4, PTL DEF Power!Spec

LEMMA PowerTyped == ASSUME NEW CONSTANT c, PowerInv(c) PROVE Power(c)!TypeOK
BY DEF PowerInv, SourcesOf, StoreOf, Unique, Power!TypeOK

-----------------------------------------------------------------------------
(* What the store keeps *)

\* What is about to be written has what was read, and what the sources said then,
\* which they still say unless one was edited since.
GrowingIn(c) ==
    /\ \A w \in c.writers : copy[w] # None =>
         /\ copy[w].read \subseteq copy[w].rows
         /\ ~copy[w].stale => Power(c)!Ids(Power(c)!Observations) \subseteq Power(c)!Ids(copy[w].rows)
    /\ Power(c)!Settles

LEMMA GrowingInit ==
    ASSUME NEW CONSTANT c, Power(c)!Init PROVE GrowingIn(c)
BY DEF Power!Init, GrowingIn, Power!Settles

LEMMA GrowingStep ==
    ASSUME NEW CONSTANT c, Power(c)!PowerConstantsOK, PowerInv(c), GrowingIn(c), [Power(c)!Next]_powerVars
    PROVE  GrowingIn(c)' /\ Power(c)!LostByOverlap
<1>1. SourcesOf(c) /\ StoreOf(c) BY DEF PowerInv
<1>2. evidence' = evidence => Power(c)!LostByOverlap BY DEF Power!LostByOverlap
<1>3. UNCHANGED <<catalog, pages, runs>> => Power(c)!Observations' = Power(c)!Observations
  BY DEF Power!Observations, Power!CatalogObservations, Power!PageObservations, Power!RunObservations
<1>4. CASE UNCHANGED powerVars
  <2>1. UNCHANGED <<catalog, pages, runs, evidence, copy, stale>> BY <1>4 DEF powerVars
  <2> QED BY <1>2, <1>3, <2>1 DEF GrowingIn, Power!Settles
<1>5. CASE Power(c)!Edit
  <2>1. /\ stale' = TRUE /\ UNCHANGED evidence
        /\ copy' = [w \in c.writers |-> IF copy[w] = None THEN None ELSE [copy[w] EXCEPT !.stale = TRUE]]
    BY <1>5 DEF Power!Edit
  <2>2. \A w \in c.writers :
          /\ copy'[w] # None <=> copy[w] # None
          /\ copy'[w] # None => /\ copy'[w].rows = copy[w].rows /\ copy'[w].read = copy[w].read
                                /\ copy'[w].stale = TRUE
    BY <1>1, <2>1, StaleCopies
  <2>3. ASSUME NEW w \in c.writers, copy'[w] # None
        PROVE  copy'[w].read \subseteq copy'[w].rows /\ copy'[w].stale
    BY <2>2, <2>3 DEF GrowingIn
  <2> QED BY <1>2, <2>1, <2>3 DEF GrowingIn, Power!Settles
<1>6. ASSUME NEW w \in c.writers, Power(c)!Collect(w) PROVE GrowingIn(c)' /\ Power(c)!LostByOverlap
  <2>1. /\ copy' = [copy EXCEPT ![w] = [read |-> evidence, rows |-> Power(c)!Added(evidence), stale |-> FALSE]]
        /\ UNCHANGED <<catalog, pages, runs, evidence, stale>>
    BY <1>6 DEF Power!Collect
  <2>2. evidence \subseteq Power(c)!Added(evidence) /\ Power(c)!Ids(Power(c)!Observations) \subseteq Power(c)!Ids(Power(c)!Added(evidence))
    BY <1>1, AddedIs DEF StoreOf
  <2> DEFINE d == [read |-> evidence, rows |-> Power(c)!Added(evidence), stale |-> FALSE]
  <2>3. d.read = evidence /\ d.rows = Power(c)!Added(evidence) OBVIOUS
  <2>4. copy' = [copy EXCEPT ![w] = d] BY <2>1
  <2> HIDE DEF d
  <2>5. \A v \in c.writers : copy'[v] = IF v = w THEN d ELSE copy[v] BY <1>1, <2>4 DEF StoreOf
  <2>6. Power(c)!Ids(Power(c)!Observations') \subseteq Power(c)!Ids(d.rows) BY <1>3, <2>1, <2>2, <2>3
  <2>7. ASSUME NEW v \in c.writers, copy'[v] # None
        PROVE  /\ copy'[v].read \subseteq copy'[v].rows
               /\ ~copy'[v].stale => Power(c)!Ids(Power(c)!Observations') \subseteq Power(c)!Ids(copy'[v].rows)
    <3>1. CASE v = w BY <2>2, <2>3, <2>5, <2>6, <3>1
    <3>2. CASE v # w
      <4>1. copy'[v] = copy[v] BY <2>5, <3>2
      <4>2. Power(c)!Observations' = Power(c)!Observations BY <1>3, <2>1
      <4> QED BY <2>7, <4>1, <4>2 DEF GrowingIn
    <3> QED BY <3>1, <3>2
  <2>8. Power(c)!Settles' BY <1>3, <2>1 DEF GrowingIn, Power!Settles
  <2> QED BY <1>2, <2>1, <2>7, <2>8 DEF GrowingIn
<1>7. ASSUME NEW w \in c.writers, Power(c)!Save(w) PROVE GrowingIn(c)' /\ Power(c)!LostByOverlap
  <2>1. /\ copy[w] # None /\ evidence' = copy[w].rows /\ copy' = [copy EXCEPT ![w] = None]
        /\ stale' = copy[w].stale /\ UNCHANGED <<catalog, pages, runs>>
    BY <1>7 DEF Power!Save
  <2>2. \A v \in c.writers : copy'[v] = IF v = w THEN None ELSE copy[v] BY <1>1, <2>1 DEF StoreOf
  <2>3. Power(c)!Observations' = Power(c)!Observations BY <1>3, <2>1
  <2>4. copy[w].read \subseteq evidence' BY <2>1 DEF GrowingIn
  <2>5. Power(c)!LostByOverlap BY <2>1, <2>2, <2>4 DEF Power!LostByOverlap
  <2>6. Power(c)!Settles' BY <2>1, <2>3 DEF GrowingIn, Power!Settles
  <2>7. ASSUME NEW v \in c.writers, copy'[v] # None
        PROVE  /\ copy'[v].read \subseteq copy'[v].rows
               /\ ~copy'[v].stale => Power(c)!Ids(Power(c)!Observations') \subseteq Power(c)!Ids(copy'[v].rows)
    <3>1. copy'[v] = copy[v] BY <2>2, <2>7
    <3> QED BY <2>3, <2>7, <3>1 DEF GrowingIn
  <2> QED BY <2>5, <2>6, <2>7 DEF GrowingIn
<1> QED BY <1>4, <1>5, <1>6, <1>7 DEF Power!Next

\* However many processes refresh the store, an observation that was written is
\* lost only to one that had read the store before (refresh_power_evidence,
\* add_power_observation), whatever the catalog, the pages and the records say.
THEOREM LostOnlyByOverlap ==
    ASSUME NEW CONSTANT c, Power(c)!PowerConstantsOK
    PROVE  Power(c)!Spec => [][Power(c)!LostByOverlap]_powerVars
<1>1. Power(c)!Init => GrowingIn(c) BY GrowingInit
<1>2. UNCHANGED Power(c)!vars <=> UNCHANGED powerVars BY DEF Power!vars, powerVars
<1>3. [Power(c)!Next]_(Power(c)!vars) => [Power(c)!Next]_powerVars BY <1>2
<1>4. PowerInv(c) /\ GrowingIn(c) /\ [Power(c)!Next]_(Power(c)!vars) => GrowingIn(c)' /\ [Power(c)!LostByOverlap]_powerVars
  BY <1>3, GrowingStep
<1> QED BY <1>1, <1>4, PowerAlways, PTL DEF Power!Spec

\* Unless a source was edited since the refresh that was written last began, a
\* further one would add nothing, however many processes refresh
\* (refresh_power_evidence).
THEOREM EvidenceSettles ==
    ASSUME NEW CONSTANT c, Power(c)!PowerConstantsOK
    PROVE  Power(c)!Spec => []Power(c)!Settles
<1>1. Power(c)!Init => GrowingIn(c) BY GrowingInit
<1>2. UNCHANGED Power(c)!vars <=> UNCHANGED powerVars BY DEF Power!vars, powerVars
<1>3. [Power(c)!Next]_(Power(c)!vars) => [Power(c)!Next]_powerVars BY <1>2
<1>4. PowerInv(c) /\ GrowingIn(c) /\ [Power(c)!Next]_(Power(c)!vars) => GrowingIn(c)' BY <1>3, GrowingStep
<1>5. GrowingIn(c) => Power(c)!Settles BY DEF GrowingIn
<1> QED BY <1>1, <1>4, <1>5, PowerAlways, PTL DEF Power!Spec

-----------------------------------------------------------------------------
(* The estimate *)

\* A conflict is no match, and a match's level tells how broad its fact is.
LEMMA MatchIs ==
    ASSUME NEW CONSTANT c, NEW p, NEW o
    PROVE  LET level == Power(c)!MatchLevel(c.identity[p], o.identity)
               breadth == Power(c)!Breadth(p, o)
           IN  /\ level \in 0 .. 99
               /\ level > 0 => /\ ~ Power(c)!Conflicts(c.identity[p], o.identity)
                               /\ \/ breadth = 1 /\ level \in 40 .. 99
                                  \/ breadth = 2 /\ level = 30
                                  \/ breadth = 3 /\ level = 20
                                  \/ breadth = 4 /\ level = 10
<1> DEFINE h == c.identity[p]
           g == o.identity
<1>1. Power(c)!ExactLevel(h, g) \in 40 .. 99
  <2>1. Power(c)!Specificity(h, g) \in 0 .. 59 BY DEF Power!Specificity
  <2> QED BY <2>1 DEF Power!ExactLevel
<1>2. Power(c)!MatchLevel(h, g) =
         IF Power(c)!Conflicts(h, g) THEN 0
         ELSE IF "exact" \in Power(c)!Same(h, g) THEN Power(c)!ExactLevel(h, g)
         ELSE IF "model" \in Power(c)!Same(h, g) THEN 30
         ELSE IF "family" \in Power(c)!Same(h, g) THEN 20
         ELSE IF "category" \in Power(c)!Same(h, g) THEN 10
         ELSE 0
  BY DEF Power!MatchLevel
<1>3. Power(c)!Breadth(p, o) = IF "exact" \in Power(c)!Same(h, g) THEN 1 ELSE IF "model" \in Power(c)!Same(h, g) THEN 2
                       ELSE IF "family" \in Power(c)!Same(h, g) THEN 3 ELSE 4
  BY DEF Power!Breadth
<1> HIDE DEF h, g
<1>4. /\ Power(c)!MatchLevel(h, g) \in 0 .. 99
      /\ Power(c)!MatchLevel(h, g) > 0 => /\ ~ Power(c)!Conflicts(h, g)
                                  /\ \/ Power(c)!Breadth(p, o) = 1 /\ Power(c)!MatchLevel(h, g) \in 40 .. 99
                                     \/ Power(c)!Breadth(p, o) = 2 /\ Power(c)!MatchLevel(h, g) = 30
                                     \/ Power(c)!Breadth(p, o) = 3 /\ Power(c)!MatchLevel(h, g) = 20
                                     \/ Power(c)!Breadth(p, o) = 4 /\ Power(c)!MatchLevel(h, g) = 10
  BY <1>1, <1>2, <1>3
<1> QED BY <1>4 DEF h, g

\* The best level is one of a candidate's, and none is above it.
LEMMA BestIs ==
    ASSUME NEW CONSTANT c, NEW p, Power(c)!Candidates(p) # {}
    PROVE  /\ Power(c)!Narrowest(p) # {}
           /\ \A o \in Power(c)!Candidates(p) : Power(c)!MatchLevel(c.identity[p], o.identity) <= Power(c)!BestLevel(p)
<1> DEFINE L == Power(c)!Levels(p)
           Short == {99 - m : m \in L}
<1>1. L # {} /\ L \subseteq 0 .. 99 BY MatchIs DEF Power!Levels
<1>0. \A o \in Power(c)!Candidates(p) : Power(c)!MatchLevel(c.identity[p], o.identity) \in L BY DEF Power!Levels
<1> HIDE DEF L
<1>2. Short \in SUBSET Nat /\ Short # {}
  <2>1. \A m \in L : m \in 0 .. 99 BY <1>1
  <2>2. \A m \in L : 99 - m \in Nat BY <2>1
  <2>3. \A x \in Short : x \in Nat BY <2>2
  <2>4. PICK m \in L : TRUE BY <1>1
  <2>5. 99 - m \in Short BY <2>4
  <2> QED BY <2>3, <2>5
<1> HIDE DEF Short
<1>3. PICK n \in Short : \A m \in Short : n <= m BY <1>2, LeastNatural
<1>4. PICK best \in L : n = 99 - best BY <1>3 DEF Short
<1>5. \A m \in L : m <= best
  <2> TAKE m \in L
  <2>1. 99 - m \in Short BY DEF Short
  <2>2. 99 - best <= 99 - m BY <1>3, <1>4, <2>1
  <2> QED BY <1>1, <2>2
<1>6. Power(c)!BestLevel(p) \in L /\ \A m \in L : m <= Power(c)!BestLevel(p)
  <2>1. Power(c)!BestLevel(p) = CHOOSE x \in L : \A m \in L : m <= x BY <1>1 DEF Power!BestLevel, L
  <2> QED BY <1>4, <1>5, <2>1
<1>7. PICK o \in Power(c)!Candidates(p) : Power(c)!MatchLevel(c.identity[p], o.identity) = Power(c)!BestLevel(p)
  BY <1>6 DEF L, Power!Levels
<1>8. Power(c)!Narrowest(p) # {} BY <1>7 DEF Power!Narrowest
<1> QED BY <1>0, <1>6, <1>8

\* A run's observation has the boundary of a record of the run.
LEMMA ObservedIs ==
    ASSUME NEW CONSTANT c, NEW o \in Power(c)!Observable, NEW i, o.id = <<"run", i>>
    PROVE  \E r \in c.runRows[i] : o.scope = Power(c)!RunScope(r)
<1>1. CASE \E p \in c.parts : \E r \in c.catalogRows[p] : Power(c)!HasLoad(r) /\ o = Power(c)!OfCatalog(p, r)
  BY <1>1 DEF Power!OfCatalog
<1>2. CASE \E p \in c.parts : \E r \in c.pageRows[p] : Power(c)!Known(r.fact) /\ o = Power(c)!OfPage(p, r)
  BY <1>2 DEF Power!OfPage
<1>3. CASE \E j \in c.runIds : \E r \in c.runRows[j] : Power(c)!HasPower(r) /\ o = Power(c)!OfRun(j, r)
  <2>1. PICK j \in c.runIds : \E r \in c.runRows[j] : Power(c)!HasPower(r) /\ o = Power(c)!OfRun(j, r) BY <1>3
  <2>2. PICK r \in c.runRows[j] : Power(c)!HasPower(r) /\ o = Power(c)!OfRun(j, r) BY <2>1
  <2>3. o.id = <<"run", j>> /\ o.scope = Power(c)!RunScope(r) BY <2>2 DEF Power!OfRun
  <2> QED BY <2>2, <2>3
<1> QED BY <1>1, <1>2, <1>3 DEF Power!Observable

LEMMA RailFollows == ASSUME NEW CONSTANT c, Power(c)!PowerConstantsOK, PowerInv(c) PROVE Power(c)!RailNeverDevice
<1> SUFFICES ASSUME NEW p \in c.parts, NEW o \in Power(c)!Aggregate(p)
             PROVE  /\ ~ Power(c)!Conflicts(c.identity[p], o.identity)
                    /\ \A i \in c.runIds :
                          (\A r \in c.runRows[i] : Power(c)!OfRail(r)) => o.id # <<"run", i>>
  BY DEF Power!RailNeverDevice
<1>1. o \in evidence /\ Power(c)!Eligible(o) /\ Power(c)!MatchLevel(c.identity[p], o.identity) > 0
  BY DEF Power!Aggregate, Power!Narrowest, Power!Candidates
<1>2. ~ Power(c)!Conflicts(c.identity[p], o.identity) BY <1>1, MatchIs
<1>3. o \in Power(c)!Observable BY <1>1 DEF PowerInv, StoreOf
<1>4. o.scope # "rail" BY <1>1 DEF Power!Eligible, Power!DeviceScopes
<1>5. ASSUME NEW i \in c.runIds, \A r \in c.runRows[i] : Power(c)!OfRail(r), o.id = <<"run", i>> PROVE FALSE
  <2>1. PICK r \in c.runRows[i] : o.scope = Power(c)!RunScope(r) BY <1>3, <1>5, ObservedIs
  <2>2. Power(c)!OfRail(r) BY <1>5
  <2>3. Power(c)!RunScope(r) = "rail" BY <2>2 DEF Power!OfRail, Power!RunScope
  <2> QED BY <1>4, <2>1, <2>3
<1> QED BY <1>2, <1>5

\* What counts is a candidate of the best level.
LEMMA CountingIs ==
    ASSUME NEW CONSTANT c, NEW p, NEW o \in Power(c)!Aggregate(p)
    PROVE  o \in Power(c)!Candidates(p) /\ Power(c)!MatchLevel(c.identity[p], o.identity) = Power(c)!BestLevel(p)
BY DEF Power!Aggregate, Power!Narrowest

LEMMA NarrowestFollows == ASSUME NEW CONSTANT c PROVE Power(c)!NarrowestCounts
<1> SUFFICES ASSUME NEW p \in c.parts, NEW o \in Power(c)!Aggregate(p), NEW e \in Power(c)!Candidates(p)
             PROVE  Power(c)!Breadth(p, o) <= Power(c)!Breadth(p, e)
  BY DEF Power!NarrowestCounts
<1>1. o \in Power(c)!Candidates(p) /\ Power(c)!MatchLevel(c.identity[p], o.identity) = Power(c)!BestLevel(p) BY CountingIs
<1>2. Power(c)!MatchLevel(c.identity[p], e.identity) <= Power(c)!MatchLevel(c.identity[p], o.identity) BY <1>1, BestIs
<1>3. Power(c)!MatchLevel(c.identity[p], e.identity) > 0 /\ Power(c)!MatchLevel(c.identity[p], o.identity) > 0
  BY <1>1 DEF Power!Candidates
<1> QED BY <1>2, <1>3, MatchIs

LEMMA LearnedFollows == ASSUME NEW CONSTANT c PROVE Power(c)!LearnedUnlessHidden
<1> SUFFICES ASSUME NEW p \in c.parts, Power(c)!Basis(p) \notin {"measured", "learned"},
                    NEW o \in Power(c)!Candidates(p), Power(c)!Known(o.load)
             PROVE  Power(c)!Hidden(p, o)
  BY DEF Power!LearnedUnlessHidden
<1> DEFINE Level(x) == Power(c)!MatchLevel(c.identity[p], x.identity)
<1>1. PICK e \in Power(c)!Narrowest(p) : TRUE BY BestIs
<1>2. e \in Power(c)!Candidates(p) /\ Level(e) = Power(c)!BestLevel(p) BY <1>1 DEF Power!Narrowest
<1>3. Level(o) <= Power(c)!BestLevel(p) /\ Level(o) \in 0 .. 99 /\ Level(e) \in 0 .. 99 BY BestIs, MatchIs
<1>4. Level(o) > 0 BY DEF Power!Candidates
<1>5. Power(c)!BestLevel(p) >= 2
  <2>1. Level(o) >= 10 BY <1>4, MatchIs
  <2> HIDE DEF Level
  <2> QED BY <1>2, <1>3, <2>1
<1>6. Power(c)!Aggregate(p) = {} BY <1>5 DEF Power!Basis, Power!Usable
<1>7. \A x \in Power(c)!Narrowest(p) : ~ Power(c)!Known(x.load) BY <1>6 DEF Power!Aggregate
<1>8. Level(o) # Power(c)!BestLevel(p) BY <1>7 DEF Power!Narrowest
<1>9. Level(e) > Level(o)
  <2> HIDE DEF Level
  <2> QED BY <1>2, <1>3, <1>8
<1> QED BY <1>1, <1>2, <1>7, <1>9 DEF Power!Hidden

\* An internal rail's power, or a conflicting configuration's, never stands for
\* a device (USABLE_DEVICE_SCOPES).
THEOREM EstimatesStandOnDevices ==
    ASSUME NEW CONSTANT c, Power(c)!PowerConstantsOK PROVE Power(c)!Spec => []Power(c)!RailNeverDevice
<1>1. PowerInv(c) => Power(c)!RailNeverDevice BY RailFollows
<1> QED BY <1>1, PowerAlways, PTL

\* What counts for a part matches it by the narrowest fact any matching row does:
\* a category's row is not taken before a family's, nor averaged with it
\* (aggregate_power_observations), whatever the sources say.
THEOREM NarrowestIsCounted ==
    ASSUME NEW CONSTANT c PROVE Power(c)!Spec => []Power(c)!NarrowestCounts
<1>1. Power(c)!NarrowestCounts BY NarrowestFollows
<1> QED BY <1>1, PTL

\* Published power or a baseline stands for a part only when every matching row
\* with a load is hidden by a narrower one with idle power alone
\* (estimate_device_power, aggregate_power_observations).
THEOREM LearnedUnlessIdleOnly ==
    ASSUME NEW CONSTANT c PROVE Power(c)!Spec => []Power(c)!LearnedUnlessHidden
<1>1. Power(c)!LearnedUnlessHidden BY LearnedFollows
<1> QED BY <1>1, PTL


-----------------------------------------------------------------------------
(* SpecEnrichment *)

\* What a field of a page is read from: the strongest part that tells it.
ReadFrom(c, content, curated, f) ==
    IF curated /\ f \in Enriched(c)!CuratedFields(content) THEN "curated"
    ELSE IF f \in Enriched(c)!StructuredFields(content, "jsonld") THEN "jsonld"
    ELSE IF f \in Enriched(c)!StructuredFields(content, "table") THEN "table"
    ELSE IF f \in Enriched(c)!StructuredFields(content, "identity") THEN "identity"
    ELSE IF f \in Enriched(c)!StructuredFields(content, "support") THEN "support"
    ELSE IF f \in Enriched(c)!StructuredFields(content, "pdf") THEN "pdf"
    ELSE IF ~curated /\ f \in Enriched(c)!TextFields(content) THEN "text"
    ELSE None

TitleOf(c, l) == [f \in c.fields |-> IF f \in c.titled[l] THEN "title" ELSE None]
NothingRead(c) == [f \in c.fields |-> None]
IngestedOf(c, l, content) ==
    [f \in c.fields |-> ReadFrom(c, content, c.product[l] \in c.curated, f)]
With(c, old, new) == [f \in c.fields |-> IF new[f] # None THEN new[f] ELSE old[f]]

EnrichedTypes(c) ==
    /\ page \in [Enriched(c)!Products -> c.pages] /\ cache \in [Enriched(c)!Products -> Enriched(c)!Association \cup {None}]
    /\ \A p \in Enriched(c)!Products : cache[p] # None => cache[p].at <= day
    /\ DOMAIN facts = c.listings /\ DOMAIN proof = c.listings
    /\ seen \in [c.listings -> c.pages \cup {None}]
    /\ task \in Enriched(c)!Task \cup {None} /\ day \in 0 .. c.maxDays

\* A listing's facts are its title's, if any, until a page of its product is
\* read; then they are the page's, and the title's where that tells nothing.
FactsAre(c) ==
    \A l \in c.listings :
        /\ seen[l] = None => facts[l] \in {NothingRead(c), TitleOf(c, l)} /\ proof[l] = NothingRead(c)
        /\ seen[l] # None =>
              /\ facts[l] = With(c, TitleOf(c, l), IngestedOf(c, l, seen[l]))
              /\ proof[l] = With(c, NothingRead(c), IngestedOf(c, l, seen[l]))
              /\ c.product[l] # None /\ Enriched(c)!Shown(c.product[l], seen[l])

\* The listing at work has its title's facts alone, and the page that is read
\* for it is named by a curated or by a verified association.
TaskIs(c) ==
    task # None =>
        LET l == task.listing
            p == c.product[l]
        IN  /\ seen[l] = None /\ facts[l] = TitleOf(c, l) /\ proof[l] = NothingRead(c)
            /\ task.at # "associate" => p # None
            /\ task.at # "associate" /\ p \notin c.curated =>
                  cache[p] # None /\ cache[p].status = "verified" /\ cache[p].at + c.ttl >= day
            /\ task.at = "ingest" => task.html \in c.pages /\ Enriched(c)!Shown(p, task.html)
EnrichedInv(c) == EnrichedTypes(c) /\ FactsAre(c) /\ TaskIs(c)

LEMMA TiersKnown ==
    ASSUME NEW CONSTANT c, Enriched(c)!EnrichmentConstantsOK
    PROVE  /\ None \notin {"curated", "jsonld", "table", "identity", "support", "pdf", "text", "title"}
           /\ DOMAIN c.product = c.listings /\ c.ttl \in Nat /\ c.maxDays \in Nat
           /\ None \notin Enriched(c)!Task /\ None \notin Enriched(c)!Association /\ None \notin c.pages
           /\ \A l \in c.listings : c.product[l] # None => c.product[l] \in Enriched(c)!Products
BY DEF Enriched!EnrichmentConstantsOK, Enriched!Products

\* The parts are read one after the other, each where the ones before it are
\* silent (_merge, _fill_missing).
LEMMA IngestedIs ==
    ASSUME NEW CONSTANT c, Enriched(c)!EnrichmentConstantsOK, NEW content, NEW curated \in BOOLEAN
    PROVE  Enriched(c)!Ingested(content, curated) = [f \in c.fields |-> ReadFrom(c, content, curated, f)]
<1>1. None \notin {"curated", "jsonld", "table", "identity", "support", "pdf", "text", "title"}
  BY TiersKnown
<1> DEFINE S(tier) == Enriched(c)!StructuredFields(content, tier)
           b0 == IF curated THEN Enriched(c)!Fill(Enriched(c)!Blank, "curated", Enriched(c)!CuratedFields(content)) ELSE Enriched(c)!Blank
           b1 == Enriched(c)!Fill(b0, "jsonld", S("jsonld"))
           b2 == Enriched(c)!Fill(b1, "table", S("table"))
           b3 == Enriched(c)!Fill(b2, "identity", S("identity"))
           b4 == Enriched(c)!Fill(b3, "support", S("support"))
           b5 == Enriched(c)!Fill(b4, "pdf", S("pdf"))
           b6 == IF curated THEN b5 ELSE Enriched(c)!Fill(b5, "text", Enriched(c)!TextFields(content))
<1>2. Enriched(c)!Ingested(content, curated) = b6
  <2>1. CASE curated BY <2>1 DEF Enriched!Ingested, Enriched!StructuredFrom
  <2>2. CASE ~curated BY <2>2 DEF Enriched!Ingested, Enriched!StructuredFrom
  <2> QED BY <2>1, <2>2
<1>3. b6 = [f \in c.fields |-> b6[f]]
  <2>1. b5 = [f \in c.fields |-> b5[f]]
    <3> HIDE DEF b4
    <3> QED BY DEF Enriched!Fill
  <2>2. Enriched(c)!Fill(b5, "text", Enriched(c)!TextFields(content)) = [f \in c.fields |-> Enriched(c)!Fill(b5, "text", Enriched(c)!TextFields(content))[f]]
    <3> HIDE DEF b5
    <3> QED BY DEF Enriched!Fill
  <2>3. CASE curated
    <3>1. b6 = b5 BY <2>3
    <3> HIDE DEF b5, b6
    <3> QED BY <2>1, <3>1
  <2>4. CASE ~curated
    <3> DEFINE d == Enriched(c)!Fill(b5, "text", Enriched(c)!TextFields(content))
    <3>1. b6 = d BY <2>4
    <3>2. d = [f \in c.fields |-> d[f]] BY <2>2
    <3> HIDE DEF d, b6
    <3> QED BY <3>1, <3>2
  <2> QED BY <2>3, <2>4
<1>4. ASSUME NEW f \in c.fields PROVE b6[f] = ReadFrom(c, content, curated, f)
  <2>1. b0[f] = IF curated /\ f \in Enriched(c)!CuratedFields(content) THEN "curated" ELSE None
    BY <1>1 DEF Enriched!Fill, Enriched!Blank
  <2>2. b1[f] = IF b0[f] = None /\ f \in S("jsonld") THEN "jsonld" ELSE b0[f] BY DEF Enriched!Fill
  <2>3. b2[f] = IF b1[f] = None /\ f \in S("table") THEN "table" ELSE b1[f] BY DEF Enriched!Fill
  <2>4. b3[f] = IF b2[f] = None /\ f \in S("identity") THEN "identity" ELSE b2[f] BY DEF Enriched!Fill
  <2>5. b4[f] = IF b3[f] = None /\ f \in S("support") THEN "support" ELSE b3[f] BY DEF Enriched!Fill
  <2>6. b5[f] = IF b4[f] = None /\ f \in S("pdf") THEN "pdf" ELSE b4[f] BY DEF Enriched!Fill
  <2>7. b6[f] = IF ~curated /\ b5[f] = None /\ f \in Enriched(c)!TextFields(content) THEN "text" ELSE b5[f]
    BY DEF Enriched!Fill
  <2> HIDE DEF b0, b1, b2, b3, b4, b5, b6
  <2> QED BY <1>1, <2>1, <2>2, <2>3, <2>4, <2>5, <2>6, <2>7 DEF ReadFrom
<1> HIDE DEF b6
<1> QED BY <1>2, <1>3, <1>4, Zenon

LEMMA EnrichedInit ==
    ASSUME NEW CONSTANT c, Enriched(c)!EnrichmentConstantsOK, Enriched(c)!Init PROVE EnrichedInv(c)
<1>1. /\ page \in [Enriched(c)!Products -> c.pages] /\ cache = [p \in Enriched(c)!Products |-> None]
      /\ facts = [l \in c.listings |-> NothingRead(c)] /\ proof = [l \in c.listings |-> NothingRead(c)]
      /\ seen = [l \in c.listings |-> None] /\ task = None /\ day = 0
  BY DEF Enriched!Init, Enriched!Blank, NothingRead
<1>2. 0 \in 0 .. c.maxDays BY TiersKnown
<1>3. EnrichedTypes(c) BY <1>1, <1>2 DEF EnrichedTypes
<1>4. FactsAre(c) BY <1>1 DEF FactsAre
<1>5. TaskIs(c) BY <1>1 DEF TaskIs
<1> QED BY <1>3, <1>4, <1>5 DEF EnrichedInv

\* The steps that leave the facts alone.
LEMMA FactsStay ==
    ASSUME NEW CONSTANT c, FactsAre(c), UNCHANGED <<facts, proof, seen>> PROVE FactsAre(c)'
BY DEF FactsAre

LEMMA SourceKeeps ==
    ASSUME NEW CONSTANT c, Enriched(c)!EnrichmentConstantsOK, EnrichedInv(c), NEW l \in c.listings, Enriched(c)!Source(l)
    PROVE  EnrichedInv(c)'
<1>1. /\ facts' = [facts EXCEPT ![l] = TitleOf(c, l)] /\ proof' = [proof EXCEPT ![l] = NothingRead(c)]
      /\ seen' = [seen EXCEPT ![l] = None]
      /\ task' = [listing |-> l, at |-> "associate", html |-> None]
      /\ UNCHANGED <<page, cache, day>>
  <2>1. Enriched(c)!Fill(Enriched(c)!Blank, "title", c.titled[l]) = TitleOf(c, l) BY DEF Enriched!Fill, Enriched!Blank, TitleOf
  <2>2. Enriched(c)!Blank = NothingRead(c) BY DEF Enriched!Blank, NothingRead
  <2> QED BY <2>1, <2>2 DEF Enriched!Source
<1>2. EnrichedTypes(c) /\ FactsAre(c) BY DEF EnrichedInv
<1>3. task' \in Enriched(c)!Task /\ task'.listing = l /\ task'.at = "associate" BY <1>1 DEF Enriched!Task
<1>4. /\ facts'[l] = TitleOf(c, l) /\ proof'[l] = NothingRead(c) /\ seen'[l] = None
      /\ \A k \in c.listings : k # l => facts'[k] = facts[k] /\ proof'[k] = proof[k] /\ seen'[k] = seen[k]
  BY <1>1, <1>2 DEF EnrichedTypes
<1>5. EnrichedTypes(c)' BY <1>1, <1>2, <1>3 DEF EnrichedTypes
<1>6. FactsAre(c)' BY <1>2, <1>4 DEF FactsAre
<1>7. TaskIs(c)' BY <1>3, <1>4 DEF TaskIs
<1> QED BY <1>5, <1>6, <1>7 DEF EnrichedInv

\* The task ends without a page.
LEMMA UnassociatedKeeps ==
    ASSUME NEW CONSTANT c, EnrichedInv(c), Enriched(c)!Unassociated PROVE EnrichedInv(c)'
<1>1. task' = None /\ UNCHANGED <<page, cache, facts, proof, seen, day>> BY DEF Enriched!Unassociated
<1>2. EnrichedTypes(c)' BY <1>1 DEF EnrichedInv, EnrichedTypes
<1>3. FactsAre(c)' BY <1>1, FactsStay DEF EnrichedInv
<1> QED BY <1>1, <1>2, <1>3 DEF EnrichedInv, TaskIs

\* An association is found, or the verdict is cached either way.
LEMMA AssociateKeeps ==
    ASSUME NEW CONSTANT c, Enriched(c)!EnrichmentConstantsOK, EnrichedInv(c), Enriched(c)!Associate
    PROVE  EnrichedInv(c)'
<1> DEFINE p == c.product[task.listing]
<1>1. /\ task # None /\ task.at = "associate" /\ p # None
      /\ p \notin c.curated => cache[p] # None /\ day - cache[p].at <= c.ttl /\ cache[p].status = "verified"
      /\ task' = [task EXCEPT !.at = "fetch"]
      /\ UNCHANGED <<page, cache, facts, proof, seen, day>>
  BY DEF Enriched!Associate, Enriched!Fresh
<1>2. EnrichedTypes(c) /\ FactsAre(c) /\ TaskIs(c) BY DEF EnrichedInv
<1>3. task \in Enriched(c)!Task BY <1>1, <1>2 DEF EnrichedTypes
<1>4. /\ task' \in Enriched(c)!Task /\ task'.listing = task.listing /\ task'.at = "fetch"
      /\ task.listing \in c.listings
  BY <1>1, <1>3 DEF Enriched!Task
<1>5. p \in Enriched(c)!Products BY <1>1, <1>4, TiersKnown
<1>6. p \notin c.curated => cache[p].at + c.ttl >= day
  <2> SUFFICES ASSUME p \notin c.curated PROVE cache[p].at + c.ttl >= day OBVIOUS
  <2>1. cache[p] \in Enriched(c)!Association BY <1>1, <1>2, <1>5 DEF EnrichedTypes
  <2>2. cache[p].at \in 0 .. c.maxDays BY <2>1 DEF Enriched!Association
  <2>3. day \in 0 .. c.maxDays BY <1>2 DEF EnrichedTypes
  <2>4. c.ttl \in Nat /\ c.maxDays \in Nat BY TiersKnown
  <2> DEFINE at == cache[p].at
  <2>5. at \in Nat /\ day \in Nat BY <2>2, <2>3, <2>4
  <2>6. day - at <= c.ttl BY <1>1
  <2> HIDE DEF at
  <2>7. at + c.ttl >= day BY <2>4, <2>5, <2>6
  <2> QED BY <2>7 DEF at
<1>7. EnrichedTypes(c)' BY <1>1, <1>2, <1>4 DEF EnrichedTypes
<1>8. FactsAre(c)' BY <1>1, <1>2, FactsStay
<1>9. TaskIs(c)' BY <1>1, <1>2, <1>4, <1>6 DEF TaskIs
<1> QED BY <1>7, <1>8, <1>9 DEF EnrichedInv

LEMMA RememberedIs ==
    ASSUME NEW CONSTANT c, Enriched(c)!EnrichmentConstantsOK, EnrichedTypes(c), NEW status \in {"verified", "not_verified"}
    PROVE  /\ Enriched(c)!Remembered(status) \in Enriched(c)!Association /\ Enriched(c)!Remembered(status) # None
           /\ Enriched(c)!Remembered(status).status = status /\ Enriched(c)!Remembered(status).at = day
           /\ day <= day /\ day + c.ttl >= day
<1>1. day \in 0 .. c.maxDays /\ c.maxDays \in Nat /\ c.ttl \in Nat BY TiersKnown DEF EnrichedTypes
<1>2. Enriched(c)!Remembered(status) \in Enriched(c)!Association BY <1>1 DEF Enriched!Remembered, Enriched!Association
<1> QED BY <1>1, <1>2, TiersKnown DEF Enriched!Remembered

LEMMA DiscoverKeeps ==
    ASSUME NEW CONSTANT c, Enriched(c)!EnrichmentConstantsOK, EnrichedInv(c), Enriched(c)!Discover
    PROVE  EnrichedInv(c)'
<1> DEFINE p == c.product[task.listing]
           row == Enriched(c)!Remembered("verified")
<1>1. /\ task # None /\ task.at = "associate" /\ p # None /\ p \notin c.curated
      /\ cache' = [cache EXCEPT ![p] = row]
      /\ task' = [task EXCEPT !.at = "ingest", !.html = page[p]]
      /\ UNCHANGED <<page, facts, proof, seen, day>>
  BY DEF Enriched!Discover, Enriched!Searches
<1>2. EnrichedTypes(c) /\ FactsAre(c) /\ TaskIs(c) BY DEF EnrichedInv
<1>3. task \in Enriched(c)!Task BY <1>1, <1>2 DEF EnrichedTypes
<1>4. task.listing \in c.listings BY <1>3 DEF Enriched!Task
<1>5. p \in Enriched(c)!Products BY <1>1, <1>4, TiersKnown
<1>6. page[p] \in c.pages BY <1>2, <1>5 DEF EnrichedTypes
<1>7. /\ row \in Enriched(c)!Association /\ row # None /\ row.status = "verified" /\ row.at = day
      /\ day <= day /\ day + c.ttl >= day
  BY <1>2, RememberedIs
<1> HIDE DEF row
<1>8. /\ task' \in Enriched(c)!Task /\ task'.listing = task.listing /\ task'.at = "ingest" /\ task'.html = page[p]
  BY <1>1, <1>3, <1>6 DEF Enriched!Task
<1>9. /\ cache' \in [Enriched(c)!Products -> Enriched(c)!Association \cup {None}]
      /\ \A q \in Enriched(c)!Products : cache'[q] = IF q = p THEN row ELSE cache[q]
  BY <1>1, <1>2, <1>5, <1>7 DEF EnrichedTypes
<1>10. EnrichedTypes(c)' BY <1>1, <1>2, <1>7, <1>8, <1>9 DEF EnrichedTypes
<1>11. FactsAre(c)' BY <1>1, <1>2, FactsStay
<1>12. cache'[p] = row BY <1>5, <1>9
<1>13. Enriched(c)!Shown(p, page[p]) BY <1>1 DEF Enriched!Shown
<1>14. TaskIs(c)' BY <1>1, <1>2, <1>6, <1>7, <1>8, <1>12, <1>13 DEF TaskIs
<1> QED BY <1>10, <1>11, <1>14 DEF EnrichedInv

LEMMA DiscoverNothingKeeps ==
    ASSUME NEW CONSTANT c, Enriched(c)!EnrichmentConstantsOK, EnrichedInv(c), Enriched(c)!DiscoverNothing
    PROVE  EnrichedInv(c)'
<1> DEFINE p == c.product[task.listing]
           row == Enriched(c)!Remembered("not_verified")
<1>1. /\ task # None /\ p # None /\ cache' = [cache EXCEPT ![p] = row] /\ task' = None
      /\ UNCHANGED <<page, facts, proof, seen, day>>
  BY DEF Enriched!DiscoverNothing, Enriched!Searches
<1>2. EnrichedTypes(c) /\ FactsAre(c) BY DEF EnrichedInv
<1>3. task \in Enriched(c)!Task BY <1>1, <1>2 DEF EnrichedTypes
<1>4. task.listing \in c.listings BY <1>3 DEF Enriched!Task
<1>5. p \in Enriched(c)!Products BY <1>1, <1>4, TiersKnown
<1>6. row \in Enriched(c)!Association /\ row.at = day /\ day <= day BY <1>2, RememberedIs
<1> HIDE DEF row
<1>7. /\ cache' \in [Enriched(c)!Products -> Enriched(c)!Association \cup {None}]
      /\ \A q \in Enriched(c)!Products : cache'[q] = IF q = p THEN row ELSE cache[q]
  BY <1>1, <1>2, <1>5, <1>6 DEF EnrichedTypes
<1>8. EnrichedTypes(c)' BY <1>1, <1>2, <1>6, <1>7 DEF EnrichedTypes
<1>9. FactsAre(c)' BY <1>1, <1>2, FactsStay
<1> QED BY <1>1, <1>8, <1>9 DEF EnrichedInv, TaskIs

LEMMA FetchKeeps ==
    ASSUME NEW CONSTANT c, Enriched(c)!EnrichmentConstantsOK, EnrichedInv(c), Enriched(c)!Fetch
    PROVE  EnrichedInv(c)'
<1> DEFINE p == c.product[task.listing]
<1>1. /\ task # None /\ task.at = "fetch" /\ Enriched(c)!Shown(p, page[p])
      /\ task' = [task EXCEPT !.at = "ingest", !.html = page[p]]
      /\ UNCHANGED <<page, cache, facts, proof, seen, day>>
  BY DEF Enriched!Fetch
<1>2. EnrichedTypes(c) /\ FactsAre(c) /\ TaskIs(c) BY DEF EnrichedInv
<1>3. task \in Enriched(c)!Task BY <1>1, <1>2 DEF EnrichedTypes
<1>4. task.listing \in c.listings BY <1>3 DEF Enriched!Task
<1>5. p # None BY <1>1, <1>2 DEF TaskIs
<1>6. page[p] \in c.pages
  <2>1. p \in Enriched(c)!Products BY <1>4, <1>5, TiersKnown
  <2> QED BY <1>2, <2>1 DEF EnrichedTypes
<1>7. /\ task' \in Enriched(c)!Task /\ task'.listing = task.listing /\ task'.at = "ingest" /\ task'.html = page[p]
  BY <1>1, <1>3, <1>6 DEF Enriched!Task
<1>8. EnrichedTypes(c)' BY <1>1, <1>2, <1>7 DEF EnrichedTypes
<1>9. FactsAre(c)' BY <1>1, <1>2, FactsStay
<1>10. TaskIs(c)' BY <1>1, <1>2, <1>6, <1>7 DEF TaskIs
<1> QED BY <1>8, <1>9, <1>10 DEF EnrichedInv

\* What is read takes the title's place, field by field.
LEMMA IngestKeeps ==
    ASSUME NEW CONSTANT c, Enriched(c)!EnrichmentConstantsOK, EnrichedInv(c), Enriched(c)!Ingest
    PROVE  EnrichedInv(c)'
<1> DEFINE l == task.listing
           new == IngestedOf(c, l, task.html)
<1>1. EnrichedTypes(c) /\ FactsAre(c) /\ TaskIs(c) BY DEF EnrichedInv
<1>2. task # None /\ task.at = "ingest" BY DEF Enriched!Ingest
<1>3. l \in c.listings BY <1>1, <1>2 DEF EnrichedTypes, Enriched!Task
<1>4. Enriched(c)!Ingested(task.html, c.product[l] \in c.curated) = new
  <2> DEFINE curated == c.product[l] \in c.curated
  <2>1. curated \in BOOLEAN OBVIOUS
  <2>2. new = [f \in c.fields |-> ReadFrom(c, task.html, curated, f)] BY DEF IngestedOf
  <2> HIDE DEF curated, new
  <2>3. Enriched(c)!Ingested(task.html, curated) = new BY <2>1, <2>2, IngestedIs
  <2> QED BY <2>3 DEF curated
<1>5. /\ facts' = [facts EXCEPT ![l] = Enriched(c)!Updated(facts[l], new)]
      /\ proof' = [proof EXCEPT ![l] = Enriched(c)!Updated(proof[l], new)]
      /\ seen' = [seen EXCEPT ![l] = task.html] /\ task' = None /\ UNCHANGED <<page, cache, day>>
  BY <1>4 DEF Enriched!Ingest
<1>6. /\ facts[l] = TitleOf(c, l) /\ proof[l] = NothingRead(c) /\ c.product[l] # None
      /\ task.html \in c.pages /\ Enriched(c)!Shown(c.product[l], task.html)
  BY <1>1, <1>2 DEF TaskIs
<1>7. /\ facts'[l] = With(c, TitleOf(c, l), new) /\ proof'[l] = With(c, NothingRead(c), new)
      /\ seen'[l] = task.html /\ task.html # None
      /\ \A k \in c.listings : k # l => facts'[k] = facts[k] /\ proof'[k] = proof[k] /\ seen'[k] = seen[k]
  <2>1. Enriched(c)!Updated(facts[l], new) = With(c, TitleOf(c, l), new) BY <1>6 DEF Enriched!Updated, With
  <2>2. Enriched(c)!Updated(proof[l], new) = With(c, NothingRead(c), new) BY <1>6 DEF Enriched!Updated, With
  <2> HIDE DEF new
  <2> QED BY <1>1, <1>3, <1>5, <1>6, <2>1, <2>2, TiersKnown DEF EnrichedTypes
<1>8. EnrichedTypes(c)'
  <2>1. seen' \in [c.listings -> c.pages \cup {None}] BY <1>1, <1>3, <1>5, <1>6 DEF EnrichedTypes
  <2> HIDE DEF new
  <2>2. DOMAIN facts' = c.listings /\ DOMAIN proof' = c.listings BY <1>1, <1>5 DEF EnrichedTypes
  <2> QED BY <1>1, <1>5, <2>1, <2>2 DEF EnrichedTypes
<1>9. new = IngestedOf(c, l, seen'[l]) BY <1>7
<1> HIDE DEF new
<1>10. FactsAre(c)'
  <2> SUFFICES ASSUME NEW k \in c.listings
      PROVE  /\ seen'[k] = None => /\ facts'[k] \in {NothingRead(c), TitleOf(c, k)}
                                   /\ proof'[k] = NothingRead(c)
             /\ seen'[k] # None =>
                   /\ facts'[k] = With(c, TitleOf(c, k), IngestedOf(c, k, seen'[k]))
                   /\ proof'[k] = With(c, NothingRead(c), IngestedOf(c, k, seen'[k]))
                   /\ c.product[k] # None /\ Enriched(c)!Shown(c.product[k], seen'[k])
    BY DEF FactsAre
  <2>1. CASE k = l BY <1>6, <1>7, <1>9, <2>1
  <2>2. CASE k # l BY <1>1, <1>7, <2>2 DEF FactsAre
  <2> QED BY <2>1, <2>2
<1>11. TaskIs(c)' BY <1>5 DEF TaskIs
<1> QED BY <1>8, <1>10, <1>11 DEF EnrichedInv

LEMMA EnrichedStep ==
    ASSUME NEW CONSTANT c, Enriched(c)!EnrichmentConstantsOK, EnrichedInv(c), [Enriched(c)!Next]_specVars
    PROVE  EnrichedInv(c)'
<1>1. CASE UNCHANGED specVars
  <2>1. UNCHANGED <<page, cache, facts, proof, seen, task, day>> BY <1>1 DEF specVars
  <2> QED BY <2>1 DEF EnrichedInv, EnrichedTypes, FactsAre, TaskIs
<1>2. CASE \E l \in c.listings : Enriched(c)!Source(l) BY <1>2, SourceKeeps
<1>3. CASE Enriched(c)!Skip \/ Enriched(c)!FetchFails BY <1>3, UnassociatedKeeps DEF Enriched!Skip, Enriched!FetchFails
<1>4. CASE Enriched(c)!Associate BY <1>4, AssociateKeeps
<1>5. CASE Enriched(c)!Discover BY <1>5, DiscoverKeeps
<1>6. CASE Enriched(c)!DiscoverNothing BY <1>6, DiscoverNothingKeeps
<1>7. CASE Enriched(c)!Fetch BY <1>7, FetchKeeps
<1>8. CASE Enriched(c)!Ingest BY <1>8, IngestKeeps
<1>9. CASE Enriched(c)!PageChanges
  <2>1. PICK p \in Enriched(c)!Products, content \in c.pages : page' = [page EXCEPT ![p] = content]
    BY <1>9 DEF Enriched!PageChanges
  <2>2. UNCHANGED <<cache, facts, proof, seen, task, day>> BY <1>9 DEF Enriched!PageChanges
  <2>3. EnrichedTypes(c)' BY <2>1, <2>2 DEF EnrichedInv, EnrichedTypes
  <2>4. FactsAre(c)' BY <2>2, FactsStay DEF EnrichedInv
  <2>5. TaskIs(c)' BY <2>2 DEF EnrichedInv, TaskIs
  <2> QED BY <2>3, <2>4, <2>5 DEF EnrichedInv
<1>10. CASE Enriched(c)!Tomorrow
  <2>1. task = None /\ day < c.maxDays /\ day' = day + 1 /\ UNCHANGED <<page, cache, facts, proof, seen, task>>
    BY <1>10 DEF Enriched!Tomorrow
  <2>2. c.maxDays \in Nat /\ day \in 0 .. c.maxDays BY TiersKnown DEF EnrichedInv, EnrichedTypes
  <2>3. ASSUME NEW p \in Enriched(c)!Products, cache[p] # None PROVE cache[p].at <= day + 1
    <3>1. cache[p] \in Enriched(c)!Association /\ cache[p].at <= day BY <2>3 DEF EnrichedInv, EnrichedTypes
    <3>2. cache[p].at \in 0 .. c.maxDays BY <3>1 DEF Enriched!Association
    <3> DEFINE at == cache[p].at
    <3>3. at \in 0 .. c.maxDays /\ at <= day BY <3>1, <3>2
    <3> HIDE DEF at
    <3>4. at <= day + 1 BY <2>2, <3>3
    <3> QED BY <3>4 DEF at
  <2>4. day' \in 0 .. c.maxDays BY <2>1, <2>2
  <2>5. EnrichedTypes(c)' BY <2>1, <2>3, <2>4 DEF EnrichedInv, EnrichedTypes
  <2>6. FactsAre(c)' BY <2>1, FactsStay DEF EnrichedInv
  <2>7. TaskIs(c)' BY <2>1 DEF TaskIs
  <2> QED BY <2>5, <2>6, <2>7 DEF EnrichedInv
<1> QED BY <1>1, <1>2, <1>3, <1>4, <1>5, <1>6, <1>7, <1>8, <1>9, <1>10 DEF Enriched!Next

LEMMA EnrichedAlways ==
    ASSUME NEW CONSTANT c, Enriched(c)!EnrichmentConstantsOK PROVE Enriched(c)!Spec => []EnrichedInv(c)
<1>1. Enriched(c)!Init => EnrichedInv(c) BY EnrichedInit
<1>2. UNCHANGED Enriched(c)!vars => UNCHANGED specVars BY DEF Enriched!vars, specVars
<1>3. [Enriched(c)!Next]_(Enriched(c)!vars) => [Enriched(c)!Next]_specVars BY <1>2
<1>4. EnrichedInv(c) /\ [Enriched(c)!Next]_(Enriched(c)!vars) => EnrichedInv(c)' BY <1>3, EnrichedStep
<1> QED BY <1>1, <1>4, PTL DEF Enriched!Spec

\* The evidence is of its type.
LEMMA ReadTier ==
    ASSUME NEW CONSTANT c, NEW content, NEW curated \in BOOLEAN, NEW f
    PROVE  ReadFrom(c, content, curated, f)
             \in {None, "curated", "jsonld", "table", "identity", "support", "pdf", "text"}
BY DEF ReadFrom

LEMMA LadderIs ==
    ASSUME NEW CONSTANT c
    PROVE  /\ Range(Enriched(c)!Ladder) = {"curated", "jsonld", "table", "identity", "support", "pdf", "text", "title"}
           /\ Len(Enriched(c)!Ladder) = 8 /\ \A i \in 1 .. 8 : Enriched(c)!Rank(Enriched(c)!Ladder[i]) = i
<1>1. Len(Enriched(c)!Ladder) = 8 /\ DOMAIN Enriched(c)!Ladder = 1 .. 8 BY DEF Enriched!Ladder
<1>2. /\ Enriched(c)!Ladder[1] = "curated" /\ Enriched(c)!Ladder[2] = "jsonld" /\ Enriched(c)!Ladder[3] = "table" /\ Enriched(c)!Ladder[4] = "identity"
      /\ Enriched(c)!Ladder[5] = "support" /\ Enriched(c)!Ladder[6] = "pdf" /\ Enriched(c)!Ladder[7] = "text" /\ Enriched(c)!Ladder[8] = "title"
  BY DEF Enriched!Ladder
<1>3. 1 .. 8 = {1, 2, 3, 4, 5, 6, 7, 8} OBVIOUS
<1>4. Range(Enriched(c)!Ladder) = {"curated", "jsonld", "table", "identity", "support", "pdf", "text", "title"}
  BY <1>1, <1>2, <1>3 DEF Range
<1>5. ASSUME NEW i \in 1 .. 8 PROVE Enriched(c)!Rank(Enriched(c)!Ladder[i]) = i
  <2>1. \A j \in 1 .. 8 : Enriched(c)!Ladder[j] = Enriched(c)!Ladder[i] => j = i BY <1>2, <1>3
  <2>2. Enriched(c)!Rank(Enriched(c)!Ladder[i]) = CHOOSE j \in 1 .. 8 : Enriched(c)!Ladder[j] = Enriched(c)!Ladder[i] BY <1>1 DEF Enriched!Rank
  <2> QED BY <2>1, <2>2
<1> QED BY <1>1, <1>4, <1>5

\* The facts, field by field.
LEMMA FieldIs ==
    ASSUME NEW CONSTANT c, EnrichedInv(c), NEW l \in c.listings, NEW f \in c.fields
    PROVE  LET x == ReadFrom(c, seen[l], c.product[l] \in c.curated, f)
           IN  /\ seen[l] = None => facts[l][f] \in {None, "title"} /\ proof[l][f] = None
               /\ seen[l] # None =>
                     /\ facts[l][f] = IF x # None THEN x ELSE IF f \in c.titled[l] THEN "title" ELSE None
                     /\ proof[l][f] = IF x # None THEN x ELSE None
<1> DEFINE x == ReadFrom(c, seen[l], c.product[l] \in c.curated, f)
           new == IngestedOf(c, l, seen[l])
<1>1. /\ seen[l] = None => facts[l] \in {NothingRead(c), TitleOf(c, l)} /\ proof[l] = NothingRead(c)
      /\ seen[l] # None => facts[l] = With(c, TitleOf(c, l), new) /\ proof[l] = With(c, NothingRead(c), new)
  BY DEF EnrichedInv, FactsAre
<1>2. new[f] = x BY DEF IngestedOf
<1>3. NothingRead(c)[f] = None /\ TitleOf(c, l)[f] = IF f \in c.titled[l] THEN "title" ELSE None
  BY DEF NothingRead, TitleOf
<1> HIDE DEF new, x
<1>4. /\ With(c, TitleOf(c, l), new)[f] = IF new[f] # None THEN new[f] ELSE TitleOf(c, l)[f]
      /\ With(c, NothingRead(c), new)[f] = IF new[f] # None THEN new[f] ELSE NothingRead(c)[f]
  BY DEF With
<1>5. CASE seen[l] = None BY <1>1, <1>3, <1>5
<1>6. CASE seen[l] # None
  <2>1. /\ facts[l][f] = IF x # None THEN x ELSE IF f \in c.titled[l] THEN "title" ELSE None
        /\ proof[l][f] = IF x # None THEN x ELSE None
    BY <1>1, <1>2, <1>3, <1>4, <1>6
  <2> QED BY <1>6, <2>1 DEF x
<1> QED BY <1>5, <1>6

LEMMA ReadTierOf ==
    ASSUME NEW CONSTANT c, NEW l, NEW content, NEW f
    PROVE  ReadFrom(c, content, c.product[l] \in c.curated, f)
             \in {None, "curated", "jsonld", "table", "identity", "support", "pdf", "text"}
<1> DEFINE curated == c.product[l] \in c.curated
<1>1. curated \in BOOLEAN OBVIOUS
<1> HIDE DEF curated
<1>2. ReadFrom(c, content, curated, f)
        \in {None, "curated", "jsonld", "table", "identity", "support", "pdf", "text"}
  BY <1>1, ReadTier
<1> QED BY <1>2 DEF curated

LEMMA EnrichedTyped ==
    ASSUME NEW CONSTANT c, Enriched(c)!EnrichmentConstantsOK, EnrichedInv(c) PROVE Enriched(c)!TypeOK
<1> DEFINE T == {None, "curated", "jsonld", "table", "identity", "support", "pdf", "text", "title"}
<1>1. T = Enriched(c)!Range(Enriched(c)!Ladder) \cup {None}
  <2>1. Enriched(c)!Range(Enriched(c)!Ladder) = Range(Enriched(c)!Ladder) BY DEF Enriched!Range, Range
  <2> QED BY <2>1, LadderIs
<1>2. ASSUME NEW l \in c.listings, NEW f \in c.fields PROVE facts[l][f] \in T /\ proof[l][f] \in T
  <2> DEFINE x == ReadFrom(c, seen[l], c.product[l] \in c.curated, f)
  <2>1. x \in {None, "curated", "jsonld", "table", "identity", "support", "pdf", "text"} BY ReadTierOf
  <2>2. /\ seen[l] = None => facts[l][f] \in {None, "title"} /\ proof[l][f] = None
        /\ seen[l] # None =>
              /\ facts[l][f] = IF x # None THEN x ELSE IF f \in c.titled[l] THEN "title" ELSE None
              /\ proof[l][f] = IF x # None THEN x ELSE None
    BY FieldIs
  <2> HIDE DEF x
  <2> QED BY <2>1, <2>2
<1> HIDE DEF T
<1>3. \A l \in c.listings : \A f \in c.fields :
         facts[l][f] \in Enriched(c)!Range(Enriched(c)!Ladder) \cup {None} /\ proof[l][f] \in Enriched(c)!Range(Enriched(c)!Ladder) \cup {None}
  BY <1>1, <1>2
<1> QED BY <1>3, Zenon DEF EnrichedInv, EnrichedTypes, Enriched!TypeOK

LEMMA ProofFollows ==
    ASSUME NEW CONSTANT c, Enriched(c)!EnrichmentConstantsOK, EnrichedInv(c) PROVE Enriched(c)!ProofMatches
<1> SUFFICES ASSUME NEW l \in c.listings, NEW f \in c.fields
             PROVE  proof[l][f] = IF facts[l][f] = "title" THEN None ELSE facts[l][f]
  BY DEF Enriched!ProofMatches
<1> DEFINE x == ReadFrom(c, seen[l], c.product[l] \in c.curated, f)
<1>1. x \in {None, "curated", "jsonld", "table", "identity", "support", "pdf", "text"} BY ReadTierOf
<1>2. /\ seen[l] = None => facts[l][f] \in {None, "title"} /\ proof[l][f] = None
      /\ seen[l] # None =>
            /\ facts[l][f] = IF x # None THEN x ELSE IF f \in c.titled[l] THEN "title" ELSE None
            /\ proof[l][f] = IF x # None THEN x ELSE None
  BY FieldIs
<1> HIDE DEF x
<1> QED BY <1>1, <1>2, TiersKnown

LEMMA StrongestFollows ==
    ASSUME NEW CONSTANT c, Enriched(c)!EnrichmentConstantsOK, EnrichedInv(c) PROVE Enriched(c)!StrongestWins
<1> SUFFICES ASSUME NEW l \in c.listings, seen[l] # None, NEW f \in c.fields, NEW i \in 1 .. 8,
                    f \in Enriched(c)!Offers(l, Enriched(c)!Ladder[i])
             PROVE  facts[l][f] # None /\ Enriched(c)!Rank(facts[l][f]) <= i
  BY LadderIs DEF Enriched!StrongestWins
<1> DEFINE curated == c.product[l] \in c.curated
           content == seen[l]
           S(tier) == f \in Enriched(c)!StructuredFields(content, tier)
           first == f \in Enriched(c)!CuratedFields(content)
           text == f \in Enriched(c)!TextFields(content)
           title == f \in c.titled[l]
<1>1. facts[l][f] =
        IF curated /\ first THEN "curated"
        ELSE IF S("jsonld") THEN "jsonld" ELSE IF S("table") THEN "table"
        ELSE IF S("identity") THEN "identity" ELSE IF S("support") THEN "support"
        ELSE IF S("pdf") THEN "pdf" ELSE IF ~curated /\ text THEN "text"
        ELSE IF title THEN "title" ELSE None
  <2> DEFINE x == ReadFrom(c, seen[l], curated, f)
  <2>1. facts[l][f] = IF x # None THEN x ELSE IF title THEN "title" ELSE None
    BY FieldIs
  <2>2. x = IF curated /\ first THEN "curated"
            ELSE IF S("jsonld") THEN "jsonld" ELSE IF S("table") THEN "table"
            ELSE IF S("identity") THEN "identity" ELSE IF S("support") THEN "support"
            ELSE IF S("pdf") THEN "pdf" ELSE IF ~curated /\ text THEN "text" ELSE None
    BY DEF ReadFrom
  <2> HIDE DEF x, curated, first, text, title, S
  <2> QED BY <2>1, <2>2, TiersKnown
<1>2. /\ Enriched(c)!Ladder[1] = "curated" /\ Enriched(c)!Ladder[2] = "jsonld" /\ Enriched(c)!Ladder[3] = "table" /\ Enriched(c)!Ladder[4] = "identity"
      /\ Enriched(c)!Ladder[5] = "support" /\ Enriched(c)!Ladder[6] = "pdf" /\ Enriched(c)!Ladder[7] = "text" /\ Enriched(c)!Ladder[8] = "title"
  BY DEF Enriched!Ladder
<1>3. 1 .. 8 = {1, 2, 3, 4, 5, 6, 7, 8} OBVIOUS
<1>4. /\ i = 1 => curated /\ first
      /\ i = 2 => S("jsonld")
  BY <1>2 DEF Enriched!Offers
<1>5. /\ i = 3 => S("table")
      /\ i = 4 => S("identity")
      /\ i = 5 => S("support")
      /\ i = 6 => S("pdf")
      /\ i = 7 => ~curated /\ text
      /\ i = 8 => title
  BY <1>2 DEF Enriched!Offers
<1>6. /\ Enriched(c)!Rank("curated") = 1 /\ Enriched(c)!Rank("jsonld") = 2 /\ Enriched(c)!Rank("table") = 3 /\ Enriched(c)!Rank("identity") = 4
      /\ Enriched(c)!Rank("support") = 5 /\ Enriched(c)!Rank("pdf") = 6 /\ Enriched(c)!Rank("text") = 7 /\ Enriched(c)!Rank("title") = 8
  BY <1>2, <1>3, LadderIs
<1> DEFINE x == facts[l][f]
<1>7. x = IF curated /\ first THEN "curated"
        ELSE IF S("jsonld") THEN "jsonld" ELSE IF S("table") THEN "table"
        ELSE IF S("identity") THEN "identity" ELSE IF S("support") THEN "support"
        ELSE IF S("pdf") THEN "pdf" ELSE IF ~curated /\ text THEN "text"
        ELSE IF title THEN "title" ELSE None
  BY <1>1
<1> HIDE DEF curated, first, text, title, S, x
<1>8. x # None /\ Enriched(c)!Rank(x) <= i
  <2>1. CASE i \in {1, 2, 3, 4} BY <1>4, <1>5, <1>6, <1>7, <2>1, TiersKnown
  <2>2. CASE i \in {5, 6, 7, 8} BY <1>4, <1>5, <1>6, <1>7, <2>2, TiersKnown
  <2> QED BY <1>3, <2>1, <2>2
<1> QED BY <1>8 DEF x

LEMMA VerifiedFollows ==
    ASSUME NEW CONSTANT c, EnrichedInv(c) PROVE Enriched(c)!StandsOnVerified
BY DEF EnrichedInv, TaskIs, Enriched!StandsOnVerified

LEMMA IdentityFollows ==
    ASSUME NEW CONSTANT c, Enriched(c)!EnrichmentConstantsOK, EnrichedInv(c) PROVE Enriched(c)!IdentityOnPage
<1> SUFFICES ASSUME NEW l \in c.listings, seen[l] # None,
                    c.product[l] \in c.curated, Enriched(c)!OwnTerms(c.product[l])
             PROVE  seen[l].shows = c.product[l]
  BY DEF Enriched!IdentityOnPage
<1>1. Enriched(c)!Shown(c.product[l], seen[l]) /\ seen[l] \in c.pages
  BY DEF EnrichedInv, EnrichedTypes, FactsAre
<1> QED BY <1>1 DEF Enriched!Shown, Enriched!OwnTerms

\* A verdict changes when it has expired.
LEMMA VerdictStays ==
    ASSUME NEW CONSTANT c, Enriched(c)!EnrichmentConstantsOK, EnrichedInv(c), [Enriched(c)!Next]_specVars PROVE Enriched(c)!VerdictKept
<1> SUFFICES ASSUME NEW p \in Enriched(c)!Products, cache'[p] # cache[p], cache[p] # None
             PROVE  day - cache[p].at > c.ttl
  BY DEF Enriched!VerdictKept
<1>1. cache \in [Enriched(c)!Products -> Enriched(c)!Association \cup {None}] BY DEF EnrichedInv, EnrichedTypes
<1>2. Enriched(c)!Discover \/ Enriched(c)!DiscoverNothing
  BY DEF Enriched!Next, specVars, Enriched!Source, Enriched!Skip, Enriched!FetchFails, Enriched!Unassociated,
         Enriched!Associate, Enriched!Fetch, Enriched!Ingest, Enriched!PageChanges, Enriched!Tomorrow
<1> DEFINE q == c.product[task.listing]
<1>3. \E row : cache' = [cache EXCEPT ![q] = row] BY <1>2 DEF Enriched!Discover, Enriched!DiscoverNothing
<1>4. ~ Enriched(c)!Fresh(cache[q]) BY <1>2 DEF Enriched!Discover, Enriched!DiscoverNothing, Enriched!Searches
<1>5. q = p BY <1>1, <1>3
<1>6. ~ (day - cache[p].at <= c.ttl) BY <1>4, <1>5 DEF Enriched!Fresh
<1>7. cache[p] \in Enriched(c)!Association BY <1>1
<1>8. /\ cache[p].at \in 0 .. c.maxDays /\ day \in 0 .. c.maxDays
      /\ c.ttl \in Nat /\ c.maxDays \in Nat
  BY <1>7, TiersKnown DEF Enriched!Association, EnrichedInv, EnrichedTypes
<1> DEFINE at == cache[p].at
<1>9. at \in 0 .. c.maxDays /\ ~ (day - at <= c.ttl) BY <1>6, <1>8
<1> HIDE DEF at
<1>10. day - at > c.ttl BY <1>8, <1>9
<1> QED BY <1>10 DEF at

\* No weaker part of a page overwrites what a stronger one says (_merge and
\* _fill_missing).
THEOREM StrongestPartWins ==
    ASSUME NEW CONSTANT c, Enriched(c)!EnrichmentConstantsOK PROVE Enriched(c)!Spec => []Enriched(c)!StrongestWins
<1>1. EnrichedInv(c) => Enriched(c)!StrongestWins BY StrongestFollows
<1> QED BY <1>1, EnrichedAlways, PTL

\* A fact has the value its provenance tells (enrich_candidate).
THEOREM ProvenanceTellsTheFact ==
    ASSUME NEW CONSTANT c, Enriched(c)!EnrichmentConstantsOK PROVE Enriched(c)!Spec => []Enriched(c)!ProofMatches
<1>1. EnrichedInv(c) => Enriched(c)!ProofMatches BY ProofFollows
<1> QED BY <1>1, EnrichedAlways, PTL

\* Without a curated association facts are read only from a page that was
\* verified in time (cached_association).
THEOREM ReadFromVerified ==
    ASSUME NEW CONSTANT c, Enriched(c)!EnrichmentConstantsOK PROVE Enriched(c)!Spec => []Enriched(c)!StandsOnVerified
<1>1. EnrichedInv(c) => Enriched(c)!StandsOnVerified BY VerifiedFollows
<1> QED BY <1>1, EnrichedAlways, PTL

\* With a curated association of terms of its own a product's facts are read only
\* from a page that shows it (enrich_candidate).
THEOREM CuratedPageShowsProduct ==
    ASSUME NEW CONSTANT c, Enriched(c)!EnrichmentConstantsOK PROVE Enriched(c)!Spec => []Enriched(c)!IdentityOnPage
<1>1. EnrichedInv(c) => Enriched(c)!IdentityOnPage BY IdentityFollows
<1> QED BY <1>1, EnrichedAlways, PTL

\* A verdict is asked again only when it has expired
\* (discover_manufacturer_association).
THEOREM VerdictIsKept ==
    ASSUME NEW CONSTANT c, Enriched(c)!EnrichmentConstantsOK PROVE Enriched(c)!Spec => [][Enriched(c)!VerdictKept]_specVars
<1>1. UNCHANGED Enriched(c)!vars => UNCHANGED specVars BY DEF Enriched!vars, specVars
<1>2. [Enriched(c)!Next]_(Enriched(c)!vars) => [Enriched(c)!Next]_specVars BY <1>1
<1>3. EnrichedInv(c) /\ [Enriched(c)!Next]_(Enriched(c)!vars) => [Enriched(c)!VerdictKept]_specVars BY <1>2, VerdictStays
<1> QED BY <1>3, EnrichedAlways, PTL DEF Enriched!Spec

-----------------------------------------------------------------------------
(* BootReadiness *)

\* The board sold has run what it left the factory with, and what it is said to
\* run; what the page and the document say of the factory is so.
BoardIs(c) ==
    /\ \E b \in c.boards :
          /\ DOMAIN board = DOMAIN b /\ board.vendor = b.vendor /\ board.serial = b.serial
          /\ board.revision = b.revision /\ board.factory = b.factory
    /\ board.runs \in c.versions[board.vendor] /\ Boot(c)!Later(board.runs, board.factory)
SaidIs(c) ==
    /\ said.claims \subseteq Boot(c)!Claims /\ said.runs \in c.versions[board.vendor] \cup {None}
    /\ "installed" \in said.claims => said.runs # None
    /\ said.runs # None => Boot(c)!Later(board.runs, said.runs)
    /\ bootPage \in c.pages[board.vendor] /\ Boot(c)!Honest(bootPage, board)
DocIs(c) ==
    doc # None =>
        /\ doc.page \in c.pages[board.vendor] /\ Boot(c)!Honest(doc.page, board)
        /\ doc.seller \subseteq doc.stated
        /\ "installed" \in doc.seller =>
              doc.runs \in c.versions[board.vendor] /\ Boot(c)!Later(board.runs, doc.runs)
BootInv(c) == BoardIs(c) /\ SaidIs(c) /\ DocIs(c)

LEMMA BoardsAre ==
    ASSUME NEW CONSTANT c, Boot(c)!BootConstantsOK, BoardIs(c)
    PROVE  /\ board.vendor \in Boot(c)!Vendors /\ "runs" \in DOMAIN board
           /\ board.factory \in c.versions[board.vendor]
BY DEF Boot!BootConstantsOK, BoardIs

LEMMA VersionsAre ==
    ASSUME NEW CONSTANT c, Boot(c)!BootConstantsOK, NEW vendor \in Boot(c)!Vendors, NEW v \in c.versions[vendor]
    PROVE  v.number \in Int /\ v.stable \in BOOLEAN /\ v # None
BY DEF Boot!BootConstantsOK

LEMMA LaterIs ==
    ASSUME NEW CONSTANT c, Boot(c)!BootConstantsOK, NEW vendor \in Boot(c)!Vendors,
           NEW u \in c.versions[vendor], NEW v \in c.versions[vendor], NEW w \in c.versions[vendor]
    PROVE  Boot(c)!Later(v, v) /\ (Boot(c)!Later(u, v) /\ Boot(c)!Later(v, w) => Boot(c)!Later(u, w))
<1>1. /\ u.number \in Int /\ u.stable \in BOOLEAN /\ v.number \in Int /\ v.stable \in BOOLEAN
      /\ w.number \in Int /\ w.stable \in BOOLEAN
  BY VersionsAre
<1>2. Boot(c)!Later(v, v) BY <1>1 DEF Boot!Later
<1>3. ASSUME Boot(c)!Later(u, v), Boot(c)!Later(v, w) PROVE Boot(c)!Later(u, w)
  <2> DEFINE a == u.number
             b == v.number
             d == w.number
  <2>1. a \in Int /\ b \in Int /\ d \in Int /\ a >= b /\ b >= d BY <1>1, <1>3 DEF Boot!Later
  <2>2. /\ u.train = w.train /\ (v.stable => a > b \/ u.stable) /\ (w.stable => b > d \/ v.stable)
    BY <1>3 DEF Boot!Later
  <2> HIDE DEF a, b, d
  <2>3. a >= d /\ (w.stable => a > d \/ u.stable) BY <2>1, <2>2
  <2> QED BY <2>2, <2>3 DEF Boot!Later, a, d
<1> QED BY <1>2, <1>3

LEMMA BootInit == ASSUME NEW CONSTANT c, Boot(c)!BootConstantsOK, Boot(c)!Init PROVE BootInv(c)
<1>1. PICK b \in c.boards : board = [b EXCEPT !.runs = b.factory] BY DEF Boot!Init
<1>2. /\ DOMAIN b = {"vendor", "model", "revision", "serial", "factory", "runs"}
      /\ b.vendor \in Boot(c)!Vendors /\ b.factory \in c.versions[b.vendor]
  BY DEF Boot!BootConstantsOK
<1>3. /\ DOMAIN board = DOMAIN b /\ board.vendor = b.vendor /\ board.serial = b.serial
      /\ board.revision = b.revision /\ board.factory = b.factory /\ board.runs = b.factory
  BY <1>1, <1>2
<1>4. Boot(c)!Later(b.factory, b.factory) BY <1>2, LaterIs
<1>5. BoardIs(c) BY <1>2, <1>3, <1>4 DEF BoardIs
<1>6. /\ said = [claims |-> {}, runs |-> None] /\ doc = None
      /\ bootPage \in c.pages[board.vendor] /\ Boot(c)!Honest(bootPage, board)
  BY DEF Boot!Init
<1>7. SaidIs(c) BY <1>6 DEF SaidIs
<1>8. DocIs(c) BY <1>6 DEF DocIs
<1> QED BY <1>5, <1>7, <1>8 DEF BootInv

LEMMA BootStep ==
    ASSUME NEW CONSTANT c, Boot(c)!BootConstantsOK, BootInv(c), [Boot(c)!Next]_bootVars PROVE BootInv(c)'
<1>1. BoardIs(c) /\ SaidIs(c) /\ DocIs(c) BY DEF BootInv
<1>2. board.vendor \in Boot(c)!Vendors /\ "runs" \in DOMAIN board /\ board.factory \in c.versions[board.vendor]
  BY <1>1, BoardsAre
<1>3. board.runs \in c.versions[board.vendor] BY <1>1 DEF BoardIs
<1>4. CASE UNCHANGED bootVars
  <2>1. UNCHANGED <<board, said, bootPage, doc>> BY <1>4 DEF bootVars
  <2> QED BY <1>1, <2>1 DEF BootInv, BoardIs, SaidIs, DocIs
<1>5. ASSUME NEW v \in c.versions[board.vendor], Boot(c)!Update(v) PROVE BootInv(c)'
  <2>1. /\ Boot(c)!Later(v, board.runs) /\ board' = [board EXCEPT !.runs = v] /\ UNCHANGED <<said, bootPage, doc>>
    BY <1>5 DEF Boot!Update
  <2>2. /\ DOMAIN board' = DOMAIN board /\ board'.vendor = board.vendor /\ board'.serial = board.serial
        /\ board'.revision = board.revision /\ board'.factory = board.factory /\ board'.runs = v
    BY <1>2, <2>1
  <2>3. ASSUME NEW w \in c.versions[board.vendor], Boot(c)!Later(board.runs, w) PROVE Boot(c)!Later(v, w)
    BY <1>2, <1>3, <2>1, <2>3, LaterIs
  <2>4. BoardIs(c)' BY <1>1, <1>2, <2>2, <2>3 DEF BoardIs
  <2>5. Boot(c)!Honest(bootPage, board') /\ (doc # None => Boot(c)!Honest(doc.page, board'))
    BY <1>1, <2>2 DEF SaidIs, DocIs, Boot!Honest
  <2>6. SaidIs(c)' BY <1>1, <2>1, <2>2, <2>3, <2>5 DEF SaidIs
  <2>7. DocIs(c)' BY <1>1, <2>1, <2>2, <2>3, <2>5 DEF DocIs
  <2> QED BY <2>4, <2>6, <2>7 DEF BootInv
<1>6. ASSUME NEW claims \in SUBSET Boot(c)!Claims, Boot(c)!Restate(claims) PROVE BootInv(c)'
  <2>1. /\ said' = [claims |-> claims, runs |-> IF "installed" \in claims THEN board.runs ELSE None]
        /\ UNCHANGED <<board, bootPage, doc>>
    BY <1>6 DEF Boot!Restate
  <2>2. board.runs # None /\ Boot(c)!Later(board.runs, board.runs) BY <1>2, <1>3, VersionsAre, LaterIs
  <2>3. SaidIs(c)' BY <1>1, <1>3, <2>1, <2>2 DEF SaidIs
  <2>4. BoardIs(c)' /\ DocIs(c)' BY <1>1, <2>1 DEF BoardIs, DocIs
  <2> QED BY <2>3, <2>4 DEF BootInv
<1>7. ASSUME NEW p \in c.pages[board.vendor], Boot(c)!Publish(p) PROVE BootInv(c)'
  <2>1. bootPage' = p /\ Boot(c)!Honest(p, board) /\ UNCHANGED <<board, said, doc>> BY <1>7 DEF Boot!Publish
  <2>2. SaidIs(c)' BY <1>1, <2>1 DEF SaidIs
  <2>3. BoardIs(c)' /\ DocIs(c)' BY <1>1, <2>1 DEF BoardIs, DocIs
  <2> QED BY <2>2, <2>3 DEF BootInv
<1>8. CASE Boot(c)!Enrich
  <2>1. /\ doc' = [page |-> bootPage, seller |-> Boot(c)!Forwarded(said.claims), stated |-> said.claims, runs |-> said.runs]
        /\ UNCHANGED <<board, said, bootPage>>
    BY <1>8 DEF Boot!Enrich
  <2>2. Boot(c)!Forwarded(said.claims) \subseteq said.claims BY DEF Boot!Forwarded
  <2>3. /\ doc'.page = bootPage /\ doc'.stated = said.claims /\ doc'.runs = said.runs
        /\ doc'.seller \subseteq said.claims
    BY <2>1, <2>2
  <2>4. DocIs(c)' BY <1>1, <2>1, <2>3 DEF SaidIs, DocIs
  <2>5. BoardIs(c)' /\ SaidIs(c)' BY <1>1, <2>1 DEF BoardIs, SaidIs
  <2> QED BY <2>4, <2>5 DEF BootInv
<1> QED BY <1>4, <1>5, <1>6, <1>7, <1>8 DEF Boot!Next

LEMMA BootAlways ==
    ASSUME NEW CONSTANT c, Boot(c)!BootConstantsOK PROVE Boot(c)!Spec => []BootInv(c)
<1>1. Boot(c)!Init => BootInv(c) BY BootInit
<1>2. UNCHANGED Boot(c)!vars => UNCHANGED bootVars BY DEF Boot!vars, bootVars
<1>3. [Boot(c)!Next]_(Boot(c)!vars) => [Boot(c)!Next]_bootVars BY <1>2
<1>4. BootInv(c) /\ [Boot(c)!Next]_(Boot(c)!vars) => BootInv(c)' BY <1>3, BootStep
<1> QED BY <1>1, <1>4, PTL DEF Boot!Spec

-----------------------------------------------------------------------------
(* The verdict *)

\* The row that is taken is one of the page's.
LEMMA PairIs ==
    ASSUME NEW CONSTANT c, Boot(c)!BootConstantsOK, NEW vendor \in Boot(c)!Vendors, NEW p \in c.pages[vendor]
    PROVE  /\ Boot(c)!Pair(p).status \in {"unsupported", "unresolved", "supported"}
           /\ Boot(c)!Pair(p).minimum \in c.versions[vendor] \cup {None}
           /\ Boot(c)!Pair(p).status = "unsupported" =>
                p.complete \/ \E i \in DOMAIN p.rows : p.rows[i].unsupported
<1> DEFINE i == Boot(c)!BestRow(p.rows)
<1>1. p.rows \in Seq(Boot(c)!Range(p.rows)) /\ \A r \in Boot(c)!Range(p.rows) : r.minimum \in c.versions[vendor] \cup {None}
  BY DEF Boot!BootConstantsOK
<1>2. CASE p.rows = <<>> \/ i = 0
  BY <1>2 DEF Boot!Pair, Boot!StatusOfAbsent
<1>3. CASE p.rows # <<>> /\ i # 0
  <2> DEFINE S == Boot(c)!BestRows(p.rows)
  <2>1. S # {} /\ i = CHOOSE k \in S : \A j \in S : k <= j BY <1>3 DEF Boot!BestRow
  <2>2. S \in SUBSET Nat /\ S \subseteq DOMAIN p.rows BY <1>1 DEF Boot!BestRows
  <2> HIDE DEF S
  <2>3. \E k \in S : \A j \in S : k <= j BY <2>1, <2>2, LeastNatural
  <2>4. i \in S BY <2>1, <2>3
  <2>5. i \in DOMAIN p.rows BY <2>2, <2>4
  <2> HIDE DEF i
  <2>6. p.rows[i] \in Boot(c)!Range(p.rows) BY <2>5 DEF Boot!Range
  <2>7. Boot(c)!Pair(p) = [status |-> IF p.rows[i].unsupported THEN "unsupported" ELSE "supported",
                    minimum |-> p.rows[i].minimum, cpu |-> p.rows[i].cpu]
    BY <1>3 DEF Boot!Pair, i
  <2> QED BY <1>1, <2>5, <2>6, <2>7
<1> QED BY <1>2, <1>3

\* A verdict of readiness scores at least 90, and stands on the CPU's row and
\* on one of four reasons.
LEMMA ReadinessIs ==
    ASSUME NEW CONSTANT c, NEW p, NEW seller, NEW installed, NEW b
    PROVE  LET pair == Boot(c)!Pair(p)
               verdict == Boot(c)!Readiness(p, seller, installed, b)
           IN  /\ verdict.readiness \in Boot(c)!Ready <=> verdict.score >= 90
               /\ verdict.score = 0 => pair.status = "unsupported"
               /\ verdict.readiness \in Boot(c)!Ready =>
                     /\ pair.status \notin {"unsupported", "unresolved"}
                     /\ \/ pair.minimum = None
                        \/ Boot(c)!MeetsMinimum(b.vendor, p.shipped, pair.minimum) = {TRUE}
                        \/ TRUE \in Boot(c)!FactoryMeets(seller, b, pair.minimum)
                        \/ Boot(c)!SellerMeets(seller, installed, b, pair.minimum) = {TRUE}
<1> DEFINE pair == Boot(c)!Pair(p)
           verdict == Boot(c)!Readiness(p, seller, installed, b)
           sellerMeets == Boot(c)!SellerMeets(seller, installed, b, pair.minimum)
           shipped == Boot(c)!MeetsMinimum(b.vendor, p.shipped, pair.minimum) = {TRUE}
           factory == TRUE \in Boot(c)!FactoryMeets(seller, b, pair.minimum)
           recovery == Boot(c)!Recovery(p, sellerMeets)
           correlated == Boot(c)!InHistory(p, installed, seller, b)
           Right == /\ verdict.readiness \in Boot(c)!Ready <=> verdict.score >= 90
                    /\ verdict.score = 0 => pair.status = "unsupported"
                    /\ verdict.readiness \in Boot(c)!Ready =>
                          /\ pair.status \notin {"unsupported", "unresolved"}
                          /\ pair.minimum = None \/ shipped \/ factory \/ sellerMeets = {TRUE}
<1>1. recovery \in {<<"cpu_less_recovery", 88>>, <<"flashback_detected", 78>>, <<"high_friction", 48>>,
                    <<"recovery_unknown", 62>>}
  BY DEF Boot!Recovery
<1>2. verdict =
        CASE pair.status = "unsupported" -> Boot(c)!Verdict("not_bootable", 0, pair.cpu)
          [] pair.status = "unresolved" ->
               IF p.flashback = "cpu_less" THEN Boot(c)!Verdict("unresolved_recoverable", 54, pair.cpu)
               ELSE Boot(c)!Verdict("unresolved", 34, pair.cpu)
          [] OTHER ->
               IF pair.minimum = None THEN Boot(c)!Verdict("ready_by_support", 96, pair.cpu)
               ELSE IF shipped THEN Boot(c)!Verdict("ready_verified", 98, pair.cpu)
               ELSE IF factory THEN Boot(c)!Verdict("ready_factory", 98, pair.cpu)
               ELSE IF sellerMeets = {TRUE}
               THEN IF correlated THEN Boot(c)!Verdict("ready_correlated", 94, pair.cpu)
                    ELSE Boot(c)!Verdict("ready_claimed", 90, pair.cpu)
               ELSE Boot(c)!Verdict(recovery[1], recovery[2], pair.cpu)
  BY Zenon DEF Boot!Readiness
<1> HIDE DEF pair, verdict, shipped, factory, recovery, correlated, sellerMeets
<1>3. ASSUME pair.status = "unsupported" PROVE Right
  <2>1. verdict = Boot(c)!Verdict("not_bootable", 0, pair.cpu) BY <1>2, <1>3
  <2>2. verdict.readiness = "not_bootable" /\ verdict.score = 0 BY <2>1 DEF Boot!Verdict
  <2>3. verdict.readiness \notin Boot(c)!Ready BY <2>2 DEF Boot!Ready
  <2> QED BY <1>3, <2>2, <2>3
<1>4. ASSUME pair.status = "unresolved" PROVE Right
  <2>1. \/ verdict = Boot(c)!Verdict("unresolved_recoverable", 54, pair.cpu)
        \/ verdict = Boot(c)!Verdict("unresolved", 34, pair.cpu)
    BY <1>2, <1>4
  <2>2. verdict.readiness \in {"unresolved_recoverable", "unresolved"} /\ verdict.score \in {54, 34}
    BY <2>1 DEF Boot!Verdict
  <2>3. verdict.readiness \notin Boot(c)!Ready BY <2>2 DEF Boot!Ready
  <2>4. ~ (verdict.score >= 90) /\ verdict.score # 0 BY <2>2
  <2> QED BY <2>3, <2>4, Zenon
<1>5. ASSUME pair.status \notin {"unsupported", "unresolved"} PROVE Right
  <2>1. CASE pair.minimum = None \/ shipped \/ factory \/ sellerMeets = {TRUE}
    <3>1. verdict \in {Boot(c)!Verdict("ready_by_support", 96, pair.cpu), Boot(c)!Verdict("ready_verified", 98, pair.cpu),
                       Boot(c)!Verdict("ready_factory", 98, pair.cpu), Boot(c)!Verdict("ready_correlated", 94, pair.cpu),
                       Boot(c)!Verdict("ready_claimed", 90, pair.cpu)}
      BY <1>2, <1>5, <2>1
    <3>2. verdict.readiness \in Boot(c)!Ready /\ verdict.score \in {96, 98, 94, 90}
      BY <3>1 DEF Boot!Verdict, Boot!Ready
    <3>3. verdict.score >= 90 /\ verdict.score # 0 BY <3>2
    <3> QED BY <1>5, <2>1, <3>2, <3>3, Zenon
  <2>2. CASE ~ (pair.minimum = None \/ shipped \/ factory \/ sellerMeets = {TRUE})
    <3>1. verdict = Boot(c)!Verdict(recovery[1], recovery[2], pair.cpu) BY <1>2, <1>5, <2>2
    <3>2. /\ recovery[1] \in {"cpu_less_recovery", "flashback_detected", "high_friction", "recovery_unknown"}
          /\ recovery[2] \in {88, 78, 48, 62}
      BY <1>1
    <3>3. verdict.readiness = recovery[1] /\ verdict.score = recovery[2] BY <3>1 DEF Boot!Verdict
    <3>4. verdict.readiness \notin Boot(c)!Ready BY <3>2, <3>3 DEF Boot!Ready
    <3>5. ~ (verdict.score >= 90) /\ verdict.score # 0 BY <3>2, <3>3
    <3> QED BY <3>4, <3>5, Zenon
  <2> QED BY <2>1, <2>2
<1>6. Right BY <1>3, <1>4, <1>5
<1> QED BY <1>6, Zenon DEF verdict, pair, shipped, factory, sellerMeets

\* A version that meets the minimum is later, and so is what a rule tells.
LEMMA MeetingIsLater ==
    ASSUME NEW CONSTANT c, Boot(c)!BootConstantsOK, Boot(c)!Truthful, NEW vendor \in Boot(c)!Vendors,
           NEW minimum \in c.versions[vendor] \cup {None}, NEW v \in c.versions[vendor] \cup {None},
           TRUE \in Boot(c)!MeetsMinimum(vendor, v, minimum)
    PROVE  v # None /\ minimum # None /\ Boot(c)!Later(v, minimum)
<1>1. None # TRUE BY DEF Boot!BootConstantsOK
<1>2. v # None /\ minimum # None /\ Boot(c)!Ordered(vendor, v, minimum) /\ Boot(c)!AtLeast(vendor, v, minimum)
  BY <1>1 DEF Boot!MeetsMinimum
<1>3. v.train = minimum.train
  BY <1>2 DEF Boot!Ordered, Boot!Truthful
<1>4. v.number \in Int /\ minimum.number \in Int /\ v.stable \in BOOLEAN /\ minimum.stable \in BOOLEAN
  BY <1>2, VersionsAre
<1> DEFINE a == v.number
           d == minimum.number
<1>5. a \in Int /\ d \in Int /\ (v = minimum \/ a > d \/ (a = d /\ v.stable))
  BY <1>2, <1>4 DEF Boot!AtLeast
<1>6. v = minimum => a = d OBVIOUS
<1> HIDE DEF a, d
<1>7. a >= d /\ (minimum.stable => a > d \/ v.stable) BY <1>4, <1>5, <1>6
<1> QED BY <1>2, <1>3, <1>7 DEF Boot!Later, a, d

\* A board said to be ready runs a firmware that knows the CPU.
LEMMA ReadyFollows ==
    ASSUME NEW CONSTANT c, Boot(c)!BootConstantsOK, Boot(c)!Truthful, BootInv(c) PROVE Boot(c)!NoFalseReadiness
<1> DEFINE pair == Boot(c)!Pair(doc.page)
           vendor == board.vendor
<1> SUFFICES ASSUME doc # None, Boot(c)!Judgement.readiness \in Boot(c)!Ready, c.minimum[vendor] # None
             PROVE  Boot(c)!Later(board.runs, c.minimum[vendor])
  BY DEF Boot!NoFalseReadiness
<1>1. BoardIs(c) /\ DocIs(c) BY DEF BootInv
<1>2. /\ vendor \in Boot(c)!Vendors /\ board.factory \in c.versions[vendor] /\ board.runs \in c.versions[vendor]
      /\ Boot(c)!Later(board.runs, board.factory)
  BY <1>1, BoardsAre DEF BoardIs
<1>3. /\ doc.page \in c.pages[vendor] /\ Boot(c)!Honest(doc.page, board)
      /\ "installed" \in doc.seller => doc.runs \in c.versions[vendor] /\ Boot(c)!Later(board.runs, doc.runs)
  BY <1>1 DEF DocIs
<1>4. /\ pair.status \in {"unsupported", "unresolved", "supported"}
      /\ pair.minimum \in c.versions[vendor] \cup {None}
  BY <1>2, <1>3, PairIs
<1>5. Boot(c)!Judgement = Boot(c)!Readiness(doc.page, doc.seller, doc.runs, board) BY DEF Boot!Judgement, Boot!Judged
<1>6. /\ pair.status \notin {"unsupported", "unresolved"}
      /\ \/ pair.minimum = None
         \/ Boot(c)!MeetsMinimum(vendor, doc.page.shipped, pair.minimum) = {TRUE}
         \/ TRUE \in Boot(c)!FactoryMeets(doc.seller, board, pair.minimum)
         \/ Boot(c)!SellerMeets(doc.seller, doc.runs, board, pair.minimum) = {TRUE}
  BY <1>5, ReadinessIs
<1>7. pair.minimum # None /\ Boot(c)!Later(pair.minimum, c.minimum[vendor])
  BY <1>2, <1>3, <1>4, <1>6 DEF Boot!Truthful
<1> HIDE DEF pair
<1>8. Boot(c)!Later(board.runs, pair.minimum)
  <2>1. CASE Boot(c)!MeetsMinimum(vendor, doc.page.shipped, pair.minimum) = {TRUE}
    <3>1. doc.page.shipped \in {None, board.factory} BY <1>3 DEF Boot!Honest
    <3>2. doc.page.shipped # None /\ Boot(c)!Later(doc.page.shipped, pair.minimum)
      BY <1>2, <1>4, <2>1, <3>1, MeetingIsLater
    <3> QED BY <1>2, <1>4, <1>7, <3>1, <3>2, LaterIs
  <2>2. CASE TRUE \in Boot(c)!FactoryMeets(doc.seller, board, pair.minimum)
    <3>1. PICK r \in Boot(c)!FactoryRules(doc.seller, board) :
             TRUE \in Boot(c)!MeetsMinimum(vendor, Boot(c)!RuleVersion(r, doc.seller, board), pair.minimum)
      BY <2>2 DEF Boot!FactoryMeets
    <3> DEFINE v == Boot(c)!RuleVersion(r, doc.seller, board)
    <3>2. /\ r \in c.rules /\ r.vendor = vendor /\ v # None
      BY DEF Boot!FactoryRules, Boot!Applies
    <3>3. \/ v = board.factory
          \/ v = r.version /\ <<r.kind, r.key>> \in {<<"serial", board.serial>>, <<"revision", board.revision>>}
      BY <3>2 DEF Boot!RuleVersion, Boot!Stated
    <3>4. r.version \in c.versions[vendor] \cup {None} BY <3>2 DEF Boot!BootConstantsOK
    <3>5. v \in c.versions[vendor] /\ Boot(c)!Later(board.factory, v)
      <4>1. CASE v = board.factory BY <1>2, <4>1, LaterIs
      <4>2. CASE v = r.version /\ <<r.kind, r.key>> \in {<<"serial", board.serial>>, <<"revision", board.revision>>}
        <5>1. PICK b \in c.boards : /\ board.vendor = b.vendor /\ board.serial = b.serial
                                    /\ board.revision = b.revision /\ board.factory = b.factory
          BY <1>1 DEF BoardIs
        <5>2. Boot(c)!Later(board.factory, r.version) BY <3>2, <4>2, <5>1 DEF Boot!Truthful
        <5> HIDE DEF v
        <5> QED BY <3>2, <3>4, <4>2, <5>2
      <4> QED BY <3>3, <4>1, <4>2
    <3>6. TRUE \in Boot(c)!MeetsMinimum(vendor, v, pair.minimum) BY <3>1
    <3> HIDE DEF v
    <3>7. Boot(c)!Later(v, pair.minimum) BY <1>2, <1>4, <3>5, <3>6, MeetingIsLater
    <3>8. Boot(c)!Later(board.runs, v) BY <1>2, <3>5, LaterIs
    <3> QED BY <1>2, <1>4, <1>7, <3>5, <3>7, <3>8, LaterIs
  <2>3. CASE Boot(c)!SellerMeets(doc.seller, doc.runs, board, pair.minimum) = {TRUE}
    <3>1. "installed" \in doc.seller /\ TRUE \in Boot(c)!MeetsMinimum(vendor, doc.runs, pair.minimum)
      <4>1. None # TRUE BY DEF Boot!BootConstantsOK
      <4> QED BY <2>3, <4>1 DEF Boot!SellerMeets
    <3>2. Boot(c)!Later(doc.runs, pair.minimum) BY <1>2, <1>3, <1>4, <3>1, MeetingIsLater
    <3> QED BY <1>2, <1>3, <1>4, <1>7, <3>1, <3>2, LaterIs
  <2> QED BY <1>6, <1>7, <2>1, <2>2, <2>3
<1>9. c.minimum[vendor] \in c.versions[vendor] BY <1>2 DEF Boot!BootConstantsOK
<1> QED BY <1>2, <1>4, <1>7, <1>8, <1>9, LaterIs

\* A board is given up by its maker's table alone.
LEMMA RefusedFollows ==
    ASSUME NEW CONSTANT c, Boot(c)!BootConstantsOK, BootInv(c) PROVE Boot(c)!RefusedByTable
<1> SUFFICES ASSUME doc # None, Boot(c)!Judgement.score = 0
             PROVE  doc.page.complete \/ \E i \in DOMAIN doc.page.rows : doc.page.rows[i].unsupported
  BY DEF Boot!RefusedByTable
<1>1. Boot(c)!Judgement = Boot(c)!Readiness(doc.page, doc.seller, doc.runs, board) BY DEF Boot!Judgement, Boot!Judged
<1>2. Boot(c)!Pair(doc.page).status = "unsupported" BY <1>1, ReadinessIs
<1>3. board.vendor \in Boot(c)!Vendors /\ doc.page \in c.pages[board.vendor]
  BY BoardsAre DEF BootInv, DocIs
<1> QED BY <1>2, <1>3, PairIs

\* The score with what the seller says, and without.
LEMMA ScoreIs ==
    ASSUME NEW CONSTANT c, Boot(c)!BootConstantsOK, NEW p, NEW seller, NEW installed, NEW b
    PROVE  LET pair == Boot(c)!Pair(p)
               without == Boot(c)!Readiness(p, {}, None, b).score
               with == Boot(c)!Readiness(p, seller, installed, b).score
           IN  /\ without \in Int /\ with \in Int /\ with >= without
               /\ with > without /\ with = 98 => Boot(c)!FactoryRules(seller, b) # {}
<1> DEFINE pair == Boot(c)!Pair(p)
           meets == Boot(c)!SellerMeets(seller, installed, b, pair.minimum)
           shipped == Boot(c)!MeetsMinimum(b.vendor, p.shipped, pair.minimum) = {TRUE}
           factory == TRUE \in Boot(c)!FactoryMeets(seller, b, pair.minimum)
           recovery == Boot(c)!Recovery(p, meets)
           correlated == Boot(c)!InHistory(p, installed, seller, b)
           with == Boot(c)!Readiness(p, seller, installed, b)
           without == Boot(c)!Readiness(p, {}, None, b)
           cpuLess == p.flashback = "cpu_less"
           Right == /\ without.score \in Int /\ with.score \in Int /\ with.score >= without.score
                    /\ with.score > without.score /\ with.score = 98 => Boot(c)!FactoryRules(seller, b) # {}
<1>1. recovery \in {<<"cpu_less_recovery", 88>>, <<"flashback_detected", 78>>, <<"high_friction", 48>>,
                    <<"recovery_unknown", 62>>}
  BY DEF Boot!Recovery
<1>2. with =
        CASE pair.status = "unsupported" -> Boot(c)!Verdict("not_bootable", 0, pair.cpu)
          [] pair.status = "unresolved" ->
               IF cpuLess THEN Boot(c)!Verdict("unresolved_recoverable", 54, pair.cpu)
               ELSE Boot(c)!Verdict("unresolved", 34, pair.cpu)
          [] OTHER ->
               IF pair.minimum = None THEN Boot(c)!Verdict("ready_by_support", 96, pair.cpu)
               ELSE IF shipped THEN Boot(c)!Verdict("ready_verified", 98, pair.cpu)
               ELSE IF factory THEN Boot(c)!Verdict("ready_factory", 98, pair.cpu)
               ELSE IF meets = {TRUE}
               THEN IF correlated THEN Boot(c)!Verdict("ready_correlated", 94, pair.cpu)
                    ELSE Boot(c)!Verdict("ready_claimed", 90, pair.cpu)
               ELSE Boot(c)!Verdict(recovery[1], recovery[2], pair.cpu)
  BY Zenon DEF Boot!Readiness
<1>3. Boot(c)!FactoryMeets({}, b, pair.minimum) = {}
  <2>1. \A r \in c.rules : Boot(c)!RuleVersion(r, {}, b) = None BY DEF Boot!RuleVersion, Boot!Stated
  <2>2. Boot(c)!FactoryRules({}, b) = {} BY <2>1 DEF Boot!FactoryRules
  <2> QED BY <2>2 DEF Boot!FactoryMeets
<1>4. Boot(c)!SellerMeets({}, None, b, pair.minimum) = {None} BY DEF Boot!SellerMeets
<1>5. Boot(c)!Recovery(p, {None}) = recovery BY DEF Boot!Recovery
<1>6. {None} # {TRUE} BY DEF Boot!BootConstantsOK
<1>7. without =
        CASE pair.status = "unsupported" -> Boot(c)!Verdict("not_bootable", 0, pair.cpu)
          [] pair.status = "unresolved" ->
               IF cpuLess THEN Boot(c)!Verdict("unresolved_recoverable", 54, pair.cpu)
               ELSE Boot(c)!Verdict("unresolved", 34, pair.cpu)
          [] OTHER ->
               IF pair.minimum = None THEN Boot(c)!Verdict("ready_by_support", 96, pair.cpu)
               ELSE IF shipped THEN Boot(c)!Verdict("ready_verified", 98, pair.cpu)
               ELSE Boot(c)!Verdict(recovery[1], recovery[2], pair.cpu)
  <2> DEFINE seller0 == Boot(c)!SellerMeets({}, None, b, pair.minimum)
             recovery0 == Boot(c)!Recovery(p, seller0)
             factory0 == TRUE \in Boot(c)!FactoryMeets({}, b, pair.minimum)
             correlated0 == Boot(c)!InHistory(p, None, {}, b)
  <2>1. without =
          CASE pair.status = "unsupported" -> Boot(c)!Verdict("not_bootable", 0, pair.cpu)
            [] pair.status = "unresolved" ->
                 IF cpuLess THEN Boot(c)!Verdict("unresolved_recoverable", 54, pair.cpu)
                 ELSE Boot(c)!Verdict("unresolved", 34, pair.cpu)
            [] OTHER ->
                 IF pair.minimum = None THEN Boot(c)!Verdict("ready_by_support", 96, pair.cpu)
                 ELSE IF shipped THEN Boot(c)!Verdict("ready_verified", 98, pair.cpu)
                 ELSE IF factory0 THEN Boot(c)!Verdict("ready_factory", 98, pair.cpu)
                 ELSE IF seller0 = {TRUE}
                 THEN IF correlated0 THEN Boot(c)!Verdict("ready_correlated", 94, pair.cpu)
                      ELSE Boot(c)!Verdict("ready_claimed", 90, pair.cpu)
                 ELSE Boot(c)!Verdict(recovery0[1], recovery0[2], pair.cpu)
    BY Zenon DEF Boot!Readiness
  <2>2. ~factory0 /\ seller0 # {TRUE} /\ recovery0 = recovery BY <1>3, <1>4, <1>5, <1>6
  <2> HIDE DEF pair, shipped, recovery, without, seller0, recovery0, factory0, correlated0, cpuLess
  <2> QED BY <2>1, <2>2
<1>8. factory => Boot(c)!FactoryRules(seller, b) # {} BY DEF Boot!FactoryMeets
<1> HIDE DEF pair, with, without, shipped, factory, recovery, correlated, meets, cpuLess
<1>9. recovery[2] \in {88, 78, 48, 62} BY <1>1
<1>10. ASSUME NEW name, NEW score, NEW cpu PROVE Boot(c)!Verdict(name, score, cpu).score = score BY DEF Boot!Verdict
<1>11. ASSUME pair.status = "unsupported" PROVE Right
  <2>1. with.score = 0 /\ without.score = 0 BY <1>2, <1>7, <1>10, <1>11
  <2> QED BY <2>1
<1>12. ASSUME pair.status = "unresolved" PROVE Right
  <2>1. with = without BY <1>2, <1>7, <1>12
  <2>2. with.score \in {54, 34} BY <1>2, <1>10, <1>12
  <2> QED BY <2>1, <2>2
<1>13. ASSUME pair.status \notin {"unsupported", "unresolved"}, pair.minimum = None \/ shipped PROVE Right
  <2>1. with = without BY <1>2, <1>7, <1>13
  <2>2. CASE pair.minimum = None
    <3>1. with = Boot(c)!Verdict("ready_by_support", 96, pair.cpu) BY <1>2, <1>13, <2>2
    <3>2. with.score = 96 BY <1>10, <3>1
    <3> QED BY <2>1, <3>2
  <2>3. CASE pair.minimum # None /\ shipped
    <3>1. with = Boot(c)!Verdict("ready_verified", 98, pair.cpu) BY <1>2, <1>13, <2>3
    <3>2. with.score = 98 BY <1>10, <3>1
    <3> QED BY <2>1, <3>2
  <2> QED BY <1>13, <2>2, <2>3
<1>14. ASSUME pair.status \notin {"unsupported", "unresolved"}, ~(pair.minimum = None \/ shipped) PROVE Right
  <2>1. without.score = recovery[2] BY <1>7, <1>10, <1>14
  <2>2. ASSUME factory PROVE with.score = 98
    <3>1. with = Boot(c)!Verdict("ready_factory", 98, pair.cpu) BY <1>2, <1>14, <2>2
    <3> QED BY <1>10, <3>1
  <2>3. ASSUME ~factory, meets = {TRUE}, correlated PROVE with.score = 94
    <3>1. with = Boot(c)!Verdict("ready_correlated", 94, pair.cpu) BY <1>2, <1>14, <2>3
    <3> QED BY <1>10, <3>1
  <2>4. ASSUME ~factory, meets = {TRUE}, ~correlated PROVE with.score = 90
    <3>1. with = Boot(c)!Verdict("ready_claimed", 90, pair.cpu) BY <1>2, <1>14, <2>4
    <3> QED BY <1>10, <3>1
  <2>5. ASSUME ~factory, meets # {TRUE} PROVE with.score = recovery[2]
    <3>1. with = Boot(c)!Verdict(recovery[1], recovery[2], pair.cpu) BY <1>2, <1>14, <2>5
    <3> QED BY <1>10, <3>1
  <2>6. CASE factory
    <3>1. with.score \in Int /\ without.score \in Int /\ with.score >= without.score BY <1>9, <2>1, <2>2, <2>6
    <3> QED BY <1>8, <2>6, <3>1, Zenon
  <2>7. CASE ~factory
    <3>1. with.score \in {94, 90, recovery[2]} BY <2>3, <2>4, <2>5, <2>7, Zenon
    <3>2. with.score \in Int /\ without.score \in Int /\ with.score >= without.score /\ with.score # 98
      BY <1>9, <2>1, <3>1
    <3> QED BY <3>2, Zenon
  <2> QED BY <2>6, <2>7
<1>15. Right BY <1>11, <1>12, <1>13, <1>14
<1> QED BY <1>15 DEF with, without

LEMMA SellerFollows ==
    ASSUME NEW CONSTANT c, Boot(c)!BootConstantsOK PROVE Boot(c)!SellerStaysBelow
<1> DEFINE with == Boot(c)!Readiness(doc.page, doc.seller, doc.runs, board).score
           without == Boot(c)!Readiness(doc.page, {}, None, board).score
<1>1. with >= without /\ (with > without /\ with = 98 => Boot(c)!FactoryRules(doc.seller, board) # {})
  BY ScoreIs
<1>2. Boot(c)!Judgement.score = with /\ Boot(c)!Judged({}, None).score = without BY DEF Boot!Judgement, Boot!Judged
<1> HIDE DEF with, without
<1> QED BY <1>1, <1>2, Zenon DEF Boot!SellerStaysBelow

LEMMA BootTyped ==
    ASSUME NEW CONSTANT c, Boot(c)!BootConstantsOK, BootInv(c) PROVE Boot(c)!TypeOK
<1>1. Boot(c)!Judgement.readiness \in Boot(c)!Ready <=> Boot(c)!Judgement.score >= 90
  <2>1. Boot(c)!Judgement = Boot(c)!Readiness(doc.page, doc.seller, doc.runs, board) BY DEF Boot!Judgement, Boot!Judged
  <2> QED BY <2>1, ReadinessIs, Zenon
<1> QED BY <1>1, Zenon DEF BootInv, BoardIs, SaidIs, DocIs, Boot!TypeOK

\* A board said to be ready runs a firmware that knows the CPU
\* (boot_readiness_score, compare_bios_versions), whatever boards and makers are,
\* when pages and rules are true.
THEOREM ReadyBoardsBoot ==
    ASSUME NEW CONSTANT c, Boot(c)!BootConstantsOK, Boot(c)!Truthful PROVE Boot(c)!Spec => []Boot(c)!NoFalseReadiness
<1>1. BootInv(c) => Boot(c)!NoFalseReadiness BY ReadyFollows
<1> QED BY <1>1, BootAlways, PTL

\* A board is given up by its maker's table alone (evaluate_cpu_bios_pair).
THEOREM TableRefuses ==
    ASSUME NEW CONSTANT c, Boot(c)!BootConstantsOK PROVE Boot(c)!Spec => []Boot(c)!RefusedByTable
<1>1. BootInv(c) => Boot(c)!RefusedByTable BY RefusedFollows
<1> QED BY <1>1, BootAlways, PTL

\* A seller's words cost a board nothing (correlate_seller_firmware), whatever
\* they are.
THEOREM SellerCostsNothing ==
    ASSUME NEW CONSTANT c, Boot(c)!BootConstantsOK PROVE Boot(c)!Spec => []Boot(c)!SellerStaysBelow
<1>1. Boot(c)!SellerStaysBelow BY SellerFollows
<1> QED BY <1>1, PTL

-----------------------------------------------------------------------------
(* Compatibility *)

LEMMA SameInBuilds ==
    ASSUME NEW CONSTANT c, NEW S
    PROVE  (Builds(c)!IsFiniteSet(S) <=> IsFiniteSet(S)) /\ Builds(c)!Cardinality(S) = Cardinality(S)
<1>1. Builds(c)!IsFiniteSet(S) <=> IsFiniteSet(S) BY DEF IsFiniteSet, Builds!IsFiniteSet
<1>2. Builds(c)!Cardinality(S) = Cardinality(S) BY DEF Cardinality, Builds!Cardinality
<1> QED BY <1>1, <1>2

\* The rows are finitely many, and as many of them are kept as fit.
LEMMA RowsAre ==
    ASSUME NEW CONSTANT c, Builds(c)!BuildConstantsOK, NEW known, NEW some, NEW kept \in Builds(c)!Solved(known, some)
    PROVE  LET rows == Builds(c)!Buildable(known, some)
           IN  /\ kept \subseteq rows /\ Builds(c)!Cardinality(kept) \in 0 .. c.maxBuilds
               /\ rows # {} => Builds(c)!Cardinality(kept) # 0
               /\ \A r \in kept, q \in rows \ kept : ~ Builds(c)!SolverOrder(q, r)
<1> DEFINE rows == Builds(c)!Buildable(known, some)
           all0 == {Builds(c)!Row(known, some, b) : b \in Builds(c)!Combinations}
           n == Builds(c)!Cardinality(rows)
<1>1. /\ kept \subseteq rows /\ Builds(c)!Cardinality(kept) = Builds(c)!Kept(n)
      /\ \A r \in kept, q \in rows \ kept : ~ Builds(c)!SolverOrder(q, r)
  BY DEF Builds!Solved
<1>2. IsFiniteSet(Builds(c)!Combinations) BY SameInBuilds DEF Builds!BuildConstantsOK
<1>3. IsFiniteSet(all0)
  <2> DEFINE f == [b \in Builds(c)!Combinations |-> Builds(c)!Row(known, some, b)]
  <2>1. f \in Surjection(Builds(c)!Combinations, all0)
    <3>1. f \in [Builds(c)!Combinations -> all0] OBVIOUS
    <3>2. \A r \in all0 : \E b \in Builds(c)!Combinations : f[b] = r OBVIOUS
    <3> HIDE DEF f, all0
    <3> QED BY <3>1, <3>2 DEF Surjection
  <2> HIDE DEF f, all0
  <2> QED BY <1>2, <2>1, FS_Surjection
<1>4. rows \subseteq all0 BY DEF Builds!Buildable
<1> HIDE DEF all0, rows
<1>5. IsFiniteSet(rows) BY <1>3, <1>4, FS_Subset
<1>6. n \in Nat /\ (n = 0 <=> rows = {})
  <2>1. n = Cardinality(rows) BY SameInBuilds
  <2> HIDE DEF n
  <2> QED BY <1>5, <2>1, FS_CardinalityType, FS_EmptySet
<1>7. c.maxBuilds \in Nat \ {0} BY DEF Builds!BuildConstantsOK
<1> HIDE DEF n
<1>8. Builds(c)!Kept(n) \in 0 .. c.maxBuilds /\ (n # 0 => Builds(c)!Kept(n) # 0) BY <1>6, <1>7 DEF Builds!Kept
<1> QED BY <1>1, <1>6, <1>8 DEF rows

\* What is published is what is kept, in its order, each once.
LEMMA PublishedIs ==
    ASSUME NEW CONSTANT c, NEW kept, NEW market, NEW rows \in Builds(c)!Published(kept, market),
           Builds(c)!Cardinality(kept) \in Nat
    PROVE  /\ rows \in Seq(kept) /\ Len(rows) = Builds(c)!Cardinality(kept) /\ DOMAIN rows = 1 .. Len(rows)
           /\ \A i, j \in DOMAIN rows : rows[i] = rows[j] => i = j
           /\ \A r \in kept : \E i \in DOMAIN rows : rows[i] = r
           /\ \A i, j \in DOMAIN rows : i < j => ~ Builds(c)!PublishedOrder(rows[j], rows[i], market)
<1> DEFINE n == Builds(c)!Cardinality(kept)
<1>1. /\ rows \in Builds(c)!Bijection(1 .. n, kept)
      /\ \A i, j \in DOMAIN rows : i < j => ~ Builds(c)!PublishedOrder(rows[j], rows[i], market)
  BY DEF Builds!Published
<1>2. n \in Nat OBVIOUS
<1> HIDE DEF n
<1>3. /\ rows \in [1 .. n -> kept] /\ \A i, j \in DOMAIN rows : rows[i] = rows[j] => i = j
      /\ \A r \in kept : \E i \in 1 .. n : rows[i] = r
  BY <1>1 DEF Builds!Bijection, Builds!Injection, Builds!Surjection, Builds!IsInjective
<1>4. rows \in Seq(kept) /\ Len(rows) = n BY <1>2, <1>3
<1> QED BY <1>1, <1>3, <1>4 DEF n

\* The builds are what a publication made of them.
BuildsAre(c) ==
    builds # None =>
        /\ Len(builds) \in 0 .. c.maxBuilds
        /\ \A i \in DOMAIN builds :
             /\ builds[i].parts \in Builds(c)!Combinations
             /\ builds[i].status \in {"compatible", "provisional"}
             /\ \A j \in DOMAIN builds : builds[i] = builds[j] => i = j
BuildInv(c) == read \subseteq c.pages /\ priced \in BOOLEAN /\ BuildsAre(c)

\* A row names a combination that is not ruled out.
LEMMA RowNames ==
    ASSUME NEW CONSTANT c, NEW known, NEW some, NEW r \in Builds(c)!Buildable(known, some)
    PROVE  r.parts \in Builds(c)!Combinations /\ r.status \in {"compatible", "provisional"}
<1>1. /\ r \in {Builds(c)!Row(known, some, b) : b \in Builds(c)!Combinations}
      /\ r.status \in {"compatible", "provisional"}
  BY DEF Builds!Buildable
<1>2. PICK b \in Builds(c)!Combinations : r = Builds(c)!Row(known, some, b) BY <1>1
<1>3. r.parts = b BY <1>2 DEF Builds!Row
<1> QED BY <1>1, <1>2, <1>3

LEMMA PublishKeeps ==
    ASSUME NEW CONSTANT c, Builds(c)!BuildConstantsOK, BuildInv(c), Builds(c)!Publish PROVE BuildInv(c)'
<1>1. /\ \E kept \in Builds(c)!Solved(Builds(c)!Known(read), read) : builds' \in Builds(c)!Published(kept, priced)
      /\ UNCHANGED <<read, priced>>
  BY DEF Builds!Publish
<1>2. PICK kept \in Builds(c)!Solved(Builds(c)!Known(read), read) : builds' \in Builds(c)!Published(kept, priced) BY <1>1
<1> DEFINE rows == Builds(c)!Buildable(Builds(c)!Known(read), read)
<1>3. kept \subseteq rows /\ Builds(c)!Cardinality(kept) \in 0 .. c.maxBuilds BY RowsAre
<1>4. c.maxBuilds \in Nat BY DEF Builds!BuildConstantsOK
<1>5. Builds(c)!Cardinality(kept) \in Nat BY <1>3, <1>4
<1>6. /\ builds' \in Seq(kept) /\ Len(builds') = Builds(c)!Cardinality(kept) /\ DOMAIN builds' = 1 .. Len(builds')
      /\ \A i, j \in DOMAIN builds' : builds'[i] = builds'[j] => i = j
  BY <1>2, <1>5, PublishedIs
<1>7. \A r \in rows : r.parts \in Builds(c)!Combinations /\ r.status \in {"compatible", "provisional"}
  BY RowNames
<1> HIDE DEF rows
<1>8. ASSUME NEW i \in DOMAIN builds' PROVE builds'[i] \in rows
  BY <1>3, <1>6
<1>9. BuildsAre(c)' BY <1>3, <1>6, <1>7, <1>8 DEF BuildsAre
<1> QED BY <1>1, <1>9 DEF BuildInv

LEMMA BuildStep ==
    ASSUME NEW CONSTANT c, Builds(c)!BuildConstantsOK, BuildInv(c), [Builds(c)!Next]_buildVars PROVE BuildInv(c)'
<1>1. CASE UNCHANGED buildVars
  <2>1. UNCHANGED <<read, priced, builds>> BY <1>1 DEF buildVars
  <2> QED BY <2>1 DEF BuildInv, BuildsAre
<1>2. CASE Builds(c)!Source
  <2>1. read' = {} /\ priced' \in BOOLEAN /\ UNCHANGED builds BY <1>2 DEF Builds!Source
  <2> QED BY <2>1 DEF BuildInv, BuildsAre
<1>3. ASSUME NEW p \in Builds(c)!AllParts, NEW shown \in SUBSET {x \in c.pages : x[1] = p}, Builds(c)!Enrich(p, shown)
      PROVE  BuildInv(c)'
  <2>1. read' = read \cup shown /\ UNCHANGED <<priced, builds>> BY <1>3 DEF Builds!Enrich
  <2> QED BY <2>1 DEF BuildInv, BuildsAre
<1>4. CASE Builds(c)!Publish BY <1>4, PublishKeeps
<1> QED BY <1>1, <1>2, <1>3, <1>4 DEF Builds!Next

LEMMA BuildInit == ASSUME NEW CONSTANT c, Builds(c)!Init PROVE BuildInv(c)
BY DEF Builds!Init, BuildInv, BuildsAre

LEMMA BuildAlways ==
    ASSUME NEW CONSTANT c, Builds(c)!BuildConstantsOK PROVE Builds(c)!Spec => []BuildInv(c)
<1>1. Builds(c)!Init => BuildInv(c) BY BuildInit
<1>2. UNCHANGED Builds(c)!vars => UNCHANGED buildVars BY DEF Builds!vars, buildVars
<1>3. [Builds(c)!Next]_(Builds(c)!vars) => [Builds(c)!Next]_buildVars BY <1>2
<1>4. BuildInv(c) /\ [Builds(c)!Next]_(Builds(c)!vars) => BuildInv(c)' BY <1>3, BuildStep
<1> QED BY <1>1, <1>4, PTL DEF Builds!Spec

LEMMA BuildTyped == ASSUME NEW CONSTANT c, Builds(c)!BuildConstantsOK, BuildInv(c) PROVE Builds(c)!TypeOK
<1>1. c.maxBuilds \in Nat BY DEF Builds!BuildConstantsOK
<1>2. builds # None => Len(builds) <= c.maxBuilds BY <1>1 DEF BuildInv, BuildsAre
<1> QED BY <1>2 DEF BuildInv, BuildsAre, Builds!TypeOK

-----------------------------------------------------------------------------
(* The checks *)

\* A table that refuses a CPU refuses it under more names too, or supports it.
LEMMA MoreNames ==
    ASSUME NEW CONSTANT c, NEW table, NEW names, NEW more, names \subseteq more,
           Builds(c)!TableSays(table, names) = "unsupported"
    PROVE  Builds(c)!TableSays(table, more) \in {"supported", "unsupported"}
<1> DEFINE Hits(some) == {i \in DOMAIN table.rows : Builds(c)!MatchScore(some, table.rows[i].cpu) > 0}
           Says(some, best) ==
              IF Hits(some) # {} THEN IF table.rows[best].supported THEN "supported" ELSE "unsupported"
              ELSE IF table.complete THEN "unsupported" ELSE "unresolved"
<1>1. ASSUME NEW some PROVE \E best : Builds(c)!TableSays(table, some) = Says(some, best)
  BY DEF Builds!TableSays
<1>2. ASSUME NEW cpu, Builds(c)!MatchScore(names, cpu) > 0 PROVE Builds(c)!MatchScore(more, cpu) > 0
  BY <1>2 DEF Builds!MatchScore
<1>3. Hits(names) \subseteq Hits(more) BY <1>2
<1>4. PICK best : Builds(c)!TableSays(table, names) = Says(names, best) BY <1>1
<1>5. PICK other : Builds(c)!TableSays(table, more) = Says(more, other) BY <1>1
<1> HIDE DEF Hits
<1>6. Hits(names) # {} \/ table.complete BY <1>4
<1> QED BY <1>3, <1>5, <1>6

\* A fact that becomes known takes no failure away, but for a CPU's name.
LEMMA RejectedFollows == ASSUME NEW CONSTANT c PROVE Builds(c)!RejectedStays
<1> SUFFICES ASSUME Builds(c)!Learns, NEW b \in Builds(c)!Combinations, Builds(c)!Status(Builds(c)!Known(read), b) = "incompatible"
             PROVE  Builds(c)!Status(Builds(c)!Known(read'), b) = "incompatible" \/ Builds(c)!Renamed(b)
  BY DEF Builds!RejectedStays
<1> DEFINE old == Builds(c)!Known(read)
           new == Builds(c)!Known(read')
<1>1. DOMAIN old = Builds(c)!Fields /\ DOMAIN new = Builds(c)!Fields BY DEF Builds!Known
<1>2. \A x \in Builds(c)!Fields : old[x] # None => new[x] = old[x] BY DEF Builds!Learns
<1>3. Builds(c)!Known(read)' = new OBVIOUS
<1>4. Builds(c)!Fails(old, b) # {} BY DEF Builds!Status, Builds!StatusOf
<1> HIDE DEF old, new
<1>5. ASSUME NEW p, NEW f, Builds(c)!Fact(old, p, f) # None PROVE Builds(c)!Fact(new, p, f) = Builds(c)!Fact(old, p, f)
  BY <1>1, <1>2, <1>5 DEF Builds!Fact
<1>6. ASSUME Builds(c)!Fails(new, b) # {} PROVE Builds(c)!Status(new, b) = "incompatible"
  BY <1>6 DEF Builds!Status, Builds!StatusOf
<1>7. ASSUME NEW k \in Builds(c)!Checks, k \in Builds(c)!Fails(old, b), k # Builds(c)!CpuCheck PROVE Builds(c)!Status(new, b) = "incompatible"
  <2>1. /\ Builds(c)!Need(old, b, k) # None /\ Builds(c)!Offer(old, b, k) # None
        /\ Builds(c)!Need(old, b, k) \notin Builds(c)!Offer(old, b, k)
    BY <1>7 DEF Builds!Fails, Builds!CpuSaid
  <2>2. Builds(c)!Need(new, b, k) = Builds(c)!Need(old, b, k) /\ Builds(c)!Offer(new, b, k) = Builds(c)!Offer(old, b, k)
    BY <1>5, <2>1 DEF Builds!Need, Builds!Offer
  <2>3. k \in Builds(c)!Fails(new, b) BY <2>1, <2>2, Zenon DEF Builds!Fails
  <2> QED BY <1>6, <2>3
<1>8. ASSUME NEW k \in Builds(c)!Fails(old, b) PROVE k = Builds(c)!CpuCheck \/ k \in Builds(c)!Checks
  BY DEF Builds!Fails, Builds!CpuSaid
<1>9. CASE Builds(c)!Fails(old, b) = {Builds(c)!CpuCheck}
  <2>1. Builds(c)!CpuCheck \notin Builds(c)!Checks BY DEF Builds!CpuCheck, Builds!Checks, Builds!Check
  <2>2. Builds(c)!CpuCheck \in Builds(c)!CpuSaid(old, b, "unsupported") BY <1>9, <2>1, Zenon DEF Builds!Fails
  <2>3. Builds(c)!CpuSupport(old, b) = "unsupported" BY <2>2, Zenon DEF Builds!CpuSaid
  <2> DEFINE table == Builds(c)!Fact(old, b.board, "cpu_support")
             names == Builds(c)!CpuNames(old, b)
             more == Builds(c)!CpuNames(new, b)
  <2>4. table # None /\ names # {} /\ Builds(c)!TableSays(table, names) = "unsupported"
    BY <2>3 DEF Builds!CpuSupport
  <2>5. Builds(c)!Fact(new, b.board, "cpu_support") = table BY <1>5, <2>4
  <2>6. names \subseteq more
    <3>1. ASSUME NEW f, Builds(c)!Fact(old, b.cpu, f) # None PROVE Builds(c)!Fact(new, b.cpu, f) = Builds(c)!Fact(old, b.cpu, f)
      BY <1>5, <3>1
    <3> QED BY <3>1 DEF Builds!CpuNames
  <2> HIDE DEF table, names, more
  <2>7. Builds(c)!TableSays(table, more) \in {"supported", "unsupported"} BY <2>4, <2>6, MoreNames
  <2>8. Builds(c)!CpuSupport(new, b) = Builds(c)!TableSays(table, more)
    <3>1. more # {} BY <2>4, <2>6
    <3> QED BY <2>4, <2>5, <3>1 DEF Builds!CpuSupport, more
  <2>9. CASE Builds(c)!TableSays(table, more) = "unsupported"
    <3>1. Builds(c)!CpuCheck \in Builds(c)!CpuSaid(new, b, "unsupported") BY <2>8, <2>9, Zenon DEF Builds!CpuSaid
    <3>2. Builds(c)!CpuCheck \in Builds(c)!Fails(new, b) BY <3>1, Zenon DEF Builds!Fails
    <3>3. Builds(c)!Status(new, b) = "incompatible" BY <1>6, <3>2
    <3> QED BY <3>3 DEF new
  <2>10. CASE Builds(c)!TableSays(table, more) = "supported"
    <3>1. more # names
      <4>1. "supported" # "unsupported" OBVIOUS
      <4> QED BY <2>4, <2>10, <4>1
    <3>2. Builds(c)!CpuSupport(new, b) = "supported" BY <2>8, <2>10
    <3>3. Builds(c)!CpuNames(new, b) # Builds(c)!CpuNames(old, b) BY <3>1 DEF more, names
    <3> QED BY <1>3, <1>9, <3>2, <3>3 DEF Builds!Renamed, old
  <2> QED BY <2>7, <2>9, <2>10
<1>10. CASE Builds(c)!Fails(old, b) # {Builds(c)!CpuCheck}
  <2>1. PICK k \in Builds(c)!Fails(old, b) : k # Builds(c)!CpuCheck BY <1>4, <1>10
  <2>2. k \in Builds(c)!Checks BY <1>8, <2>1
  <2> QED BY <1>7, <2>1, <2>2 DEF new
<1> QED BY <1>9, <1>10

\* A table with one row of a CPU's model, and none of its title, says what the row does.
LEMMA ListedSays ==
    ASSUME NEW CONSTANT c, NEW table, NEW model, NEW title, NEW names,
           model \in names, names \subseteq {model, title}, Builds(c)!Listed(table, model, title)
    PROVE  Builds(c)!TableSays(table, names) =
             IF \E i \in DOMAIN table.rows : table.rows[i].cpu = model /\ table.rows[i].supported
             THEN "supported" ELSE "unsupported"
<1> DEFINE Score(i) == Builds(c)!MatchScore(names, table.rows[i].cpu)
           Hits == {i \in DOMAIN table.rows : Score(i) > 0}
           Best(i) == i \in Hits /\ \A j \in Hits : Score(j) < Score(i) \/ (Score(j) = Score(i) /\ i <= j)
<1>1. PICK i \in DOMAIN table.rows : table.rows[i].cpu = model BY DEF Builds!Listed
<1>2. Score(i) = 100 BY <1>1 DEF Builds!MatchScore
<1>3. ASSUME NEW j \in DOMAIN table.rows, j # i PROVE Score(j) < 100
  <2>1. table.rows[j].cpu # model BY <1>1, <1>3 DEF Builds!Listed
  <2>2. table.rows[j].cpu # title BY <2>1 DEF Builds!Listed
  <2>3. table.rows[j].cpu \notin names BY <2>1, <2>2
  <2> QED BY <2>3 DEF Builds!MatchScore
<1>4. DOMAIN table.rows \subseteq Nat /\ \A j \in DOMAIN table.rows : Score(j) \in Nat
  BY DEF Builds!Listed, Builds!MatchScore
<1> HIDE DEF Score
<1>5. i \in Hits /\ Hits \subseteq DOMAIN table.rows BY <1>2
<1> HIDE DEF Hits
<1>6. Best(i)
  <2>1. i <= i BY <1>1, <1>4
  <2>2. \A j \in Hits : j = i \/ Score(j) < Score(i) BY <1>2, <1>3, <1>5
  <2> QED BY <1>5, <2>1, <2>2
<1>7. ASSUME NEW k, Best(k) PROVE k = i
  <2>1. k \in DOMAIN table.rows /\ ~ (Score(i) < Score(k) /\ Score(k) < Score(i)) BY <1>1, <1>4, <1>5, <1>7
  <2>2. Score(i) < Score(k) \/ Score(i) = Score(k) BY <1>5, <1>7
  <2>3. CASE k # i
    <3>1. Score(k) < 100 BY <1>3, <2>1, <2>3
    <3> QED BY <1>2, <1>4, <2>1, <2>2, <3>1
  <2> QED BY <2>3
<1>8. (CHOOSE k \in Hits : \A j \in Hits : Score(j) < Score(k) \/ (Score(j) = Score(k) /\ k <= j)) = i
  BY <1>6, <1>7
<1>9. Builds(c)!TableSays(table, names) = IF table.rows[i].supported THEN "supported" ELSE "unsupported"
  BY <1>5, <1>8 DEF Builds!TableSays, Score, Hits
<1>10. (\E j \in DOMAIN table.rows : table.rows[j].cpu = model /\ table.rows[j].supported)
          <=> table.rows[i].supported
  BY <1>1 DEF Builds!Listed
<1> QED BY <1>9, <1>10

\* What is known is decided, and what is true decides rightly.
LEMMA DecidedFollows ==
    ASSUME NEW CONSTANT c, Builds(c)!Described PROVE Builds(c)!DecidedWhenKnown
<1> DEFINE known == Builds(c)!Known(read)
           Model(b) == Builds(c)!Fact(known, b.cpu, "model")
           Title(b) == Builds(c)!Fact(known, b.cpu, "title")
           Table(b) == Builds(c)!Fact(known, b.board, "cpu_support")
           Fits(b) == /\ \A k \in Builds(c)!Checks : Builds(c)!Need(c.actual, b, k) \in Builds(c)!Offer(c.actual, b, k)
                      /\ \E i \in DOMAIN Table(b).rows :
                           Table(b).rows[i].cpu = Model(b) /\ Table(b).rows[i].supported
<1> SUFFICES ASSUME \A x \in Builds(c)!Fields : known[x] # None, NEW b \in Builds(c)!Combinations
             PROVE  /\ Builds(c)!Status(known, b) = "provisional" =>
                         /\ ~ Table(b).complete
                         /\ \A i \in DOMAIN Table(b).rows : Table(b).rows[i].cpu # Model(b)
                    /\ known = c.actual /\ Builds(c)!Listed(Table(b), Model(b), Title(b))
                         => (Builds(c)!Status(known, b) = "compatible" <=> Fits(b))
  BY DEF Builds!DecidedWhenKnown
<1>1. DOMAIN known = Builds(c)!Fields BY DEF Builds!Known
<1> HIDE DEF known
<1>2. ASSUME NEW k \in Builds(c)!Checks PROVE Builds(c)!Need(known, b, k) # None /\ Builds(c)!Offer(known, b, k) # None
  <2>1. <<b[k.needer], k.need>> \in Builds(c)!Fields /\ <<b[k.offerer], k.offer>> \in Builds(c)!Fields BY DEF Builds!Described
  <2> QED BY <1>1, <2>1 DEF Builds!Need, Builds!Offer, Builds!Fact
<1>3. Model(b) # None /\ Title(b) # None /\ Table(b) # None
  <2>1. <<b.cpu, "title">> \in Builds(c)!Fields /\ <<b.cpu, "model">> \in Builds(c)!Fields /\ <<b.board, "cpu_support">> \in Builds(c)!Fields
    BY DEF Builds!Described
  <2> QED BY <1>1, <2>1 DEF Builds!Fact
<1> DEFINE names == Builds(c)!CpuNames(known, b)
<1>4. names = {Model(b), Title(b)} BY <1>3 DEF Builds!CpuNames
<1> DEFINE says == Builds(c)!TableSays(Table(b), names)
           Misses == {k \in Builds(c)!Checks : Builds(c)!Need(known, b, k) \notin Builds(c)!Offer(known, b, k)}
<1>5. Builds(c)!CpuSupport(known, b) = says BY <1>3, <1>4 DEF Builds!CpuSupport
<1>6. Builds(c)!Unknowns(known, b) = IF says = "unresolved" THEN {Builds(c)!CpuCheck} ELSE {}
  <2>1. \A x : x \in Builds(c)!Unknowns(known, b) <=> x \in Builds(c)!CpuSaid(known, b, "unresolved")
    BY <1>2 DEF Builds!Unknowns
  <2>2. Builds(c)!Unknowns(known, b) = Builds(c)!CpuSaid(known, b, "unresolved") BY <2>1, Zenon
  <2> HIDE DEF says
  <2> QED BY <1>5, <2>2 DEF Builds!CpuSaid
<1>7. Builds(c)!Fails(known, b) = Misses \cup IF says = "unsupported" THEN {Builds(c)!CpuCheck} ELSE {}
  <2>1. {k \in Builds(c)!Checks : /\ Builds(c)!Need(known, b, k) # None /\ Builds(c)!Offer(known, b, k) # None
                         /\ Builds(c)!Need(known, b, k) \notin Builds(c)!Offer(known, b, k)} = Misses
    BY <1>2
  <2>2. Builds(c)!Fails(known, b) = Misses \cup Builds(c)!CpuSaid(known, b, "unsupported") BY <2>1 DEF Builds!Fails
  <2> HIDE DEF says, Misses
  <2> QED BY <1>5, <2>2 DEF Builds!CpuSaid
<1> HIDE DEF Misses, says
<1>8. ASSUME Builds(c)!Status(known, b) = "provisional"
      PROVE  /\ ~ Table(b).complete
             /\ \A i \in DOMAIN Table(b).rows : Table(b).rows[i].cpu # Model(b)
  <2>1. says = "unresolved" BY <1>6, <1>8 DEF Builds!Status, Builds!StatusOf
  <2>2. /\ {i \in DOMAIN Table(b).rows : Builds(c)!MatchScore(names, Table(b).rows[i].cpu) > 0} = {}
        /\ ~ Table(b).complete
    BY <2>1 DEF Builds!TableSays, says
  <2>3. ASSUME NEW i \in DOMAIN Table(b).rows, Table(b).rows[i].cpu = Model(b) PROVE FALSE
    <3>1. Builds(c)!MatchScore(names, Table(b).rows[i].cpu) = 100 BY <1>4, <2>3 DEF Builds!MatchScore
    <3> QED BY <2>2, <3>1
  <2> QED BY <2>2, <2>3
<1>9. ASSUME known = c.actual, Builds(c)!Listed(Table(b), Model(b), Title(b))
      PROVE  Builds(c)!Status(known, b) = "compatible" <=> Fits(b)
  <2> DEFINE Vouched == \E i \in DOMAIN Table(b).rows :
                          Table(b).rows[i].cpu = Model(b) /\ Table(b).rows[i].supported
  <2>1. says = IF Vouched THEN "supported" ELSE "unsupported" BY <1>4, <1>9, ListedSays DEF says
  <2> HIDE DEF Vouched
  <2>2. Builds(c)!Unknowns(known, b) = {} BY <1>6, <2>1
  <2>3. Builds(c)!Fails(known, b) = {} <=> Misses = {} /\ Vouched BY <1>7, <2>1
  <2>4. Builds(c)!Status(known, b) = "compatible" <=> Misses = {} /\ Vouched
    BY <2>2, <2>3 DEF Builds!Status, Builds!StatusOf
  <2>5. Misses = {} <=> \A k \in Builds(c)!Checks : Builds(c)!Need(c.actual, b, k) \in Builds(c)!Offer(c.actual, b, k)
    BY <1>9 DEF Misses
  <2> QED BY <2>4, <2>5 DEF Vouched
<1> QED BY <1>8, <1>9

\* The first of two keys that differ decides.
LEMMA BeforeIs ==
    ASSUME NEW CONSTANT c, NEW keys
    PROVE  /\ 1 \in DOMAIN keys /\ keys[1][1] < keys[1][2] => Builds(c)!Before(keys)
           /\ 2 \in DOMAIN keys /\ keys[1][1] = keys[1][2] /\ keys[2][1] < keys[2][2] => Builds(c)!Before(keys)
<1>1. 1 .. 1 - 1 = {} /\ 1 .. 2 - 1 = {1} OBVIOUS
<1> QED BY <1>1 DEF Builds!Before

LEMMA CostIs ==
    ASSUME NEW CONSTANT c, Builds(c)!BuildConstantsOK, NEW b \in Builds(c)!Combinations PROVE Builds(c)!CostOf(b) \in Nat
<1>1. Builds(c)!Slots = {"cpu", "board", "ram", "storage", "psu", "cooling", "chassis", "gpu"}
  BY DEF Builds!BuildConstantsOK
<1>2. \A s \in {"cpu", "board", "ram", "storage", "psu", "cooling", "chassis"} : \A p \in Builds(c)!Candidates(s) : c.cost[p] \in Nat
  BY <1>1 DEF Builds!BuildConstantsOK
<1>3. /\ b.cpu \in Builds(c)!Candidates("cpu") /\ b.board \in Builds(c)!Candidates("board") /\ b.ram \in Builds(c)!Candidates("ram")
      /\ b.storage \in Builds(c)!Candidates("storage") /\ b.psu \in Builds(c)!Candidates("psu")
      /\ b.cooling \in Builds(c)!Candidates("cooling") /\ b.chassis \in Builds(c)!Candidates("chassis")
  BY DEF Builds!Combinations
<1>4. /\ c.cost[b.cpu] \in Nat /\ c.cost[b.board] \in Nat /\ c.cost[b.ram] \in Nat /\ c.cost[b.storage] \in Nat
      /\ c.cost[b.psu] \in Nat /\ c.cost[b.cooling] \in Nat /\ c.cost[b.chassis] \in Nat
  BY <1>2, <1>3
<1> QED BY <1>4 DEF Builds!CostOf

\* A compatible row lacks no fact: it ranks by its cost.
LEMMA RowIs ==
    ASSUME NEW CONSTANT c, Builds(c)!BuildConstantsOK, NEW known, NEW some, NEW r \in Builds(c)!Buildable(known, some)
    PROVE  /\ r.cost \in Nat /\ (Builds(c)!Class(r) = 0 <=> r.status = "compatible") /\ Builds(c)!Class(r) \in {0, 1}
           /\ r.status = "compatible" => r.ranking = r.cost
<1>1. PICK b \in Builds(c)!Combinations : r = Builds(c)!Row(known, some, b) BY DEF Builds!Buildable
<1>2. /\ r.cost = Builds(c)!CostOf(b) /\ r.status = Builds(c)!Status(known, b)
      /\ r.ranking = Builds(c)!CostOf(b) + c.penalty * Builds(c)!Cardinality(Builds(c)!Unknowns(known, b))
  BY <1>1 DEF Builds!Row
<1>3. Builds(c)!CostOf(b) \in Nat /\ c.penalty \in Nat BY CostIs DEF Builds!BuildConstantsOK
<1>4. ASSUME r.status = "compatible" PROVE r.ranking = r.cost
  <2>1. Builds(c)!Unknowns(known, b) = {} BY <1>2, <1>4 DEF Builds!Status, Builds!StatusOf
  <2>2. Builds(c)!Cardinality({}) = 0 BY SameInBuilds, FS_EmptySet
  <2>3. r.ranking = Builds(c)!CostOf(b) + c.penalty * 0 BY <1>2, <2>1, <2>2
  <2> QED BY <1>2, <1>3, <2>3
<1>5. (Builds(c)!Class(r) = 0 <=> r.status = "compatible") /\ Builds(c)!Class(r) \in {0, 1} BY DEF Builds!Class
<1> QED BY <1>2, <1>3, <1>4, <1>5

\* What is kept has a compatible build that costs no more, and it is published
\* first, or one like it.
LEMMA FirstIsBest ==
    ASSUME NEW CONSTANT c, Builds(c)!BuildConstantsOK, BuildInv(c), [Builds(c)!Next]_buildVars PROVE Builds(c)!BestFirst
<1> SUFFICES ASSUME builds' # builds, NEW b \in Builds(c)!Combinations, Builds(c)!Status(Builds(c)!Known(read), b) = "compatible"
             PROVE  builds'[1].status = "compatible" /\ (priced => builds'[1].cost <= Builds(c)!CostOf(b))
  BY DEF Builds!BestFirst
<1> DEFINE known == Builds(c)!Known(read)
           rows == Builds(c)!Buildable(known, read)
           row == Builds(c)!Row(known, read, b)
<1>1. Builds(c)!Publish BY DEF Builds!Next, buildVars, Builds!Source, Builds!Enrich
<1>2. PICK kept \in Builds(c)!Solved(known, read) : builds' \in Builds(c)!Published(kept, priced) BY <1>1 DEF Builds!Publish
<1>3. row.status = "compatible" /\ row.cost = Builds(c)!CostOf(b) BY DEF Builds!Row
<1>4. row \in rows BY <1>3 DEF Builds!Buildable
<1>5. /\ kept \subseteq rows /\ Builds(c)!Cardinality(kept) \in 0 .. c.maxBuilds /\ Builds(c)!Cardinality(kept) # 0
      /\ \A r \in kept, q \in rows \ kept : ~ Builds(c)!SolverOrder(q, r)
  BY <1>4, RowsAre
<1>6. \A r \in rows : /\ r.cost \in Nat /\ (Builds(c)!Class(r) = 0 <=> r.status = "compatible") /\ Builds(c)!Class(r) \in {0, 1}
                      /\ r.status = "compatible" => r.ranking = r.cost
  BY RowIs
<1>7. Builds(c)!Cardinality(kept) \in Nat \ {0}
  <2>1. c.maxBuilds \in Nat BY DEF Builds!BuildConstantsOK
  <2> QED BY <1>5, <2>1
<1> HIDE DEF rows, row, known
<1>8. /\ DOMAIN builds' = 1 .. Len(builds') /\ Len(builds') \in Nat \ {0} /\ builds' \in Seq(kept)
      /\ \A r \in kept : \E i \in DOMAIN builds' : builds'[i] = r
      /\ \A i, j \in DOMAIN builds' : i < j => ~ Builds(c)!PublishedOrder(builds'[j], builds'[i], priced)
  BY <1>2, <1>7, PublishedIs
<1>9. \E r \in kept : r.status = "compatible" /\ r.cost <= Builds(c)!CostOf(b)
  <2>1. CASE row \in kept
    <3>1. row.cost <= Builds(c)!CostOf(b) BY <1>3, CostIs
    <3> QED BY <1>3, <2>1, <3>1
  <2>2. CASE row \notin kept
    <3>1. PICK r \in kept : r = builds'[1] BY <1>8
    <3>2. ~ Builds(c)!SolverOrder(row, r) BY <1>4, <1>5, <2>2
    <3> DEFINE keys == <<<<Builds(c)!Class(row), Builds(c)!Class(r)>>, <<row.ranking, r.ranking>>, <<row.cost, r.cost>>>>
    <3>3. ~ Builds(c)!Before(keys) BY <3>2 DEF Builds!SolverOrder
    <3>4. /\ 1 \in DOMAIN keys /\ 2 \in DOMAIN keys /\ keys[1][1] = Builds(c)!Class(row) /\ keys[1][2] = Builds(c)!Class(r)
          /\ keys[2][1] = row.ranking /\ keys[2][2] = r.ranking
      OBVIOUS
    <3> HIDE DEF keys
    <3>5. /\ ~ (Builds(c)!Class(row) < Builds(c)!Class(r)) /\ (Builds(c)!Class(row) = Builds(c)!Class(r) => ~ (row.ranking < r.ranking))
      BY <3>3, <3>4, BeforeIs
    <3>6. Builds(c)!Class(row) = 0 /\ row.ranking = row.cost /\ row.cost \in Nat BY <1>3, <1>4, <1>6
    <3>7. r \in rows BY <1>5
    <3>8. Builds(c)!Class(r) = 0
      <4>1. Builds(c)!Class(r) \in {0, 1} BY <1>6, <3>7
      <4> QED BY <3>5, <3>6, <4>1
    <3>9. r.status = "compatible" /\ r.ranking = r.cost /\ r.cost \in Nat BY <1>6, <3>7, <3>8
    <3>10. ~ (row.cost < r.cost) BY <3>5, <3>6, <3>8, <3>9
    <3>11. r.cost <= row.cost BY <3>6, <3>9, <3>10
    <3> QED BY <1>3, <3>9, <3>11
  <2> QED BY <2>1, <2>2
<1>10. PICK r \in kept : r.status = "compatible" /\ r.cost <= Builds(c)!CostOf(b) BY <1>9
<1>11. PICK j \in DOMAIN builds' : builds'[j] = r BY <1>8
<1> DEFINE first == builds'[1]
<1>12. first \in kept /\ 1 \in DOMAIN builds' BY <1>8
<1>13. CASE j = 1 BY <1>10, <1>11, <1>13
<1>14. CASE j # 1
  <2>1. ~ Builds(c)!PublishedOrder(r, first, priced) BY <1>8, <1>11, <1>12, <1>14
  <2> HIDE DEF first
  <2>2. first \in rows /\ r \in rows BY <1>5, <1>12
  <2>3. Builds(c)!Class(r) = 0 /\ r.cost \in Nat /\ first.cost \in Nat /\ Builds(c)!Class(first) \in {0, 1}
    BY <1>6, <1>10, <2>2
  <2> DEFINE priceKeys == <<<<Builds(c)!Class(r), Builds(c)!Class(first)>>, <<r.cost, first.cost>>, <<-r.fields, -first.fields>>,
                            <<r.ranking, first.ranking>>>>
             otherKeys == <<<<Builds(c)!Class(r), Builds(c)!Class(first)>>, <<-r.fields, -first.fields>>,
                            <<r.ranking, first.ranking>>>>
  <2>4. IF priced THEN ~ Builds(c)!Before(priceKeys) ELSE ~ Builds(c)!Before(otherKeys) BY <2>1, Zenon DEF Builds!PublishedOrder
  <2>5. /\ 1 \in DOMAIN priceKeys /\ 2 \in DOMAIN priceKeys /\ 1 \in DOMAIN otherKeys
        /\ priceKeys[1][1] = Builds(c)!Class(r) /\ priceKeys[1][2] = Builds(c)!Class(first)
        /\ priceKeys[2][1] = r.cost /\ priceKeys[2][2] = first.cost
        /\ otherKeys[1][1] = Builds(c)!Class(r) /\ otherKeys[1][2] = Builds(c)!Class(first)
    OBVIOUS
  <2> HIDE DEF priceKeys, otherKeys
  <2>6. ~ (Builds(c)!Class(r) < Builds(c)!Class(first)) BY <2>4, <2>5, BeforeIs
  <2>7. Builds(c)!Class(first) = 0 BY <2>3, <2>6
  <2>8. first.status = "compatible" BY <1>6, <2>2, <2>7
  <2>9. ASSUME priced PROVE first.cost <= Builds(c)!CostOf(b)
    <3>1. ~ (r.cost < first.cost) BY <2>3, <2>4, <2>5, <2>7, <2>9, BeforeIs
    <3>2. Builds(c)!CostOf(b) \in Nat BY CostIs
    <3> QED BY <1>10, <2>3, <3>1, <3>2
  <2> QED BY <2>8, <2>9 DEF first
<1> QED BY <1>13, <1>14

\* A fact that becomes known clears no combination that was rejected
\* (evaluate_build_compatibility), but one that only the CPU was against and that the
\* board's table supports under a name of the CPU that was learned.
THEOREM RejectedStaysRejected ==
    ASSUME NEW CONSTANT c PROVE Builds(c)!Spec => [][Builds(c)!RejectedStays]_buildVars
<1>1. Builds(c)!RejectedStays BY RejectedFollows
<1> QED BY <1>1, PTL DEF Builds!Spec

\* With every fact known nothing stays provisional but a CPU that an incomplete table
\* does not list, and with every fact true a build whose CPU is listed is compatible
\* exactly when its parts fit.
THEOREM KnownIsDecided ==
    ASSUME NEW CONSTANT c, Builds(c)!Described PROVE Builds(c)!Spec => []Builds(c)!DecidedWhenKnown
<1>1. Builds(c)!DecidedWhenKnown BY DecidedFollows
<1> QED BY <1>1, PTL

\* The first build published is compatible, and the cheapest, if any is
\* (construct_compatible_builds, _write_compatible_builds), however many are kept.
THEOREM CheapestFirst ==
    ASSUME NEW CONSTANT c, Builds(c)!BuildConstantsOK PROVE Builds(c)!Spec => [][Builds(c)!BestFirst]_buildVars
<1>1. UNCHANGED Builds(c)!vars => UNCHANGED buildVars BY DEF Builds!vars, buildVars
<1>2. [Builds(c)!Next]_(Builds(c)!vars) => [Builds(c)!Next]_buildVars BY <1>1
<1>3. BuildInv(c) /\ [Builds(c)!Next]_(Builds(c)!vars) => [Builds(c)!BestFirst]_buildVars BY <1>2, FirstIsBest
<1> QED BY <1>3, BuildAlways, PTL DEF Builds!Spec

-----------------------------------------------------------------------------
(* The parts together: each keeps its invariant, and the steps of the       *)
(* others leave it alone.                                                   *)

LEMMA Configurations ==
    /\ Power(ThreeCards)!PowerConstantsOK
    /\ Enriched(Found)!EnrichmentConstantsOK /\ Enriched(CuratedOnly)!EnrichmentConstantsOK
    /\ Boot(OnSale)!BootConstantsOK /\ Boot(OnSale)!Truthful
    /\ Builds(FourBuilds)!BuildConstantsOK /\ Builds(FourBuilds)!Described
BY PartsOK

PartsInv ==
    /\ IInv /\ Timely
    /\ part = "power" => PowerInv(ThreeCards) /\ GrowingIn(ThreeCards)
    /\ part = "found" => EnrichedInv(Found)
    /\ part = "curated" => EnrichedInv(CuratedOnly)
    /\ part = "boot" => BootInv(OnSale)
    /\ part = "builds" => BuildInv(FourBuilds)

LEMMA PartsInit == PartInit => PartsInv
<1> SUFFICES ASSUME PartInit PROVE PartsInv OBVIOUS
<1>1. IInv /\ Timely BY InitIInv, TimelyInit DEF PartInit
<1>2. ASSUME part = "power" PROVE PowerInv(ThreeCards) /\ GrowingIn(ThreeCards)
  BY <1>2, PowerInit, GrowingInit, Configurations DEF PartInit
<1>3. ASSUME part = "found" PROVE EnrichedInv(Found)
  BY <1>3, EnrichedInit, Configurations DEF PartInit
<1>4. ASSUME part = "curated" PROVE EnrichedInv(CuratedOnly)
  BY <1>4, EnrichedInit, Configurations DEF PartInit
<1>5. ASSUME part = "boot" PROVE BootInv(OnSale)
  BY <1>5, BootInit, Configurations DEF PartInit
<1>6. ASSUME part = "builds" PROVE BuildInv(FourBuilds)
  BY <1>6, BuildInit DEF PartInit
<1> QED BY <1>1, <1>2, <1>3, <1>4, <1>5, <1>6 DEF PartsInv

\* A step is one of the part.
LEMMA PartSteps ==
    ASSUME [PartNext]_all
    PROVE  /\ part' = part /\ [Next]_vars
           /\ part = "power" => [Power(ThreeCards)!Next]_powerVars
           /\ part = "found" => [Enriched(Found)!Next]_specVars
           /\ part = "curated" => [Enriched(CuratedOnly)!Next]_specVars
           /\ part = "boot" => [Boot(OnSale)!Next]_bootVars
           /\ part = "builds" => [Builds(FourBuilds)!Next]_buildVars
<1>1. CASE UNCHANGED all
  <2>1. /\ part' = part /\ vars' = vars /\ powerVars' = powerVars /\ specVars' = specVars
        /\ bootVars' = bootVars /\ buildVars' = buildVars
    BY <1>1 DEF all
  <2> QED BY <2>1
<1>2. CASE PartNext
  BY <1>2 DEF PartNext, OnlyBenchmark, OnlyPower, OnlySpec, OnlyBoot, OnlyBuilds
<1> QED BY <1>1, <1>2

LEMMA PartsStep == PartsInv /\ [PartNext]_all => PartsInv'
<1> SUFFICES ASSUME PartsInv, [PartNext]_all PROVE PartsInv' OBVIOUS
<1>1. /\ part' = part /\ [Next]_vars
      /\ part = "power" => [Power(ThreeCards)!Next]_powerVars
      /\ part = "found" => [Enriched(Found)!Next]_specVars
      /\ part = "curated" => [Enriched(CuratedOnly)!Next]_specVars
      /\ part = "boot" => [Boot(OnSale)!Next]_bootVars
      /\ part = "builds" => [Builds(FourBuilds)!Next]_buildVars
  BY PartSteps
<1>2. IInv' /\ Timely' BY <1>1, StepKeeps, TimelyStep DEF PartsInv
<1>3. ASSUME part = "power" PROVE PowerInv(ThreeCards)' /\ GrowingIn(ThreeCards)'
  BY <1>1, <1>3, PowerStep, GrowingStep, Configurations DEF PartsInv
<1>4. ASSUME part = "found" PROVE EnrichedInv(Found)'
  BY <1>1, <1>4, EnrichedStep, Configurations DEF PartsInv
<1>5. ASSUME part = "curated" PROVE EnrichedInv(CuratedOnly)'
  BY <1>1, <1>5, EnrichedStep, Configurations DEF PartsInv
<1>6. ASSUME part = "boot" PROVE BootInv(OnSale)'
  BY <1>1, <1>6, BootStep, Configurations DEF PartsInv
<1>7. ASSUME part = "builds" PROVE BuildInv(FourBuilds)'
  BY <1>1, <1>7, BuildStep, Configurations DEF PartsInv
<1> QED BY <1>1, <1>2, <1>3, <1>4, <1>5, <1>6, <1>7 DEF PartsInv

LEMMA PartsAlways == PartSpec => []PartsInv
BY PartsInit, PartsStep, PTL DEF PartSpec

\* Nothing a benchmark started is under way once its caller has returned or
\* raised, and its samples are of their phases (run_process_with_power), here as
\* a part among the others.
THEOREM BenchmarkLeavesNothing == PartSpec => [](NothingLeftRunning /\ SamplesOfTheirPhase)
<1>1. PartsInv => NothingLeftRunning /\ SamplesOfTheirPhase
  BY DEF PartsInv, IInv, Running, NothingLeftRunning
<1> QED BY <1>1, PartsAlways, PTL

\* The energy of a window is between that of its samples, the watts that count are
\* those learned of the narrowest matching hardware unless idle-only rows hide them,
\* and the facts are those of the page's strongest part (EnergyWithinSamples,
\* estimate_device_power, _merge).
THEOREM EvidenceIsBest == PartSpec => []BestEvidence
<1>1. ASSUME PartsInv PROVE BestEvidence
  <2>1. TypeOK /\ EnergyWithinSamples BY <1>1, TypeFollows, EnergyFollows DEF PartsInv
  <2>2. part = "power" =>
           /\ Power(ThreeCards)!TypeOK /\ Power(ThreeCards)!Settles
           /\ Power(ThreeCards)!RailNeverDevice /\ Power(ThreeCards)!NarrowestCounts
           /\ Power(ThreeCards)!LearnedUnlessHidden
    BY <1>1, PowerTyped, RailFollows, NarrowestFollows, LearnedFollows, Configurations
    DEF PartsInv, GrowingIn
  <2>3. part = "found" =>
           /\ Enriched(Found)!TypeOK /\ Enriched(Found)!StrongestWins
           /\ Enriched(Found)!ProofMatches /\ Enriched(Found)!StandsOnVerified
           /\ Enriched(Found)!IdentityOnPage
    BY <1>1, EnrichedTyped, StrongestFollows, ProofFollows, VerifiedFollows, IdentityFollows,
       Configurations
    DEF PartsInv
  <2>4. part = "curated" =>
           /\ Enriched(CuratedOnly)!TypeOK /\ Enriched(CuratedOnly)!StrongestWins
           /\ Enriched(CuratedOnly)!ProofMatches /\ Enriched(CuratedOnly)!IdentityOnPage
    BY <1>1, EnrichedTyped, StrongestFollows, ProofFollows, IdentityFollows, Configurations
    DEF PartsInv
  <2>5. part = "boot" => Boot(OnSale)!TypeOK BY <1>1, BootTyped, Configurations DEF PartsInv
  <2>6. part = "builds" => Builds(FourBuilds)!TypeOK
    BY <1>1, BuildTyped, Configurations DEF PartsInv
  <2>7. PartsTyped BY <2>2, <2>3, <2>4, <2>5, <2>6 DEF PartsTyped
  <2>8. Settles /\ RailNeverDevice /\ NarrowestCounts /\ LearnedUnlessHidden
    BY <2>2 DEF Settles, RailNeverDevice, NarrowestCounts, LearnedUnlessHidden
  <2>9. StrongestWins /\ ProofMatches /\ StandsOnVerified /\ IdentityOnPage
    BY <2>3, <2>4 DEF StrongestWins, ProofMatches, StandsOnVerified, IdentityOnPage
  <2> QED BY <2>1, <2>7, <2>8, <2>9 DEF BestEvidence
<1> QED BY <1>1, PartsAlways, PTL

\* A board that is called ready knows its CPU, one is refused by its maker's
\* table only, and what is known of a build decides it (boot_readiness.py,
\* compatibility.py).
THEOREM PartsAreJudged == PartSpec => []JudgedRightly
<1>1. ASSUME PartsInv PROVE JudgedRightly
  <2>1. part = "boot" => /\ Boot(OnSale)!NoFalseReadiness /\ Boot(OnSale)!RefusedByTable
                         /\ Boot(OnSale)!SellerStaysBelow
    BY <1>1, ReadyFollows, RefusedFollows, SellerFollows, Configurations DEF PartsInv
  <2>2. part = "builds" => Builds(FourBuilds)!DecidedWhenKnown
    BY DecidedFollows, Configurations
  <2> QED BY <2>1, <2>2 DEF JudgedRightly, NoFalseReadiness, RefusedByTable, SellerStaysBelow,
                            DecidedWhenKnown
<1> QED BY <1>1, PartsAlways, PTL

\* Evidence is lost only between writers that overlap, a verdict stands for its time,
\* no fact but a CPU's name clears a rejected build, and a cheaper compatible build
\* stays before the others.
THEOREM LearningKeeps == PartSpec => NothingUnlearned
<1> DEFINE three == <<powerVars, specVars, buildVars>>
           Kept == /\ part = "power" => Power(ThreeCards)!LostByOverlap
                   /\ part = "found" => Enriched(Found)!VerdictKept
                   /\ part = "builds" => Builds(FourBuilds)!RejectedStays /\ Builds(FourBuilds)!BestFirst
<1>1. ASSUME PartsInv, [PartNext]_all PROVE Kept
  <2>1. /\ part = "power" => [Power(ThreeCards)!Next]_powerVars
        /\ part = "found" => [Enriched(Found)!Next]_specVars
        /\ part = "builds" => [Builds(FourBuilds)!Next]_buildVars
    BY <1>1, PartSteps
  <2>2. part = "power" => Power(ThreeCards)!LostByOverlap
    BY <1>1, <2>1, GrowingStep, Configurations DEF PartsInv
  <2>3. part = "found" => Enriched(Found)!VerdictKept
    BY <1>1, <2>1, VerdictStays, Configurations DEF PartsInv
  <2>4. part = "builds" => Builds(FourBuilds)!RejectedStays /\ Builds(FourBuilds)!BestFirst
    BY <1>1, <2>1, RejectedFollows, FirstIsBest, Configurations DEF PartsInv
  <2> QED BY <2>2, <2>3, <2>4
<1>2. PartsInv /\ [PartNext]_all => [Kept]_three BY <1>1
<1> QED BY <1>2, PartsAlways, PTL DEF PartSpec, NothingUnlearned
=============================================================================
