----------------------------- MODULE BatchSizer -----------------------------
(***************************************************************************)
(* The batch size of a source (resilience_runtime.py, AdaptiveBatchSizer): *)
(* halved by a slow batch or by memory pressure, grown by a quarter after  *)
(* success_window healthy batches in a row.  A sample is what observe      *)
(* tells apart of latency and resident memory: relaxed batches are within  *)
(* the latency target and four fifths of the memory limit, pressed ones    *)
(* over one and a half times the target or at the limit, others between.   *)
(***************************************************************************)
EXTENDS Integers

CONSTANTS Minimum, Maximum, Window

SizerConstantsOK ==
    {Minimum, Maximum, Window} \subseteq Nat \ {0} /\ Minimum <= Maximum

VARIABLES
    current, healthy,
    sample,         \* the last one
    calm, pressed   \* observed: relaxed, and pressed, samples in a row

vars == <<current, healthy, sample, calm, pressed>>

\* Enough relaxed samples in a row to grow from the minimum to the maximum,
\* and enough pressed ones to come back.
CalmEnough == Window * (Maximum - Minimum)
PressedEnough == Maximum

TypeOK ==
    /\ current \in Minimum .. Maximum /\ healthy \in 0 .. Window
    /\ sample \in {"relaxed", "pressed", "between"}
    /\ calm \in 0 .. CalmEnough /\ pressed \in 0 .. PressedEnough

Init ==
    /\ current \in Minimum .. Maximum /\ healthy = 0
    /\ sample = "between" /\ calm = 0 /\ pressed = 0

Halved(n) == IF Minimum > n \div 2 THEN Minimum ELSE n \div 2

\* Faulty: a quarter, rounded down.
GrownDown(n) == IF (n * 5) \div 4 < Maximum THEN (n * 5) \div 4 ELSE Maximum

\* max(current + 1, ceil(1.25 * current)), at most the maximum
Grown(n) == IF n + (n + 3) \div 4 < Maximum THEN n + (n + 3) \div 4 ELSE Maximum

HealthyAfter(h, s) == IF s = "relaxed" THEN h + 1 ELSE 0

AtMost(n, bound) == IF n < bound THEN n ELSE bound

Observe(s) ==
    /\ sample' = s
    /\ IF s = "pressed"
       THEN current' = Halved(current) /\ healthy' = 0
       ELSE LET h == HealthyAfter(healthy, s) IN
            IF h >= Window /\ current < Maximum
            THEN current' = Grown(current) /\ healthy' = 0
            ELSE current' = current /\ healthy' = AtMost(h, Window)
    /\ calm' = IF s = "relaxed" THEN AtMost(calm + 1, CalmEnough) ELSE 0
    /\ pressed' = IF s = "pressed" THEN AtMost(pressed + 1, PressedEnough) ELSE 0

Next == \E s \in {"relaxed", "pressed", "between"} : Observe(s)

Spec == Init /\ [][Next]_vars

-----------------------------------------------------------------------------
(* Properties *)

\* Pressure that lasts brings every batch to the minimum, and rest that lasts
\* to the maximum: small sizes grow too, though a quarter of them is nothing.
Adapts ==
    /\ pressed = PressedEnough => current = Minimum
    /\ calm = CalmEnough => current = Maximum

\* The inductive invariant: below the maximum each window of calm has grown the
\* size by one at least, and each pressed sample has shrunk it by one.
SizerInv ==
    /\ TypeOK
    /\ current < Maximum =>
          healthy < Window /\ calm <= Window * (current - Minimum) + healthy
    /\ current > Minimum => current <= Maximum - pressed
=============================================================================
