SPECIFICATION PartSpec
CONSTANTS
    c1 = c1  c2 = c2  c3 = c3
    shop = shop  forum = forum
    p1 = p1  p2 = p2  s1 = s1  h1 = h1  h2 = h2
    Unused = Unused
    Callers = {c1, c2, c3}
    FailureThreshold = 3
    RecoveryTimeout = 2
    HalfOpenMax = 1
    MayDrop = TRUE
INVARIANTS
    SourcesKept
PROPERTIES
    RestsAfterTrip
    NothingUndone
    ReachedAtLast
CHECK_DEADLOCK FALSE
