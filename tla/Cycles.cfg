SPECIFICATION PartSpec
CONSTANTS
    Parts = {"window", "remote", "compacted", "repeated"}
    Unused = Unused
    Requests = {r1, r2}
    None = None
    MaxAge = 4
    MaxEntries = 2
    MaxSkew = 3
    MaxAhead = 3
    EndOfTime = 9
    Sources = {s1}
    Workers = {w1, w2}
    NumPages = 2
    MaxAttempts = 2
    DisappearAfter = 1
    MaxCycles = 1
    MaxLeases = 2
    MaxWire = 3
    Payloads = {"a", "b", "c"}
    Shown <- ShownPrice
    Heartbeat = 2
    Compacted <- OneListing
    Repeated <- TwoListings
SYMMETRY Symmetry
INVARIANTS
    ExecutedOnce
    HistoryIsTrue
PROPERTIES
    EvidenceGrows
CHECK_DEADLOCK FALSE
