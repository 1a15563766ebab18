SPECIFICATION PartSpec
CONSTANTS
    Parts = {"benchmark", "power", "found", "curated", "boot", "builds"}
    Unused = Unused
    None = None
    Phases <- IdleAndPrefill
    Watts = {1, 2}
    TimeLimit = 2
    IdleTime = 1
    Interval = 1
    MaxTime = 2
INVARIANTS
    SamplesOfTheirPhase
    NothingLeftRunning
    BestEvidence
    JudgedRightly
PROPERTIES
    NothingUnlearned
    BenchmarksEnd
CHECK_DEADLOCK FALSE
