SPECIFICATION Spec
CONSTANTS
    w1 = w1  w2 = w2
    Tasks = {1}
    Before <- Before1
    Workers = {w1, w2}
    None = None
    MaxIndex = 1
    MaxAttempts = 2
    Faults = 2
INVARIANTS
    CollectedStays
PROPERTIES
    ImplementsLedger
    CompletesWhole
    EveryTaskEnds
CHECK_DEADLOCK FALSE
