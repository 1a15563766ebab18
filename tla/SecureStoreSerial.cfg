SPECIFICATION SerialSpec
CONSTANTS
    n1 = n1
    n2 = n2
    w1 = w1
    w2 = w2
    t1 = t1
    t2 = t2
    c1 = c1
    b1 = b1
    Nodes = {n1, n2}
    Workers = {w1, w2}
    Tasks = {t1}
    Cycles = {c1}
    Batches = {b1}
    None = None
    CycleOf <- OneCycle
    Capable <- AnyWorker
    Affinity <- FirstWorker
    Gated = {t1}
    LeaderLease = 2
    TaskLease = 2
    QuarantineTime = 1
    QuarantineAfter = 2
    MaxEpoch = 2
    MaxAttempts = 2
    MaxUploads = 1
PROPERTIES
    FencedMutation
    LiveLeaseExclusive
    ImplementsLedger
SYMMETRY Symmetry
CHECK_DEADLOCK FALSE
