SPECIFICATION PartSpec
CONSTANTS
    Parts = {"cycles", "asked", "narrow", "failing", "sizer", "shared", "own", "long", "promoted"}
    p1 = p1  p2 = p2  w1 = w1  w2 = w2
    service = service  dashboard = dashboard
    page = page  offer = offer  board = board
    cpu = cpu  gpu = gpu  maker = maker  shop = shop
    None = None
    Unused = Unused
    Pids = {p1, p2}
    KeepRuns = 1
    MaxRuns = 3
    MaxBatches = 2
    MaxDeaths = 2
    MayFail = TRUE
    MayCrash = TRUE
INVARIANTS
    PublishedIsRecorded
    OutputsAgree
    SpooledIsWhole
    JournalKept
    LoadBounded
PROPERTIES
    ServiceGoesOn
CHECK_DEADLOCK FALSE
