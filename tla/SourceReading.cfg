SPECIFICATION PartSpec
CONSTANTS
    Parts = {"http", "local", "timed", "narrow", "wide", "public", "bounded", "whole", "feed", "left"}
    r1 = r1  r2 = r2  r3 = r3  a = a  b = b
    a1 = a1  a2 = a2  w1 = w1  w2 = w2  w3 = w3
    i1 = i1  i2 = i2  i3 = i3  p1 = p1  p2 = p2  p3 = p3
    Unused = Unused
    Requests = {r1, r2, r3}
    Sources = {a, b}
    SourceOf <- TwoSources
    Streams = {r1}
    Attempts = 2
    Concurrency = 2
    MinSlots = 1
    MaxSlots = 2
    SuccessWindow = 2
    Backoff = 1
    MaxBackoff = 2
    RetryAfters = {0, 2}
    MayCancel = TRUE
INVARIANTS
    PermitsAccounted
    ReadWhole
PROPERTIES
    NoItemTwice
    InTurn
    ReadingEnds
CHECK_DEADLOCK FALSE
