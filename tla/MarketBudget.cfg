SPECIFICATION PartSpec
CONSTANTS
    Parts = {"queried"}
    feed = feed  product = product  u1 = u1  u2 = u2
    l1 = l1  l2 = l2  s = s  t = t  daily = daily
    Unused = Unused
    Polls = {feed, product}
    Urls = {u1, u2}
    UrlOf <- OneUrlEach
    Feeds = {feed}
    Versions = {1, 2, 3}
    Bare = {2}
    Oversized = {3}
    MaxEntries = 1
    Ttl = 1
INVARIANTS
    NarrowerIsNoDisappearance
CHECK_DEADLOCK FALSE
