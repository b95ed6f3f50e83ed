SPECIFICATION FairSpec
CONSTANTS
    Syncs = {s1, s2}
    Disconnects = {d1, d2}
    Urls = {u1, u2}
    Events = {e1}
    MaxFeeds = 2
    Budget = 3
INVARIANTS FeedInv
PROPERTIES SuccessIsExact KeptOnDisconnect Converges
CHECK_DEADLOCK FALSE
