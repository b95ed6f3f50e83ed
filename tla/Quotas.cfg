SPECIFICATION FairSpec
CONSTANTS
    Users = {u1}
    Organizations = {o1, o2}
    Events = {e1}
    Requests = {r1, r2}
    Limit <- SmallLimits
    Window <- SmallWindows
    Hour = 2
    Day = 2
    MaxKeys = 1
    MaxUpdates = 1
    MaxTime = 3
    Recipients = {2}
    MaxStarts = 3
    MaxRows = 3
    Lifetime = 2
INVARIANTS LimitsHold
PROPERTIES RequestsEnd
CHECK_DEADLOCK FALSE
