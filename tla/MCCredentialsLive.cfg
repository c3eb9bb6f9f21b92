SPECIFICATION MCFairSpec
CONSTANTS
    Requests = {r1}
    Workers = {w1}
    Locks = {l1, l2}
    NoLock = NoLock
    None = None
    Rotates = FALSE
    Debounce = 1
    Interval = 1
    MaxIssued = 2
    MaxTime = 3
    MaxEvents = 0
    r1 = r1
    w1 = w1
    l1 = l1
    l2 = l2
PROPERTIES
    RefreshEnds
