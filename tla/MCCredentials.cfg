SPECIFICATION MCSpec
CONSTANTS
    Requests = {r1}
    Workers = {w1}
    Locks = {l1, l2}
    NoLock = NoLock
    None = None
    Rotates = TRUE
    Debounce = 1
    Interval = 1
    MaxIssued = 3
    MaxTime = 4
    MaxEvents = 1
    r1 = r1
    w1 = w1
    l1 = l1
    l2 = l2
SYMMETRY LockSymmetry
VIEW SafetyView
INVARIANTS
    TypeOK
    FileUsable
    OneRefreshAtATime
    SpentEntryHeals
