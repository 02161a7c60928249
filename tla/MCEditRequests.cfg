SPECIFICATION Spec
CONSTANTS
    c1 = c1
    c2 = c2
    k1 = k1
    k2 = k2
    e1 = e1
    Clients = {c1, c2}
    Keys = {k1, k2}
    Externals = {e1}
    CacheSize = 1
    MaxSends = 2
    MaxRestarts = 1
    None = None
INVARIANTS AppliedOnce AckedIsKept
PROPERTIES OnlyRacingIsLost
CHECK_DEADLOCK FALSE
