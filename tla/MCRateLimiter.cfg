\* Two requests of one address: windows of three ticks, stale times, evictions.
SPECIFICATION Spec
CONSTANTS
    Addresses = {a1}
    Requests = {r1, r2}
    None = None
    Limit = 2
    Window = 3
    Second = 2
    MaxDelay = 1
    MaxTime = 10
SYMMETRY Symmetry
INVARIANT TypeOK
PROPERTIES ImplementsQuota RetryHonoured BurstBound
