\* One rotation, seen by two requests of the plugin; refreshes hang, fail and succeed.
SPECIFICATION FairSpec
CONSTANTS
    Kids = {k1, k2}
    Overlap = 2
    AccessTTL = 1
    ClockSkew = 0
    Verifiers = {v1, v2}
    Nobody = Nobody
    CacheTTL = 1
    MinGap = 0
    MaxFetch = 1
    MaxTime = 3
INVARIANTS TypeOK RefusedOnlyWhileNew LockIsRefresh
PROPERTIES LiveKeyStaysCached GetReturns
