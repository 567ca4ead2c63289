\* One rotation with a crash or a failing statement, seen by a plugin request.
SPECIFICATION PathSpec
CONSTANTS
    Kids = {k1, k2, k3}
    NoKid = NoKid
    Minters = {m1}
    RotationInterval = 0
    Overlap = 2
    AccessTTL = 1
    RetireGrace = 1
    InitialGrace = 0
    ClockSkew = 0
    MaxDelay = 0
    MaxTime = 4
    MaxCrashes = 1
    MaxFaults = 1
    Verifiers = {v1}
    Nobody = Nobody
    CacheTTL = 1
    MinGap = 1
    MaxFetch = 0
SYMMETRY Symmetry
CONSTRAINT BootAtZeroOneMishap
VIEW Relevant
INVARIANT LiveTokenVerifies
PROPERTY ImplementsJwksCache
