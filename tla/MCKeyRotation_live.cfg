\* Crashes at any point, no failing statement: the keys keep moving.
SPECIFICATION FairSpec
CONSTANTS
    Kids = {k1, k2, k3, k4}
    NoKid = NoKid
    Minters = {}
    RotationInterval = 2
    Overlap = 1
    AccessTTL = 1
    RetireGrace = 3
    InitialGrace = 0
    ClockSkew = 0
    MaxDelay = 1
    MaxTime = 5
    MaxCrashes = 1
    MaxFaults = 0
PROPERTIES ActiveKeyRecovers NextIsPromoted OldKeyGetsSuccessor
