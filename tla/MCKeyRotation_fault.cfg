\* One failing statement of rotate, no restart.
SPECIFICATION FairSpec
CONSTANTS
    Kids = {k1, k2, k3, k4}
    NoKid = NoKid
    Minters = {}
    RotationInterval = 2
    Overlap = 1
    AccessTTL = 1
    RetireGrace = 3
    InitialGrace = 0
    ClockSkew = 0
    MaxDelay = 1
    MaxTime = 5
    MaxCrashes = 0
    MaxFaults = 1
PROPERTY ActiveKeyRecovers
