\* Two rotations, one crash and one failing statement, racing a token request.
SPECIFICATION Spec
CONSTANTS
    Kids = {k1, k2, k3, k4}
    NoKid = NoKid
    Minters = {m1}
    RotationInterval = 3
    Overlap = 1
    AccessTTL = 1
    RetireGrace = 4
    InitialGrace = 0
    ClockSkew = 1
    MaxDelay = 1
    MaxTime = 9
    MaxCrashes = 1
    MaxFaults = 1
SYMMETRY Symmetry
INVARIANTS TypeOK OneActiveOneNext TokenKeyPublished GapHasSuccessor
PROPERTIES AnnouncedForOverlap ImplementsKeyService
CONSTRAINT FirstBootAtZero
VIEW Relevant
