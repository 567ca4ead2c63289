\* Two clients racing over the same grants, and one client against the clock;
\* one statement whose error is ignored may fail.
SPECIFICATION Spec
CONSTANTS
    Clients = {c1, c2}
    Codes = {a1}
    Tokens = {t1, t2}
    Bindings = {b1, b2}
    Resources = {res1}
    Requests = {r1, r2}
    None = None
    CodeTTL = 1
    RefreshTTL = 1
    ClientTTL = 2
    LoginSpan = 1
    MaxDelay = 1
    Strict = TRUE
    MaxTime = 3
    MaxFaults = 1
SYMMETRY Symmetry
CONSTRAINT RaceOrClock
VIEW Relevant
INVARIANTS TypeOK LiveTokenHasClient HeldByOwner SpentIsGone OnlyOverlapReuses
PROPERTIES IssuedBeforeExpiry RevocationTakesEffect
