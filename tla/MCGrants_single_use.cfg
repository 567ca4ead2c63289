\* Two overlapping redemptions of one grant.
SPECIFICATION Spec
CONSTANTS
    Clients = {c1}
    Codes = {a1}
    Tokens = {t1, t2, t3}
    Bindings = {b1}
    Resources = {res1}
    Requests = {r1, r2}
    None = None
    CodeTTL = 1
    RefreshTTL = 1
    ClientTTL = 2
    LoginSpan = 1
    MaxDelay = 1
    Strict = TRUE
    MaxTime = 0
    MaxFaults = 0
SYMMETRY Symmetry
INVARIANT SingleUse
