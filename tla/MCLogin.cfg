\* Two logins with swapped states and codes, and one login against the clock.
SPECIFICATION Spec
CONSTANTS
    Clients = {c1}
    Uris = {uri1, uri2}
    Challenges = {h1}
    Resources = {res1}
    Sessions = {s1, s2}
    Logins = {u1, u2}
    Users = {alice, bob}
    Unknown = Unknown
    Codes = {a1, a2}
    Requests = {r1, r2}
    None = None
    SessionTTL = 1
    CodeTTL = 1
    ClientTTL = 4
    MaxDelay = 1
    MaxLogins = 2
    MaxTime = 6
    MaxFaults = 1
SYMMETRY Symmetry
CONSTRAINT MixupOrClock
INVARIANTS TypeOK OneCodePerLogin CodeHasSessionUser
PROPERTY ImplementsGrants
