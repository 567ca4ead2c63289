\* Two requests against shutdown, crash and an operator who rotates keys.
SPECIFICATION FairSpec
CONSTANTS
    KeyIDs = {k1, k2}
    bootstrapKeyID = k1
    Materials = {m1, m2}
    Blobs = {b1}
    None = None
    Requests = {r1, r2}
    Nobody = Nobody
    BufferSize = 1
    MaxEvents = 2
INVARIANTS TypeOK SecretsReadable CloseDrains CutOffOnlyAfterTimeout
PROPERTY ShutdownCompletes
