SPECIFICATION MCSpec
CONSTANTS
    NoKey = NoKey
    Keys = {k1, k2}
    Requests = {r1, r2}
    Calls = {c1, c2}
    CacheTtl = 2
    IndexTtl = 3
    ResolveTime = 1
    MaxTime = 3
    Casts = {{k1, k2, c1}, {k1, c1, c2}}
SYMMETRY Symmetry
INVARIANTS
    TypeOK
    RevokedKeyLapses
    InvalidationHolds
CHECK_DEADLOCK FALSE
