SPECIFICATION MCSpec
CONSTANTS
    NoKey = NoKey
    Keys = {k1, k2}
    Requests = {r1}
    Calls = {c1}
    CacheTtl = 2
    IndexTtl = 3
    ResolveTime = 1
    MaxTime = 4
    Casts = {{k1, k2, c1}}
SYMMETRY Symmetry
INVARIANT
    RevokedStopsWorking
CHECK_DEADLOCK FALSE
