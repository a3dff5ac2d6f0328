SPECIFICATION MCSpec
CONSTANTS
    Names = {1, 2, 3, 4, 5}
    Few = {1, 2, 3}
    Edited = {2, 4}
    Lists = {{m1}, {m1, m2}, {m2}}
    PageSize = 2
    PagesPerRun = 2
    Workers = {w1, w2}
    Admins = {a1, a2}
    Builtin = {1}
    Short = 1
    Long = 2
    Parts = {"crossing", "sweep", "judging", "probing", "routing"}
    NoModel = NoModel
    Kinds <- MCKinds
    Attempts = 2
    Moves = 2
INVARIANTS
    RouteTypeOK
    RowsAccounted
    AvoidedAsFound
    RoutingHolds
PROPERTIES
    SweepCompletes
    MCEveryProviderRefreshed
    MCEveryProviderProbed
CHECK_DEADLOCK FALSE
