SPECIFICATION CountedSpec
CONSTANTS
    Leases = {l1, l2, l3}
    Plans <- MCPlans
    Daily <- MCDaily
    Edge <- MCEdge
    Streams <- MCStreams
    MaxDaily = 5
    MaxStreams = 2
    Minute = 3
    LeaseTtl = 3
    Hour = 3
    Day = 7
    WaitlistCap = 2
    MaxTime = 15
INVARIANTS
    TypeOK
    WithinBudget
    WindowWithinDay
    SlidingBound
PROPERTIES
    ImplementsDailyBudget
CHECK_DEADLOCK FALSE
