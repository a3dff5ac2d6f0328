SPECIFICATION MCSpec
CONSTANTS
    Requests = {r1, r2, p1}
    Plain = {p1}
    Parties = {{r1, r2}, {r1, p1}}
    Unread = {r2}
    Plans <- MCPlans
    Daily <- MCDaily
    Edge <- MCEdge
    Streams <- MCStreams
    Fallback <- MCFallback
    MaxDaily = 2
    MaxStreams = 1
    LeaseTtl = 4
    Minute = 100
    Day = 8
    RenewEvery = 2
    Timeout = 4
    Transit = 1
    Starts <- MCStarts
    MaxTime = 16
INVARIANTS
    TypeOK
    ChargedOnce
    RelayKeepsSlot
    DoneGivesSlotBack
    SlotComesFree
PROPERTIES
    RequestsEnd
CHECK_DEADLOCK FALSE
