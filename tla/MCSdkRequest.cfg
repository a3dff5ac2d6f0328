SPECIFICATION FairSpec
CONSTANTS
    MaxRetries = 2
    Timeout = 3
    BaseDelay = 1
INVARIANTS
    TypeOK
    ServedOnce
    AbortWins
    TimeBounded
PROPERTIES
    Settles
CHECK_DEADLOCK FALSE
