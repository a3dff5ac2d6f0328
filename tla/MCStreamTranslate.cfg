SPECIFICATION FairSpec
CONSTANTS
    Tools = {1, 2}
    MaxLines = 4
INVARIANTS
    TypeOK
    DeltasAsReceived
    Bracketed
    EndIsTruthful
    WaitingIsServed
PROPERTIES
    QuietStreamsEnd
CHECK_DEADLOCK FALSE
