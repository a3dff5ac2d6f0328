SPECIFICATION FairSpec
CONSTANTS
    Tools = {1}
    MaxLines = 2
PROPERTIES
    StreamEnds
CHECK_DEADLOCK FALSE
