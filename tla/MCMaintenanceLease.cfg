SPECIFICATION Spec
CONSTANTS
    Invocations = {i1, i2, i3}
    None = None
    LeaseLen = 7
    RenewEvery = 2
    Delay = 1
    Tolerance = 2
    MaxTime = 15
SYMMETRY Symmetry
INVARIANTS
    TypeOK
    OneWorker
    LeaseRunsOut
CHECK_DEADLOCK FALSE
