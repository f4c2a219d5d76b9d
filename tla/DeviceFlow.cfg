CONSTANTS
    Intervals = {0, 1, 3}
    SlowDown = 2
    ExpiresIn = 8
    MaxTime = 14
    Faults = TRUE
    None = None
SPECIFICATION FairSpec
CHECK_DEADLOCK FALSE
INVARIANTS
    TypeOK
    PollsAsTold
PROPERTY
    DeviceFlowReturns
