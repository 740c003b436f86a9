CONSTANTS
    NoLimit = NoLimit
    Limit = 3
    ReadSize = 2
    PipeSize = 3
    CounterMax = 6
    Supply = 6
    CgroupEnabled = TRUE
    HostMayFail = FALSE
SPECIFICATION Spec
INVARIANT CgroupAlwaysCleaned
CHECK_DEADLOCK FALSE
