CONSTANTS
    NoLimit = NoLimit
    Limit = 3
    ReadSize = 2
    PipeSize = 3
    CounterMax = 5
    Supply = 6
    CgroupEnabled = TRUE
    HostMayFail = TRUE
SPECIFICATION FairSpec
INVARIANTS TypeOK SharedBudget ReadNeverBlocks NoOutputLost CleanSuccess OneNotice
PROPERTIES HostReturns LimitReported
CHECK_DEADLOCK FALSE
