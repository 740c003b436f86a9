CONSTANTS
    Runs = {r1, r2}
    Pids = {p1, p2}
    Limits = 2
SPECIFICATION FairSpec
INVARIANTS TypeOK OwnProcessesOnly ApplicationLimited SuccessLeavesNothing
PROPERTIES CleanupEnds ImplementsLease
CHECK_DEADLOCK FALSE
