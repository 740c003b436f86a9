CONSTANTS
    Main = main
    Procs = {main, p1, p2}
    Reaper = launcher
    AppStatuses = {"exited"}
SPECIFICATION FairSpec
INVARIANT TypeOK
PROPERTIES KeepsContract GraceNotRestarted TimeoutTerminates
CHECK_DEADLOCK FALSE
