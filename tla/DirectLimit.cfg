CONSTANTS
    Main = main
    Procs = {main}
    Reaper = launcher
    AppStatuses = {"exited"}
SPECIFICATION FairSpec
PROPERTY OutputLimitEnforced
CHECK_DEADLOCK FALSE
