CONSTANTS
    Main = main
    Procs = {main, p1}
    Reaper = pid1
    AppStatuses = {"exited"}
    Signals = {"TERM", "INT"}
    MaxSignals = 1
SPECIFICATION FairSpec
INVARIANTS TypeOK NothingOutlivesLauncher
PROPERTIES KeepsContract OutputLimitEnforced
CHECK_DEADLOCK FALSE
