CONSTANTS
    Main = main
    Procs = {main, p1}
    Reaper = pid1
    AppStatuses = {"exited"}
    Signals = {"TERM"}
    MaxSignals = 0
SPECIFICATION FairSpec
PROPERTY TimeoutEnforced
CHECK_DEADLOCK FALSE
