CONSTANTS
    Main = main
    Procs = {main}
    Reaper = pid1
    AppStatuses = {"exited"}
    Signals = {"TERM"}
    MaxSignals = 1
SPECIFICATION FairSpec
PROPERTY SignalForwarded
CHECK_DEADLOCK FALSE
