CONSTANTS
    Main = main
    Procs = {main, p1, p2}
    Reaper = pid1
    AppStatuses = {"exited"}
    Signals = {"TERM", "INT"}
    MaxSignals = 2
SPECIFICATION FairSpec
INVARIANTS TypeOK ReturnsOnlyWhenEmpty
PROPERTIES StatusIsMains SigkillEmptiesGroup TimeoutTerminates MainExitTerminates SignalForwardedWhenPolling
CHECK_DEADLOCK FALSE
