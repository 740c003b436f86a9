CONSTANTS
    Kinds = {"uts", "pid", "mount"}
    Faults = {{}, {"dev_null"}, {"execute"}, {"hard_limit"}, {"address_space"}, {"pids"}, {"one_pid"}, {"hard_limit", "execute"}}
SPECIFICATION FairSpec
INVARIANTS TypeOK RunsRestricted OnlyItsDescriptors RefusedOnlyByPolicy
PROPERTY HostReturns
CHECK_DEADLOCK FALSE
