CONSTANTS
    U64Max <- MaxU64
    Baseline = {"ptrace", "mount"}
    StrictOnly = {"bpf"}
    KnownSyscalls = {"ptrace", "mount", "bpf", "fork"}
    Missing = {"lost"}
    Places = {here, there}
    Files = {f1, f2}
    Blocks = {"a", "b", "x"}
    Contents <- MCContents
    Approved <- MCApproved
    Nothing = Nothing
    Inputs <- ProbeRun
    Statuses = {"exit0", "exit3", "exit124", "kill", "xfsz", "term"}
    Signalled = {"kill", "xfsz", "term"}
    Number <- MCNumber
    LastInstant = 1000000
    Largest <- MCLargest
SPECIFICATION Spec
INVARIANT NamedLimitsEnforced
CHECK_DEADLOCK FALSE
