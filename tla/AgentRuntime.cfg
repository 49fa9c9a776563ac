CONSTANTS
    MaxColdFailures = 2
    SilenceLimit = 1
    MaxForks = 2
    MaxFaults = 1
    Pids = {p1, p2}
    ProcessKinds <- MCProcessKinds
    MinAge = 1
    SmiRefresh = 2
    MapTtl = 2
    MaxProcesses = 2
    Scenarios <- MCScenarios
    SysfsBootRetries = 1
SPECIFICATION RuntimeFairSpec
INVARIANTS AgentIsQuiet RowsTrue
PROPERTIES SamplesAtLast ClientsListed
CHECK_DEADLOCK FALSE
