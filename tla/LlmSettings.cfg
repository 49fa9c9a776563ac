CONSTANTS
    Commands <- MCCommands
    Models = {"m1", "m2"}
    Digests = {"d1", "d2"}
    Endpoints <- MCEndpoints
    Hubs = {1, 2}
    HostNetwork = TRUE
    Dirs <- MCDirs
    MaxChanges = 1
    MaxFaults = 1
    HostIds = {"h1", "h2"}
    ThisHost = "h1"
    RuleLists <- MCRuleLists
    HostForms <- MCHostForms
    OtherConfig <- MCOtherConfig
    ServerStates <- MCServerStates
    FirstServers <- MCFirstServers
    MaxEdits = 3
    FirstTags <- MCFirstTags
SPECIFICATION Spec
INVARIANTS NamesTrue
PROPERTIES SettledAtLast
CHECK_DEADLOCK FALSE
