SPECIFICATION Spec
CONSTANTS
    Hosts = {"h1", "h2"}
    Gpus = {0, 1}
    AllGpus = AllGpus
    Secrets = {"new"}
    Fields = {"temperature", "power"}
    Optional = {"power"}
    Keys = {1, 2}
    FirstKey = 1
    MaxCrashes = 1
    SampleSets <- MCSampleSets
    MaxEdits = 2
    MaxSaves = 1
    Cards = {g0, g1}
    Prefixes = {a, b}
    MaxChanges = 2
    None = None
INVARIANTS PushedAsStored AsTheOperatorMeant WritesFollowConfig
PROPERTIES ExportsGoOn AnnouncedAtLast
CHECK_DEADLOCK FALSE
