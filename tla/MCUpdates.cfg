SPECIFICATION MCSpec
CONSTANTS
    MaxVersion = 2
    Cooldown = 2
    Windows = FALSE
    MaxFaults = 3
    HostIds = {h}
    Keys = {k1, k2}
    PageNamed = {FALSE}
    Cards = {"rocm", "intel", "apple"}
    None = None
    Gone = Gone
    MaxRuns = 3
    MaxMishaps = 1
    Absent = Absent
    MaxHubRuns = 3
    MaxRelease = 2
    Hours = 2
    AheadTtl = 1
    Nil = Nil
    MaxTurns = 2
INVARIANTS BundleIsWhole AsInstalled OperatorDecides
PROPERTIES PushesSpaced UpdatedAtLast OwnersThingsStay LearnedAtLast
CHECK_DEADLOCK FALSE
