\* One administrator, one host and its agent.
SPECIFICATION TokensSpec
CONSTANTS
    Admins = {A}
    Ids = {h1}
    Machines = {m1}
    MaxTokens = 2
    MaxClicks = 1
    MaxDrops = 0
INVARIANT RotationDisconnects
CHECK_DEADLOCK FALSE
