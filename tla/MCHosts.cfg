\* One agent's host beside the sidecar's, and two requests in flight; one tab that
\* opens two dialogs one after the other, for two hosts and one machine.
SPECIFICATION MCSpec
CONSTANTS
    Hosts = {h1}
    Local = local
    Labels = {a, b}
    Label = a
    MaxChanges = 2
    MaxCalls = 2
    MaxFaults = 1
    None = None
    Gone = Gone
    Failed = Failed
    Admins = {A}
    Ids = {h1, h2}
    Machines = {m1}
    MaxTokens = 3
    MaxClicks = 2
    MaxDrops = 1
INVARIANTS
    OnePoll
    ShownIsSelected
    ShownTokenOpens
PROPERTY CatchesUp
CHECK_DEADLOCK FALSE
