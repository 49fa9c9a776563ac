\* Two accounts, two requests in flight and a live stream; and a database of
\* every version, with the sidecar and one enrolled host.
SPECIFICATION MCSpec
CONSTANTS
    MaxAccounts = 2
    MaxChanges = 1
    Passwords = {p1, p2}
    Requests = {r1, r2}
    Sockets = {s1}
    None = None
    HostIds = {h1, local}
    NoTable = NoTable
    Local = local
    Gpus = {0, 1}
    MaxRow = 3
    LegacyRows = 1
    HostColumns = 2
    MaxRestarts = 2
INVARIANTS
    AcceptedIsProved
    HistoryKept
    BootsModern
PROPERTY SessionsFollowAccounts
SYMMETRY Interchangeable
CHECK_DEADLOCK FALSE
