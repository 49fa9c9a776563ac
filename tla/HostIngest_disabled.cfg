\* One enrolled host and one socket.
SPECIFICATION Spec
CONSTANTS
  Hosts = {h1}
  LocalHosts = {}
  Conns = {c1}
  None = None
  PatchStatuses = {"offline", "disabled"}
  OfflineAfter = 1
  RateLimit = 1
PROPERTY
  DisabledBlocksHandshake
CHECK_DEADLOCK FALSE
