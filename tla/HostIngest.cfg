\* An enrolled host beside the sidecar, two sockets racing for them.
SPECIFICATION FairSpec
CONSTANTS
  Hosts = {h1, local}
  LocalHosts = {local}
  Conns = {c1, c2}
  None = None
  PatchStatuses = {"offline", "disabled"}
  OfflineAfter = 1
  RateLimit = 1
PROPERTIES
  OneRegisteredSession
  StatusHasReasons
  OnlineMeansHeard
