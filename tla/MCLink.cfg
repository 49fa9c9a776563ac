\* One hub, a ring smaller than the number of frames, a replay of several
\* chunks, REPLAY_CHUNK : RATE_LIMIT = 2 : 5, frames delayed by less than the
\* spacing of the chunks exceeds the window.
SPECIFICATION MCSpec
CONSTANTS
  Hubs = {h1}
  Hub = h1
  Collectors = {samples}
  BufferMax = 5
  ReplayChunk = 2
  AuthFailureLimit = 3
  ReconnectMin = 1
  ReconnectMax = 4
  MaxFrames = 6
  ReplayDelay = 4
  WindowTicks = 2
  RateLimit = 5
  MaxDelay = 1
  JitterLow = 2
  JitterHigh = 3
  StableTicks = 6
  LivePeriod = 4
  PingPeriod = 5
  MaxDrops = 1
INVARIANTS
  LinkSound
  OwnReplayWithinLimit
PROPERTIES
  Progress
  TimedBacklogReplayed
CHECK_DEADLOCK FALSE
