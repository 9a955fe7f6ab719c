\* Progress: requests and drains end, stops complete, release checks end.
SPECIFICATION LiveSpec
CONSTANTS
  Parts = {"proxy", "adapter", "vram"}
  Requests = {"r1", "r2"}
  ProxyCallers <- TokenCallers
  TokenSet = TRUE
  RuntimeFails = FALSE
  ClientsLeave = FALSE
  ClientsStall = TRUE
  PIDs = {1, 2}
  Images = {"runtime", "other"}
  Access = {"path"}
  Graceful = TRUE
  KillMayFail = FALSE
  MaxSpawns = 2
  MaxFaults = 1
  MaxWorkers = 1
  Models = {4}
  Others = {0}
  Capacity = 6
  Tolerance = 1
  ReleaseTimeout = 1
  LearnFor = 1
  OthersShrink = TRUE
  HeadBytes = 3
  TailBytes = 2
  MaxChunk = 6
  MaxBody = 40
PROPERTIES RequestsEnd StopsEnd
CHECK_DEADLOCK FALSE
