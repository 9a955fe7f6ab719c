\* Safety: cut requests, process trees, released memory, chunked responses.
SPECIFICATION Spec
CONSTANTS
  Parts = {"proxy", "adapter", "failing", "vram", "shared", "usage"}
  Requests = {"r1", "r2"}
  ProxyCallers <- AllCallers
  TokenSet = TRUE
  RuntimeFails = TRUE
  ClientsLeave = TRUE
  ClientsStall = TRUE
  PIDs = {1, 2, 3}
  Images = {"runtime", "other"}
  Access = {"path"}
  Graceful = TRUE
  KillMayFail = FALSE
  MaxSpawns = 2
  MaxFaults = 1
  MaxWorkers = 2
  Models = {2,10}
  Others = {0,1}
  Capacity = 10
  Tolerance = 1
  ReleaseTimeout = 1
  LearnFor = 1
  OthersShrink = FALSE
  HeadBytes = 3
  TailBytes = 2
  MaxChunk = 6
  MaxBody = 40
INVARIANTS RequestsAreAccounted MemoryIsGivenBack
PROPERTIES TreesAreOwned
CHECK_DEADLOCK FALSE
