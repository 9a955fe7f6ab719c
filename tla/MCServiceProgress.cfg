\* Progress: controls return, stops complete, renewals take effect, state becomes durable, Close returns.
SPECIFICATION LiveSpec
CONSTANTS
  Parts = {"supervisor", "tls", "restart", "events"}
  EventBuffer = 1
  StopTimeout = 3
  ShutdownTimeout = 1
  PreshutdownTimeout = 4
  SuspendBudget = 1
  ExitMargin = 1
  Requests = {"stop", "shutdown", "suspend", "resume"}
  Horizon = 2
  MaxRequests = 3
  Sources = {"files", "self_signed"}
  Pairs = {1, 2, 3}
  Validity <- MCValidity
  StoreCerts <- MCStoreCerts
  MaxWrites = 3
  TlsNow = 2
  MaxCrashes = 1
  StartupCooldown = 1
  FaultCooldown = 2
  RestartNow = 3
  MaxFaults = 1
  MaxSets = 2
  SaveFailures = 1
  Emitters = {"e1", "e2"}
  Readers = {}
  BufferSize = 2
  MaxBatch = 2
  EventsMax = 0
  MaxAge = 0
  PageMax = 1
  MaxEmits = 5
  WriteFailures = 2
  MaxPrunes = 0
  LogNow = 1
INVARIANTS EventsAreKept
PROPERTIES ControlsComplete CertificatesTakeEffect AcceptedBecomesDurable
CHECK_DEADLOCK FALSE
