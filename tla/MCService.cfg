\* Safety: sleep and wake-up, certificates, what a restart restores, paging.
SPECIFICATION Spec
CONSTANTS
  Parts = {"supervisor", "tls", "restart", "events"}
  EventBuffer = 2
  StopTimeout = 3
  ShutdownTimeout = 1
  PreshutdownTimeout = 4
  SuspendBudget = 1
  ExitMargin = 1
  Requests = {"suspend", "resume", "session", "interrogate", "other", "preshutdown"}
  Horizon = 2
  MaxRequests = 4
  Sources = {"files", "store"}
  Pairs = {1, 2, 3}
  Validity <- MCValidity
  StoreCerts <- MCStoreCerts
  MaxWrites = 4
  TlsNow = 4
  MaxCrashes = 1
  StartupCooldown = 1
  FaultCooldown = 2
  RestartNow = 3
  MaxFaults = 2
  MaxSets = 2
  SaveFailures = 1
  Emitters = {"e1", "e2"}
  Readers = {"r"}
  BufferSize = 1
  MaxBatch = 1
  EventsMax = 2
  MaxAge = 1
  PageMax = 2
  MaxEmits = 3
  WriteFailures = 0
  MaxPrunes = 1
  LogNow = 3
PROPERTIES PowerIsHandled CertificateIsSound RestartKeepsRecords PagesAreWhole
CHECK_DEADLOCK FALSE
