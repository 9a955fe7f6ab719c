\* Configuration saves and restores, shipped rules, statistics, tokens and sessions.
SPECIFICATION Spec
CONSTANTS
  Parts = {"config", "restore", "rules", "housekeeping", "signin", "sessions", "rights", "apps"}
  Client = {"u1"}
  Config <- MCConfig
  Default = "default"
  Normal <- MCNormal
  PathOf <- MCPathOf
  Missing = {}
  Proposals = {"a", "b"}
  HistoryLimit = 2
  MaxSaves = 2
  MaxEdits = 1
  MaxCrashes = 2
  Builds <- MCBuilds
  NoId = "none"
  RuleEdits = 3
  Hour = 3
  Day = 6
  DaysPerYear = 3
  MaxAge = 4
  PruneEvery = 3
  Starts = {1, 8}
  Warn = 7
  LastTick = 12
  MaxFaults = 1
  Requests = {"r1"}
  Codes = {"c1", "c2"}
  MaxPendingCodes = 1
  MaxSessions = 1
  MaxRedeemFailure = 1
  CodeTTL = 2
  SessionTTL = 2
  Window = 1
  Offered = {"codes", "redeem"}
  MaxNow = 4
  MaxIssued = 2
  MaxRev = 0
  MaxMisses = 3
PROPERTIES ConfigurationIsKept ShippedRulesMerge StatisticsAreExact OnlyAllowedChanges SessionsAreEarned
CHECK_DEADLOCK FALSE
