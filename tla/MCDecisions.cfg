\* Every decision and reading, and the facts they rest on.
SPECIFICATION Spec
CONSTANTS
  Parts = {"policy", "windows", "account", "pids", "rules", "glob", "schedule", "resets"}
  Profiles <- MCProfiles
  Cfg <- MCCfg
  Forever = 99
  Inputs <- WindowInputs
  TickSteps <- WindowSteps
  Gap = 3
  Window = 4
  SoftPct = 3
  CritPct = 4
  DegradedMargin = 1
  Required = 3
  Tolerance = 1
  FullPct = 4
  MaxTicks = 4
  Pids = {1, 2}
  Programs <- MCPrograms
  RuleSets <- OneRuleSet
  StaleAfter = 2
  Fullscreen = {}
  MaxSpawns = 4
  AppTicks = 1
  Symbols = {"a", "b"}
  MaxText = 4
  MaxPattern = 4
  Configs <- MCConfigs
  MinuteLen = 2
  DayLen = 4
  Shift = 6
  ShiftBy <- BothWays
  CacheFor = 5
  Steps = {1, 4}
  MaxNow = 60
  Files = {"d1", "d2"}
  Late = {"d2"}
  SaveEvery = 2
  MergeWindow = 2
  LastScan = 5
  MaxWrites = 3
  MaxCrashes = 2
INVARIANTS DecisionsAreSafe OwnerIsToldTheTruth ContinuityIsReal MemoryIsAttributed AppsAreSeenRight SchedulesAreExact IncidentsCountOnce
CHECK_DEADLOCK FALSE
