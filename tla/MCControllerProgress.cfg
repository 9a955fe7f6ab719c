\* Drains and stops complete, cleanups are retried, and the worker comes back.
CONSTANTS
    Profiles <- GraceProfiles
    Cfg <- EachSuppresses
    Forever = 99
    Instances = {i1, i2}
    Requests = {r1}
    NoInst = NoInst
    Observations <- QuietOrGame
    ModeLengths = {}
    MaxAIPriority = 1
    Env = {"crash", "killfail"}
    LoadBlocked = FALSE
    Startup = 0
    Resume = 0
    CrashBackoff <- NoBackoff
    TelemetryBackoff <- NoBackoff
    ResetBackoff <- NoBackoff
    ZombieBackoff <- One
    DeviceLostCooldown = 0
    CrashResetAfter = 0
    ResetMerge = 0
    CountCap = 1
    AgeCap = 1
    Scenarios = {"plain", "recovery"}
    CooldownEvents = {}
SPECIFICATION MCLiveSpec
PROPERTIES GPUIsGivenBack AlwaysServesAgain
