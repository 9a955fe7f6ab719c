\* The same under a pause, which outranks the competing workload.
CONSTANTS
    Profiles <- TimedProfiles
    Cfg <- EachSuppresses
    Forever = 99
    Instances = {i1}
    Requests = {r1}
    NoInst = NoInst
    Observations <- QuietOrGame
    ModeLengths = {}
    MaxAIPriority = 1
    Env = {"mode"}
    LoadBlocked = FALSE
    Startup = 0
    Resume = 0
    CrashBackoff <- NoBackoff
    TelemetryBackoff <- NoBackoff
    ResetBackoff <- NoBackoff
    ZombieBackoff <- NoBackoff
    DeviceLostCooldown = 0
    CrashResetAfter = 0
    ResetMerge = 0
    CountCap = 1
    AgeCap = 2
    Scenarios = {"cooldown"}
    CooldownEvents = {"mode"}
SPECIFICATION MCSpec
SYMMETRY Symmetry
PROPERTIES CooldownFromDisappearance
