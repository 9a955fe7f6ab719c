\* Waits, grace periods, cooldowns, modes, anti-thrashing and driver resets.
CONSTANTS
    Profiles <- TimedProfiles
    Cfg <- Thrash
    Forever = 99
    Instances = {i1}
    Requests = {r1}
    NoInst = NoInst
    Observations <- QuietOrPressing
    ModeLengths = {}
    MaxAIPriority = 1
    Env = {"manual", "mode"}
    LoadBlocked = FALSE
    Startup = 0
    Resume = 0
    CrashBackoff <- One
    TelemetryBackoff <- OneThenTwo
    ResetBackoff <- OneThenTwo
    ZombieBackoff <- NoBackoff
    DeviceLostCooldown = 1
    CrashResetAfter = 1
    ResetMerge = 1
    CountCap = 2
    AgeCap = 2
    Scenarios = {"plain", "resets", "cooldown"}
    CooldownEvents = {"crash", "manual"}
SPECIFICATION MCSpec
SYMMETRY Symmetry
INVARIANTS SuppressionCoversThrash
PROPERTIES DrainIsHonoured WaitsAreHonoured CooldownFromDisappearance
