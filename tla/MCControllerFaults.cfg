\* Every fault and no waits: crashes, failed loads and kills, reloads, power events.
CONSTANTS
    Profiles <- NoWaitProfiles
    Cfg <- EachSuppresses
    Forever = 99
    Instances = {i1, i2}
    Requests = {r1}
    NoInst = NoInst
    Observations <- Hard
    ModeLengths = {}
    MaxAIPriority = 1
    Env = {"crash", "loadfail", "startfail", "killfail", "config", "manual", "setup"}
    LoadBlocked = FALSE
    Startup = 0
    Resume = 0
    CrashBackoff <- NoBackoff
    TelemetryBackoff <- NoBackoff
    ResetBackoff <- NoBackoff
    ZombieBackoff <- NoBackoff
    DeviceLostCooldown = 0
    CrashResetAfter = 0
    ResetMerge = 0
    CountCap = 1
    AgeCap = 0
    Scenarios = {"plain", "power"}
    CooldownEvents = {}
SPECIFICATION MCSpec
SYMMETRY Symmetry
INVARIANTS TypeOK OneRuntime IdleMeansReleased GateOnlyWhenServing NoOrphanRequest ConfigConverges StopsAccountedFor
PROPERTIES Refines SafetyClosesGate
CHECK_DEADLOCK FALSE
