\* Hard thresholds under every mode.
CONSTANTS
    Profiles <- MCProfiles
    Cfg <- MCCfg
    Forever = 99
SPECIFICATION FactSpec
INVARIANTS HardThresholdPreempts
CHECK_DEADLOCK FALSE
