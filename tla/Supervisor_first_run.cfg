SPECIFICATION Spec
CONSTANTS
    Procs <- Both
    CrashThreshold = 3
    MaxBackoff = 6
    CountBound = 3
    SpawnMayFail = FALSE
PROPERTY StableRunForgiven
