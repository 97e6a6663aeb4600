SPECIFICATION FairSpec
CONSTANTS
    Procs <- Both
    CrashThreshold = 3
    MaxBackoff = 4
    CountBound = 2
    SpawnMayFail = TRUE
PROPERTIES CrashLoopBacksOff Restarted ShutsDown
