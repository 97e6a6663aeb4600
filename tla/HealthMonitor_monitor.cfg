SPECIFICATION Spec
CONSTANTS
    Backends = {"sglang", "other"}
    PidAlive = FALSE
    FailThreshold = 3
    FailGrace = 3
    StartupGrace = 3
    FailBudget = 6
    SilenceMax = 5
    PidGrace = 2
    TimeoutMax = 2
    ProbeGap = 2
    ScoreBound = 13
INVARIANTS DegradedIs503 NoFalseAlarm
PROPERTIES Detects Recovers
