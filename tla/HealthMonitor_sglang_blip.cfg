SPECIFICATION Spec
CONSTANTS
    Backends = {"sglang"}
    PidAlive = FALSE
    FailThreshold = 5
    FailGrace = 5
    StartupGrace = 4
    FailBudget = 24
    SilenceMax = 12
    PidGrace = 6
    TimeoutMax = 8
    ProbeGap = 3
    ScoreBound = 48
INVARIANT NoSingleBlip
