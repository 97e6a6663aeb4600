SPECIFICATION PodFairSpec
CONSTANTS
    Backends = {"other"}
    PidAlive = FALSE
    FailThreshold = 3
    FailGrace = 2
    StartupGrace = 5
    FailBudget = 4
    SilenceMax = 3
    PidGrace = 1
    TimeoutMax = 2
    ProbeGap = 2
    ScoreBound = 9
    Deployments <- Manifests
    LiveDelay = 4
    LivePeriod = 3
    ReadyDelay = 1
    ReadyPeriod = 1
    DownMax = 1
PROPERTY ReadyBy200
