SPECIFICATION FairSpec
CONSTANTS
    Ids = {w1}
    CheckInterval = 2
    SilenceLimit = 3
    MaxMissed = 60
    BeatInterval = 2
    BackoffMax = 20
    CallTime = 2
    AttemptTime = 2
    MaxAttempts = 30
    MaxRetries = 3
    Tasks = {"inference", "start_engine"}
    Outage = 4
    MayRestart = TRUE
    SilenceBound = 130
PROPERTIES NeverRemovedEarly RunningIsKept DeadIsForgotten
