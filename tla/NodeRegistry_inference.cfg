SPECIFICATION Spec
CONSTANTS
    Ids = {w1, w2}
    CheckInterval = 2
    SilenceLimit = 3
    MaxMissed = 5
    BeatInterval = 2
    BackoffMax = 4
    CallTime = 1
    AttemptTime = 1
    MaxAttempts = 2
    MaxRetries = 3
    Tasks = {"inference", "start_engine"}
    Outage = 1
    MayRestart = TRUE
    SilenceBound = 14
PROPERTY InferenceIsDispatched
