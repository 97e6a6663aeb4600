SPECIFICATION Spec
CONSTANTS
    Ids = {w1}
    CheckInterval = 2
    SilenceLimit = 3
    MaxMissed = 60
    BeatInterval = 2
    BackoffMax = 20
    CallTime = 2
    AttemptTime = 2
    MaxAttempts = 30
    MaxRetries = 3
    Tasks = {}
    Outage = 0
    MayRestart = FALSE
    SilenceBound = 130
INVARIANT SilentIsRemoved
