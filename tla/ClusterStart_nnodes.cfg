SPECIFICATION Spec
CONSTANTS
    Workers <- TwoWorkers
    MaxPolls = 2
    MaxAttempts = 2
    MaxRestarts = 1
    Losses <- AllFates
    ClientStarts = TRUE
PROPERTY NnodesIsTotal
