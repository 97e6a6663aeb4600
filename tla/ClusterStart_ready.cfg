SPECIFICATION Spec
CONSTANTS
    Workers <- TwoWorkers
    MaxPolls = 2
    MaxAttempts = 2
    MaxRestarts = 0
    Losses = {"delivered"}
    ClientStarts = FALSE
INVARIANT AllTold
