SPECIFICATION GwFairSpec
CONSTANTS
    Requests = {r1, r2, r3, r4}
    G0Cap = 1
    G1Cap = 0
    Settings <- Blocks
PROPERTY AlwaysAnswered
CHECK_DEADLOCK FALSE
