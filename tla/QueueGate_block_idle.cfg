SPECIFICATION GwSpec
CONSTANTS
    Requests = {r1, r2, r3}
    G0Cap = 1
    G1Cap = 0
    Settings <- Blocks
INVARIANT NobodyWaitsIdly
CHECK_DEADLOCK FALSE
