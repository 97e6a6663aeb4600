SPECIFICATION GwSpec
CONSTANTS
    Requests = {r1, r2, r3}
    G0Cap = 1
    G1Cap = 0
    Settings <- DropsElseRefuses
PROPERTY FullMeansFull
CHECK_DEADLOCK FALSE
