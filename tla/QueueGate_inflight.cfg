SPECIFICATION GwSpec
CONSTANTS
    Requests = {r1, r2, r3}
    G0Cap <- Gate0
    G1Cap <- Gate1
    Settings <- Deployed
INVARIANT InFlightBounded
CHECK_DEADLOCK FALSE
