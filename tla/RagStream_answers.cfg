SPECIFICATION FairSpec
CONSTANTS
    Chunks = 3
    MaxResults = 2
    CombineMayFail = FALSE
INVARIANTS InOrder DoneIsLast CombinesEverything
PROPERTY DoneIsSent
