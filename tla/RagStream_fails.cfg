SPECIFICATION FairSpec
CONSTANTS
    Chunks = 2
    MaxResults = 1
    CombineMayFail = TRUE
PROPERTY DoneIsSent
