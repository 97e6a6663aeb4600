SPECIFICATION FairSpec
CONSTANTS
    Requests <- Two
    PoolSize = 1
    Tries = 2
    Modes = {"stream", "piped", "buffered"}
    Kinds <- KindsOf
    MaxChunks <- UpToThree
INVARIANTS ConnectionsReturned RepeatedWhenRefused NothingLost InOrder
PROPERTY WaitsAreBounded
