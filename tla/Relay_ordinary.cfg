SPECIFICATION Spec
CONSTANTS
    Requests <- One
    PoolSize = 1
    Tries = 2
    Modes = {"buffered", "piped"}
    Kinds <- KindsOf
    MaxChunks <- UpToThree
PROPERTY OrdinaryNotRetried
