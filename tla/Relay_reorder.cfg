SPECIFICATION Spec
CONSTANTS
    Requests <- One
    PoolSize = 1
    Tries = 1
    Modes = {"stream"}
    Kinds <- KindsOf
    MaxChunks <- UpToThree
INVARIANT AlwaysInOrder
