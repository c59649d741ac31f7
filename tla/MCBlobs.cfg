CONSTANTS
    Threads = {"t1", "t2", "t3", "t4"}
    Process <- ProcessOf
    MaxPuts = 5
    MaxFaults = 1
    NoInode = NoInode
SPECIFICATION BlobSpec
INVARIANT ReadableIsWhole
INVARIANT FailureIsHarmless
CHECK_DEADLOCK FALSE
