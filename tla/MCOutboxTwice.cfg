CONSTANTS
    NumRows = 1
    Workers = {w1, w2}
    Handlers = {h1, h2}
    Limit = 1
    ClaimTimeout = 1
    JobTimeout = 1
    MaxNow = 0
    MaxJobs = 2
    MaxFaults = 0
    MaxApprovals = 1
SPECIFICATION Spec
INVARIANT NeverDeliveredTwice
CHECK_DEADLOCK FALSE
