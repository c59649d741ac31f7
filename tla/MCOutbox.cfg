CONSTANTS
    NumRows = 2
    Workers = {w1, w2}
    Handlers = {h1}
    Limit = 1
    ClaimTimeout = 1
    JobTimeout = 1
    MaxNow = 2
    MaxJobs = 2
    MaxFaults = 1
    MaxApprovals = 1
SPECIFICATION FairSpec
INVARIANT TypeOK
INVARIANT DeliveriesAccountedFor
INVARIANT HeldClaimIsFresh
INVARIANT SoleHolder
INVARIANT HonestOutcome
PROPERTY ImplementsDelivery
PROPERTY FirstBatchIsServed
PROPERTY StaleClaimIsRecovered
CHECK_DEADLOCK FALSE
