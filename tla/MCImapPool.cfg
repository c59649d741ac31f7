CONSTANTS
    Users = {u1, u2, u3}
    Max = 2
    MaxPools = 2
    MaxFaults = 1
    None = None
SPECIFICATION FairSpec
INVARIANT TypeOK
INVARIANT WithinLimit
INVARIANT ClosedPoolsAreEmpty
PROPERTY BorrowersServed
CHECK_DEADLOCK FALSE
