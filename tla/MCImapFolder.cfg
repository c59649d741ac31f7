CONSTANTS
    MaxUid = 2
    MaxValidity = 2
    RefreshEvery = 2
    MaxChanges = 2
    MaxActions = 1
    MaxFaults = 1
SPECIFICATION FairSpec
INVARIANT NoMessageMissed
INVARIANT NoFlagMissed
PROPERTY CopyFollows
