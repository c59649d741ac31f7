CONSTANTS
    f1 = f1
    i1 = i1
    Folders = {f1, f2}
    Items = {i1, i2}
    None = None
    Held <- MCHeld
    MaxEvents = 3
SPECIFICATION FairSpec
INVARIANT LinkTellsTruth
INVARIANT NothingForgotten
PROPERTY FollowedFoldersAgree
CHECK_DEADLOCK FALSE
