CONSTANTS
    Slots = {s1}
    LockTTL = 1
    QueuedTTL = 1
    WatchTTL = 0
    JobTimeout = 1
    WatchTimeout = 2
    Interval = 1
    Reconnects = 1
    MaxCron = 1
    MaxIdle = 1
    MaxManual = 2
    MaxFaults = 1
SPECIFICATION FairSpec
PROPERTY DueAccountIsSynced
PROPERTY WatcherReturns
