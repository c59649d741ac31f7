CONSTANTS
    Slots = {s1, s2}
    LockTTL = 1
    QueuedTTL = 1
    WatchTTL = 0
    JobTimeout = 1
    WatchTimeout = 2
    Interval = 1
    Reconnects = 0
    MaxCron = 2
    MaxIdle = 1
    MaxManual = 0
    MaxFaults = 1
SPECIFICATION Spec
SYMMETRY Interchangeable
INVARIANT SoleCycle
INVARIANT OnePendingJob
PROPERTY OnlyInlineOutlivesLock
