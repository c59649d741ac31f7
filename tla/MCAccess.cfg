CONSTANTS
    Handlers = {h1, h2}
    FailLimit = 1
    SendLimit = 1
    MaxSessions = 2
    MaxChanges = 2
SYMMETRY Interchangeable
SPECIFICATION Spec
INVARIANT TypeOK
INVARIANT ChangeEndsSessions
INVARIANT SessionsAreIndexed
INVARIANT GuessesBounded
INVARIANT AllowanceBounded
CHECK_DEADLOCK FALSE
