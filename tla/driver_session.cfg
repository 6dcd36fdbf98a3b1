SPECIFICATION FairSpec
CONSTANTS
    MaxQueue = 2
    MaxSessions = 2
    MaxEvents = 3
INVARIANTS
    TypeOK
    ThreadsAreContained
    PressIsKept
    SleepFollows
PROPERTIES
    CleanupReturns
