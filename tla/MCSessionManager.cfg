SPECIFICATION FairSpec
CONSTANTS
    c1 = c1
    c2 = c2
    Sessions = {s1}
    Callers <- MCCallers
    Monitor = monitor
    NoSession = none
    IdleAfter = 1
    Timeout = 2
    MaxDuration = 3
    RestartBound = 1
INVARIANTS TrackedIsLive MessageIsRecorded
PROPERTY LifetimeEnds
CHECK_DEADLOCK FALSE
