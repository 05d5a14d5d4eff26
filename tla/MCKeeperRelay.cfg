CONSTANTS
    r1 = r1
    r2 = r2
    Requests = {r1, r2}
    Cost <- MCCost
    Invalid = {r2}
    QueueSize = 1
    MaxRetries = 2
    MaxPosts = 2
    SessionHive = hive
    NoMessage = NoMessage
    NoHive = NoHive
    Ticks = 2
    FailBound = 2
    RequestsPerMinute = 1
    TicksPerSecond = 2
    PerRequest = 0
    PerSession = 1
    PerMinute = 2
SPECIFICATION FairSpec
INVARIANTS AcceptedInOrder PublishedWithinBudget  AdmittedWithinRate
PROPERTY AcceptedIsHandled
CHECK_DEADLOCK FALSE
