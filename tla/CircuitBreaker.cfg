CONSTANTS
    Requests = {r1, r2}
    Asking = {r1}
    Breakers = {b1, b2, b3}
    NoBreaker = NoBreaker
    NoRequest = NoRequest
    FailureThreshold = 2
    MaxFailures = 3
    ForgetBound = 1
    LossBound = 1
    RetryBound = 1
SPECIFICATION FairBreakerSpec
INVARIANTS CountMatchesState 
PROPERTIES OpensUnderFailure Recovers
CHECK_DEADLOCK FALSE
