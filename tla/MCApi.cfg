CONSTANTS
    c1 = c1
    c2 = c2
    h1 = h1
    h2 = h2
    d1 = d1
    d2 = d2
    s1 = s1
    s2 = s2
    Clients <- MCClients
    Hives <- MCHives
    FirstHive = h1
    Drones <- MCDrones
    Stages <- MCStages
    Replicas <- MCReplicas
    NoKey = NoKey
    NoRole = NoRole
    Missing = Missing
    MaxHives = 1
    MaxLetters = 2
    RequestBound = 3
    EventBound = 4
SPECIFICATION FairSpec
INVARIANTS HivesWithinQuota OldestGoesFirst
PROPERTIES  DeletedStays 
CHECK_DEADLOCK FALSE
