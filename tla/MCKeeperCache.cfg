CONSTANTS
    c1 = c1
    c2 = c2
    k1 = k1
    k2 = k2
    k3 = k3
    v1 = v1
    v2 = v2
    Clients <- MCClients
    Keys <- MCKeys
    Values <- MCValues
    Absent = Absent
    NoKey = NoKey
    MaxSize = 1
    ForeignBound = 3
    RequestBound = 6
SPECIFICATION CacheSpec
SYMMETRY Symmetric
INVARIANTS EvictionFrees StaleForAReason
CHECK_DEADLOCK FALSE
