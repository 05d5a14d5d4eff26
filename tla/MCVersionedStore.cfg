SPECIFICATION Spec
CONSTANTS
    c1 = c1
    c2 = c2
    v1 = v1
    v2 = v2
    Clients <- MCClients
    Values <- MCValues
    Namespaces = {cell}
    Names = {agent}
    NoValue = NoValue
    Pruner = pruner
    Keep = 2
    VersionBound = 4
SYMMETRY Symmetric
INVARIANT Isolation
PROPERTY AtomicSpec
CHECK_DEADLOCK FALSE
