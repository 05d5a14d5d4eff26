SPECIFICATION Spec
CONSTANTS
    c1 = c1
    c2 = c2
    Clients <- MCClients
    Values = {v}
    Namespaces = {cellA, cellB}
    Names = {agent}
    NoValue = NoValue
    Pruner = pruner
    Keep = 1
    VersionBound = 2
    Watchers = {w}
    Capacity = 1
    None = None
INVARIANTS  OwnNamespaceOnly
SYMMETRY Symmetric
CHECK_DEADLOCK FALSE
