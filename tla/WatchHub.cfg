SPECIFICATION HubSpec
CONSTANTS
    Notifiers = {n1, n2}
    Watchers = {w1, w2}
    Scopes = {cellA, cellB}
    Events = {changed}
    Capacity = 1
    None = None
INVARIANTS  RegisteredIsOpen
PROPERTY NotifierNeverBlocks
CHECK_DEADLOCK FALSE
