SPECIFICATION CombSpec
CONSTANTS
    c1 = c1
    c2 = c2
    m1 = m1
    Clients <- MCClients
    Plain = {k1}
    Messages = {m1}
    Artifacts = {a1}
    States = {s1, s2}
    Strings <- MCStrings
    digit = digit
    Digit = digit
    Limits = {3}
    Unlimited = Unlimited
    CallBound = 6
SYMMETRY Symmetric
INVARIANTS  ListedIsStored
PROPERTY WithinLimit
CHECK_DEADLOCK FALSE
