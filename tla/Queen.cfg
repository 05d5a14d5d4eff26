CONSTANTS
    Specs = {s1}
    Visible = {s1}
    Procs = {p1, p2, p3, p4, p5, p6}
    MaxReplicas = 2
    Capacity = 3
    WatchCapacity = 1
    Absent = Absent
    NoSpec = NoSpec
    NoProc = NoProc
    ChangeBound = 2
    FailBound = 1
    RemoveBound = 1
    CrashBound = 1
SPECIFICATION FairSpec
INVARIANTS NoOvershoot NoOvercommit
 
CHECK_DEADLOCK FALSE
