CONSTANTS
    Tiers = {"standard", "complex"}
    RequestCPU = 0
    RequestMemory = 0
    TotalCPU = 1400
    TotalMemory = 4096
    Scalings <- MCScalings
    Latencies = {7, 20}
    Depths = {12}
    Sizes = {0, 1}
    PoolBound = 2
    DisturbanceBound = 1
SPECIFICATION Spec
INVARIANTS  PoolWithinSize  NoProcessLeftBehind
CHECK_DEADLOCK FALSE
