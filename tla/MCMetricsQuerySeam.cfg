SPECIFICATION Spec
CONSTANTS
    Clients = {c1}
    Environments = {e1}
    AnyEnvironment = any
    Queried = {e1}
    Intervals = {i1}
    Bucket = 3
    Threshold = 2
    Quantum = 2
    DefaultWindow = 6
    ResponseTtl = 2
    RollupTtl = 3
    MaxRollupBuckets = 500
    Start = 14
    Horizon = 15
    PastRolledUpTo = 12
    PastEnvironments = {e1}
    PastFrom = 3
    PastUntil = 14
    Past <- MCPast
    WindowFrom = 4
    WindowTo = 13
    Windows <- MCWindows
    NewSpans = {s1}
    Delays = {0, 4}
    MaxIndex = 0
    MaxFaults = 0
    MaxRequests = 2
CHECK_DEADLOCK FALSE
INVARIANTS
    MissesAtMostOneBucket
