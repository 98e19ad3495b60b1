SPECIFICATION Spec
CONSTANTS
    Clients = {c1}
    Environments = {e1, e2, e3}
    AnyEnvironment = any
    Queried = {any}
    Intervals = {i1}
    Bucket = 1
    Threshold = 2
    Quantum = 1
    DefaultWindow = 6
    ResponseTtl = 2
    RollupTtl = 3
    MaxRollupBuckets = 500
    Start = 8
    Horizon = 9
    PastRolledUpTo = 8
    PastEnvironments = {e1, e2, e3}
    PastFrom = 0
    PastUntil = 7
    Past <- MCPast
    WindowFrom = 2
    WindowTo = 8
    Windows <- MCWindows
    NewSpans = {s1}
    Delays = {0, 4}
    MaxIndex = 0
    MaxFaults = 0
    MaxRequests = 2
CHECK_DEADLOCK FALSE
INVARIANTS
    CountsWhatItMust
