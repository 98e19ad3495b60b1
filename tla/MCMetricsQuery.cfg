SPECIFICATION Spec
CONSTANTS
    Clients = {c1, c2}
    Environments = {e1, e2}
    AnyEnvironment = any
    Queried = {e1, any}
    Intervals = {i1}
    Bucket = 3
    Threshold = 1
    Quantum = 2
    DefaultWindow = 6
    ResponseTtl = 1
    RollupTtl = 1
    MaxRollupBuckets = 500
    Start = 3
    Horizon = 4
    PastRolledUpTo = 0
    PastEnvironments = {e1}
    PastFrom = 1
    PastUntil = 3
    Past <- MCPast
    WindowFrom = 0
    WindowTo = 4
    Windows <- MCWindows
    NewSpans = {s1}
    Delays = {4}
    MaxIndex = 1
    MaxFaults = 1
    MaxRequests = 2
SYMMETRY MCSymmetry
CHECK_DEADLOCK FALSE
INVARIANTS
    TypeOK
    CountsOnce
    CountsOnlyAsked
    CountsWhatItMust
