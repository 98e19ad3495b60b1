SPECIFICATION Spec
CONSTANTS
    Instances = {a1}
    Services = {s1}
    Environments = {e1}
    Lookback = 1
    MaxServiceBuckets = 1
    MaxEnvironmentBuckets = 1
    StartBucket = 1
    Horizon = 2
    MaxSpans = 1
    MaxIndex = 1
    MaxFaults = 1
INVARIANTS
    OneDocumentPerBucket
