SPECIFICATION FairSpec
CONSTANTS
    Instances = {a1}
    Services = {s1}
    Environments = {e1}
    Lookback = 1
    MaxServiceBuckets = 1
    MaxEnvironmentBuckets = 1
    StartBucket = 1
    Horizon = 3
    MaxSpans = 1
    MaxIndex = 0
    MaxFaults = 2
PROPERTIES
    CatchesUp
