SPECIFICATION Spec
CONSTANTS
    Instances = {a1}
    Services = {s1}
    Environments = {e1, e2}
    Lookback = 1
    MaxServiceBuckets = 1
    MaxEnvironmentBuckets = 1
    StartBucket = 1
    Horizon = 3
    MaxSpans = 2
    MaxIndex = 1
    MaxFaults = 2
INVARIANTS
    TypeOK
    RollupCoversOnTimeSpans
PROPERTIES
    CheckpointAdvancesByOne
    NeverReaggregates
SYMMETRY Symmetry
