SPECIFICATION FairSpec
CONSTANTS
    Instances = {c1}
    logs = logs
    spans = spans
    Partitions <- MCPartitions
    NoOne = NoOne
    Log <- MCNullLog
    MaxFaults = 0
CHECK_DEADLOCK FALSE
PROPERTY
    ConsumesEverything
