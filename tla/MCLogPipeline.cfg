SPECIFICATION FairSpec
CONSTANTS
    Instances = {c1, c2}
    logs = logs
    spans = spans
    Partitions <- MCPartitions
    NoOne = NoOne
    Log <- MCLog
    MaxFaults = 1
CHECK_DEADLOCK FALSE
INVARIANTS
    TypeOK
    CommittedIsAccountedFor
    HandledOncePerAssignment
    DocumentsConserved
PROPERTIES
    ConsumesEverything
