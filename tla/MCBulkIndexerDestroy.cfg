SPECIFICATION Spec
CONSTANTS
    Light = {l1, l2}
    Heavy = {h1}
    Documents <- MCDocuments
    Size <- MCSize
    MaxBatchSize = 2
    MaxBatchBytes = 3
    MaxParallelFlushes = 2
CHECK_DEADLOCK FALSE
PROPERTIES
    DestroyWaitsForFlushes
