SPECIFICATION FairSpec
CONSTANTS
    Light = {l1, l2, l3}
    Heavy = {h1, h2}
    Documents <- MCDocuments
    Size <- MCSize
    MaxBatchSize = 2
    MaxBatchBytes = 3
    MaxParallelFlushes = 2
CHECK_DEADLOCK FALSE
INVARIANTS
    TypeOK
    NoLostWakeup
    FullBufferWaitsForSlot
    ParallelBound
    EachDocumentInOnePlace
PROPERTIES
    OversizedOnlyAfterStall
    ImplementsSink
    DrainTerminates
