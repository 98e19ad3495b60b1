SPECIFICATION FairSpec
CONSTANTS
    streamProcessor = streamProcessor
    aggregator = aggregator
    logConsumer = logConsumer
    spanConsumer = spanConsumer
    runner = runner
    Processes <- MCProcesses
    Apps <- MCApps
    Host <- MCHost
    Aggregators <- MCAggregators
    StreamOrder <- MCStreamOrder
    MaxFaults = 2
CHECK_DEADLOCK FALSE
INVARIANTS
    TypeOK
    PlanPassedExists
    RefusedOnce
PROPERTY
    AllComeUp
