SPECIFICATION Spec
CONSTANTS
    NoOne = NoOne
    Documents <- MCDocuments
    Doc <- MCDoc
    NoParent = NoOne
    Queries <- MCQueries
    NoQuery = NoQuery
    Alias <- MCAlias
    NoThreshold = NoThreshold
    NoTime = NoTime
    ShortWindow = 2
    LongWindow = 3
    SpanSize = 2
    LogSize = 1
    EnvLimit = 1
    NumberText <- MCNumberText
    DoubleText <- MCDoubleText
    MaxTime = 2
CHECK_DEADLOCK FALSE
INVARIANTS
    SlowTracesAreSlow
