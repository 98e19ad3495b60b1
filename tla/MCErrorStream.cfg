SPECIFICATION FairSpec
CONSTANTS
    Instances = {e1, e2}
    Clients = {c1}
    NoOne = NoOne
    ErrorParts = {p1}
    MaxEnds = 2
    MaxLogs = 3
INVARIANTS
    TypeOK
    CommittedWasPushed
PROPERTIES
    FirstPushInOrder
    OnlyProcessShowsAll
