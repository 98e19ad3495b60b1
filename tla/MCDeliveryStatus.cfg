SPECIFICATION Spec
CONSTANTS
    Hex <- MCHex
    Middleware = {"middleware"}
    NanosPerMilli = 2
    Requests = {r1}
    NoBody = NoBody
    Body <- MCBody
    PartitionFor <- MCPartitionFor
    MaxRetries = 1
    MaxFaults = 2
    MaxMishaps = 1
CHECK_DEADLOCK FALSE
INVARIANTS
    ErrorSpansStoredAsErrors
