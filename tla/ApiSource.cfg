CONSTANTS
    Fetchers = {f1, f2}
    Permits = 1
    Interval = 2
    RetryMax = 1
    Backoff = 1
    RetryAfter = 3
    MaxPages = 3
    Total = 3
    Configs <- AllConfigs
SPECIFICATION Spec
INVARIANTS
    TypeOK
    RecordsInOrder
    CompleteOrWarned
PROPERTIES
    EveryFetchEnds
