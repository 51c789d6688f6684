CONSTANTS
    Runs = {r1, r2}
    Pipelines = {p1}
    Workers = {w1, w2}
    NoJob = NoJob
    Locked = TRUE
    MaxEvents = 1
    MaxErrors = 1
    FaultKinds = {"crash"}
    MaxFaults = 1
SPECIFICATION FairSpec
PROPERTIES
    SettlesWithoutFaults
    QueuedIsPickedUp
