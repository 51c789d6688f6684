CONSTANTS
    Runs = {r1}
    Pipelines = {p1}
    Workers = {w1}
    NoJob = NoJob
    Locked = TRUE
    MaxEvents = 1
    MaxErrors = 1
    FaultKinds = {"crash"}
    MaxFaults = 1
SPECIFICATION FairSpec
PROPERTIES
    EveryRunSettles
