CONSTANTS
    Runs = {r1, r2}
    Pipelines = {p1, p2}
    Workers = {w1, w2}
    NoJob = NoJob
    Locked = TRUE
    MaxEvents = 2
    MaxErrors = 2
    FaultKinds = {"api", "crash", "raise", "cancel"}
    MaxFaults = 2
SYMMETRY Perms
SPECIFICATION Spec
INVARIANTS
    TypeOK
    LogsOnce
    TerminalIsComplete
    ExecutionInv
PROPERTIES
    TerminalIsFinal
