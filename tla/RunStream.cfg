CONSTANTS
    Clients = {c1}
    Requests = {q1}
    MaxEvents = 2
    MaxErrors = 1
    MaxForeign = 1
    MaxPolls = 2
SPECIFICATION Spec
INVARIANTS
    TypeOK
    GotIsPrefix
    DoneIsComplete
    DetailIsComplete
PROPERTIES
    ImplementsLiveLog
CHECK_DEADLOCK FALSE
