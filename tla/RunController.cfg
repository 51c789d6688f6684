CONSTANTS
    Runs = {r1, r2}
    Past = {r1}
    MaxLogs = 1
    MaxActs = 3
    MaxFaults = 1
    MaxTrouble = 3
SPECIFICATION Spec
INVARIANTS
    TypeOK
    SettledViewIsTrue
    OwnLogs
PROPERTIES
    ButtonComesBack
CHECK_DEADLOCK FALSE
