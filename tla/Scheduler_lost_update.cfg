CONSTANTS
    Schedules = {s1}
    Ticks = {t1}
    Editors = {e1}
    Timings = {2, 3}
    Idle = Idle
    MaxTime = 4
    MaxEdits = 1
    MaxFaults = 1
SPECIFICATION Spec
INVARIANTS
    NextRunMatchesTiming
CHECK_DEADLOCK FALSE
