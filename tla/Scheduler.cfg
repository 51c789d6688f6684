CONSTANTS
    Schedules = {s1, s2}
    Ticks = {t1}
    Editors = {e1}
    Timings = {1, 2}
    Idle = Idle
    MaxTime = 3
    MaxEdits = 1
    MaxFaults = 1
SPECIFICATION FairSpec
INVARIANTS
    TypeOK
    EnabledHasNextRun
    OneRunPerFiring
PROPERTIES
    NoBackfill
    DueIsDealtWith
CHECK_DEADLOCK FALSE
