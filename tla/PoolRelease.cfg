SPECIFICATION MCSpec
CONSTANTS
    Models = {m1, m2}
    Capacities = {1, 3}
    MaxSurge = 1
    MaxOps = 3
    MaxFaults = 0
    MaxEdits = 0
    OpsMayFail = FALSE
PROPERTY ReleasedAfterDelete
CHECK_DEADLOCK FALSE
