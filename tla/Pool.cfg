SPECIFICATION MCSpec
CONSTANTS
    Models = {m1, m2}
    Capacities = {1, 3}
    MaxSurge = 1
    MaxOps = 3
    MaxFaults = 1
    MaxEdits = 1
    OpsMayFail = TRUE
INVARIANT VMSSGuarded
PROPERTIES NoResurrection ScaleSetPreserved DeletionCompletes EventuallyProvisioned
CHECK_DEADLOCK FALSE
