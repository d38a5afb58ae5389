SPECIFICATION MCSpec
CONSTANTS
    Clusters <- Provided
    Contended = {}
    MaxFaults = 1
    MaxEdits = 0
PROPERTY UsersKept
CHECK_DEADLOCK FALSE
