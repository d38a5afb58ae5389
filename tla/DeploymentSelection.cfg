SPECIFICATION SelectionSpec
CONSTANTS
    Machines = {m1, m2, m3}
    Nil = Nil
    InputStatuses <- MCStatuses
    InputStrategies <- MCStrategies
    MaxDesired = 3
INVARIANTS DisruptionBounded SelectionOrdered SelectionProgresses
CHECK_DEADLOCK FALSE
