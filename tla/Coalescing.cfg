SPECIFICATION FairSpec
CONSTANTS
    Keys = {k1, k2}
    Window = 2
    Size = 1
    Workers = 2
    Requeues = {0, 5}
    MaxBackoff = 4
    Nil = Nil
INVARIANTS TypeOK NoEventLost DelayBounded
PROPERTIES Debounced EventuallyProcessed
