SPECIFICATION MCSpec
CONSTANTS
    Machines = {1, 2, 3, 4, 5}
    Nil = Nil
    Models = {image1, image2}
    Replicas = {1, 2}
    PoolStrategies <- BothOldest
    MaxEdits = 1
    MaxFaults = 1
INVARIANT RolloutInv
PROPERTIES OutdatedInstancesFirst DeletedMachinesGo RolloutCompletes
