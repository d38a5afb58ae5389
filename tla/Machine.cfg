SPECIFICATION Spec
CONSTANTS
    m1 = m1
    m2 = m2
    Machines = {m1, m2}
    SkuNames = {"D2", "B1", "Odd", "Aligned", "none"}
    Zones = {"1", "2"}
    Catalog <- AllLocations
    Setups <- AllSetups
    NumPorts = 2
    MaxFaults = 1
INVARIANT MachineInv
PROPERTIES FinalizerProtects LossHandled EventuallyProvisioned DeletionCompletes
CHECK_DEADLOCK FALSE
