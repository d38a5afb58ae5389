SPECIFICATION MCSpec
CONSTANTS
    Clusters <- AllClusters
    Contended = {"lbNode", "nsgControlPlane"}
    MaxFaults = 1
    MaxEdits = 2
PROPERTIES FinalizerProtects OthersKept BecomesReady DeletionCompletes
CHECK_DEADLOCK FALSE
