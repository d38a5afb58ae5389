SPECIFICATION Spec
CONSTANTS
    Pools = {"agentpool0", "agentpool1"}
    DefaultPool = "agentpool0"
    Setups <- AllSetups
    MaxEvents = 1
INVARIANT TypeOK
PROPERTIES FinalizersProtect EndpointsAgree PoolsConverge DeletionCompletes
CHECK_DEADLOCK FALSE
