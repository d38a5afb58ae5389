------------------------- MODULE MCAzureMachinePool -------------------------
(* A pool is either edited once, or deleted, with at most one fault or       *)
(* failure on the way.                                                       *)
EXTENDS AzureMachinePool, FiniteSets

Failures == Cardinality({f \in Futures : ops[f].status = "Failed"})

Calm == edits = 0 /\ faults = 0 /\ Failures = 0 /\ vmss.state # "Failed"

MCNext ==
    \/ Controller \/ CacheSync \/ InfrastructureReady
    \/ \E f \in Futures : OperationSucceeds(f)
    \/ edits = 0 /\ pool.spec.capacity = 1 /\ (DeletePool \/ DeleteCluster)
    \/ Calm /\ \/ \E f \in Futures : OperationFails(f)
               \/ InstanceOperationFails \/ Faults \/ Restart
    \/ Calm /\ ~pool.deleted /\ cluster = [deleted |-> FALSE, groupManaged |-> FALSE]
       /\ \E s \in Specs : s.capacity # pool.spec.capacity /\ EditSpec(s)

\* Models are interchangeable.
MCInit ==
    /\ Init
    /\ pool.spec.model = CHOOSE m \in Models : TRUE
    /\ cluster.groupManaged => pool.spec.capacity = 1

MCSpec == MCInit /\ [][MCNext]_vars /\ Fairness
=============================================================================
