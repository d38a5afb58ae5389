------------------------- MODULE DeploymentSelection -------------------------
(***************************************************************************)
(* One call of SelectMachinesToDelete on every input, and what its answer  *)
(* must satisfy.                                                           *)
(***************************************************************************)
EXTENDS DeploymentStrategy

CONSTANTS
    InputStatuses,   \* statuses of the machines that are passed in
    InputStrategies, \* strategies that are tried
    MaxDesired       \* bound: desired replicas

ASSUME InputStatusesAssumption == InputStatuses \subseteq Statuses
ASSUME InputStrategiesAssumption == InputStrategies \subseteq Strategies
ASSUME MaxDesiredAssumption == MaxDesired \in Nat

VARIABLES
    machines,  \* the map passed in
    strategy,  \* the strategy of the pool
    desired,   \* desired replicas
    selected,  \* the machines returned
    returned   \* whether the call has returned

selectionVars == <<machines, strategy, desired, selected, returned>>

SelectionTypeOK ==
    /\ DOMAIN machines \subseteq Machines
    /\ \A m \in DOMAIN machines : machines[m] \in InputStatuses
    /\ strategy \in InputStrategies
    /\ desired \in 0..MaxDesired
    /\ selected \subseteq DOMAIN machines
    /\ returned \in BOOLEAN

SelectionInit ==
    /\ machines \in UNION {[S -> InputStatuses] : S \in SUBSET Machines}
    /\ strategy \in InputStrategies
    /\ desired \in 0..MaxDesired
    /\ selected = {}
    /\ returned = FALSE

Select ==
    /\ ~returned
    /\ selected' \in SelectMachinesToDelete(machines, strategy, desired)
    /\ returned' = TRUE
    /\ UNCHANGED <<machines, strategy, desired>>

SelectionSpec == SelectionInit /\ [][Select]_selectionVars

-----------------------------------------------------------------------------
(* Properties *)

Ready    == ReadyMachines(machines)
Outdated == MachinesWithoutLatestModel(machines)

\* "ensuring that the total number of machines available at all times during the
\* update is at least 70% of desired machines" (azuremachinepool_types.go:173):
\* the selection leaves desired - maxUnavailable ready machines, or all of them
\* when there are fewer.
DisruptionBounded ==
    LET left   == Cardinality(Ready \ selected)
        wanted == desired - MaxUnavailable(strategy, desired)
    IN  left >= wanted \/ selected \cap Ready = {}

\* A machine that runs the latest model is healthy and selected only when every
\* outdated machine is selected too: an update is not undone by a scale down.
OutdatedFirst ==
    \A m \in selected : machines[m].latestModelApplied /\ m \in Ready
        => Outdated \subseteq selected

\* Among ready machines of the same model the delete policy decides: no machine
\* that the policy orders before a selected one is left.
PolicyRespected ==
    \A m \in Ready \ selected, n \in Ready \cap selected :
        machines[m].latestModelApplied = machines[n].latestModelApplied
            => CASE strategy.deletePolicy = "Oldest" -> machines[m].created >= machines[n].created
                 [] strategy.deletePolicy = "Newest" -> machines[m].created <= machines[n].created
                 [] OTHER -> TRUE

\* A pool that is over-provisioned or holds failed machines always loses one, so
\* repeated reconciliations bring it to the desired count.
SelectionProgresses ==
    returned /\ (Cardinality(Ready) > desired \/ FailedMachines(machines) # {})
        => selected # {}

\* A selection goes through the machines in order: failed ones aside, outdated
\* before current, and within each the order of the delete policy.
SelectionOrdered == SelectionTypeOK /\ OutdatedFirst /\ PolicyRespected
=============================================================================
