--------------------------- MODULE MCMachineRollout ---------------------------
(* Pools of one or two replicas that surge by one, or lose one at a time,    *)
(* and whose image or replica count changes once.                           *)
EXTENDS MachineRollout

Absolute(n) == [percent |-> FALSE, value |-> n]
SurgeOldest == [maxSurge |-> Absolute(1), maxUnavailable |-> Absolute(0),
                deletePolicy |-> "Oldest"]
InPlaceOldest == [maxSurge |-> Absolute(0), maxUnavailable |-> Absolute(1),
                  deletePolicy |-> "Oldest"]

BothOldest == {SurgeOldest, InPlaceOldest}

\* Faults happen to pools of one replica.
Bounded == spec.replicas = 2 => faults' = faults

MCNext ==
    \/ Azure /\ Bounded
    \/ \E m \in Machines : MachineController(m) /\ Bounded
    \/ \E m \in Machines : NodeFails(m) /\ Bounded
    \/ PoolReconcile
    \/ PoolApply
    \/ \E s \in Specs : Edit(s)

\* Images are interchangeable.
MCInit == Init /\ spec.model = CHOOSE m \in Models : TRUE

MCSpec == MCInit /\ [][MCNext]_vars /\ Fairness
=============================================================================
