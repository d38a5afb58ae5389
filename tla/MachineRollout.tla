---------------------------- MODULE MachineRollout ----------------------------
(***************************************************************************)
(* A rolling update: the AzureMachinePool controller, which patches the    *)
(* scale set and picks machines to delete, the AzureMachinePoolMachine     *)
(* controllers, which report on one instance each and delete it, and the   *)
(* scale set they share in Azure.                                          *)
(*                                                                         *)
(* AzureMachinePool models how one operation on the scale set is started   *)
(* and polled; here an operation is only running or done, and the model is *)
(* about the machines.                                                     *)
(***************************************************************************)
EXTENDS DeploymentStrategy

CONSTANTS
    Models,      \* images an instance may run
    Replicas,    \* replica counts the MachinePool may ask for
    PoolStrategies, \* deployment strategies the pool may have
    MaxEdits,    \* bound: edits of the image or the replica count
    MaxFaults    \* bound: lost responses, failed instances and lost nodes

ASSUME InstanceAssumption == Machines \subseteq Nat \ {0}
ASSUME ReplicasAssumption == Replicas # {} /\ Replicas \subseteq Nat
ASSUME StrategyAssumption == PoolStrategies # {} /\ PoolStrategies \subseteq Strategies
ASSUME BoundsAssumption ==
    /\ Models # {} /\ MaxEdits \in Nat /\ MaxFaults \in Nat

VARIABLES
    spec,      \* desired image and replica count, and the strategy
    vmss,      \* Azure: model and capacity of the scale set
    op,        \* the operation recorded in the pool: none, running or done
    inst,      \* Azure: the instances, numbered in the order Azure adds them
    node,      \* the node each instance has in the workload cluster
    ampm,      \* the AzureMachinePoolMachine of each instance
    scope,     \* pool controller: what it has fetched, Nil when idle
    edits, faults

azure == <<vmss, inst>>
vars  == <<spec, azure, op, node, ampm, scope, edits, faults>>

-----------------------------------------------------------------------------
(* Data *)

InstanceStates == {"none", "Creating", "Succeeded", "Failed", "Deleting"}
Nodes == {"absent", "NotReady", "Ready"}

\* An AzureMachinePoolMachine; "gone" is removed or not yet created.
AMPMs == [phase : {"gone", "live", "deleted"}, lro : BOOLEAN,
          ready : BOOLEAN, latestModelApplied : BOOLEAN,
          state : (InstanceStates \cup {""}) \ {"none"}, created : Nat]

NoMachine == [phase |-> "gone", lro |-> FALSE, ready |-> FALSE,
              latestModelApplied |-> FALSE, state |-> "", created |-> 0]

Specs == [model : Models, replicas : Replicas, strategy : PoolStrategies]

TypeOK ==
    /\ spec \in Specs
    /\ vmss \in [model : Models, capacity : Nat]
    /\ op \in {"none", "running", "done"}
    /\ inst \in [Machines -> [state : InstanceStates, model : Models]]
    /\ node \in [Machines -> Nodes]
    /\ ampm \in [Machines -> AMPMs]
    /\ scope \in {Nil} \cup [instances : SUBSET Machines, replicas : Replicas]
    /\ edits \in 0..MaxEdits /\ faults \in 0..MaxFaults

Instances == {m \in Machines : inst[m].state # "none"}
Existing  == {m \in Machines : ampm[m].phase # "gone"}

\* A pool that has been at rest with the image and the replicas asked for.
Init ==
    /\ spec \in Specs
    /\ vmss = [model |-> spec.model, capacity |-> spec.replicas]
    /\ op = "none"
    /\ LET First == {m \in Machines : m <= spec.replicas}
       IN  /\ inst = [m \in Machines |->
                        [state |-> IF m \in First THEN "Succeeded" ELSE "none",
                         model |-> spec.model]]
           /\ node = [m \in Machines |-> IF m \in First THEN "Ready" ELSE "absent"]
           /\ ampm = [m \in Machines |->
                        IF m \in First
                        THEN [phase |-> "live", lro |-> FALSE, ready |-> TRUE,
                              latestModelApplied |-> TRUE, state |-> "Succeeded",
                              created |-> m]
                        ELSE NoMachine]
    /\ scope = Nil
    /\ edits = 0 /\ faults = 0

-----------------------------------------------------------------------------
(* The user and Azure *)

Edit(s) ==
    /\ edits < MaxEdits
    /\ s # spec /\ s.strategy = spec.strategy
    /\ spec' = s
    /\ edits' = edits + 1
    /\ UNCHANGED <<azure, op, node, ampm, scope, faults>>

Fault == faults < MaxFaults /\ faults' = faults + 1

\* Instances that count towards the capacity, and the number of the next one.
Counted  == {m \in Machines : inst[m].state \notin {"none", "Deleting"}}
Unused   == {m \in Machines : inst[m].state = "none" /\ ampm[m].phase = "gone"
                                /\ \A n \in Instances \cup Existing : n < m}

\* A running operation adds an instance, running the model of the scale set.
ScaleOut ==
    /\ op = "running" /\ Cardinality(Counted) < vmss.capacity
    /\ \E m \in Unused :
        /\ \A n \in Unused : m <= n
        /\ inst' = [inst EXCEPT ![m] = [state |-> "Creating", model |-> vmss.model]]
    /\ UNCHANGED <<spec, vmss, op, node, ampm, scope, edits, faults>>

\* A PATCH that lowers the capacity lets Azure choose whom to remove.
ScaleIn(m) ==
    /\ op = "running" /\ Cardinality(Counted) > vmss.capacity
    /\ m \in Counted
    /\ inst' = [inst EXCEPT ![m].state = "none"]
    /\ node' = [node EXCEPT ![m] = "absent"]
    /\ UNCHANGED <<spec, vmss, op, ampm, scope, edits, faults>>

OperationDone ==
    /\ op = "running" /\ Cardinality(Counted) = vmss.capacity
    /\ op' = "done"
    /\ UNCHANGED <<spec, azure, node, ampm, scope, edits, faults>>

InstanceStarts(m) ==
    /\ inst[m].state = "Creating"
    /\ \/ /\ inst' = [inst EXCEPT ![m].state = "Succeeded"]
          /\ UNCHANGED faults
       \/ Fault /\ inst' = [inst EXCEPT ![m].state = "Failed"]
    /\ UNCHANGED <<spec, vmss, op, node, ampm, scope, edits>>

\* The instance of an accepted DELETE is gone, and its node with it.
InstanceDeleted(m) ==
    /\ inst[m].state = "Deleting"
    /\ inst' = [inst EXCEPT ![m].state = "none"]
    /\ node' = [node EXCEPT ![m] = "absent"]
    /\ UNCHANGED <<spec, vmss, op, ampm, scope, edits, faults>>

NodeJoins(m) ==
    /\ inst[m].state = "Succeeded" /\ node[m] = "absent"
    /\ node' = [node EXCEPT ![m] = "Ready"]
    /\ UNCHANGED <<spec, azure, op, ampm, scope, edits, faults>>

NodeFails(m) ==
    /\ node[m] = "Ready"
    /\ Fault
    /\ node' = [node EXCEPT ![m] = "NotReady"]
    /\ UNCHANGED <<spec, azure, op, ampm, scope, edits>>

-----------------------------------------------------------------------------
(* The AzureMachinePool controller *)

HasLatestModelApplied(m) == inst[m].model = vmss.model

HasEnoughLatestModelOrNotMixedModel ==
    LET latest == {m \in Instances : HasLatestModelApplied(m)}
    IN  latest = Instances \/ Cardinality(latest) = vmss.capacity

\* Slip: the surge is left out.
WantedCapacityWithoutSurge == spec.replicas

\* Slip: the surge comes on top of the capacity the scale set has.
WantedCapacityGrows ==
    LET surge == Surge(spec.strategy, spec.replicas)
    IN  IF surge > 0 /\ (vmss.model # spec.model
                            \/ ~HasEnoughLatestModelOrNotMixedModel)
        THEN vmss.capacity + surge ELSE spec.replicas

WantedCapacity ==
    LET surge == Surge(spec.strategy, spec.replicas)
    IN  IF surge > 0 /\ (vmss.model # spec.model
                            \/ ~HasEnoughLatestModelOrNotMixedModel)
        THEN spec.replicas + surge ELSE spec.replicas

\* The scale set is patched unless an operation is running, the operation that is
\* done is forgotten, and the instances are fetched for Close.
PoolReconcile ==
    /\ scope = Nil
    /\ IF op = "running" THEN UNCHANGED <<vmss, op>>
       ELSE IF WantedCapacity > vmss.capacity \/ vmss.model # spec.model
       THEN /\ vmss' = [model |-> spec.model, capacity |-> WantedCapacity]
            /\ op' = "running"
       ELSE op' = "none" /\ UNCHANGED vmss
    /\ scope' = [instances |-> Instances, replicas |-> spec.replicas]
    /\ UNCHANGED <<spec, inst, node, ampm, edits, faults>>

\* createMachine, for instances that have no machine yet, in the order in which
\* Azure added these.
Created(m) == [NoMachine EXCEPT !.phase = "live", !.created = m]

\* client.Delete: the finalizer keeps the object.
Deleted(a) == [a EXCEPT !.phase = "deleted"]

\* What Close may delete: machines without an instance, otherwise the selection
\* of the strategy, unless an operation is recorded.  Machines that were just
\* created are not part of it.
ToDelete ==
    IF Existing \ scope.instances # {} THEN {Existing \ scope.instances}
    ELSE IF op # "none" THEN {{}}
    ELSE SelectMachinesToDelete([m \in Existing |-> ampm[m]], spec.strategy, scope.replicas)

\* applyAzureMachinePoolMachines.
PoolApply ==
    /\ scope # Nil
    /\ \E D \in ToDelete :
        ampm' = [m \in Machines |->
                    IF m \in scope.instances \ Existing THEN Created(m)
                    ELSE IF m \in D THEN Deleted(ampm[m])
                    ELSE ampm[m]]
    /\ scope' = Nil
    /\ UNCHANGED <<spec, azure, op, node, edits, faults>>

-----------------------------------------------------------------------------
(* The AzureMachinePoolMachine controllers *)

\* UpdateStatus, with the instance as fetched; a node that was there and is not
\* found counts as one that is not ready.
UpdateStatus(m, state) ==
    [ampm[m] EXCEPT
        !.ready = node[m] = "Ready",
        !.latestModelApplied = inst[m].model = spec.model,
        !.state = state]

\* reconcileNormal; an instance that is being deleted takes the machine along.
MachineReconcile(m) ==
    /\ ampm[m].phase = "live" /\ inst[m].state # "none"
    /\ ampm' = [ampm EXCEPT ![m] =
                    IF inst[m].state = "Deleting" THEN Deleted(UpdateStatus(m, "Deleting"))
                    ELSE UpdateStatus(m, inst[m].state)]
    /\ UNCHANGED <<spec, azure, op, node, scope, edits, faults>>

\* Slip: a DELETE that is answered with a 404 is an error.
MachineDeleteWantsInstance(m) ==
    /\ ampm[m].phase = "deleted" /\ ~ampm[m].lro
    /\ inst[m].state # "none"
    /\ inst' = [inst EXCEPT ![m].state = "Deleting"]
    /\ vmss' = [vmss EXCEPT !.capacity = IF m \in Counted /\ @ > 0 THEN @ - 1 ELSE @]
    /\ \/ /\ ampm' = [ampm EXCEPT ![m] = [UpdateStatus(m, "Deleting") EXCEPT !.lro = TRUE]]
          /\ UNCHANGED faults
       \/ Fault /\ ampm' = [ampm EXCEPT ![m] = UpdateStatus(m, "Deleting")]
    /\ UNCHANGED <<spec, op, node, scope, edits>>

\* reconcileDelete without a recorded operation: an instance that is there is
\* deleted, which lowers the capacity, and the operation is recorded unless the
\* response is lost; an instance that is gone releases the machine.
MachineDelete(m) ==
    /\ ampm[m].phase = "deleted" /\ ~ampm[m].lro
    /\ IF inst[m].state = "none"
       THEN /\ ampm' = [ampm EXCEPT ![m] = NoMachine]
            /\ UNCHANGED <<azure, faults>>
       ELSE /\ inst' = [inst EXCEPT ![m].state = "Deleting"]
            /\ vmss' = [vmss EXCEPT !.capacity =
                            IF m \in Counted /\ @ > 0 THEN @ - 1 ELSE @]
            /\ \/ /\ ampm' = [ampm EXCEPT ![m] =
                                [UpdateStatus(m, "Deleting") EXCEPT !.lro = TRUE]]
                  /\ UNCHANGED faults
               \/ Fault /\ ampm' = [ampm EXCEPT ![m] = UpdateStatus(m, "Deleting")]
    /\ UNCHANGED <<spec, op, node, scope, edits>>

\* reconcileDelete with a recorded operation: the machine is released once that
\* is done, and reports the instance until then.
MachineDeletePoll(m) ==
    /\ ampm[m].phase = "deleted" /\ ampm[m].lro
    /\ ampm' = [ampm EXCEPT ![m] = IF inst[m].state = "none" THEN NoMachine
                                   ELSE UpdateStatus(m, inst[m].state)]
    /\ UNCHANGED <<spec, azure, op, node, scope, edits, faults>>

-----------------------------------------------------------------------------
Azure == \/ ScaleOut \/ OperationDone
         \/ \E m \in Machines : \/ ScaleIn(m) \/ InstanceStarts(m)
                                \/ InstanceDeleted(m) \/ NodeJoins(m)

MachineController(m) == MachineReconcile(m) \/ MachineDelete(m) \/ MachineDeletePoll(m)

Next == \/ Azure
        \/ \E m \in Machines : MachineController(m) \/ NodeFails(m)
        \/ PoolReconcile \/ PoolApply
        \/ \E s \in Specs : Edit(s)

Spec == Init /\ [][Next]_vars

\* The managers requeue what is unfinished and resync all objects; Azure and the
\* nodes make progress.
Fairness ==
    /\ WF_vars(PoolReconcile) /\ WF_vars(PoolApply)
    /\ \A m \in Machines : WF_vars(MachineController(m))
    /\ WF_vars(Azure)

FairSpec == Spec /\ Fairness

-----------------------------------------------------------------------------
(* Properties *)

\* The machine reports, as of its last reconcile, what its instance runs.
ReportsModel(m) == ampm[m].latestModelApplied = (inst[m].model = spec.model)

\* "we are over-provisioned try to remove old models"
\* (machinepool_deployment_strategy.go:173): no instance of the wanted image is
\* picked while the machine of an instance of another image stays, unless one of
\* the two still reports on the image from before an edit.
OutdatedInstancesFirst ==
    [][PoolApply => \A m, n \in Existing :
            (/\ ampm[m].phase = "live" /\ ampm'[m].phase = "deleted"
             /\ inst[m].state \in {"Creating", "Succeeded"} /\ inst[m].model = spec.model
             /\ inst[n].state # "none" /\ inst[n].model # spec.model
             /\ ReportsModel(m) /\ ReportsModel(n))
            => ampm'[n].phase = "deleted"]_vars

\* "the total number of machines running at any time during the update is at most
\* 130% of desired machines" (azuremachinepool_types.go:190).
SurgeBounded ==
    \E r \in Replicas : Cardinality(Counted) <= r + Surge(spec.strategy, r)

\* "already deleted" (scalesetvms.go:126): the machines that are to be deleted all
\* go in the end, whether Azure, a scale-in or a DELETE whose response was lost
\* removed the instance, and also while a lost node holds up the rollout.  Azure
\* is taken to carry out every DELETE it accepts.
DeletedMachinesGo == []<>(\A m \in Machines : ampm[m].phase # "deleted")

\* "The MachinePool upgrades each machine in the pool"
\* (20210222-azure-machinepool-machine.md:103): in the end the pool is at rest
\* with the desired number of instances, all of the wanted image, unless a node
\* stays unready, which keeps the machines of the other image from being picked.
RolledOut ==
    /\ op = "none" /\ vmss.model = spec.model
    /\ Cardinality(Instances) = spec.replicas /\ Existing = Instances
    /\ \A m \in Instances : inst[m].model = spec.model
NodeLost == \E m \in Instances : node[m] = "NotReady"
RolloutCompletes == <>[](RolledOut \/ NodeLost)

\* The invariant of a rollout: its variables keep their types, and no sequence of
\* patches brings the scale set above the surge.
RolloutInv == TypeOK /\ SurgeBounded
=============================================================================
