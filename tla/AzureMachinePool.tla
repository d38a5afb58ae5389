--------------------------- MODULE AzureMachinePool ---------------------------
(***************************************************************************)
(* One AzureMachinePool object, the controller that reconciles it and the  *)
(* scale set service the controller drives, against the Azure compute API. *)
(*                                                                         *)
(* Azure mutates a scale set through long running operations.  The         *)
(* controller starts one, stores its future in the status of the object    *)
(* (LongRunningOperationState) and polls it in later reconciliations.  The *)
(* object lives in the API server, the controller reads it from a watch    *)
(* cache that may lag, works on a copy and writes back the fields it       *)
(* changed when the scope is closed.  Every call to Azure and every write  *)
(* to the API server is a step of its own, so that the user, Azure and a   *)
(* crash of the process can come between any two of them.                  *)
(***************************************************************************)
EXTENDS Integers

CONSTANTS
    Models,      \* values of the fields VMSS.HasModelChanges compares
    Capacities,  \* replica counts the MachinePool may ask for
    MaxSurge,    \* MachinePoolScope.MaxSurge
    MaxOps,      \* bound: long running operations Azure ever accepts
    MaxFaults,   \* bound: crashes, failed calls and lost responses
    MaxEdits,    \* bound: edits of the desired state by the user
    OpsMayFail   \* whether an accepted operation may end in failure

ASSUME ModelsAssumption == Models # {}
ASSUME CapacitiesAssumption == Capacities # {} /\ Capacities \subseteq Nat
ASSUME BoundsAssumption ==
    /\ MaxSurge \in Nat /\ MaxOps \in Nat
    /\ MaxFaults \in Nat /\ MaxEdits \in Nat /\ OpsMayFail \in BOOLEAN

VARIABLES
    pool,      \* the object in the API server
    cached,    \* the object in the controller's watch cache
    infra,     \* cluster infrastructure ready and bootstrap data available
    cluster,   \* deletion of the Cluster, ownership of the resource group
    vmss,      \* Azure: the scale set
    ops,       \* Azure: the long running operations, by the id in their future
    nops,      \* Azure: operations accepted so far
    pc,        \* controller: what the reconciliation does next
    base,      \* controller: the object as read, what the patch helper diffs with
    obj,       \* controller: the working copy of the object
    fut,       \* controller: the local variable future of Reconcile and Delete
    fetched,   \* controller: fetchedVMSS of scalesets.Service.Reconcile
    vmssState, \* controller: the scale set as MachinePoolScope last saw it
    err,       \* controller: the service call returned an error
    via,       \* controller: how scalesets.Service.Delete concluded
    faults, edits

azure == <<vmss, ops, nops>>
k8s   == <<pool, cached, infra, cluster>>
ctl   == <<pc, base, obj, fut, fetched, vmssState, err, via>>
vars  == <<azure, k8s, ctl, faults, edits>>

-----------------------------------------------------------------------------
(* Data *)

NoFuture == 0
Futures  == 1..MaxOps
OpTypes  == {"PUT", "PATCH", "DELETE"}
OpStatus == {"Unused", "InProgress", "Succeeded", "Failed"}
ProvisioningStates ==
    {"", "Creating", "Updating", "Succeeded", "Failed", "Deleting"}
Specs == [model : Models, capacity : Capacities]

Objects == [exists : BOOLEAN, finalizer : BOOLEAN, deleted : BOOLEAN,
            lro : {NoFuture} \cup Futures, state : ProvisioningStates,
            spec : Specs]

\* A scale set as Azure keeps it and as the client returns it; "exists" is
\* FALSE for a 404 and for a nil pointer.
ScaleSets == [exists : BOOLEAN, model : Models, capacity : Nat,
              state : ProvisioningStates]

NoVMSS == [exists |-> FALSE, model |-> CHOOSE m \in Models : TRUE,
           capacity |-> 0, state |-> ""]

NewObject(s) == [exists |-> TRUE, finalizer |-> FALSE, deleted |-> FALSE,
                 lro |-> NoFuture, state |-> "", spec |-> s]
NoObject == [NewObject(CHOOSE s \in Specs : TRUE) EXCEPT !.exists = FALSE]

SetLongRunningOperationState(o, f) == [o EXCEPT !.lro = f]
AddFinalizer(o)    == [o EXCEPT !.finalizer = TRUE]
RemoveFinalizer(o) == [o EXCEPT !.finalizer = FALSE]
SetProvisioningState(o, st) == [o EXCEPT !.state = st]

PCs == {"idle", "register", "validate", "get", "patch", "create", "poll",
        "deferred", "services", "delete", "deletePoll", "deleteDeferred",
        "close"}

Conclusions == {"none", "future", "async", "absent", "group"}

TypeOK ==
    /\ pool \in Objects /\ cached \in Objects
    /\ infra \in BOOLEAN
    /\ cluster \in [deleted : BOOLEAN, groupManaged : BOOLEAN]
    /\ vmss \in ScaleSets
    /\ ops \in [Futures -> [type : OpTypes, status : OpStatus]]
    /\ nops \in 0..MaxOps
    /\ pc \in PCs
    /\ base \in Objects /\ obj \in Objects
    /\ fut \in {NoFuture} \cup Futures
    /\ fetched \in ScaleSets /\ vmssState \in ScaleSets
    /\ err \in BOOLEAN
    /\ via \in Conclusions
    /\ faults \in 0..MaxFaults /\ edits \in 0..MaxEdits

Init ==
    /\ pool \in {NewObject(s) : s \in Specs} /\ cached = pool
    /\ infra = FALSE
    /\ cluster \in [deleted : {FALSE}, groupManaged : BOOLEAN]
    /\ vmss = NoVMSS
    /\ ops = [f \in Futures |-> [type |-> "PUT", status |-> "Unused"]]
    /\ nops = 0
    /\ pc = "idle" /\ base = NoObject /\ obj = NoObject
    /\ fut = NoFuture /\ fetched = NoVMSS /\ vmssState = NoVMSS
    /\ err = FALSE /\ via = "none"
    /\ faults = 0 /\ edits = 0

-----------------------------------------------------------------------------
(* The Azure compute API.  It runs at most one operation on a scale set.  *)

Running == {f \in Futures : ops[f].status = "InProgress"}
Ended(f, status) == [type |-> ops[f].type, status |-> status]

\* Azure accepts an operation of the given type.  An operation that was still
\* running is preempted, which its future reports as a failure.
Accept(type, v) ==
    /\ nops < MaxOps
    /\ OpsMayFail \/ Running = {}
    /\ nops' = nops + 1
    /\ ops' = [f \in Futures |->
                  IF f = nops + 1 THEN [type |-> type, status |-> "InProgress"]
                  ELSE IF f \in Running THEN Ended(f, "Failed")
                  ELSE ops[f]]
    /\ vmss' = v

\* The scale set once a PUT or PATCH of spec s with the given capacity starts.
Provisioning(s, capacity) ==
    [exists |-> TRUE, model |-> s.model, capacity |-> capacity,
     state |-> IF vmss.exists THEN "Updating" ELSE "Creating"]

\* A running operation ends well: a DELETE removes the scale set.
OperationSucceeds(f) ==
    /\ f \in Running
    /\ ops' = [ops EXCEPT ![f] = Ended(f, "Succeeded")]
    /\ vmss' = IF ops[f].type = "DELETE" THEN NoVMSS
               ELSE SetProvisioningState(vmss, "Succeeded")
    /\ UNCHANGED <<nops, k8s, ctl, faults, edits>>

OperationFails(f) ==
    /\ OpsMayFail
    /\ f \in Running
    /\ ops' = [ops EXCEPT ![f] = Ended(f, "Failed")]
    /\ vmss' = SetProvisioningState(vmss, "Failed")
    /\ UNCHANGED <<nops, k8s, ctl, faults, edits>>

\* An operation on an instance of the scale set fails, which shows in its state.
InstanceOperationFails ==
    /\ OpsMayFail
    /\ vmss.exists /\ vmss.state = "Succeeded"
    /\ vmss' = SetProvisioningState(vmss, "Failed")
    /\ UNCHANGED <<ops, nops, k8s, ctl, faults, edits>>

-----------------------------------------------------------------------------
(* The user, the API server and the process.                              *)

\* The user edits the template or the replica count.
EditSpec(s) ==
    /\ edits < MaxEdits
    /\ pool.exists /\ pool.spec # s
    /\ pool' = [pool EXCEPT !.spec = s]
    /\ edits' = edits + 1
    /\ UNCHANGED <<azure, cached, infra, cluster, ctl, faults>>

\* The user deletes the pool: with a finalizer the object is only marked.
DeletePool ==
    /\ pool.exists /\ ~pool.deleted
    /\ pool' = [pool EXCEPT !.deleted = TRUE, !.exists = pool.finalizer]
    /\ UNCHANGED <<azure, cached, infra, cluster, ctl, faults, edits>>

\* The user deletes the Cluster; Cluster API then deletes the pool.
DeleteCluster ==
    /\ ~cluster.deleted
    /\ cluster' = [cluster EXCEPT !.deleted = TRUE]
    /\ UNCHANGED <<azure, pool, cached, infra, ctl, faults, edits>>

InfrastructureReady ==
    /\ ~infra
    /\ infra' = TRUE
    /\ UNCHANGED <<azure, pool, cached, cluster, ctl, faults, edits>>

\* The watch delivers the latest version of the object to the cache.
CacheSync ==
    /\ cached # pool
    /\ cached' = pool
    /\ UNCHANGED <<azure, pool, infra, cluster, ctl, faults, edits>>

\* Local variables of a reconciliation that is over.
Idle ==
    /\ pc' = "idle"
    /\ base' = NoObject /\ obj' = NoObject
    /\ fut' = NoFuture /\ fetched' = NoVMSS /\ vmssState' = NoVMSS
    /\ err' = FALSE /\ via' = "none"

Fault == faults < MaxFaults /\ faults' = faults + 1

\* The manager process dies and restarts: what was in memory is lost and the
\* cache is filled by a fresh list.
Restart ==
    /\ pc # "idle"
    /\ Fault
    /\ cached' = pool
    /\ Idle
    /\ UNCHANGED <<azure, pool, infra, cluster, edits>>

-----------------------------------------------------------------------------
(* AzureMachinePoolReconciler                                              *)

\* The fields a patch changes: those in which the working copy differs from
\* the object as it was read.  Removing the last finalizer of an object that is
\* marked deleted removes the object.
Patched(o) ==
    LET finalizer == IF o.finalizer # base.finalizer THEN o.finalizer
                     ELSE pool.finalizer
    IN  [pool EXCEPT
            !.finalizer = finalizer,
            !.lro   = IF o.lro # base.lro THEN o.lro ELSE pool.lro,
            !.state = IF o.state # base.state THEN o.state ELSE pool.state,
            !.exists = ~(pool.deleted /\ ~finalizer)]

\* The answers ShouldDeleteIndividualResources may give: individual resources
\* are deleted unless the resource group will be, and when that is unknown
\* because looking the group up failed.
ShouldDeleteIndividualResources ==
    IF cluster.deleted /\ cluster.groupManaged THEN {TRUE, FALSE} ELSE {TRUE}

\* Reconcile reads the object from the cache; a missing object ends it.
Reconcile ==
    /\ pc = "idle" /\ cached.exists
    /\ base' = cached /\ obj' = cached
    /\ pc' = IF cached.deleted THEN "delete" ELSE "register"
    /\ UNCHANGED <<azure, k8s, fut, fetched, vmssState, err, via, faults, edits>>

\* Slip: the finalizer is added to the working copy but not patched.
RegisterFinalizerLate ==
    /\ pc = "register"
    /\ obj' = AddFinalizer(obj)
    /\ pc' = IF ~infra THEN "close" ELSE "validate"
    /\ UNCHANGED <<azure, k8s, base, fut, fetched, vmssState, err, via, faults,
                   edits>>

\* Slip: an error from the patch that registers the finalizer is ignored.
RegisterFinalizerUnchecked ==
    /\ pc = "register"
    /\ obj' = AddFinalizer(obj)
    /\ pool' = IF pool.exists THEN Patched(obj') ELSE pool
    /\ pc' = IF ~infra THEN "close" ELSE "validate"
    /\ UNCHANGED <<azure, cached, infra, cluster, base, fut, fetched, vmssState,
                   err, via, faults, edits>>

\* reconcileNormal registers the finalizer, which fails when the object is
\* gone, and waits for the cluster infrastructure and the bootstrap data.
RegisterFinalizer ==
    /\ pc = "register"
    /\ obj' = AddFinalizer(obj)
    /\ LET failed == ~pool.exists /\ obj' # base
       IN  /\ pool' = IF pool.exists THEN Patched(obj') ELSE pool
           /\ pc' = IF failed \/ ~infra THEN "close" ELSE "validate"
    /\ UNCHANGED <<azure, cached, infra, cluster, base, fut, fetched, vmssState,
                   err, via, faults, edits>>

\* scalesets.Service.validateSpec: an error skips the deferred refresh.
ValidateSpec ==
    /\ pc = "validate"
    /\ \/ pc' = "get" /\ UNCHANGED faults
       \/ pc' = "close" /\ Fault
    /\ UNCHANGED <<azure, k8s, base, obj, fut, fetched, vmssState, err, via, edits>>

\* The scale set service returns to its caller through the deferred refresh.
Return(e) == pc' = "deferred" /\ err' = e

\* What getVirtualMachineScaleSetIfDone makes of a future: the result of a
\* finished operation is the scale set, and a 404 once that is gone.
NotFound(f) == ops[f].status = "Succeeded" /\ ~vmss.exists

\* The service reads the scale set, through the recorded future if there is one.
GetVMSS ==
    /\ pc = "get"
    /\ LET f == obj.lro
       IN  \/ /\ f # NoFuture
              /\ ops[f].status \in {"InProgress", "Failed"}
              /\ Return(TRUE)
              /\ UNCHANGED fetched
           \/ /\ IF f = NoFuture THEN ~vmss.exists ELSE NotFound(f)
              /\ pc' = "create"
              /\ UNCHANGED <<fetched, err>>
           \/ /\ f # NoFuture => ops[f].status = "Succeeded"
                                 /\ ops[f].type # "DELETE"
              /\ vmss.exists
              /\ fetched' = vmss
              /\ pc' = "patch"
              /\ UNCHANGED err
    /\ UNCHANGED <<azure, k8s, base, obj, fut, vmssState, via, faults, edits>>

\* The result of a finished DELETE is an empty scale set.  When a scale set
\* exists again its instances can be listed, and converting the empty result
\* dereferences its nil properties: the process panics.  The deferred refresh
\* and the deferred Close still run before it dies.
Panics ==
    /\ pc = "get"
    /\ obj.lro # NoFuture
    /\ ops[obj.lro] = [type |-> "DELETE", status |-> "Succeeded"]
    /\ vmss.exists

GetVMSSPanics ==
    /\ Panics
    /\ Return(TRUE)
    /\ UNCHANGED <<azure, k8s, base, obj, fut, fetched, vmssState, via, faults,
                   edits>>

\* Slip: any error from reading the scale set is taken for a 404.
CallFailsIsNotFound ==
    /\ Fault
    /\ pc = "get" /\ pc' = "create"
    /\ UNCHANGED <<azure, k8s, base, obj, fut, fetched, vmssState, err, via, edits>>

\* The call to Azure fails: 409, a server error or a timeout.
CallFails ==
    /\ Fault
    /\ \/ pc \in {"get", "patch", "create"} /\ Return(TRUE) /\ UNCHANGED fetched
       \/ pc = "poll" /\ Return(TRUE) /\ fetched' = NoVMSS
       \/ /\ pc = "deletePoll" \/ (pc = "delete" /\
                 (base.deleted => TRUE \in ShouldDeleteIndividualResources))
          /\ pc' = "deleteDeferred" /\ err' = TRUE /\ UNCHANGED fetched
    /\ UNCHANGED <<azure, k8s, base, obj, fut, vmssState, via, edits>>

\* Azure may refuse an operation with 409 while another one is running.
Conflict ==
    /\ Running # {}
    /\ \/ pc \in {"patch", "create"} /\ Return(TRUE)
       \/ /\ pc = "delete" /\ obj.lro = NoFuture
          /\ base.deleted => TRUE \in ShouldDeleteIndividualResources
          /\ pc' = "deleteDeferred" /\ err' = TRUE
    /\ UNCHANGED <<azure, k8s, base, obj, fut, fetched, vmssState, via, faults,
                   edits>>

\* A request Azure accepted: the future is recorded in the object and polled,
\* unless the response is lost, which the caller sees as an error.
Started(next) ==
    \/ /\ obj' = SetLongRunningOperationState(obj, nops') /\ fut' = nops'
       /\ pc' = next
       /\ UNCHANGED <<err, faults>>
    \/ /\ Fault
       /\ pc' = IF next = "poll" THEN "deferred" ELSE "deleteDeferred"
       /\ err' = TRUE
       /\ UNCHANGED <<obj, fut>>

\* createVMSS sends a PUT.
CreateVMSS ==
    /\ pc = "create"
    /\ Accept("PUT", Provisioning(obj.spec, obj.spec.capacity))
    /\ Started("poll")
    /\ UNCHANGED <<k8s, base, fetched, vmssState, via, edits>>

HasModelChanges(infraVMSS, s) == infraVMSS.model # s.model

\* The capacity of the patch surges while instances must be replaced: mixed
\* stands for ~HasEnoughLatestModelOrNotMixedModel, a fact about instances.
PatchCapacity(infraVMSS, s, mixed) ==
    IF MaxSurge > 0 /\ (HasModelChanges(infraVMSS, s) \/ mixed)
    THEN s.capacity + MaxSurge ELSE s.capacity

NeedsPatch(infraVMSS, s, mixed) ==
    \/ PatchCapacity(infraVMSS, s, mixed) > infraVMSS.capacity
    \/ HasModelChanges(infraVMSS, s)

\* patchVMSSIfNeeded sends a PATCH when the model differs or more capacity is
\* wanted; a scale set that is gone by then answers 404.
PatchVMSS ==
    /\ pc = "patch"
    /\ \E mixed \in BOOLEAN :
        /\ NeedsPatch(fetched, obj.spec, mixed)
        /\ IF vmss.exists
           THEN /\ Accept("PATCH", Provisioning(obj.spec,
                             PatchCapacity(fetched, obj.spec, mixed)))
                /\ Started("poll")
           ELSE Return(TRUE) /\ UNCHANGED <<azure, obj, fut, faults>>
    /\ UNCHANGED <<k8s, base, fetched, vmssState, via, edits>>

\* Slip: the finished operation stays recorded.
NothingToPatchKeepsFuture ==
    /\ pc = "patch"
    /\ \E mixed \in BOOLEAN : ~NeedsPatch(fetched, obj.spec, mixed)
    /\ Return(FALSE)
    /\ UNCHANGED <<azure, k8s, base, obj, fut, fetched, vmssState, via, faults,
                   edits>>

\* With nothing to patch there is no local future left: the operation that was
\* recorded, if any, is complete and forgotten.
NothingToPatch ==
    /\ pc = "patch"
    /\ \E mixed \in BOOLEAN : ~NeedsPatch(fetched, obj.spec, mixed)
    /\ obj' = SetLongRunningOperationState(obj, NoFuture)
    /\ Return(FALSE)
    /\ UNCHANGED <<azure, k8s, base, fut, fetched, vmssState, via, faults, edits>>

\* The second getVirtualMachineScaleSetIfDone, on the operation just started.
PollStarted ==
    /\ pc = "poll"
    /\ IF ops[fut].status = "Succeeded" /\ vmss.exists
       THEN /\ fetched' = vmss
            /\ obj' = SetLongRunningOperationState(obj, NoFuture)
            /\ Return(FALSE)
       ELSE /\ fetched' = NoVMSS
            /\ Return(TRUE)
            /\ UNCHANGED obj
    /\ UNCHANGED <<azure, k8s, base, fut, vmssState, via, faults, edits>>

\* The deferred function of Reconcile: the state for the scope is what was
\* fetched or a fresh read, which may itself fail.
DeferredRefresh ==
    /\ pc = "deferred"
    /\ vmssState' = IF fetched.exists THEN fetched ELSE vmss
    /\ pc' = IF err THEN "close" ELSE "services"
    /\ UNCHANGED <<azure, k8s, base, obj, fut, fetched, err, via, faults, edits>>

DeferredRefreshFails ==
    /\ pc = "deferred" /\ ~fetched.exists
    /\ Fault
    /\ pc' = IF err THEN "close" ELSE "services"
    /\ UNCHANGED <<azure, k8s, base, obj, fut, fetched, vmssState, err, via, edits>>

\* The role assignments and extensions services may stop the reconciliation
\* with an error.  A pool whose recorded state is Failed has its scale set
\* deleted, to be created again by a later reconciliation.
OtherServices ==
    /\ pc = "services"
    /\ \/ /\ pc' = IF obj.state = "Failed" THEN "delete" ELSE "close"
          /\ UNCHANGED faults
       \/ pc' = "close" /\ Fault
    /\ UNCHANGED <<azure, k8s, base, obj, fut, fetched, vmssState, err, via, edits>>

-----------------------------------------------------------------------------
(* scalesets.Service.Delete and reconcileDelete                            *)

\* reconcileDelete leaves the scale set to the deletion of the resource group.
LeaveToGroupDelete ==
    /\ pc = "delete" /\ base.deleted
    /\ FALSE \in ShouldDeleteIndividualResources
    /\ obj' = RemoveFinalizer(obj)
    /\ via' = "group"
    /\ pc' = "close"
    /\ UNCHANGED <<azure, k8s, base, fut, fetched, vmssState, err, faults, edits>>

\* A recorded future stands for the deletion, whatever its type.
DeleteRecordedFuture ==
    /\ pc = "delete"
    /\ base.deleted => TRUE \in ShouldDeleteIndividualResources
    /\ obj.lro # NoFuture
    /\ IF ops[obj.lro].status = "Succeeded"
       THEN /\ obj' = SetLongRunningOperationState(obj, NoFuture)
            /\ via' = "future" /\ err' = FALSE
       ELSE /\ err' = TRUE
            /\ UNCHANGED <<obj, via>>
    /\ pc' = "deleteDeferred"
    /\ UNCHANGED <<azure, k8s, base, fut, fetched, vmssState, faults, edits>>

\* Slip: a scale set that is already gone is an error.
DeleteAsyncWantsVMSS ==
    /\ pc = "delete"
    /\ base.deleted => TRUE \in ShouldDeleteIndividualResources
    /\ obj.lro = NoFuture
    /\ IF vmss.exists
       THEN /\ Accept("DELETE", SetProvisioningState(vmss, "Deleting"))
            /\ Started("deletePoll")
       ELSE /\ pc' = "deleteDeferred" /\ err' = TRUE
            /\ UNCHANGED <<azure, obj, fut, faults>>
    /\ UNCHANGED <<k8s, base, fetched, vmssState, via, edits>>

\* DeleteAsync sends a DELETE; a scale set that is gone answers 404.
DeleteAsync ==
    /\ pc = "delete"
    /\ base.deleted => TRUE \in ShouldDeleteIndividualResources
    /\ obj.lro = NoFuture
    /\ IF vmss.exists
       THEN /\ Accept("DELETE", SetProvisioningState(vmss, "Deleting"))
            /\ Started("deletePoll")
            /\ UNCHANGED via
       ELSE /\ pc' = "deleteDeferred" /\ via' = "absent" /\ err' = FALSE
            /\ UNCHANGED <<azure, obj, fut, faults>>
    /\ UNCHANGED <<k8s, base, fetched, vmssState, edits>>

DeletePoll ==
    /\ pc = "deletePoll"
    /\ IF ops[fut].status = "Succeeded"
       THEN /\ obj' = SetLongRunningOperationState(obj, NoFuture)
            /\ via' = "async" /\ err' = FALSE
       ELSE /\ err' = TRUE
            /\ UNCHANGED <<obj, via>>
    /\ pc' = "deleteDeferred"
    /\ UNCHANGED <<azure, k8s, base, fut, fetched, vmssState, faults, edits>>

\* The deferred function of Delete refreshes the state for the scope; after a
\* deletion without error reconcileDelete removes the finalizer.
DeleteDeferred ==
    /\ pc = "deleteDeferred"
    /\ vmssState' = IF vmss.exists THEN vmss ELSE vmssState
    /\ obj' = IF base.deleted /\ ~err THEN RemoveFinalizer(obj) ELSE obj
    /\ pc' = "close"
    /\ UNCHANGED <<azure, k8s, base, fut, fetched, err, via, faults, edits>>

\* setProvisioningStateAndConditions: a scale set that succeeded counts as
\* Updating until the pool has the desired number of ready replicas.
RecordedStates(v) == IF v.state = "Succeeded" THEN {"Succeeded", "Updating"}
                     ELSE {v.state}

\* Close applies the machines, records the provisioning state and patches the
\* object; when the object is gone the patch fails.
Close ==
    /\ pc = "close"
    /\ \E st \in IF vmssState.exists THEN RecordedStates(vmssState) ELSE {obj.state} :
        LET closed == SetProvisioningState(obj, st)
        IN  pool' = IF pool.exists THEN Patched(closed) ELSE pool
    /\ Idle
    /\ UNCHANGED <<azure, cached, infra, cluster, faults, edits>>

\* Applying the machines or the patch fails: nothing of the working copy is kept.
CloseFails ==
    /\ pc = "close"
    /\ Fault
    /\ Idle
    /\ UNCHANGED <<azure, k8s, edits>>

-----------------------------------------------------------------------------
Controller ==
    \/ Reconcile \/ RegisterFinalizer \/ ValidateSpec
    \/ GetVMSS \/ GetVMSSPanics \/ Conflict
    \/ CreateVMSS \/ PatchVMSS \/ NothingToPatch \/ PollStarted
    \/ DeferredRefresh \/ OtherServices
    \/ LeaveToGroupDelete \/ DeleteRecordedFuture \/ DeleteAsync \/ DeletePoll
    \/ DeleteDeferred \/ Close

Faults == CallFails \/ DeferredRefreshFails \/ CloseFails \/ Restart

Azure == \E f \in Futures : OperationSucceeds(f) \/ OperationFails(f)

User == \/ \E s \in Specs : EditSpec(s)
        \/ DeletePool \/ DeleteCluster \/ InfrastructureReady

Next == Controller \/ Faults \/ Azure \/ InstanceOperationFails \/ User \/ CacheSync

Spec == Init /\ [][Next]_vars

\* The manager retries failed requests, requeues unfinished ones and resyncs
\* every object periodically, so an existing object is reconciled again and
\* again; the watch catches up; Azure finishes what it accepted.
Fairness == WF_vars(Controller) /\ WF_vars(CacheSync) /\ WF_vars(Azure)

FairSpec == Spec /\ Fairness

-----------------------------------------------------------------------------
(* Properties *)

\* "Register the finalizer immediately to avoid orphaning Azure resources on
\* delete" (azuremachinepool_controller.go:274): while the object exists, a
\* scale set in Azure is protected by the finalizer.
VMSSGuarded == vmss.exists /\ pool.exists => pool.finalizer

\* Once the object is gone no reconciliation, not even one that works from a
\* stale cache or was under way, brings a scale set into existence.
NoResurrection == [][~pool.exists /\ ~vmss.exists => ~vmss'.exists]_vars

\* "ScaleSet has been deleted" (scalesets.go:174): a pool is released when its
\* scale set is gone, when Azure has accepted a DELETE of it, or when it is left to
\* the deletion of the resource group.
ReleasedAfterDelete ==
    [][pool.exists /\ ~pool'.exists /\ vmss.exists
            => via = "group" \/ vmss.state = "Deleting"]_vars

\* "VMSS already exists ...; update it with a PATCH ... to avoid overwriting
\* fields in networkProfile" (scalesets.go:125): no PUT hits an existing one.
NeverOverwritten ==
    [][vmss.exists /\ nops' > nops => ops'[nops'].type # "PUT"]_vars

\* "Decreases in replica count is handled by deleting AzureMachinePoolMachine
\* instances" (scalesets.go:253): capacity is only taken away by a PATCH that also
\* changes the model.
LoweredOnlyWithModel ==
    [][vmss.exists /\ vmss'.exists /\ vmss'.capacity < vmss.capacity
            => vmss'.model # vmss.model]_vars

\* The bound on operations keeps the controller from sending another one.
OutOfOps == nops = MaxOps /\ (pc = "create" \/ (pc \in {"patch", "delete"} /\ vmss.exists))

NothingFailed == \A f \in Futures : ops[f].status # "Failed"

\* A deleted pool eventually goes away, finalizer and all, unless an operation
\* on its scale set has failed.
DeletionCompletes == pool.deleted ~> (~pool.exists \/ ~NothingFailed \/ OutOfOps)

\* With the infrastructure there and the pool left alone, the scale set
\* eventually runs the desired model at no less than the desired capacity and
\* no operation is left recorded, unless an operation failed or the controller
\* keeps dereferencing the result of a future that has none.
Provisioned ==
    /\ vmss.exists /\ vmss.state = "Succeeded"
    /\ vmss.model = pool.spec.model /\ vmss.capacity >= pool.spec.capacity
    /\ pool.lro = NoFuture
EventuallyProvisioned ==
    <>[](infra /\ ~pool.deleted /\ NothingFailed /\ ~OutOfOps /\ ~Panics) => <>[]Provisioned

\* An existing scale set is neither replaced by a PUT nor shrunk behind the back of
\* the deployment strategy.
ScaleSetPreserved == NeverOverwritten /\ LoweredOnlyWithModel
=============================================================================
