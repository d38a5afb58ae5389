------------------------ MODULE AzureMachinePoolProofs ------------------------
(***************************************************************************)
(* Safety of the AzureMachinePool controller for all values of the         *)
(* constants: type correctness, the protection of the scale set by the     *)
(* finalizer, what it takes to give the finalizer up, and what requests    *)
(* leave alone in a scale set that exists.                                 *)
(***************************************************************************)
EXTENDS AzureMachinePool, TLAPS

-----------------------------------------------------------------------------
(* The inductive invariant *)

\* Phases of reconcileNormal after the finalizer has been registered.
Provisional ==
    {"validate", "get", "patch", "create", "poll", "deferred", "services"}

\* An object only goes away once deleted, and a finalizer keeps it.
ObjectInv ==
    /\ ~pool.exists => pool.deleted
    /\ pool.exists /\ pool.deleted => pool.finalizer

\* What a stale copy still tells about the object: deletion is final, and a
\* finalizer seen on a copy that is not deleted is still there.
CacheInv ==
    /\ cached.deleted => pool.deleted
    /\ cached.finalizer /\ pool.exists => pool.finalizer
    /\ cached.finalizer /\ ~cached.deleted => pool.exists
    /\ base.deleted => cached.deleted
    /\ base.finalizer /\ pool.exists => pool.finalizer
    /\ base.finalizer /\ ~base.deleted => pool.exists

\* What the controller knows at each point of a reconciliation.
ScopeInv ==
    /\ pc \in Provisional => ~base.deleted /\ pool.exists /\ pool.finalizer
    /\ pc = "register" => ~base.deleted /\ obj = base
    /\ base.finalizer /\ ~obj.finalizer => base.deleted /\ via # "none"
    /\ pc \in Provisional \cup {"idle", "register", "delete", "deletePoll"}
            => via = "none"
    /\ pc = "deleteDeferred" /\ ~err => via # "none"

\* A DELETE of this reconciliation that is done has removed the scale set.
DeleteInv ==
    /\ pc = "deletePoll" =>
        /\ fut \in Futures
        /\ ops[fut].type = "DELETE"
        /\ ops[fut].status = "Succeeded" => ~vmss.exists
    /\ via \in {"async", "absent"} => ~vmss.exists

IndInv == TypeOK /\ ObjectInv /\ CacheInv /\ ScopeInv /\ DeleteInv /\ VMSSGuarded

-----------------------------------------------------------------------------
(* Types *)

LEMMA NoVMSSType == NoVMSS \in ScaleSets
  BY ModelsAssumption DEF NoVMSS, ScaleSets, ProvisioningStates

LEMMA SpecsNonEmpty == \E s \in Specs : TRUE
<1>1. PICK m \in Models, c \in Capacities : TRUE
  BY ModelsAssumption, CapacitiesAssumption
<1>2. [model |-> m, capacity |-> c] \in Specs
  BY DEF Specs
<1> QED BY <1>2

LEMMA NewObjectType == \A s \in Specs : NewObject(s) \in Objects
  BY DEF NewObject, Objects, ProvisioningStates, NoFuture

LEMMA NoObjectType == NoObject \in Objects /\ ~NoObject.finalizer /\ ~NoObject.deleted
<1> DEFINE s == CHOOSE s \in Specs : TRUE
<1>1. s \in Specs
  BY SpecsNonEmpty
<1>2. NewObject(s) \in Objects
  BY <1>1, NewObjectType
<1> QED BY <1>2 DEF NoObject, NewObject, Objects

\* The assignments to an object and to the state of a scale set.
LEMMA ObjectUpdates ==
    ASSUME NEW o \in Objects
    PROVE  /\ \A f \in {NoFuture} \cup Futures :
                    SetLongRunningOperationState(o, f) \in Objects
           /\ AddFinalizer(o) \in Objects /\ RemoveFinalizer(o) \in Objects
           /\ \A st \in ProvisioningStates : SetProvisioningState(o, st) \in Objects
<1>1. ASSUME NEW f \in {NoFuture} \cup Futures
      PROVE  SetLongRunningOperationState(o, f) \in Objects
  BY <1>1 DEF Objects, SetLongRunningOperationState
<1>2. AddFinalizer(o) \in Objects /\ RemoveFinalizer(o) \in Objects
  BY DEF Objects, AddFinalizer, RemoveFinalizer
<1>3. ASSUME NEW st \in ProvisioningStates
      PROVE  SetProvisioningState(o, st) \in Objects
  BY <1>3 DEF Objects, SetProvisioningState
<1> QED BY <1>1, <1>2, <1>3

LEMMA VMSSUpdates ==
    ASSUME NEW v \in ScaleSets, NEW st \in ProvisioningStates
    PROVE  SetProvisioningState(v, st) \in ScaleSets
  BY DEF ScaleSets, SetProvisioningState

LEMMA PatchedType ==
    ASSUME TypeOK, NEW o \in Objects
    PROVE  Patched(o) \in Objects
<1> DEFINE f  == IF o.finalizer # base.finalizer THEN o.finalizer ELSE pool.finalizer
           l  == IF o.lro # base.lro THEN o.lro ELSE pool.lro
           st == IF o.state # base.state THEN o.state ELSE pool.state
           e  == ~(pool.deleted /\ ~f)
<1>1. pool \in Objects
  BY DEF TypeOK
<1>2. f \in BOOLEAN
  BY <1>1 DEF Objects
<1>3. l \in {NoFuture} \cup Futures
  BY <1>1 DEF Objects
<1>4. st \in ProvisioningStates
  BY <1>1 DEF Objects
<1>5. e \in BOOLEAN
  OBVIOUS
<1>6. Patched(o) = [pool EXCEPT !.finalizer = f, !.lro = l, !.state = st, !.exists = e]
  BY Zenon DEF Patched
<1> HIDE DEF f, l, st, e
<1>7. [pool EXCEPT !.finalizer = f, !.lro = l, !.state = st, !.exists = e] \in Objects
  BY <1>1, <1>2, <1>3, <1>4, <1>5 DEF Objects
<1> QED BY <1>6, <1>7

\* The data of a request that Azure accepts.
LEMMA AcceptType ==
    ASSUME TypeOK, NEW type \in OpTypes, NEW v \in ScaleSets, Accept(type, v)
    PROVE  /\ vmss' \in ScaleSets /\ nops' \in Futures
           /\ ops' \in [Futures -> [type : OpTypes, status : OpStatus]]
<1> DEFINE Op == [type : OpTypes, status : OpStatus]
<1>1. nops' \in Futures
  BY BoundsAssumption DEF Accept, TypeOK, Futures
<1>2. [type |-> type, status |-> "InProgress"] \in Op
  BY DEF OpStatus
<1>3. \A f \in Futures : ops[f] \in Op /\ Ended(f, "Failed") \in Op
  BY DEF TypeOK, OpStatus, Ended
<1>4. ops' \in [Futures -> Op]
  <2> HIDE DEF Op
  <2> QED BY <1>2, <1>3 DEF Accept
<1> QED BY <1>1, <1>4 DEF Accept

LEMMA ProvisioningType ==
    ASSUME TypeOK, NEW s \in Specs, NEW c \in Nat
    PROVE  Provisioning(s, c) \in ScaleSets
  BY DEF Provisioning, Specs, ScaleSets, ProvisioningStates

LEMMA PatchCapacityType ==
    ASSUME NEW infraVMSS \in ScaleSets, NEW s \in Specs, NEW mixed \in BOOLEAN
    PROVE  PatchCapacity(infraVMSS, s, mixed) \in Nat
<1>1. s.capacity \in Nat
  BY CapacitiesAssumption DEF Specs
<1>2. MaxSurge \in Nat
  BY BoundsAssumption
<1> QED BY <1>1, <1>2 DEF PatchCapacity

LEMMA EndedType ==
    ASSUME TypeOK, NEW f \in Futures, NEW status \in {"Succeeded", "Failed"}
    PROVE  [ops EXCEPT ![f] = Ended(f, status)]
                \in [Futures -> [type : OpTypes, status : OpStatus]]
  BY DEF TypeOK, OpStatus, Ended

LEMMA FaultType ==
    ASSUME TypeOK, Fault
    PROVE  faults' \in 0..MaxFaults
  BY BoundsAssumption DEF TypeOK, Fault

LEMMA IdleType ==
    ASSUME Idle
    PROVE  /\ pc' \in PCs /\ base' \in Objects /\ obj' \in Objects
           /\ fut' \in {NoFuture} \cup Futures
           /\ fetched' \in ScaleSets /\ vmssState' \in ScaleSets
           /\ err' \in BOOLEAN /\ via' \in Conclusions
  BY NoObjectType, NoVMSSType DEF Idle, PCs, Conclusions

LEMMA StartedType ==
    ASSUME TypeOK, nops' \in Futures,
           NEW next \in {"poll", "deletePoll"}, Started(next)
    PROVE  /\ obj' \in Objects /\ fut' \in {NoFuture} \cup Futures
           /\ pc' \in PCs /\ err' \in BOOLEAN /\ faults' \in 0..MaxFaults
<1>1. SetLongRunningOperationState(obj, nops') \in Objects
  BY ObjectUpdates DEF TypeOK
<1> QED BY <1>1, FaultType DEF TypeOK, Started, PCs

LEMMA TypeInit == Init => TypeOK
<1> SUFFICES ASSUME Init PROVE TypeOK
  OBVIOUS
<1>1. pool \in Objects /\ cached \in Objects
  BY NewObjectType DEF Init
<1>2. ops \in [Futures -> [type : OpTypes, status : OpStatus]]
  BY DEF Init, OpTypes, OpStatus
<1>3. /\ nops \in 0..MaxOps /\ faults \in 0..MaxFaults /\ edits \in 0..MaxEdits
  BY BoundsAssumption DEF Init
<1>4. cluster \in [deleted : BOOLEAN, groupManaged : BOOLEAN]
  BY DEF Init
<1> QED BY <1>1, <1>2, <1>3, <1>4, NoObjectType, NoVMSSType
        DEF Init, TypeOK, PCs, Conclusions

LEMMA TypeStep == TypeOK /\ [Next]_vars => TypeOK'
<1> SUFFICES ASSUME TypeOK, [Next]_vars PROVE TypeOK'
  OBVIOUS
<1> USE DEF vars, azure, k8s, ctl
<1>1. CASE Reconcile
  BY <1>1 DEF Reconcile, TypeOK, PCs
<1>2. CASE RegisterFinalizer
  <2>1. obj' \in Objects
    BY <1>2, ObjectUpdates DEF RegisterFinalizer, TypeOK
  <2>2. Patched(obj') \in Objects
    BY <2>1, PatchedType
  <2> QED BY <1>2, <2>1, <2>2 DEF RegisterFinalizer, TypeOK, PCs
<1>3. CASE ValidateSpec
  BY <1>3, FaultType DEF ValidateSpec, TypeOK, PCs
<1>4. CASE GetVMSS
  BY <1>4 DEF GetVMSS, Return, TypeOK, PCs
<1>5. CASE GetVMSSPanics
  BY <1>5 DEF GetVMSSPanics, Panics, Return, TypeOK, PCs
<1>6. CASE Conflict
  BY <1>6 DEF Conflict, Return, TypeOK, PCs
<1>7. CASE CreateVMSS
  <2>1. obj.spec \in Specs /\ obj.spec.capacity \in Nat
    BY CapacitiesAssumption DEF TypeOK, Objects, Specs
  <2>2. Provisioning(obj.spec, obj.spec.capacity) \in ScaleSets
    BY <2>1, ProvisioningType
  <2>3. /\ vmss' \in ScaleSets /\ nops' \in Futures
        /\ ops' \in [Futures -> [type : OpTypes, status : OpStatus]]
    BY <1>7, <2>2, AcceptType DEF CreateVMSS, OpTypes
  <2>4. /\ obj' \in Objects /\ fut' \in {NoFuture} \cup Futures
        /\ pc' \in PCs /\ err' \in BOOLEAN /\ faults' \in 0..MaxFaults
    BY <1>7, <2>3, StartedType DEF CreateVMSS
  <2> QED BY <1>7, <2>3, <2>4, BoundsAssumption DEF CreateVMSS, TypeOK, Futures
<1>8. CASE PatchVMSS
  <2>1. PICK mixed \in BOOLEAN :
          IF vmss.exists
          THEN /\ Accept("PATCH", Provisioning(obj.spec,
                           PatchCapacity(fetched, obj.spec, mixed)))
               /\ Started("poll")
          ELSE Return(TRUE) /\ UNCHANGED <<azure, obj, fut, faults>>
    BY <1>8 DEF PatchVMSS
  <2>2. CASE vmss.exists
    <3>1. obj.spec \in Specs /\ fetched \in ScaleSets
      BY DEF TypeOK, Objects
    <3>2. Provisioning(obj.spec, PatchCapacity(fetched, obj.spec, mixed)) \in ScaleSets
      BY <3>1, PatchCapacityType, ProvisioningType
    <3>3. /\ vmss' \in ScaleSets /\ nops' \in Futures
          /\ ops' \in [Futures -> [type : OpTypes, status : OpStatus]]
      BY <2>1, <2>2, <3>2, AcceptType DEF OpTypes
    <3>4. /\ obj' \in Objects /\ fut' \in {NoFuture} \cup Futures
          /\ pc' \in PCs /\ err' \in BOOLEAN /\ faults' \in 0..MaxFaults
      BY <2>1, <2>2, <3>3, StartedType
    <3> QED BY <1>8, <3>3, <3>4, BoundsAssumption DEF PatchVMSS, TypeOK, Futures
  <2>3. CASE ~vmss.exists
    BY <1>8, <2>1, <2>3 DEF PatchVMSS, Return, TypeOK, PCs
  <2> QED BY <2>2, <2>3
<1>9. CASE NothingToPatch
  BY <1>9, ObjectUpdates DEF NothingToPatch, Return, TypeOK, PCs
<1>10. CASE PollStarted
  BY <1>10, NoVMSSType, ObjectUpdates DEF PollStarted, Return, TypeOK, PCs
<1>11. CASE DeferredRefresh
  BY <1>11 DEF DeferredRefresh, TypeOK, PCs
<1>12. CASE OtherServices
  BY <1>12, FaultType DEF OtherServices, TypeOK, PCs
<1>13. CASE LeaveToGroupDelete
  BY <1>13, ObjectUpdates DEF LeaveToGroupDelete, TypeOK, PCs, Conclusions
<1>14. CASE DeleteRecordedFuture
  BY <1>14, ObjectUpdates DEF DeleteRecordedFuture, TypeOK, PCs, Conclusions
<1>15. CASE DeleteAsync
  <2>1. CASE vmss.exists
    <3>1. SetProvisioningState(vmss, "Deleting") \in ScaleSets
      BY VMSSUpdates DEF TypeOK, ProvisioningStates
    <3>2. /\ vmss' \in ScaleSets /\ nops' \in Futures
          /\ ops' \in [Futures -> [type : OpTypes, status : OpStatus]]
      BY <1>15, <2>1, <3>1, AcceptType DEF DeleteAsync, OpTypes
    <3>3. /\ obj' \in Objects /\ fut' \in {NoFuture} \cup Futures
          /\ pc' \in PCs /\ err' \in BOOLEAN /\ faults' \in 0..MaxFaults
      BY <1>15, <2>1, <3>2, StartedType DEF DeleteAsync
    <3> QED BY <1>15, <2>1, <3>2, <3>3, BoundsAssumption
            DEF DeleteAsync, TypeOK, Futures
  <2>2. CASE ~vmss.exists
    BY <1>15, <2>2 DEF DeleteAsync, TypeOK, PCs, Conclusions
  <2> QED BY <2>1, <2>2
<1>16. CASE DeletePoll
  BY <1>16, ObjectUpdates DEF DeletePoll, TypeOK, PCs, Conclusions
<1>17. CASE DeleteDeferred
  BY <1>17, ObjectUpdates DEF DeleteDeferred, TypeOK, PCs
<1>18. CASE Close
  <2>1. pool' \in Objects
    <3>1. ASSUME NEW st \in ProvisioningStates
          PROVE  Patched(SetProvisioningState(obj, st)) \in Objects
      <4>1. SetProvisioningState(obj, st) \in Objects
        BY ObjectUpdates DEF TypeOK
      <4> QED BY <4>1, PatchedType
    <3>2. obj.state \in ProvisioningStates /\ RecordedStates(vmssState) \subseteq ProvisioningStates
      BY DEF TypeOK, Objects, ScaleSets, RecordedStates, ProvisioningStates
    <3> QED BY <1>18, <3>1, <3>2 DEF Close, TypeOK
  <2> QED BY <1>18, <2>1, IdleType DEF Close, TypeOK
<1>19. CASE CallFails
  BY <1>19, FaultType, NoVMSSType DEF CallFails, Return, TypeOK, PCs
<1>20. CASE DeferredRefreshFails
  BY <1>20, FaultType DEF DeferredRefreshFails, TypeOK, PCs
<1>21. CASE CloseFails
  BY <1>21, FaultType, IdleType DEF CloseFails, TypeOK
<1>22. CASE Restart
  BY <1>22, FaultType, IdleType DEF Restart, TypeOK
<1>23. ASSUME NEW f \in Futures, OperationSucceeds(f) \/ OperationFails(f)
       PROVE  TypeOK'
  <2>1. ops' \in [Futures -> [type : OpTypes, status : OpStatus]]
    BY <1>23, EndedType DEF OperationSucceeds, OperationFails
  <2>2. vmss' \in ScaleSets
    BY <1>23, NoVMSSType, VMSSUpdates
    DEF OperationSucceeds, OperationFails, TypeOK, ProvisioningStates
  <2> QED BY <1>23, <2>1, <2>2 DEF OperationSucceeds, OperationFails, TypeOK
<1>24. CASE InstanceOperationFails
  BY <1>24, VMSSUpdates DEF InstanceOperationFails, TypeOK, ProvisioningStates
<1>25. ASSUME NEW s \in Specs, EditSpec(s) PROVE TypeOK'
  <2>1. pool' \in Objects
    BY <1>25 DEF EditSpec, TypeOK, Objects
  <2>2. edits' \in 0..MaxEdits
    BY <1>25, BoundsAssumption DEF EditSpec, TypeOK
  <2> QED BY <1>25, <2>1, <2>2 DEF EditSpec, TypeOK
<1>26. CASE DeletePool
  <2>1. pool' \in Objects
    BY <1>26 DEF DeletePool, TypeOK, Objects
  <2> QED BY <1>26, <2>1 DEF DeletePool, TypeOK
<1>27. CASE DeleteCluster
  BY <1>27 DEF DeleteCluster, TypeOK
<1>28. CASE InfrastructureReady
  BY <1>28 DEF InfrastructureReady, TypeOK
<1>29. CASE CacheSync
  BY <1>29 DEF CacheSync, TypeOK
<1>30. CASE UNCHANGED vars
  BY <1>30 DEF TypeOK
<1> QED
  BY <1>1, <1>2, <1>3, <1>4, <1>5, <1>6, <1>7, <1>8, <1>9, <1>10, <1>11, <1>12,
     <1>13, <1>14, <1>15, <1>16, <1>17, <1>18, <1>19, <1>20, <1>21, <1>22,
     <1>23, <1>24, <1>25, <1>26, <1>27, <1>28, <1>29, <1>30
  DEF Next, Controller, Faults, Azure, User

\* Every variable keeps its type: futures name operations Azure accepted and
\* counters stay within their bounds.
THEOREM TypeCorrect == Spec => []TypeOK
<1>1. Init => TypeOK
  BY TypeInit
<1>2. TypeOK /\ [Next]_vars => TypeOK'
  BY TypeStep
<1> QED BY <1>1, <1>2, PTL DEF Spec

-----------------------------------------------------------------------------
(* Safety *)

\* The fields of objects and scale sets that the assignments leave alone.
LEMMA FinalizerOf ==
    ASSUME NEW o \in Objects
    PROVE  /\ \A f : SetLongRunningOperationState(o, f).finalizer = o.finalizer
           /\ \A st : SetProvisioningState(o, st).finalizer = o.finalizer
           /\ AddFinalizer(o).finalizer /\ ~RemoveFinalizer(o).finalizer
<1>1. ASSUME NEW f PROVE SetLongRunningOperationState(o, f).finalizer = o.finalizer
  BY DEF Objects, SetLongRunningOperationState
<1>2. ASSUME NEW st PROVE SetProvisioningState(o, st).finalizer = o.finalizer
  BY DEF Objects, SetProvisioningState
<1>3. AddFinalizer(o).finalizer /\ ~RemoveFinalizer(o).finalizer
  BY DEF Objects, AddFinalizer, RemoveFinalizer
<1> QED BY <1>1, <1>2, <1>3

LEMMA ExistenceOf ==
    /\ ~NoVMSS.exists
    /\ \A v \in ScaleSets, st \in ProvisioningStates :
            SetProvisioningState(v, st).exists = v.exists
<1>1. ~NoVMSS.exists
  BY DEF NoVMSS
<1>2. ASSUME NEW v \in ScaleSets, NEW st \in ProvisioningStates
      PROVE  SetProvisioningState(v, st).exists = v.exists
  BY DEF ScaleSets, SetProvisioningState
<1> QED BY <1>1, <1>2

\* What a patch does to the object.
LEMMA PatchedFields ==
    ASSUME TypeOK, NEW o \in Objects
    PROVE  /\ Patched(o).deleted = pool.deleted
           /\ Patched(o).finalizer = IF o.finalizer # base.finalizer
                                     THEN o.finalizer ELSE pool.finalizer
           /\ Patched(o).exists = ~(pool.deleted /\ ~Patched(o).finalizer)
  BY DEF TypeOK, Patched, Objects

LEMMA AcceptedOperation ==
    ASSUME TypeOK, NEW type \in OpTypes, NEW v \in ScaleSets, Accept(type, v)
    PROVE  /\ nops' \in Futures /\ vmss' = v
           /\ ops'[nops'].type = type /\ ops'[nops'].status = "InProgress"
<1>1. nops' \in Futures /\ nops' = nops + 1 /\ vmss' = v
  BY AcceptType DEF Accept
<1>2. ops'[nops'] = [type |-> type, status |-> "InProgress"]
  BY <1>1 DEF Accept
<1> QED BY <1>1, <1>2

\* IndInv holds in every reachable state; the parts that are not types are
\* about the object, its copies and the scale set only.
THEOREM Inductive == Spec => []IndInv
<1>1. Init => IndInv
  <2> SUFFICES ASSUME Init PROVE IndInv
    OBVIOUS
  <2>1. TypeOK
    BY TypeInit
  <2>2. ~vmss.exists /\ ~base.finalizer /\ ~base.deleted
    BY NoObjectType DEF Init, NoVMSS
  <2>3. pool.exists /\ ~pool.deleted /\ ~pool.finalizer /\ cached = pool
    <3>1. PICK s \in Specs : pool = NewObject(s)
      BY DEF Init
    <3> QED BY <3>1 DEF Init, NewObject
  <2> QED BY <2>1, <2>2, <2>3
          DEF Init, IndInv, ObjectInv, CacheInv, ScopeInv, DeleteInv, VMSSGuarded,
              Provisional
<1>2. IndInv /\ [Next]_vars => IndInv'
  <2> SUFFICES ASSUME IndInv, [Next]_vars PROVE IndInv'
    OBVIOUS
  <2> USE DEF vars, azure, k8s, ctl
  <2>0. TypeOK /\ TypeOK'
    BY TypeStep DEF IndInv
  <2> DEFINE Rest == ObjectInv /\ CacheInv /\ ScopeInv /\ DeleteInv /\ VMSSGuarded
  <2> SUFFICES Rest'
    BY <2>0 DEF IndInv
  <2> USE <2>0 DEF IndInv, ObjectInv, CacheInv, ScopeInv, DeleteInv, VMSSGuarded, Provisional
  <2>1. CASE Reconcile
    BY <2>1 DEF Reconcile
  <2>2. CASE RegisterFinalizer
    BY <2>2 DEF RegisterFinalizer, Patched, AddFinalizer, TypeOK, Objects
  <2>3. CASE ValidateSpec
    BY <2>3 DEF ValidateSpec
  <2>4. CASE GetVMSS
    BY <2>4 DEF GetVMSS, Return
  <2>5. CASE GetVMSSPanics
    BY <2>5 DEF GetVMSSPanics, Panics, Return
  <2>6. CASE Conflict
    BY <2>6 DEF Conflict, Return
  <2>7. CASE CreateVMSS
    <3>1. obj'.finalizer = obj.finalizer /\ pc' \in {"poll", "deferred"}
      BY <2>7, FinalizerOf DEF CreateVMSS, Started, TypeOK
    <3> QED BY <2>7, <3>1 DEF CreateVMSS
  <2>8. CASE PatchVMSS
    <3>1. obj'.finalizer = obj.finalizer /\ pc' \in {"poll", "deferred"}
      BY <2>8, FinalizerOf DEF PatchVMSS, Started, Return, TypeOK
    <3> QED BY <2>8, <3>1 DEF PatchVMSS
  <2>9. CASE NothingToPatch
    BY <2>9, FinalizerOf DEF NothingToPatch, Return, TypeOK
  <2>10. CASE PollStarted
    BY <2>10, FinalizerOf DEF PollStarted, Return, TypeOK
  <2>11. CASE DeferredRefresh
    BY <2>11 DEF DeferredRefresh
  <2>12. CASE OtherServices
    BY <2>12 DEF OtherServices
  <2>13. CASE LeaveToGroupDelete
    BY <2>13 DEF LeaveToGroupDelete
  <2>14. CASE DeleteRecordedFuture
    BY <2>14, FinalizerOf DEF DeleteRecordedFuture, TypeOK
  <2>15. CASE DeleteAsync
    <3>1. CASE vmss.exists
      <4>1. /\ SetProvisioningState(vmss, "Deleting") \in ScaleSets
            /\ SetProvisioningState(vmss, "Deleting").exists
        BY <3>1, VMSSUpdates, ExistenceOf DEF TypeOK, ProvisioningStates
      <4>2. /\ vmss'.exists /\ nops' \in Futures
            /\ ops'[nops'].type = "DELETE" /\ ops'[nops'].status = "InProgress"
        BY <2>15, <3>1, <4>1, AcceptedOperation DEF DeleteAsync, OpTypes
      <4>3. /\ obj'.finalizer = obj.finalizer
            /\ \/ pc' = "deletePoll" /\ fut' = nops'
               \/ pc' = "deleteDeferred" /\ err'
        BY <2>15, <3>1, FinalizerOf DEF DeleteAsync, Started, TypeOK
      <4> QED BY <2>15, <3>1, <4>2, <4>3 DEF DeleteAsync
    <3>2. CASE ~vmss.exists
      BY <2>15, <3>2 DEF DeleteAsync
    <3> QED BY <3>1, <3>2
  <2>16. CASE DeletePoll
    BY <2>16, FinalizerOf DEF DeletePoll, TypeOK
  <2>17. CASE DeleteDeferred
    BY <2>17 DEF DeleteDeferred
  <2>18. CASE Close
    <3>1. PICK st \in ProvisioningStates :
            pool' = IF pool.exists THEN Patched(SetProvisioningState(obj, st)) ELSE pool
      BY <2>18 DEF Close, TypeOK, Objects, ScaleSets, RecordedStates, ProvisioningStates
    <3> DEFINE o == SetProvisioningState(obj, st)
    <3>2. o \in Objects /\ o.finalizer = obj.finalizer
      BY ObjectUpdates, FinalizerOf DEF TypeOK
    <3>3. /\ Patched(o).deleted = pool.deleted
          /\ Patched(o).finalizer = IF obj.finalizer # base.finalizer
                                    THEN obj.finalizer ELSE pool.finalizer
          /\ Patched(o).exists = ~(pool.deleted /\ ~Patched(o).finalizer)
      BY <3>2, PatchedFields
    <3>4. pool.exists => \/ pool'.exists /\ pool'.deleted = pool.deleted
                             /\ (pool.finalizer => pool'.finalizer)
                         \/ ~pool'.exists /\ pool'.deleted /\ base.deleted
      <4> SUFFICES ASSUME pool.exists
                   PROVE  \/ pool'.exists /\ pool'.deleted = pool.deleted
                             /\ (pool.finalizer => pool'.finalizer)
                          \/ ~pool'.exists /\ pool'.deleted /\ base.deleted
        OBVIOUS
      <4>1. pool' = Patched(o)
        BY <3>1
      <4> HIDE DEF o
      <4>2. obj.finalizer \in BOOLEAN /\ base.finalizer \in BOOLEAN
        BY DEF TypeOK, Objects
      <4>3. CASE base.finalizer /\ ~obj.finalizer
        BY <3>3, <4>1, <4>3
      <4>4. CASE ~(base.finalizer /\ ~obj.finalizer)
        BY <3>3, <4>1, <4>2, <4>4
      <4> QED BY <4>3, <4>4
    <3>5. ~pool.exists => pool' = pool
      BY <3>1
    <3> HIDE DEF o
    <3> QED BY <2>18, <3>3, <3>4, <3>5, NoObjectType DEF Close, Idle
  <2>19. CASE CallFails
    BY <2>19 DEF CallFails, Return
  <2>20. CASE DeferredRefreshFails
    BY <2>20 DEF DeferredRefreshFails
  <2>21. CASE CloseFails
    BY <2>21, NoObjectType DEF CloseFails, Idle
  <2>22. CASE Restart
    BY <2>22, NoObjectType DEF Restart, Idle
  <2>23. ASSUME NEW f \in Futures, OperationSucceeds(f) \/ OperationFails(f)
         PROVE  Rest'
    <3>1. vmss'.exists => vmss.exists
      BY <2>23, ExistenceOf
      DEF OperationSucceeds, OperationFails, TypeOK, ProvisioningStates
    <3>2. ASSUME fut \in Futures, ops[fut].type = "DELETE",
                 ops[fut].status = "Succeeded" => ~vmss.exists
          PROVE  ops'[fut].type = "DELETE" /\ (ops'[fut].status = "Succeeded" => ~vmss'.exists)
      <4>1. CASE fut # f
        BY <2>23, <3>1, <3>2, <4>1 DEF OperationSucceeds, OperationFails, TypeOK
      <4>2. CASE fut = f
        BY <2>23, <3>2, <4>2, ExistenceOf
        DEF OperationSucceeds, OperationFails, Ended, TypeOK
      <4> QED BY <4>1, <4>2
    <3> QED BY <2>23, <3>1, <3>2 DEF OperationSucceeds, OperationFails
  <2>24. CASE InstanceOperationFails
    BY <2>24 DEF InstanceOperationFails
  <2>25. ASSUME NEW s \in Specs, EditSpec(s) PROVE Rest'
    BY <2>25 DEF EditSpec, TypeOK, Objects
  <2>26. CASE DeletePool
    BY <2>26 DEF DeletePool, TypeOK, Objects
  <2>27. CASE DeleteCluster
    BY <2>27 DEF DeleteCluster
  <2>28. CASE InfrastructureReady
    BY <2>28 DEF InfrastructureReady
  <2>29. CASE CacheSync
    BY <2>29 DEF CacheSync
  <2>30. CASE UNCHANGED vars
    BY <2>30
  <2> QED
    BY <2>1, <2>2, <2>3, <2>4, <2>5, <2>6, <2>7, <2>8, <2>9, <2>10, <2>11, <2>12,
       <2>13, <2>14, <2>15, <2>16, <2>17, <2>18, <2>19, <2>20, <2>21, <2>22,
       <2>23, <2>24, <2>25, <2>26, <2>27, <2>28, <2>29, <2>30
    DEF Next, Controller, Faults, Azure, User
<1> QED BY <1>1, <1>2, PTL DEF Spec

\* While the AzureMachinePool exists, its scale set is protected by the
\* finalizer that reconcileNormal registers before it calls Azure.
THEOREM Guarded == Spec => []VMSSGuarded
<1>1. IndInv => VMSSGuarded
  BY DEF IndInv
<1> QED BY <1>1, Inductive, PTL

\* A scale set is only created where the finalizer is known to be registered,
\* so never for an object that is gone, however stale the copy worked on.
THEOREM NothingResurrected == Spec => NoResurrection
<1> DEFINE A == ~pool.exists /\ ~vmss.exists => ~vmss'.exists
<1>1. IndInv /\ [Next]_vars => [A]_vars
  <2> SUFFICES ASSUME IndInv, Next, ~pool.exists, ~vmss.exists PROVE ~vmss'.exists
    OBVIOUS
  <2> USE DEF vars, azure, k8s, ctl
  <2>1. CASE CreateVMSS
    BY <2>1 DEF CreateVMSS, IndInv, ScopeInv, Provisional
  <2>2. CASE PatchVMSS
    BY <2>2 DEF PatchVMSS
  <2>3. CASE DeleteAsync
    BY <2>3 DEF DeleteAsync
  <2>4. ASSUME NEW f \in Futures, OperationSucceeds(f) \/ OperationFails(f)
        PROVE  ~vmss'.exists
    BY <2>4, ExistenceOf
    DEF OperationSucceeds, OperationFails, IndInv, TypeOK, ProvisioningStates
  <2>5. CASE InstanceOperationFails
    BY <2>5 DEF InstanceOperationFails
  <2>6. CASE UNCHANGED vmss
    BY <2>6
  <2> QED
    BY <2>1, <2>2, <2>3, <2>4, <2>5, <2>6
    DEF Next, Controller, Faults, Azure, User, Reconcile, RegisterFinalizer,
        ValidateSpec, GetVMSS, GetVMSSPanics, Conflict, NothingToPatch, PollStarted,
        DeferredRefresh, OtherServices, LeaveToGroupDelete, DeleteRecordedFuture,
        DeletePoll, DeleteDeferred, Close, CallFails, DeferredRefreshFails,
        CloseFails, Restart, EditSpec, DeletePool, DeleteCluster,
        InfrastructureReady, CacheSync
<1> QED BY <1>1, Inductive, PTL DEF Spec, NoResurrection

-----------------------------------------------------------------------------
(* What happens to an existing scale set *)

\* A PUT is only prepared for a scale set that does not exist, and a PATCH from
\* a read that still tells its model and capacity: nobody else sends requests.
RequestInv ==
    /\ pc = "create" => ~vmss.exists
    /\ pc = "patch" /\ vmss.exists
            => fetched.model = vmss.model /\ fetched.capacity = vmss.capacity

NoOverwrite == vmss.exists /\ nops' > nops => ops'[nops'].type # "PUT"
NotLowered ==
    vmss.exists /\ vmss'.exists /\ vmss'.capacity < vmss.capacity
        => vmss'.model # vmss.model

\* Outside of the three requests Azure accepts nothing, and a scale set only
\* changes its state or goes.
LEMMA Quiet ==
    ASSUME TypeOK, [Next]_vars, ~CreateVMSS, ~PatchVMSS, ~DeleteAsync
    PROVE  /\ nops' = nops
           /\ vmss'.exists => /\ vmss.exists
                              /\ vmss'.model = vmss.model /\ vmss'.capacity = vmss.capacity
<1> USE DEF vars, azure, k8s, ctl
<1> DEFINE Goal == /\ nops' = nops
                   /\ vmss'.exists => /\ vmss.exists
                                      /\ vmss'.model = vmss.model /\ vmss'.capacity = vmss.capacity
<1> SUFFICES Goal
  OBVIOUS
<1>1. ASSUME NEW f \in Futures, OperationSucceeds(f) \/ OperationFails(f) PROVE Goal
  BY <1>1, ExistenceOf
  DEF OperationSucceeds, OperationFails, SetProvisioningState, TypeOK, ScaleSets, ProvisioningStates
<1>2. CASE InstanceOperationFails
  BY <1>2 DEF InstanceOperationFails, SetProvisioningState, TypeOK, ScaleSets
<1>3. CASE UNCHANGED <<vmss, nops>>
  BY <1>3
<1> HIDE DEF Goal
<1>4. CASE Controller
  BY <1>3, <1>4
  DEF Controller, Reconcile, RegisterFinalizer,
      ValidateSpec, GetVMSS, GetVMSSPanics, Conflict, NothingToPatch, PollStarted,
      DeferredRefresh, OtherServices, LeaveToGroupDelete, DeleteRecordedFuture,
      DeletePoll, DeleteDeferred, Close
<1>5. CASE Faults \/ User \/ CacheSync
  BY <1>3, <1>5
  DEF Faults, User, CallFails, DeferredRefreshFails, CloseFails, Restart, EditSpec,
      DeletePool, DeleteCluster, InfrastructureReady, CacheSync
<1>6. CASE Azure
  BY <1>1, <1>6 DEF Azure
<1>7. CASE UNCHANGED vars
  BY <1>3, <1>7
<1> QED BY <1>2, <1>4, <1>5, <1>6, <1>7 DEF Next

\* The reconciliation comes to a request only by reading the scale set.
LEMMA Prepared ==
    ASSUME TypeOK, [Next]_vars, pc' \in {"create", "patch"}
    PROVE  \/ UNCHANGED <<pc, fetched>>
           \/ pc' = "create" /\ ~vmss.exists /\ vmss' = vmss
           \/ pc' = "patch" /\ fetched' = vmss /\ vmss' = vmss
<1> USE DEF vars, azure, k8s, ctl
<1> DEFINE Goal == \/ UNCHANGED <<pc, fetched>>
                   \/ pc' = "create" /\ ~vmss.exists /\ vmss' = vmss
                   \/ pc' = "patch" /\ fetched' = vmss /\ vmss' = vmss
<1>1. CASE GetVMSS
  BY <1>1 DEF GetVMSS, NotFound, Return
<1>2. CASE UNCHANGED <<pc, fetched>>
  BY <1>2
<1> HIDE DEF Goal
<1>3. ASSUME pc' \notin {"create", "patch"} PROVE Goal
  BY <1>3
<1>4. Goal
  BY <1>1, <1>2, <1>3
  DEF Goal, Next, Controller, Faults, Azure, User, Reconcile, RegisterFinalizer,
      ValidateSpec, GetVMSSPanics, Conflict, NothingToPatch, PollStarted,
      CreateVMSS, PatchVMSS, DeleteAsync, Started, Return, Idle,
      DeferredRefresh, OtherServices, LeaveToGroupDelete, DeleteRecordedFuture,
      DeletePoll, DeleteDeferred, Close, CallFails, DeferredRefreshFails,
      CloseFails, Restart, EditSpec, DeletePool, DeleteCluster,
      InfrastructureReady, CacheSync, OperationSucceeds, OperationFails, InstanceOperationFails
<1> QED BY <1>4 DEF Goal

LEMMA RequestStep ==
    ASSUME TypeOK, RequestInv, [Next]_vars
    PROVE  RequestInv' /\ NoOverwrite /\ NotLowered
<1> USE DEF vars, azure, k8s, ctl
<1>1. CASE CreateVMSS
  <2>1. ~vmss.exists /\ pc' \notin {"create", "patch"}
    BY <1>1 DEF CreateVMSS, Started, RequestInv
  <2> QED BY <2>1 DEF RequestInv, NoOverwrite, NotLowered
<1>2. CASE PatchVMSS
  <2>1. PICK mixed \in BOOLEAN :
          /\ NeedsPatch(fetched, obj.spec, mixed)
          /\ IF vmss.exists
             THEN Accept("PATCH", Provisioning(obj.spec, PatchCapacity(fetched, obj.spec, mixed)))
             ELSE UNCHANGED <<vmss, nops>>
    BY <1>2 DEF PatchVMSS
  <2>2. pc = "patch" /\ pc' \notin {"create", "patch"}
    BY <1>2 DEF PatchVMSS, Started, Return
  <2>3. CASE vmss.exists
    <3> DEFINE c == PatchCapacity(fetched, obj.spec, mixed)
               v == Provisioning(obj.spec, c)
    <3>1. obj.spec \in Specs /\ fetched \in ScaleSets
      BY DEF TypeOK, Objects
    <3>2. c \in Nat
      BY <3>1, PatchCapacityType
    <3> HIDE DEF c
    <3>3. v \in ScaleSets /\ v.model = obj.spec.model /\ v.capacity = c
      BY <3>1, <3>2, ProvisioningType DEF Provisioning
    <3> HIDE DEF v
    <3>4. Accept("PATCH", v)
      BY <2>1, <2>3 DEF c, v
    <3>5. nops' \in Futures /\ vmss' = v /\ ops'[nops'].type = "PATCH"
      BY <3>3, <3>4, AcceptedOperation DEF OpTypes
    <3>6. c > fetched.capacity \/ fetched.model # obj.spec.model
      BY <2>1 DEF NeedsPatch, HasModelChanges, c
    <3>7. fetched.model = vmss.model /\ fetched.capacity = vmss.capacity /\ vmss.capacity \in Nat
      BY <2>2, <2>3 DEF RequestInv, TypeOK, ScaleSets
    <3>8. NotLowered
      BY <3>2, <3>3, <3>5, <3>6, <3>7 DEF NotLowered
    <3> QED BY <2>2, <3>5, <3>8 DEF RequestInv, NoOverwrite
  <2>4. CASE ~vmss.exists
    BY <2>2, <2>4 DEF RequestInv, NoOverwrite, NotLowered
  <2> QED BY <2>3, <2>4
<1>3. CASE DeleteAsync
  <2>1. pc' \notin {"create", "patch"}
    BY <1>3 DEF DeleteAsync, Started
  <2>2. CASE vmss.exists
    <3> DEFINE v == SetProvisioningState(vmss, "Deleting")
    <3>1. v \in ScaleSets /\ v.capacity = vmss.capacity
      BY DEF TypeOK, ScaleSets, SetProvisioningState, ProvisioningStates
    <3>2. Accept("DELETE", v)
      BY <1>3, <2>2 DEF DeleteAsync
    <3> HIDE DEF v
    <3>3. vmss' = v /\ ops'[nops'].type = "DELETE"
      BY <3>1, <3>2, AcceptedOperation DEF OpTypes
    <3>4. vmss.capacity \in Nat
      BY DEF TypeOK, ScaleSets
    <3> QED BY <2>1, <3>1, <3>3, <3>4 DEF RequestInv, NoOverwrite, NotLowered
  <2>3. CASE ~vmss.exists
    BY <2>1, <2>3 DEF RequestInv, NoOverwrite, NotLowered
  <2> QED BY <2>2, <2>3
<1>4. CASE ~CreateVMSS /\ ~PatchVMSS /\ ~DeleteAsync
  <2>1. /\ nops' = nops
        /\ vmss'.exists => /\ vmss.exists
                           /\ vmss'.model = vmss.model /\ vmss'.capacity = vmss.capacity
    BY <1>4, Quiet
  <2>2. nops \in Int /\ vmss.capacity \in Nat
    BY BoundsAssumption DEF TypeOK, ScaleSets
  <2>3. NoOverwrite /\ NotLowered
    BY <2>1, <2>2 DEF NoOverwrite, NotLowered
  <2>4. RequestInv'
    BY <2>1, Prepared DEF RequestInv
  <2> QED BY <2>3, <2>4
<1> QED BY <1>1, <1>2, <1>3, <1>4

\* Whatever the user, Azure and faults do meanwhile, a scale set that exists is
\* never overwritten by the PUT of createVMSS, and loses capacity only together
\* with a change of its model.
THEOREM ScaleSetIsPreserved == Spec => ScaleSetPreserved
<1>1. Init => RequestInv
  BY DEF Init, RequestInv
<1>2. TypeOK /\ RequestInv /\ [Next]_vars => RequestInv'
  BY RequestStep
<1>3. TypeOK /\ RequestInv /\ [Next]_vars =>
          [vmss.exists /\ nops' > nops => ops'[nops'].type # "PUT"]_vars
  BY RequestStep DEF NoOverwrite
<1>4. TypeOK /\ RequestInv /\ [Next]_vars =>
          [vmss.exists /\ vmss'.exists /\ vmss'.capacity < vmss.capacity
                => vmss'.model # vmss.model]_vars
  BY RequestStep DEF NotLowered
<1> QED BY <1>1, <1>2, <1>3, <1>4, TypeCorrect, PTL
        DEF Spec, ScaleSetPreserved, NeverOverwritten, LoweredOnlyWithModel
=============================================================================
