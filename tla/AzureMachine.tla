---- MODULE AzureMachine ----
(***************************************************************************)
(* The AzureMachine controller and the services of a virtual machine.      *)
(*                                                                         *)
(* The machines of a cluster are reconciled concurrently, one              *)
(* reconciliation at a time for each of them.  They meet in the rules of   *)
(* the API server's load balancer, where each takes a free port, and in    *)
(* the availability set, which goes with its last machine.                 *)
(***************************************************************************)
EXTENDS MachineScope, FiniteSets, TLC

CONSTANTS
    Machines,
    Setups,     \* configurations of the machines that a cluster starts with
    NumPorts,   \* front-end ports for rules; 20 in the code: 22, 2201..2219
    MaxFaults   \* restarts, failed calls, lost responses, vanishing machines

ASSUME SetupsAssumption ==
    \A s \in Setups : DOMAIN s \subseteq Machines /\ s \in [DOMAIN s -> MachineConfigs]
ASSUME NumPortsAssumption == NumPorts \in Nat
ASSUME MaxFaultsAssumption == MaxFaults \in Nat

VARIABLES
    cfg,      \* each machine's configuration
    given,    \* "infrastructure" and the machines with bootstrap data
    closing,  \* the Cluster is being deleted
    obj,      \* each AzureMachine in the API server
    mem,      \* the copy a reconciliation works on
    pc,       \* where the reconciliation is
    seen,     \* the ports it has found in use
    az,       \* each machine's Azure resources
    vm,       \* provisioning state of each virtual machine
    ext,      \* provisioning state of its bootstrapping extension
    port,     \* port of each machine's rule, 0 for none
    sets,     \* the availability sets that exist
    skus,     \* whether the SKUs are cached
    faults

vars == <<cfg, given, closing, obj, mem, pc, seen, az, vm, ext, port, sets, skus, faults>>

azure == <<az, vm, ext, port, sets, skus>>
objects == <<cfg, given, closing, obj>>

Objects == [life: {"live", "deleting", "gone"}, finalizer: BOOLEAN, failure: BOOLEAN,
            ready: BOOLEAN, id: BOOLEAN]

Parts == {"ip", "nic", "publicNic", "osDisk", "dataDisk", "role"}

Steps(m) == ToSet(ReconcileSteps(cfg[m])) \cup ToSet(DeleteSteps(cfg[m]))

Init ==
    /\ cfg \in Setups
    /\ given = {}
    /\ closing = FALSE
    /\ obj = [m \in Machines |-> [life |-> IF m \in DOMAIN cfg THEN "live" ELSE "gone",
                                  finalizer |-> FALSE, failure |-> FALSE,
                                  ready |-> FALSE, id |-> FALSE]]
    /\ mem = obj
    /\ pc = [m \in Machines |-> "idle"]
    /\ seen = [m \in Machines |-> {}]
    /\ az = [m \in Machines |-> {}]
    /\ vm = [m \in Machines |-> "absent"]
    /\ ext = [m \in Machines |-> "absent"]
    /\ port = [m \in Machines |-> 0]
    /\ sets = {}
    /\ skus = FALSE
    /\ faults = 0

----------------------------------------------------------------------------
\* Other controllers and users

\* The infrastructure becomes ready, and then the bootstrap data of a machine.
Provide(g) ==
    /\ g \in (DOMAIN cfg \cup {"infrastructure"}) \ given
    /\ g \in DOMAIN cfg => "infrastructure" \in given
    /\ given' = given \cup {g}
    /\ UNCHANGED <<cfg, closing, obj, mem, pc, seen, azure, faults>>

DeleteMachine(m) ==
    /\ obj[m].life = "live"
    /\ obj' = [obj EXCEPT ![m].life = IF obj[m].finalizer THEN "deleting" ELSE "gone"]
    /\ UNCHANGED <<cfg, given, closing, mem, pc, seen, azure, faults>>

\* The deletion of a cluster deletes its machines first; only those in an owned
\* group can tell.
DeleteCluster ==
    /\ ~closing
    /\ \A m \in Machines : obj[m].life # "live"
    /\ \E m \in DOMAIN cfg : cfg[m].ownedGroup
    /\ closing' = TRUE
    /\ UNCHANGED <<cfg, given, obj, mem, pc, seen, azure, faults>>

----------------------------------------------------------------------------
\* Azure

C == INSTANCE Clients

\* The state of what a call of a client creates when the call returns.
Begun(call) == IF C!Effective(call) THEN "Succeeded" ELSE "Creating"

Members(s) == {m \in DOMAIN cfg : vm[m] # "absent" /\ AvailabilitySet(cfg[m]) = s}

\* A virtual machine goes with its extension and role assignment; disks stay.
VMRemoved(m) ==
    /\ vm' = [vm EXCEPT ![m] = "absent"]
    /\ ext' = [ext EXCEPT ![m] = "absent"]
    /\ az' = [az EXCEPT ![m] = @ \ {"role"}]

VMSettles(m) ==
    /\ vm[m] = "Creating"
    /\ \E s \in {"Succeeded", "Failed"} : vm' = [vm EXCEPT ![m] = s]
    /\ UNCHANGED <<objects, mem, pc, seen, az, ext, port, sets, skus, faults>>

ExtensionSettles(m) ==
    /\ ext[m] = "Creating"
    /\ \E s \in {"Succeeded", "Failed"} : ext' = [ext EXCEPT ![m] = s]
    /\ UNCHANGED <<objects, mem, pc, seen, az, vm, port, sets, skus, faults>>

----------------------------------------------------------------------------
\* The reconciliation

\* Reconcile fetches the objects; a machine with a failure is left alone.
Start(m) ==
    /\ pc[m] = "idle"
    /\ obj[m].life # "gone"
    /\ obj[m].life = "live" => ~obj[m].failure
    /\ mem' = [mem EXCEPT ![m] = obj[m]]
    /\ pc' = [pc EXCEPT ![m] = IF obj[m].life = "deleting" THEN "deleting" ELSE "register"]
    /\ UNCHANGED <<objects, seen, azure, faults>>

\* What a patch of the object writes.
Patched(m, new) ==
    [new EXCEPT !.life = IF obj[m].life = "deleting" /\ ~new.finalizer
                         THEN "gone" ELSE obj[m].life]

\* The reconciliation of m goes on at a step with its copy of the object.
Goto(m, step, new) ==
    /\ mem' = [mem EXCEPT ![m] = new]
    /\ pc' = [pc EXCEPT ![m] = step]
    /\ seen' = [seen EXCEPT ![m] = {}]

Advance(m, new) == Goto(m, After(ReconcileSteps(cfg[m]), pc[m]), new)

\* reconcileNormal's treatment of an error of a service.
Fail(m, kind, new) ==
    Goto(m, "close",
         CASE kind = "error" -> new
           [] kind = "transient" -> [new EXCEPT !.ready = FALSE]
           [] kind \in {"terminal", "deleted"} ->
                [new EXCEPT !.ready = FALSE, !.failure = TRUE])

\* Finalizer; then the infrastructure and the bootstrap data must be there.
Register(m) ==
    /\ pc[m] = "register"
    /\ IF obj[m].life = "gone"
       THEN Goto(m, "close", mem[m]) /\ UNCHANGED obj
       ELSE LET new == [mem[m] EXCEPT !.finalizer = TRUE]
            IN /\ obj' = [obj EXCEPT ![m] = Patched(m, new)]
               /\ IF {"infrastructure", m} \subseteq given
                  THEN Advance(m, new)
                  ELSE Goto(m, "close", new)
    /\ UNCHANGED <<cfg, given, closing, azure, faults>>

\* What a call of a client has added to Azure when it returns.
Added(call, parts) == IF C!Effective(call) THEN parts ELSE {}

ReconcilePublicIPs(m) ==
    /\ pc[m] = "publicIPs"
    /\ az' = [az EXCEPT ![m] = @ \cup Added(C!publicips.CreateOrUpdate, PublicIPSpecs(cfg[m]))]
    /\ Advance(m, mem[m])
    /\ UNCHANGED <<objects, vm, ext, port, sets, skus, faults>>

UsedPorts == {port[m] : m \in Machines} \ {0}

\* Slip: the lowest port, used or not.
GetAvailablePortAny(used) == {1}

\* The lowest port that is not in use, if there is one.
GetAvailablePort(used) ==
    {p \in (1..NumPorts) \ used : \A q \in (1..NumPorts) \ used : p <= q}

\* inboundnatrules reads the rules of the load balancer ...
ReadRules(m) ==
    /\ pc[m] = "readRules"
    /\ IF port[m] # 0
       THEN Goto(m, "networkInterfaces", mem[m])
       ELSE /\ seen' = [seen EXCEPT ![m] = UsedPorts]
            /\ pc' = [pc EXCEPT ![m] = "putRule"]
            /\ UNCHANGED mem
    /\ UNCHANGED <<objects, azure, faults>>

\* ... and creates its own one, which Azure refuses if the port is taken by now.
PutRule(m) ==
    /\ pc[m] = "putRule"
    /\ IF GetAvailablePort(seen[m]) \in SUBSET UsedPorts
       THEN Fail(m, "error", mem[m]) /\ UNCHANGED port
       ELSE /\ \E p \in Added(C!inboundnatrules.CreateOrUpdate, GetAvailablePort(seen[m])) :
                   port' = [port EXCEPT ![m] = p]
            /\ Advance(m, mem[m])
    /\ UNCHANGED <<objects, az, vm, ext, sets, skus, faults>>

Present(m) == az[m] \cup (IF port[m] # 0 THEN {NatRule} ELSE {})

\* networkinterfaces creates the missing ones; it may fill the SKU cache.
ReconcileNetworkInterfaces(m) ==
    /\ pc[m] = "networkInterfaces"
    /\ LET c == cfg[m]
           missing == NICSpecs(c) \ az[m]
           profile == IF missing = {} THEN "ok" ELSE NICProfile(c)
       IN /\ skus' = (skus \/ (missing # {} /\ c.accelerated = "unset"))
          /\ IF profile # "ok"
             THEN Fail(m, profile, mem[m]) /\ UNCHANGED az
             ELSE IF UNION {NICRefers(c, nic) : nic \in missing} \subseteq Present(m)
                  THEN az' = [az EXCEPT ![m] = @ \cup Added(C!networkinterfaces.CreateOrUpdate, missing)]
                       /\ Advance(m, mem[m])
                  ELSE Fail(m, "error", mem[m]) /\ UNCHANGED az
    /\ UNCHANGED <<objects, vm, ext, port, sets, faults>>

ReconcileAvailabilitySets(m) ==
    /\ pc[m] = "availabilitySets"
    /\ skus' = TRUE
    /\ IF SetProfile(cfg[m]) = "ok"
       THEN /\ sets' = sets \cup Added(C!availabilitysets.CreateOrUpdate, {AvailabilitySet(cfg[m])})
            /\ Advance(m, mem[m])
       ELSE Fail(m, SetProfile(cfg[m]), mem[m]) /\ UNCHANGED sets
    /\ UNCHANGED <<objects, az, vm, ext, port, faults>>

\* UpdateStatus: a failed virtual machine is a failure, and the rest goes on.
UpdateStatus(m, new) ==
    [new EXCEPT !.id = TRUE, !.failure = @ \/ vm[m] = "Failed"]

\* Azure accepts a machine whose interfaces and availability set exist.
CanCreateVM(m) ==
    /\ NICSpecs(cfg[m]) \subseteq az[m]
    /\ AvailabilitySet(cfg[m]) \in sets \cup {"none"}

\* Slip: a machine that is gone is created again.
ReconcileVirtualMachinesAgain(m) ==
    /\ pc[m] = "virtualMachines"
    /\ IF vm[m] # "absent"
       THEN Advance(m, UpdateStatus(m, mem[m])) /\ UNCHANGED <<az, vm, skus>>
       ELSE IF CanCreateVM(m)
            THEN /\ vm' = [vm EXCEPT ![m] = "Succeeded"]
                 /\ az' = [az EXCEPT ![m] = @ \cup DiskSpecs(cfg[m])]
                 /\ Advance(m, mem[m]) /\ UNCHANGED skus
            ELSE Fail(m, "error", mem[m]) /\ UNCHANGED <<az, vm, skus>>
    /\ UNCHANGED <<objects, ext, port, sets, faults>>

\* virtualmachines: what exists is recorded, what was recorded and is gone is a
\* failure, anything else is created.
ReconcileVirtualMachines(m) ==
    /\ pc[m] = "virtualMachines"
    /\ \/ /\ vm[m] # "absent"
          /\ Advance(m, UpdateStatus(m, mem[m]))
          /\ UNCHANGED <<az, vm, skus>>
       \/ /\ vm[m] = "absent" /\ mem[m].id
          /\ Fail(m, "deleted", mem[m])
          /\ UNCHANGED <<az, vm, skus>>
       \/ /\ vm[m] = "absent" /\ ~mem[m].id
          /\ skus' = TRUE
          /\ IF VMProfile(cfg[m]) # "ok"
             THEN Fail(m, VMProfile(cfg[m]), mem[m]) /\ UNCHANGED <<az, vm>>
             ELSE IF CanCreateVM(m)
                  THEN /\ vm' = [vm EXCEPT ![m] = Begun(C!virtualmachines.CreateOrUpdate)]
                       /\ az' = [az EXCEPT ![m] = @ \cup DiskSpecs(cfg[m])]
                       /\ Advance(m, mem[m])
                  ELSE Fail(m, "error", mem[m]) /\ UNCHANGED <<az, vm>>
    /\ UNCHANGED <<objects, ext, port, sets, faults>>

\* roleassignments needs the identity of the virtual machine.
ReconcileRoleAssignments(m) ==
    /\ pc[m] = "roleAssignments"
    /\ IF vm[m] = "absent"
       THEN Fail(m, "error", mem[m]) /\ UNCHANGED az
       ELSE /\ az' = [az EXCEPT ![m] = @ \cup Added(C!roleassignments.Create, {"role"})]
            /\ Advance(m, mem[m])
    /\ UNCHANGED <<objects, vm, ext, port, sets, skus, faults>>

\* SetBootstrapConditions: what the state of the extension means.
SetBootstrapConditions(state) ==
    CASE state = "Creating" -> "transient"
      [] state = "Failed" -> "terminal"
      [] OTHER -> "ok"

\* vmextensions: an existing extension is looked at, a missing one is created.
ReconcileVMExtensions(m) ==
    /\ pc[m] = "vmExtensions"
    /\ CASE ext[m] # "absent" /\ SetBootstrapConditions(ext[m]) = "ok" ->
              Advance(m, mem[m]) /\ UNCHANGED ext
         [] ext[m] # "absent" /\ SetBootstrapConditions(ext[m]) # "ok" ->
              Fail(m, SetBootstrapConditions(ext[m]), mem[m]) /\ UNCHANGED ext
         [] ext[m] = "absent" /\ vm[m] # "absent" ->
              /\ ext' = [ext EXCEPT ![m] = Begun(C!vmextensions.CreateOrUpdateAsync)]
              /\ Advance(m, mem[m])
         [] OTHER -> Fail(m, "error", mem[m]) /\ UNCHANGED ext
    /\ UNCHANGED <<objects, az, vm, port, sets, skus, faults>>

SetReady(m) ==
    /\ pc[m] = "ready"
    /\ Goto(m, "close", [mem[m] EXCEPT !.ready = TRUE])
    /\ UNCHANGED <<objects, azure, faults>>

----------------------------------------------------------------------------
\* The deletion

\* An owned group is going to be deleted with the cluster, so that its
\* resources need not be deleted one by one.
ShouldDeleteIndividualResources(m) == ~closing \/ ~cfg[m].ownedGroup

\* Slip: the group is taken to be going as soon as it is owned.
StartDeleteTrusting(m) ==
    /\ pc[m] = "deleting"
    /\ obj' = [obj EXCEPT ![m] = Patched(m, mem[m])]
    /\ pc' = [pc EXCEPT ![m] = IF ~cfg[m].ownedGroup THEN Head(DeleteSteps(cfg[m])) ELSE "release"]
    /\ UNCHANGED <<cfg, given, closing, mem, seen, azure, faults>>

StartDelete(m) ==
    /\ pc[m] = "deleting"
    /\ obj' = [obj EXCEPT ![m] = Patched(m, mem[m])]
    /\ pc' = [pc EXCEPT ![m] = IF ShouldDeleteIndividualResources(m)
                               THEN Head(DeleteSteps(cfg[m])) ELSE "release"]
    /\ UNCHANGED <<cfg, given, closing, mem, seen, azure, faults>>

Deleted(m) == Goto(m, After(DeleteSteps(cfg[m]), pc[m]), mem[m])

DeleteVM(m) ==
    /\ pc[m] = "deleteVM"
    /\ IF C!Effective(C!virtualmachines.Delete) THEN VMRemoved(m) ELSE UNCHANGED <<vm, ext, az>>
    /\ Deleted(m)
    /\ UNCHANGED <<objects, port, sets, skus, faults>>

\* What a virtual machine uses is refused to be deleted.
DeleteParts(m, step, call, parts) ==
    /\ pc[m] = step
    /\ IF vm[m] = "absent"
       THEN az' = [az EXCEPT ![m] = IF C!Effective(call) THEN @ \ parts ELSE @] /\ Deleted(m)
       ELSE Goto(m, "close", mem[m]) /\ UNCHANGED az
    /\ UNCHANGED <<objects, vm, ext, port, sets, skus, faults>>

DeleteNetworkInterfaces(m) ==
    DeleteParts(m, "deleteNICs", C!networkinterfaces.Delete, NICSpecs(cfg[m]))

DeletePublicIPs(m) == DeleteParts(m, "deleteIP", C!publicips.Delete, PublicIPSpecs(cfg[m]))

DeleteDisks(m) == DeleteParts(m, "deleteDisks", C!disks.Delete, DiskSpecs(cfg[m]))

DeleteRule(m) ==
    /\ pc[m] = "deleteRule"
    /\ IF "nic" \in az[m]
       THEN Goto(m, "close", mem[m]) /\ UNCHANGED port
       ELSE /\ port' = [port EXCEPT ![m] = IF C!Effective(C!inboundnatrules.Delete) THEN 0 ELSE @]
            /\ Deleted(m)
    /\ UNCHANGED <<objects, az, vm, ext, sets, skus, faults>>

\* availabilitysets keeps a set that has machines ...
ReadSet(m) ==
    /\ pc[m] = "readSet"
    /\ LET s == AvailabilitySet(cfg[m])
           next == IF s \in sets /\ Members(s) = {} THEN "readSet" ELSE "deleteSet"
       IN Goto(m, After(DeleteSteps(cfg[m]), next), mem[m])
    /\ UNCHANGED <<objects, azure, faults>>

\* ... and Azure refuses to delete one that has a machine by now.
DeleteSet(m) ==
    /\ pc[m] = "deleteSet"
    /\ LET s == AvailabilitySet(cfg[m])
       IN IF Members(s) = {}
          THEN /\ sets' = IF C!Effective(C!availabilitysets.Delete) THEN sets \ {s} ELSE sets
               /\ Deleted(m)
          ELSE Goto(m, "close", mem[m]) /\ UNCHANGED sets
    /\ UNCHANGED <<objects, az, vm, ext, port, skus, faults>>

RemoveFinalizer(m) ==
    /\ pc[m] = "release"
    /\ Goto(m, "close", [mem[m] EXCEPT !.finalizer = FALSE])
    /\ UNCHANGED <<objects, azure, faults>>

Close(m) ==
    /\ pc[m] = "close"
    /\ obj' = IF obj[m].life = "gone" THEN obj ELSE [obj EXCEPT ![m] = Patched(m, mem[m])]
    /\ Goto(m, "idle", obj'[m])
    /\ UNCHANGED <<cfg, given, closing, azure, faults>>

----------------------------------------------------------------------------
\* Faults

\* The manager restarts: every reconciliation ends, and the cache is empty.
Restart ==
    /\ \E m \in Machines : pc[m] # "idle"
    /\ mem' = obj
    /\ pc' = [m \in Machines |-> "idle"]
    /\ seen' = [m \in Machines |-> {}]
    /\ skus' = FALSE
    /\ UNCHANGED <<objects, az, vm, ext, port, sets>>

\* A call of a service fails.
CallFails(m) ==
    /\ pc[m] \notin {"idle", "register", "ready", "deleting", "release", "close"}
    /\ Goto(m, "close", mem[m])
    /\ UNCHANGED <<objects, azure>>

\* The SKUs are not cached and cannot be listed: terminal for an interface or a
\* virtual machine, not for an availability set.
ListSKUsFails(m) ==
    /\ ~skus
    /\ \/ /\ pc[m] = "networkInterfaces" /\ cfg[m].accelerated = "unset"
          /\ NICSpecs(cfg[m]) \ az[m] # {}
          /\ Fail(m, "terminal", mem[m])
       \/ /\ pc[m] = "virtualMachines" /\ vm[m] = "absent" /\ ~mem[m].id
          /\ Fail(m, "terminal", mem[m])
       \/ /\ pc[m] = "availabilitySets"
          /\ Fail(m, "error", mem[m])
    /\ UNCHANGED <<objects, azure>>

\* Azure goes on creating the virtual machine, but the wait for it times out.
ResponseLost(m) ==
    /\ pc[m] = "virtualMachines"
    /\ vm[m] = "absent" /\ ~mem[m].id /\ CanCreateVM(m) /\ VMProfile(cfg[m]) = "ok"
    /\ vm' = [vm EXCEPT ![m] = "Creating"]
    /\ az' = [az EXCEPT ![m] = @ \cup DiskSpecs(cfg[m])]
    /\ Goto(m, "close", mem[m])
    /\ UNCHANGED <<objects, ext, port, sets, skus>>

\* The patch fails, so that nothing of the reconciliation is saved.
PatchFails(m) ==
    /\ pc[m] \in {"register", "deleting", "close"}
    /\ IF pc[m] = "close" THEN Goto(m, "idle", obj[m]) ELSE Goto(m, "close", mem[m])
    /\ UNCHANGED <<objects, azure>>

\* Somebody deletes the virtual machine.
VMVanishes(m) ==
    /\ vm[m] # "absent"
    /\ VMRemoved(m)
    /\ UNCHANGED <<objects, mem, pc, seen, port, sets, skus>>

Fault ==
    /\ faults < MaxFaults
    /\ faults' = faults + 1
    /\ \/ Restart
       \/ \E m \in Machines :
              \/ CallFails(m) \/ ListSKUsFails(m) \/ ResponseLost(m)
              \/ PatchFails(m) \/ VMVanishes(m)

----------------------------------------------------------------------------
Reconcile(m) ==
    \/ Start(m) \/ Register(m) \/ ReconcilePublicIPs(m) \/ ReadRules(m) \/ PutRule(m)
    \/ ReconcileNetworkInterfaces(m) \/ ReconcileAvailabilitySets(m)
    \/ ReconcileVirtualMachines(m) \/ ReconcileRoleAssignments(m)
    \/ ReconcileVMExtensions(m) \/ SetReady(m)
    \/ StartDelete(m) \/ DeleteVM(m) \/ DeleteNetworkInterfaces(m) \/ DeleteRule(m)
    \/ DeletePublicIPs(m) \/ DeleteDisks(m) \/ ReadSet(m) \/ DeleteSet(m)
    \/ RemoveFinalizer(m) \/ Close(m)

\* What happens without the controller, and only so often.
Settle ==
    \/ \E m \in Machines : VMSettles(m) \/ ExtensionSettles(m)
    \/ \E g \in Machines \cup {"infrastructure"} : Provide(g)

Next ==
    \/ \E m \in Machines : Reconcile(m) \/ DeleteMachine(m)
    \/ Settle
    \/ DeleteCluster
    \/ Fault

\* Failed requests are retried and objects resynced; Azure ends what it does.
Spec ==
    /\ Init /\ [][Next]_vars
    /\ \A m \in Machines : WF_vars(Reconcile(m))
    /\ WF_vars(Settle)

----------------------------------------------------------------------------
\* Every variable keeps its type.
TypeOK ==
    /\ cfg \in Setups
    /\ given \subseteq Machines \cup {"infrastructure"}
    /\ closing \in BOOLEAN
    /\ obj \in [Machines -> Objects]
    /\ mem \in [Machines -> Objects]
    /\ \A m \in Machines : pc[m] \in {"idle", "deleting", "close"} \/ pc[m] \in Steps(m)
    /\ seen \in [Machines -> SUBSET (1..NumPorts)]
    /\ az \in [Machines -> SUBSET Parts]
    /\ vm \in [Machines -> {"absent", "Creating", "Succeeded", "Failed"}]
    /\ ext \in [Machines -> {"absent", "Creating", "Succeeded", "Failed"}]
    /\ port \in [Machines -> 0..NumPorts]
    /\ sets \subseteq {"controlPlane", "deployment"}
    /\ skus \in BOOLEAN
    /\ faults \in 0..MaxFaults

\* The resources of m that nobody else is going to delete.
Owned(m) ==
    IF ShouldDeleteIndividualResources(m)
    THEN Present(m) \cup (IF vm[m] # "absent" THEN {"vm"} ELSE {})
    ELSE {}

\* Each machine implements the promise of a finalizer for its own resources.
Protected(m) ==
    INSTANCE ProtectedResources WITH
        Resource <- Parts \cup {NatRule, "vm"},
        life <- obj[m].life,
        finalizer <- obj[m].finalizer,
        owned <- Owned(m)

\* Every behaviour of a machine is one of ProtectedResources.
FinalizerProtects ==
    /\ \A m \in DOMAIN cfg : Protected(m)!Init
    /\ [][\A m \in DOMAIN cfg : [Protected(m)!Next]_<<obj[m], Owned(m)>>]_vars

\* An availability set goes with its last machine: whichever of two machines
\* that are deleted at once looks last finds it empty.
SetsRemoved ==
    ~closing /\ (\A m \in Machines : obj[m].life = "gone" /\ pc[m] = "idle") => sets = {}

\* A virtual machine that was recorded is never created a second time: it is left
\* to a health check to replace the machine.
NeverRecreated ==
    [][\A m \in Machines : obj[m].id /\ vm[m] = "absent" => vm'[m] = "absent"]_vars

\* A machine with a failure keeps it, and gets no resources any more.
FailureIsFinal ==
    [][\A m \in DOMAIN cfg : obj[m].failure =>
           obj'[m].failure /\ Owned(m)' \subseteq Owned(m)]_vars

\* A recorded virtual machine that somebody deletes is noticed.
LossNoticed ==
    []<>(\A m \in DOMAIN cfg :
             obj[m].id /\ vm[m] = "absent" => obj[m].failure \/ obj[m].life # "live")

\* Machines that compete for ports and the availability set all become ready,
\* unless they fail: a refused port or set is tried again.
EventuallyProvisioned ==
    <>(\A m \in DOMAIN cfg :
           \/ obj[m].ready \/ obj[m].failure \/ obj[m].life # "live"
           \/ VMProfile(cfg[m]) = "error"
           \/ AvailabilitySet(cfg[m]) # "none" /\ SetProfile(cfg[m]) = "error")

\* Machines that are deleted go away, also several at once.
DeletionCompletes == []<>(\A m \in DOMAIN cfg : obj[m].life # "deleting")

\* The invariant of the machines of a cluster: types, and no set left behind.
MachineInv == TypeOK /\ SetsRemoved

\* A virtual machine that somebody deletes behind the controller's back is
\* noticed, fails its machine for good, and is not created again
\* (azuremachine_controller.go, the case of a VMDeletedError).
LossHandled == LossNoticed /\ FailureIsFinal /\ NeverRecreated
====
