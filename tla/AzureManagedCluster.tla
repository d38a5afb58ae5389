---- MODULE AzureManagedCluster ----
(***************************************************************************)
(* AKS: the controllers of AzureManagedControlPlane, AzureManagedCluster   *)
(* and AzureManagedMachinePool, which run concurrently, and the managed    *)
(* cluster and agent pools that they share in Azure.                       *)
(*                                                                         *)
(* Cluster API deletes a Cluster's machine pools first, then its control   *)
(* plane.  An operation that Azure has accepted goes on whether or not the *)
(* controller still waits for it; while one is running, Azure refuses      *)
(* another on the same managed cluster.                                    *)
(***************************************************************************)
EXTENDS Naturals, Sequences, FiniteSets

CONSTANTS
    Pools,       \* the AzureManagedMachinePools
    DefaultPool, \* the one that DefaultPoolRef names
    Setups,      \* the configurations
    MaxEvents    \* edits of the version or the replicas, and faults: interrupted
                 \* reconciliations, failed operations, lost managed clusters

ASSUME DefaultPoolAssumption == DefaultPool \in Pools
ASSUME ControllersAssumption == "controlPlane" \notin Pools
ASSUME SetupsAssumption ==
    Setups \subseteq [allowed: BOOLEAN, users: SUBSET {"group", "vnet", "subnet"},
                      services: Nat, pods: Nat, dns: {"none", "inside", "outside"}]
ASSUME BoundsAssumption == MaxEvents \in Nat

VARIABLES
    cfg,        \* identity, resources of the user, networks of the Cluster
    cluster,    \* the Cluster: "live" or "deleting"
    want,       \* the specified version, and the replicas of each pool
    cp,         \* the AzureManagedControlPlane in the API server
    pool,       \* each AzureManagedMachinePool in the API server
    infra,      \* the AzureManagedCluster in the API server
    kubeconfig, \* the managed cluster whose credentials the Secret holds
    pc,         \* where each controller is
    mem,        \* what its reconciliation has read
    net,        \* group, network and subnet in Azure
    mc,         \* the managed cluster in Azure; fqdn is new for each one
    ap,         \* the agent pools in Azure
    edits, faults

vars == <<cfg, cluster, want, cp, pool, infra, kubeconfig, pc, mem, net, mc, ap, edits, faults>>

azure == <<net, mc, ap>>
objects == <<cp, pool, infra, kubeconfig>>
inputs == <<cfg, cluster, want, edits>>

Controllers == {"controlPlane"} \cup Pools
Terminal == {"Canceled", "Failed", "Succeeded"}
Lives == {"live", "deleting", "gone"}

Init ==
    /\ cfg \in Setups
    /\ cluster = "live"
    /\ want = [version |-> 1, replicas |-> [p \in Pools |-> 1]]
    /\ cp = [life |-> "live", finalizer |-> FALSE, initialized |-> FALSE, endpoint |-> 0]
    /\ pool = [p \in Pools |-> [life |-> "live", finalizer |-> FALSE, ready |-> FALSE, ids |-> 0]]
    /\ infra = [ready |-> FALSE, endpoint |-> 0]
    /\ kubeconfig = 0
    /\ pc = [c \in Controllers |-> "idle"]
    /\ mem = [c \in Controllers |-> <<>>]
    /\ net = cfg.users
    /\ mc = [state |-> "absent", version |-> 0, fqdn |-> 0]
    /\ ap = [p \in Pools |-> [state |-> "absent", count |-> 0]]
    /\ edits = 0
    /\ faults = 0

----------------------------------------------------------------------------
\* Users and Cluster API

Edit ==
    /\ edits + faults < MaxEvents /\ cluster = "live"
    /\ \/ want' = [want EXCEPT !.version = @ + 1]
       \/ \E p \in Pools : want' = [want EXCEPT !.replicas[p] = @ + 1]
    /\ edits' = edits + 1
    /\ UNCHANGED <<cfg, cluster, objects, pc, mem, azure, faults>>

DeleteCluster ==
    /\ cluster = "live"
    /\ cluster' = "deleting"
    /\ UNCHANGED <<cfg, want, objects, pc, mem, azure, edits, faults>>

\* A pool other than the default one may be deleted on its own.
DeletePool(p) ==
    /\ pool[p].life = "live"
    /\ cluster = "deleting" \/ p # DefaultPool
    /\ pool' = [pool EXCEPT ![p].life = IF pool[p].finalizer THEN "deleting" ELSE "gone"]
    /\ UNCHANGED <<inputs, cp, infra, kubeconfig, pc, mem, azure, faults>>

DeleteControlPlane ==
    /\ cluster = "deleting" /\ cp.life = "live"
    /\ \A p \in Pools : pool[p].life = "gone"
    /\ cp' = [cp EXCEPT !.life = IF cp.finalizer THEN "deleting" ELSE "gone"]
    /\ UNCHANGED <<inputs, pool, infra, kubeconfig, pc, mem, azure, faults>>

----------------------------------------------------------------------------
\* Azure

Busy == mc.state \notin Terminal \/ \E p \in Pools : ap[p].state \notin Terminal \cup {"absent"}

NoPools == [p \in Pools |-> [state |-> "absent", count |-> 0]]
NoCluster == [mc EXCEPT !.state = "absent", !.version = 0]

\* An operation ends.  Its failure is a fault.
Settled(from, to) ==
    /\ from \in {"Creating", "Updating"}
    /\ faults' = IF to = "Failed" THEN faults + 1 ELSE faults
    /\ edits + faults' <= MaxEvents

ManagedClusterSettles ==
    /\ \/ /\ mc.state = "Deleting"
          /\ mc' = NoCluster /\ ap' = NoPools
          /\ UNCHANGED faults
       \/ \E to \in {"Succeeded", "Failed"} :
              /\ Settled(mc.state, to)
              /\ mc' = [mc EXCEPT !.state = to]
              /\ ap' = IF mc.state = "Creating" THEN [ap EXCEPT ![DefaultPool].state = to] ELSE ap
    /\ UNCHANGED <<inputs, objects, pc, mem, net>>

AgentPoolSettles(p) ==
    /\ mc.state \in Terminal
    /\ \/ /\ ap[p].state = "Deleting"
          /\ ap' = [ap EXCEPT ![p] = NoPools[p]]
          /\ UNCHANGED faults
       \/ \E to \in {"Succeeded", "Failed"} :
              /\ Settled(ap[p].state, to)
              /\ ap' = [ap EXCEPT ![p].state = to]
    /\ UNCHANGED <<inputs, objects, pc, mem, net, mc>>

----------------------------------------------------------------------------
\* Steps of a reconciliation

Goto(c, step, read) == pc' = [pc EXCEPT ![c] = step] /\ mem' = [mem EXCEPT ![c] = read]
Step(c, step) == pc' = [pc EXCEPT ![c] = step] /\ UNCHANGED mem
Return(c) == Goto(c, "idle", <<>>)

\* What a patch leaves: the last finalizer of a deleted object releases it.
Patched(old, new) ==
    [new EXCEPT !.life = IF old.life = "deleting" /\ ~new.finalizer THEN "gone" ELSE old.life]

----------------------------------------------------------------------------
\* AzureManagedControlPlane

ReadControlPlane ==
    [version |-> want.version, replicas |-> want.replicas[DefaultPool], found |-> FALSE]

\* Slip: the default pool is needed even for the deletion.
StartControlPlaneWithPool ==
    /\ pc["controlPlane"] = "idle" /\ cp.life # "gone"
    /\ pool[DefaultPool].life # "gone" /\ cfg.allowed
    /\ cp' = [cp EXCEPT !.finalizer = TRUE]
    /\ Goto("controlPlane", IF cp.life = "deleting" THEN "deleteManagedCluster" ELSE "network",
            ReadControlPlane)
    /\ UNCHANGED <<inputs, pool, infra, kubeconfig, azure, faults>>

\* Reconcile and the first patch, which sets the finalizer.  The deletion needs
\* neither the default pool nor the identity.
StartControlPlane ==
    /\ pc["controlPlane"] = "idle" /\ cp.life # "gone"
    /\ cp.life = "live" => pool[DefaultPool].life # "gone" /\ cfg.allowed
    /\ cp' = [cp EXCEPT !.finalizer = TRUE]
    /\ Goto("controlPlane", IF cp.life = "deleting" THEN "deleteManagedCluster" ELSE "network",
            ReadControlPlane)
    /\ UNCHANGED <<inputs, pool, infra, kubeconfig, azure, faults>>

\* At most one block of each kind, and the DNS address inside the service one.
NetworkAccepted ==
    /\ cfg.services <= 1 /\ cfg.pods <= 1
    /\ cfg.dns # "none" => cfg.services = 1 /\ cfg.dns = "inside"

\* groups, virtualnetworks and subnets create what does not exist.  The default
\* pool is part of the next request only when there is no cluster yet.
ReconcileNetwork ==
    /\ pc["controlPlane"] = "network"
    /\ net' = {"group", "vnet", "subnet"}
    /\ IF NetworkAccepted
       THEN Goto("controlPlane", "putManagedCluster",
                 [mem["controlPlane"] EXCEPT !.found = mc.state # "absent"])
       ELSE Return("controlPlane")
    /\ UNCHANGED <<inputs, objects, mc, ap, faults>>

\* Azure wants a pool in the request.
CreateManagedCluster(read) ==
    /\ ~read.found
    /\ mc' = [state |-> "Creating", version |-> read.version, fqdn |-> mc.fqdn + 1]
    /\ ap' = [ap EXCEPT ![DefaultPool] = [state |-> "Creating", count |-> read.replicas]]

UpdateManagedCluster(read) ==
    /\ ~Busy
    /\ mc' = [mc EXCEPT !.state = "Updating", !.version = read.version]
    /\ UNCHANGED ap

\* Slip: whatever exists is left as it is.
PutManagedClusterOnce ==
    /\ pc["controlPlane"] = "putManagedCluster"
    /\ \/ /\ mc.state = "absent" /\ CreateManagedCluster(mem["controlPlane"])
          /\ Step("controlPlane", "waitManagedCluster")
       \/ /\ mc.state = "absent" /\ mem["controlPlane"].found
          /\ Return("controlPlane") /\ UNCHANGED <<mc, ap>>
       \/ /\ mc.state # "absent"
          /\ Step("controlPlane", "endpoint") /\ UNCHANGED <<mc, ap>>
    /\ UNCHANGED <<inputs, objects, net, faults>>

\* managedclusters: create what is absent, leave alone what is in a
\* non-terminal state, update what has another version.
PutManagedCluster ==
    /\ pc["controlPlane"] = "putManagedCluster"
    /\ LET read == mem["controlPlane"]
           current == mc.state # "absent" /\ mc.state \in Terminal => mc.version = read.version
       IN  \/ /\ mc.state = "absent" /\ CreateManagedCluster(read)
              /\ Step("controlPlane", "waitManagedCluster")
           \/ /\ mc.state = "absent" /\ read.found
              /\ Return("controlPlane") /\ UNCHANGED <<mc, ap>>
           \/ /\ mc.state # "absent" /\ current
              /\ Step("controlPlane", "endpoint") /\ UNCHANGED <<mc, ap>>
           \/ /\ mc.state # "absent" /\ ~current /\ UpdateManagedCluster(read)
              /\ Step("controlPlane", "waitManagedCluster")
           \/ /\ mc.state # "absent" /\ ~current /\ Busy
              /\ Return("controlPlane") /\ UNCHANGED <<mc, ap>>
    /\ UNCHANGED <<inputs, objects, net, faults>>

\* CreateOrUpdate and Delete wait for the operation.
WaitManagedCluster ==
    /\ pc["controlPlane"] = "waitManagedCluster"
    /\ mc.state \in Terminal \cup {"absent"}
    /\ IF mc.state = "Succeeded" THEN Step("controlPlane", "endpoint") ELSE Return("controlPlane")
    /\ UNCHANGED <<inputs, objects, azure, faults>>

ReconcileEndpoint ==
    /\ pc["controlPlane"] = "endpoint"
    /\ IF mc.state = "absent" THEN Return("controlPlane") /\ UNCHANGED cp
       ELSE cp' = [cp EXCEPT !.endpoint = mc.fqdn] /\ Step("controlPlane", "kubeconfig")
    /\ UNCHANGED <<inputs, pool, infra, kubeconfig, azure, faults>>

\* Slip: the error of the credentials is ignored.
ReconcileKubeconfigIgnored ==
    /\ pc["controlPlane"] = "kubeconfig"
    /\ kubeconfig' = IF mc.state \in {"absent", "Creating"} THEN kubeconfig ELSE mc.fqdn
    /\ cp' = [cp EXCEPT !.initialized = TRUE]
    /\ Return("controlPlane")
    /\ UNCHANGED <<inputs, pool, infra, azure, faults>>

\* A cluster that is being created may not have credentials yet.  With the
\* Secret written, the control plane is marked as initialized.
ReconcileKubeconfig ==
    /\ pc["controlPlane"] = "kubeconfig"
    /\ \/ /\ mc.state \in {"absent", "Creating"}
          /\ UNCHANGED <<cp, kubeconfig>>
       \/ /\ mc.state # "absent"
          /\ kubeconfig' = mc.fqdn
          /\ cp' = [cp EXCEPT !.initialized = TRUE]
    /\ Return("controlPlane")
    /\ UNCHANGED <<inputs, pool, infra, azure, faults>>

DeleteManagedCluster ==
    /\ pc["controlPlane"] = "deleteManagedCluster"
    /\ IF mc.state = "absent" THEN Step("controlPlane", "deleteNetwork") /\ UNCHANGED mc
       ELSE /\ mc' = [mc EXCEPT !.state = "Deleting"]
            /\ Step("controlPlane", "waitDeletion")
    /\ UNCHANGED <<inputs, objects, net, ap, faults>>

WaitDeletion ==
    /\ pc["controlPlane"] = "waitDeletion"
    /\ mc.state = "absent"
    /\ Step("controlPlane", "deleteNetwork")
    /\ UNCHANGED <<inputs, objects, azure, faults>>

\* The scope's virtual network has no ID, which makes it managed: it goes with
\* its subnet, the user's one too.
DeleteNetwork ==
    /\ pc["controlPlane"] = "deleteNetwork"
    /\ net' = net \ {"vnet", "subnet"}
    /\ Step("controlPlane", "deleteGroup")
    /\ UNCHANGED <<inputs, objects, mc, ap, faults>>

\* A group without the owner's tag stays.
DeleteGroup ==
    /\ pc["controlPlane"] = "deleteGroup"
    /\ net' = IF "group" \in cfg.users THEN net ELSE {}
    /\ Step("controlPlane", "release")
    /\ UNCHANGED <<inputs, objects, mc, ap, faults>>

ReleaseControlPlane ==
    /\ pc["controlPlane"] = "release"
    /\ cp' = Patched(cp, [cp EXCEPT !.finalizer = FALSE])
    /\ Return("controlPlane")
    /\ UNCHANGED <<inputs, pool, infra, kubeconfig, azure, faults>>

----------------------------------------------------------------------------
\* AzureManagedCluster is ready from the start, and copies the endpoint.

ReconcileCluster ==
    /\ cp.life # "gone"
    /\ infra' = [ready |-> TRUE, endpoint |-> cp.endpoint]
    /\ UNCHANGED <<inputs, cp, pool, kubeconfig, pc, mem, azure, faults>>

----------------------------------------------------------------------------
\* AzureManagedMachinePool

\* Only the default pool comes before the control plane is initialized; none
\* comes when the control plane is gone.  The finalizer is patched first.
StartPool(p) ==
    /\ pc[p] = "idle" /\ pool[p].life # "gone"
    /\ cp.life # "gone" /\ (p = DefaultPool \/ cp.initialized)
    /\ Goto(p, IF pool[p].life = "deleting" THEN "deletePool" ELSE "putPool",
            [replicas |-> want.replicas[p], closing |-> cluster = "deleting"])
    /\ pool' = [pool EXCEPT ![p].finalizer = TRUE]
    /\ UNCHANGED <<inputs, cp, infra, kubeconfig, azure, faults>>

\* The service lists the scale set's instances.  The scale set of a pool that
\* is not up may be missing, which is no error, or incomplete.
ListInstances(p) ==
    \/ ap[p].state # "Succeeded" /\ UNCHANGED pool
    \/ \E n \in 0..ap[p].count :
           /\ ap[p].state # "absent"
           /\ ap[p].state = "Succeeded" => n = ap[p].count
           /\ pool' = [pool EXCEPT ![p].ids = n, ![p].ready = TRUE]

\* Slip: the pool is only ever created.
PutAgentPoolOnce(p) ==
    /\ pc[p] = "putPool"
    /\ LET done == ap[p].state # "absent"
       IN  \/ done /\ ListInstances(p) /\ Return(p) /\ UNCHANGED ap
           \/ ~done /\ Busy /\ Return(p) /\ UNCHANGED <<pool, ap>>
           \/ /\ ~done /\ ~Busy
              /\ ap' = [ap EXCEPT ![p] = [state |-> "Creating", count |-> mem[p].replicas]]
              /\ Step(p, "waitPool") /\ UNCHANGED pool
    /\ UNCHANGED <<inputs, cp, infra, kubeconfig, net, mc, faults>>

\* agentpools: create what is absent, leave alone what is in a non-terminal
\* state, update what differs.
PutAgentPool(p) ==
    /\ pc[p] = "putPool"
    /\ LET done == /\ ap[p].state # "absent"
                   /\ ap[p].state \in Terminal => ap[p].count = mem[p].replicas
       IN  \/ done /\ ListInstances(p) /\ Return(p) /\ UNCHANGED ap
           \/ ~done /\ Busy /\ Return(p) /\ UNCHANGED <<pool, ap>>
           \/ /\ ~done /\ ~Busy
              /\ ap' = [ap EXCEPT ![p] =
                            [state |-> IF @.state = "absent" THEN "Creating" ELSE "Updating",
                             count |-> mem[p].replicas]]
              /\ Step(p, "waitPool") /\ UNCHANGED pool
    /\ UNCHANGED <<inputs, cp, infra, kubeconfig, net, mc, faults>>

WaitAgentPool(p) ==
    /\ pc[p] = "waitPool"
    /\ ap[p].state \in Terminal \cup {"absent"}
    /\ IF ap[p].state = "Succeeded" THEN ListInstances(p) ELSE UNCHANGED pool
    /\ Return(p)
    /\ UNCHANGED <<inputs, cp, infra, kubeconfig, azure, faults>>

ReleasePool(p) ==
    pool' = [pool EXCEPT ![p] = Patched(@, [@ EXCEPT !.finalizer = FALSE])]

\* Slip: the pool is released while Azure still deletes.
DeleteAgentPoolNotAwaited(p) ==
    /\ pc[p] = "deletePool"
    /\ ReleasePool(p) /\ Return(p)
    /\ ap' = IF mem[p].closing \/ ap[p].state = "absent" THEN ap
             ELSE [ap EXCEPT ![p].state = "Deleting"]
    /\ UNCHANGED <<inputs, cp, infra, kubeconfig, net, mc, faults>>

\* A pool of a Cluster that is being deleted goes with the managed cluster.
DeleteAgentPool(p) ==
    /\ pc[p] = "deletePool"
    /\ LET done == mem[p].closing \/ ap[p].state = "absent"
       IN  \/ done /\ ReleasePool(p) /\ Return(p) /\ UNCHANGED ap
           \/ ~done /\ Busy /\ Return(p) /\ UNCHANGED <<pool, ap>>
           \/ /\ ~done /\ ~Busy
              /\ ap' = [ap EXCEPT ![p].state = "Deleting"]
              /\ Step(p, "waitPoolDeletion") /\ UNCHANGED pool
    /\ UNCHANGED <<inputs, cp, infra, kubeconfig, net, mc, faults>>

WaitPoolDeletion(p) ==
    /\ pc[p] = "waitPoolDeletion"
    /\ ap[p].state = "absent"
    /\ ReleasePool(p) /\ Return(p)
    /\ UNCHANGED <<inputs, cp, infra, kubeconfig, azure, faults>>

----------------------------------------------------------------------------
\* Faults

\* A call or a patch fails, the deadline passes while Azure goes on, or the
\* manager restarts.
Interrupt(c) ==
    /\ edits + faults < MaxEvents /\ pc[c] # "idle"
    /\ Return(c)
    /\ faults' = faults + 1
    /\ UNCHANGED <<inputs, objects, azure>>

\* Somebody deletes the managed cluster.
ManagedClusterVanishes ==
    /\ edits + faults < MaxEvents /\ mc.state \in Terminal
    /\ mc' = NoCluster /\ ap' = NoPools
    /\ faults' = faults + 1
    /\ UNCHANGED <<inputs, objects, pc, mem, net>>

ReconcileControlPlane ==
    \/ StartControlPlane \/ ReconcileNetwork \/ PutManagedCluster \/ WaitManagedCluster \/ ReconcileEndpoint \/ ReconcileKubeconfig
    \/ DeleteManagedCluster \/ WaitDeletion \/ DeleteNetwork \/ DeleteGroup
    \/ ReleaseControlPlane

ReconcilePool(p) ==
    \/ StartPool(p) \/ PutAgentPool(p) \/ WaitAgentPool(p) \/ DeleteAgentPool(p)
    \/ WaitPoolDeletion(p)

Deletions == DeleteControlPlane \/ \E p \in Pools : cluster = "deleting" /\ DeletePool(p)
Settle == ManagedClusterSettles \/ \E p \in Pools : AgentPoolSettles(p)

Next ==
    \/ Edit \/ DeleteCluster \/ DeleteControlPlane
    \/ \E p \in Pools : DeletePool(p) \/ ReconcilePool(p)
    \/ ReconcileControlPlane \/ ReconcileCluster
    \/ Settle
    \/ ManagedClusterVanishes
    \/ \E c \in Controllers : Interrupt(c)

\* Every object is reconciled again after an error and at each resync; Cluster
\* API and Azure finish what they have begun.
Spec ==
    /\ Init /\ [][Next]_vars
    /\ WF_vars(ReconcileControlPlane) /\ WF_vars(ReconcileCluster)
    /\ \A p \in Pools : WF_vars(ReconcilePool(p))
    /\ WF_vars(Deletions) /\ WF_vars(Settle)

----------------------------------------------------------------------------
\* The variables have their types, there is no agent pool without a managed
\* cluster, and an initialized control plane has an endpoint and a kubeconfig.
TypeOK ==
    /\ cfg \in Setups /\ cluster \in {"live", "deleting"}
    /\ want \in [version: Nat, replicas: [Pools -> Nat]]
    /\ cp \in [life: Lives, finalizer: BOOLEAN, initialized: BOOLEAN, endpoint: 0..mc.fqdn]
    /\ pool \in [Pools -> [life: Lives, finalizer: BOOLEAN, ready: BOOLEAN, ids: Nat]]
    /\ infra \in [ready: BOOLEAN, endpoint: 0..mc.fqdn]
    /\ kubeconfig \in 0..mc.fqdn
    /\ net \subseteq {"group", "vnet", "subnet"}
    /\ mc.state \in Terminal \cup {"absent", "Creating", "Updating", "Deleting"}
    /\ \A p \in Pools : ap[p].state # "absent" => mc.state # "absent"
    /\ cp.initialized => cp.endpoint > 0 /\ kubeconfig > 0
    /\ edits + faults \in 0..MaxEvents

Owned == (net \ cfg.users) \cup (IF mc.state = "absent" THEN {} ELSE {"managedCluster"})

Protected == INSTANCE ProtectedResources WITH
    Resource <- {"group", "vnet", "subnet", "managedCluster"},
    life <- cp.life, finalizer <- cp.finalizer, owned <- Owned

\* Nothing that the control plane's controller created in Azure is left when
\* the AzureManagedControlPlane goes, whichever step is interrupted and
\* whatever the pools' controllers do meanwhile.
FinalizerProtects == Protected!Spec

\* A pool that is deleted on its own goes only after its agent pool.
PoolReleasedLast ==
    [][\A p \in Pools : pool[p].life = "deleting" /\ pool'[p].life = "gone" =>
           ap[p].state = "absent" \/ cluster = "deleting"]_vars

Reconcilable == cluster = "live" /\ cfg.allowed /\ NetworkAccepted

\* A control plane that can be reconciled is initialized in the end, and its
\* endpoint, the one of the AzureManagedCluster and the kubeconfig are those of
\* the managed cluster that exists, which has the specified version; also after
\* the managed cluster was deleted and created anew, and after an update met a
\* cluster that was busy.
EndpointsAgree ==
    []<>(Reconcilable =>
            /\ cp.initialized /\ infra.ready
            /\ {cp.endpoint, infra.endpoint, kubeconfig} = {mc.fqdn}
            /\ mc.version = want.version)

\* The replicas of each pool reach Azure and come back as its provider IDs,
\* although an update that meets an operation in progress is skipped without
\* an error.  A failed operation is not repeated: it ends the obligation.
PoolsConverge ==
    []<>(Reconcilable =>
            \/ mc.state = "Failed"
            \/ \A p \in Pools : \/ pool[p].life # "live" \/ ap[p].state = "Failed"
                                \/ /\ pool[p].ready /\ pool[p].ids = want.replicas[p]
                                   /\ ap[p] = [state |-> "Succeeded", count |-> want.replicas[p]])

\* A Cluster that is being deleted goes with its pools, its control plane and
\* everything in Azure that was created for it: no controller waits for an
\* object or a state that another one has already taken away.
DeletionCompletes ==
    cluster = "deleting" ~> /\ cp.life = "gone" /\ Owned = {}
                            /\ \A p \in Pools : pool[p].life = "gone"

\* Neither the control plane nor a pool goes before what it stands for in Azure.
FinalizersProtect == FinalizerProtects /\ PoolReleasedLast
====
