---------------------- MODULE AzureManagedClusterProofs ----------------------
(***************************************************************************)
(* Safety of the AKS controllers for any number of pools, any              *)
(* configurations, edits and faults: the types, with the relations between *)
(* the objects and Azure that they include, and the promises of the        *)
(* finalizers of the control plane and of the pools.                       *)
(***************************************************************************)
EXTENDS AzureManagedCluster, TLAPS

-----------------------------------------------------------------------------
(* The inductive invariant *)

Provisioning == {"network", "putManagedCluster", "waitManagedCluster", "endpoint", "kubeconfig"}
Removing     == {"deleteManagedCluster", "waitDeletion", "deleteNetwork", "deleteGroup", "release"}
PoolSteps    == {"putPool", "waitPool", "deletePool", "waitPoolDeletion"}
Places       == {"idle"} \cup Provisioning \cup Removing \cup PoolSteps
ClusterReads == [version: Nat, replicas: Nat, found: BOOLEAN]
PoolReads    == [replicas: Nat, closing: BOOLEAN]
Reads        == {<< >>} \cup ClusterReads \cup PoolReads
States       == Terminal \cup {"absent", "Creating", "Updating", "Deleting"}
ManagedClusters == [state: States, version: Nat, fqdn: Nat]
AgentPools   == [state: States, count: Nat]
PoolObjects  == [life: Lives, finalizer: BOOLEAN, ready: BOOLEAN, ids: Nat]

\* The types of what Azure keeps and of the reconciliations.
Types ==
    /\ pc \in [Controllers -> Places]
    /\ mem \in [Controllers -> Reads]
    /\ mc \in ManagedClusters
    /\ ap \in [Pools -> AgentPools]
    /\ edits \in Nat /\ faults \in Nat

\* What each step has to work with.
StepInv ==
    /\ pc["controlPlane"] \in {"idle"} \cup Provisioning \cup Removing
    /\ pc["controlPlane"] \in {"network", "putManagedCluster"} => mem["controlPlane"] \in ClusterReads
    /\ \A p \in Pools :
           /\ pc[p] \in {"idle"} \cup PoolSteps
           /\ pc[p] \in {"putPool", "deletePool"} => mem[p] \in PoolReads
           /\ pc[p] = "deletePool" /\ mem[p].closing => cluster = "deleting"

\* A managed cluster has a name, and the endpoint comes before the kubeconfig.
EndpointInv ==
    /\ mc.state # "absent" => mc.fqdn > 0
    /\ pc["controlPlane"] = "kubeconfig" => cp.endpoint > 0

\* Without the finalizer nothing is owned and nothing is going on; the deletion
\* leaves nothing behind it.
FinalizerInv ==
    /\ cp.life = "deleting" => cp.finalizer
    /\ cp.life = "gone" => ~cp.finalizer
    /\ ~cp.finalizer => Owned = {}
    /\ pc["controlPlane"] # "idle" => cp.finalizer
    /\ pc["controlPlane"] \in Removing => cp.life = "deleting"
    /\ pc["controlPlane"] \in {"deleteNetwork", "deleteGroup", "release"} => mc.state = "absent"
    /\ pc["controlPlane"] = "deleteGroup" => net \cap {"vnet", "subnet"} = {}
    /\ pc["controlPlane"] = "release" => Owned = {}

IndInv == TypeOK /\ Types /\ StepInv /\ EndpointInv /\ FinalizerInv

\* The promises of the two finalizers for one step.
Promise == [Protected!Next]_(Protected!vars)
PoolPromise ==
    \A p \in Pools : pool[p].life = "deleting" /\ pool'[p].life = "gone" =>
        ap[p].state = "absent" \/ cluster = "deleting"

Good == IndInv' /\ Promise /\ PoolPromise

-----------------------------------------------------------------------------
(* Steps of the users, of Cluster API and of AzureManagedCluster *)

LEMMA PoolTypes ==
    ASSUME TypeOK
    PROVE  /\ pool \in [Pools -> PoolObjects]
           /\ cp \in [life: Lives, finalizer: BOOLEAN, initialized: BOOLEAN, endpoint: 0..mc.fqdn]
           /\ want \in [version: Nat, replicas: [Pools -> Nat]]
           /\ cfg.users \subseteq {"group", "vnet", "subnet"}
  BY SetupsAssumption DEF TypeOK, PoolObjects

LEMMA EditGood ==
    ASSUME IndInv, Edit
    PROVE  Good
<1>0. /\ UNCHANGED <<cfg, cluster, cp, pool, infra, kubeconfig, pc, mem, net, mc, ap, faults>>
      /\ edits' = edits + 1 /\ edits + faults < MaxEvents
  BY DEF Edit, objects, azure
<1>1. want' \in [version: Nat, replicas: [Pools -> Nat]]
  <2>0. want \in [version: Nat, replicas: [Pools -> Nat]]
    BY DEF IndInv, TypeOK
  <2>1. CASE want' = [want EXCEPT !.version = @ + 1]
    BY <2>0, <2>1
  <2>2. ASSUME NEW p \in Pools, want' = [want EXCEPT !.replicas[p] = @ + 1]
        PROVE  want' \in [version: Nat, replicas: [Pools -> Nat]]
    BY <2>0, <2>2
  <2> QED BY <2>1, <2>2 DEF Edit
<1>2. edits \in Nat /\ faults \in Nat
  BY DEF IndInv, Types
<1>3. edits' \in Nat /\ edits' + faults' \in 0..MaxEvents
  BY <1>0, <1>2, BoundsAssumption
<1>4. TypeOK'
  BY <1>0, <1>1, <1>3 DEF IndInv, TypeOK
<1>5. Types' /\ StepInv' /\ EndpointInv'
  BY <1>0, <1>3 DEF IndInv, Types, StepInv, EndpointInv
<1>6. FinalizerInv' /\ Promise
  BY <1>0 DEF IndInv, FinalizerInv, Promise, Protected!vars, Owned
<1>7. PoolPromise
  BY <1>0 DEF PoolPromise
<1> QED BY <1>4, <1>5, <1>6, <1>7 DEF Good, IndInv

LEMMA DeleteClusterGood ==
    ASSUME IndInv, DeleteCluster
    PROVE  Good
<1>0. /\ UNCHANGED <<cfg, want, cp, pool, infra, kubeconfig, pc, mem, net, mc, ap, edits, faults>>
      /\ cluster' = "deleting"
  BY DEF DeleteCluster, objects, azure
<1>1. TypeOK' /\ Types' /\ StepInv' /\ EndpointInv'
  BY <1>0 DEF IndInv, TypeOK, Types, StepInv, EndpointInv
<1>2. FinalizerInv' /\ Promise
  BY <1>0 DEF IndInv, FinalizerInv, Promise, Protected!vars, Owned
<1>3. PoolPromise
  BY <1>0 DEF PoolPromise
<1> QED BY <1>1, <1>2, <1>3 DEF Good, IndInv

LEMMA DeletePoolGood ==
    ASSUME IndInv, NEW p \in Pools, DeletePool(p)
    PROVE  Good
<1>0. /\ UNCHANGED <<cfg, cluster, want, edits, cp, infra, kubeconfig, pc, mem, net, mc, ap, faults>>
      /\ pool[p].life = "live" /\ pool \in [Pools -> PoolObjects]
      /\ pool' = [pool EXCEPT ![p].life = IF pool[p].finalizer THEN "deleting" ELSE "gone"]
  BY PoolTypes DEF DeletePool, inputs, azure, IndInv
<1>1. pool' \in [Pools -> PoolObjects] /\ \A q \in Pools \ {p} : pool'[q] = pool[q]
  BY <1>0 DEF PoolObjects, Lives
<1>2. TypeOK' /\ Types' /\ StepInv' /\ EndpointInv'
  BY <1>0, <1>1 DEF IndInv, TypeOK, Types, StepInv, EndpointInv, PoolObjects
<1>3. FinalizerInv' /\ Promise
  BY <1>0 DEF IndInv, FinalizerInv, Promise, Protected!vars, Owned
<1>4. PoolPromise
  BY <1>0, <1>1 DEF PoolPromise
<1> QED BY <1>2, <1>3, <1>4 DEF Good, IndInv

LEMMA DeleteControlPlaneGood ==
    ASSUME IndInv, DeleteControlPlane
    PROVE  Good
<1>0. /\ UNCHANGED <<cfg, cluster, want, edits, pool, infra, kubeconfig, pc, mem, net, mc, ap, faults>>
      /\ cp.life = "live" /\ Owned' = Owned
      /\ cp' = [cp EXCEPT !.life = IF cp.finalizer THEN "deleting" ELSE "gone"]
      /\ cp \in [life: Lives, finalizer: BOOLEAN, initialized: BOOLEAN, endpoint: 0..mc.fqdn]
  BY PoolTypes DEF DeleteControlPlane, inputs, azure, IndInv, Owned
<1>1. /\ cp' \in [life: Lives, finalizer: BOOLEAN, initialized: BOOLEAN, endpoint: 0..mc.fqdn]
      /\ cp'.life = (IF cp.finalizer THEN "deleting" ELSE "gone")
      /\ cp'.finalizer = cp.finalizer /\ cp'.initialized = cp.initialized
      /\ cp'.endpoint = cp.endpoint
  BY <1>0 DEF Lives
<1>2. TypeOK' /\ Types' /\ StepInv' /\ EndpointInv'
  BY <1>0, <1>1 DEF IndInv, TypeOK, Types, StepInv, EndpointInv
<1>3. FinalizerInv'
  BY <1>0, <1>1 DEF IndInv, FinalizerInv
<1>4. Promise
  BY <1>0, <1>1 DEF Promise, Protected!Next, Protected!RequestDeletion
<1>5. PoolPromise
  BY <1>0 DEF PoolPromise
<1> QED BY <1>2, <1>3, <1>4, <1>5 DEF Good, IndInv

LEMMA ReconcileClusterGood ==
    ASSUME IndInv, ReconcileCluster
    PROVE  Good
<1>0. /\ UNCHANGED <<cfg, cluster, want, edits, cp, pool, kubeconfig, pc, mem, net, mc, ap, faults>>
      /\ infra' = [ready |-> TRUE, endpoint |-> cp.endpoint]
      /\ cp.endpoint \in 0..mc.fqdn
  BY PoolTypes DEF ReconcileCluster, inputs, azure, IndInv
<1>1. TypeOK' /\ Types' /\ StepInv' /\ EndpointInv'
  BY <1>0 DEF IndInv, TypeOK, Types, StepInv, EndpointInv
<1>2. FinalizerInv' /\ Promise
  BY <1>0 DEF IndInv, FinalizerInv, Promise, Protected!vars, Owned
<1>3. PoolPromise
  BY <1>0 DEF PoolPromise
<1> QED BY <1>1, <1>2, <1>3 DEF Good, IndInv

-----------------------------------------------------------------------------
(* Azure *)

LEMMA AzureGood ==
    ASSUME IndInv, UNCHANGED <<inputs, objects, pc, mem, net>>,
           mc' \in ManagedClusters, mc'.fqdn = mc.fqdn,
           mc'.state # "absent" => mc.state # "absent",
           ap' \in [Pools -> AgentPools],
           \A p \in Pools : ap'[p].state # "absent" => mc'.state # "absent",
           faults' \in Nat, edits + faults' \in 0..MaxEvents
    PROVE  Good
<1>0. UNCHANGED <<cfg, cluster, want, edits, cp, pool, infra, kubeconfig, pc, mem, net>>
  BY DEF inputs, objects
<1>1. TypeOK'
  BY <1>0 DEF IndInv, TypeOK, ManagedClusters, States
<1>2. Types' /\ StepInv' /\ EndpointInv'
  BY <1>0 DEF IndInv, Types, StepInv, EndpointInv
<1>3. Owned' \subseteq Owned
  BY <1>0 DEF Owned
<1>4. FinalizerInv'
  BY <1>0, <1>3 DEF IndInv, FinalizerInv
<1>5. Promise
  <2>1. CASE cp.life # "gone"
    BY <1>0, <1>3, <2>1 DEF Promise, Protected!Next, Protected!Dispose
  <2>2. CASE cp.life = "gone"
    <3>1. Owned = {}
      BY <2>2 DEF IndInv, FinalizerInv
    <3> QED BY <1>0, <1>3, <3>1 DEF Promise, Protected!vars
  <2> QED BY <2>1, <2>2
<1>6. PoolPromise
  BY <1>0 DEF PoolPromise
<1> QED BY <1>1, <1>2, <1>4, <1>5, <1>6 DEF Good, IndInv

LEMMA CountersNow ==
    ASSUME IndInv
    PROVE  edits \in Nat /\ faults \in Nat /\ edits + faults \in 0..MaxEvents
  BY DEF IndInv, Types, TypeOK

LEMMA SettledCounters ==
    ASSUME IndInv, NEW from, NEW to, Settled(from, to)
    PROVE  faults' \in Nat /\ edits + faults' \in 0..MaxEvents
<1>1. edits \in Nat /\ faults \in Nat /\ edits + faults \in 0..MaxEvents
  BY CountersNow
<1>2. (faults' = faults \/ faults' = faults + 1) /\ edits + faults' <= MaxEvents
  BY DEF Settled
<1> QED BY <1>1, <1>2, BoundsAssumption

\* What is left when the managed cluster has gone.
LEMMA NothingLeft ==
    ASSUME IndInv
    PROVE  /\ NoCluster \in ManagedClusters /\ NoCluster.fqdn = mc.fqdn
           /\ NoCluster.state = "absent"
           /\ NoPools \in [Pools -> AgentPools]
           /\ \A p \in Pools : NoPools[p].state = "absent"
  BY DEF IndInv, Types, NoCluster, NoPools, ManagedClusters, AgentPools, States

LEMMA ManagedClusterSettlesGood ==
    ASSUME IndInv, ManagedClusterSettles
    PROVE  Good
<1>0. UNCHANGED <<inputs, objects, pc, mem, net>> /\ Types
  BY DEF ManagedClusterSettles, IndInv
<1>1. CASE mc.state = "Deleting" /\ mc' = NoCluster /\ ap' = NoPools /\ UNCHANGED faults
  BY <1>0, <1>1, NothingLeft, CountersNow, AzureGood
<1>2. ASSUME NEW to \in {"Succeeded", "Failed"}, Settled(mc.state, to),
             mc' = [mc EXCEPT !.state = to],
             ap' = IF mc.state = "Creating" THEN [ap EXCEPT ![DefaultPool].state = to] ELSE ap
      PROVE  Good
  <2>1. mc.state \in {"Creating", "Updating"}
    BY <1>2 DEF Settled
  <2>2. mc' \in ManagedClusters /\ mc'.fqdn = mc.fqdn /\ mc'.state = to
    BY <1>0, <1>2 DEF Types, ManagedClusters, States, Terminal
  <2>3. ap' \in [Pools -> AgentPools]
    BY <1>0, <1>2, DefaultPoolAssumption DEF Types, AgentPools, States, Terminal
  <2>4. faults' \in Nat /\ edits + faults' \in 0..MaxEvents
    BY <1>2, SettledCounters
  <2> QED BY <1>0, <1>2, <2>1, <2>2, <2>3, <2>4, AzureGood
<1> QED BY <1>1, <1>2 DEF ManagedClusterSettles

LEMMA AgentPoolSettlesGood ==
    ASSUME IndInv, NEW p \in Pools, AgentPoolSettles(p)
    PROVE  Good
<1>0. /\ UNCHANGED <<inputs, objects, pc, mem, net, mc>> /\ Types
      /\ mc.state \in Terminal /\ mc.state # "absent"
  BY DEF AgentPoolSettles, IndInv, Terminal
<1>1. CASE ap[p].state = "Deleting" /\ ap' = [ap EXCEPT ![p] = NoPools[p]] /\ UNCHANGED faults
  <2>1. ap' \in [Pools -> AgentPools]
    BY <1>0, <1>1, NothingLeft DEF Types
  <2> QED BY <1>0, <1>1, <2>1, CountersNow, AzureGood DEF Types
<1>2. ASSUME NEW to \in {"Succeeded", "Failed"}, Settled(ap[p].state, to),
             ap' = [ap EXCEPT ![p].state = to]
      PROVE  Good
  <2>1. ap' \in [Pools -> AgentPools]
    BY <1>0, <1>2 DEF Types, AgentPools, States, Terminal
  <2>2. faults' \in Nat /\ edits + faults' \in 0..MaxEvents
    BY <1>2, SettledCounters
  <2> QED BY <1>0, <2>1, <2>2, AzureGood DEF Types
<1> QED BY <1>1, <1>2 DEF AgentPoolSettles

LEMMA VanishesGood ==
    ASSUME IndInv, ManagedClusterVanishes
    PROVE  Good
<1>1. UNCHANGED <<inputs, objects, pc, mem, net>> /\ mc' = NoCluster /\ ap' = NoPools
  BY DEF ManagedClusterVanishes
<1>2. faults' \in Nat /\ edits + faults' \in 0..MaxEvents
  <2>1. edits \in Nat /\ faults \in Nat /\ faults' = faults + 1 /\ edits + faults < MaxEvents
    BY CountersNow DEF ManagedClusterVanishes
  <2> QED BY <2>1, BoundsAssumption
<1> QED BY <1>1, <1>2, NothingLeft, AzureGood

-----------------------------------------------------------------------------
(* The pools *)

LEMMA PoolGood ==
    ASSUME IndInv, NEW p \in Pools, UNCHANGED <<inputs, cp, infra, kubeconfig, net, mc, faults>>,
           pool' \in [Pools -> PoolObjects], \A q \in Pools \ {p} : pool'[q] = pool[q],
           ap' \in [Pools -> AgentPools], \A q \in Pools \ {p} : ap'[q] = ap[q],
           ap'[p].state # "absent" => ap[p].state # "absent" \/ mc.state # "absent",
           NEW step \in {"idle"} \cup PoolSteps, pc' = [pc EXCEPT ![p] = step],
           NEW read \in Reads, mem' = [mem EXCEPT ![p] = read],
           step \in {"putPool", "deletePool"} => read \in PoolReads,
           step = "deletePool" /\ read.closing => cluster = "deleting",
           pool[p].life = "deleting" /\ pool'[p].life = "gone" =>
               ap[p].state = "absent" \/ cluster = "deleting"
    PROVE  Good
<1>0. /\ UNCHANGED <<cfg, cluster, want, edits, cp, infra, kubeconfig, net, mc, faults>>
      /\ p \in Controllers /\ "controlPlane" \in Controllers /\ p # "controlPlane"
      /\ Types
  BY ControllersAssumption DEF inputs, Controllers, IndInv
<1>1. /\ pc' \in [Controllers -> Places] /\ mem' \in [Controllers -> Reads]
      /\ pc'[p] = step /\ mem'[p] = read
      /\ \A c \in Controllers \ {p} : pc'[c] = pc[c] /\ mem'[c] = mem[c]
  BY <1>0 DEF Types, Places
<1>2. Types'
  BY <1>0, <1>1 DEF Types
<1>3. \A q \in Pools : ap'[q].state # "absent" => mc'.state # "absent"
  BY <1>0 DEF IndInv, TypeOK
<1>4. TypeOK'
  BY <1>0, <1>3 DEF IndInv, TypeOK, PoolObjects
<1>5. StepInv'
  BY <1>0, <1>1 DEF IndInv, StepInv, Controllers
<1>6. EndpointInv' /\ FinalizerInv' /\ Promise
  BY <1>0, <1>1 DEF IndInv, EndpointInv, FinalizerInv, Promise, Protected!vars, Owned
<1>7. PoolPromise
  BY DEF PoolPromise
<1> QED BY <1>2, <1>4, <1>5, <1>6, <1>7 DEF Good, IndInv

\* A step that goes on with what was read before.
LEMMA PoolGoesOn ==
    ASSUME IndInv, NEW p \in Pools, NEW step, Step(p, step)
    PROVE  \E read \in Reads : mem' = [mem EXCEPT ![p] = read]
<1>1. mem \in [Controllers -> Reads] /\ p \in Controllers /\ mem' = mem
  BY DEF IndInv, Types, Step, Controllers
<1>2. mem[p] \in Reads /\ mem' = [mem EXCEPT ![p] = mem[p]]
  BY <1>1
<1> QED BY <1>2

LEMMA ListedInstances ==
    ASSUME IndInv, NEW p \in Pools, ListInstances(p)
    PROVE  /\ pool' \in [Pools -> PoolObjects] /\ (\A q \in Pools \ {p} : pool'[q] = pool[q])
           /\ pool'[p].life = pool[p].life
<1>0. pool \in [Pools -> PoolObjects] /\ ap[p].count \in Nat
  BY PoolTypes DEF IndInv, Types, AgentPools
<1>1. CASE UNCHANGED pool
  BY <1>0, <1>1
<1>2. ASSUME NEW n \in 0..ap[p].count, pool' = [pool EXCEPT ![p].ids = n, ![p].ready = TRUE]
      PROVE  /\ pool' \in [Pools -> PoolObjects] /\ (\A q \in Pools \ {p} : pool'[q] = pool[q])
             /\ pool'[p].life = pool[p].life
  <2>1. n \in Nat
    BY <1>0
  <2> QED BY <1>0, <1>2, <2>1 DEF PoolObjects
<1> QED BY <1>1, <1>2 DEF ListInstances

LEMMA ReleasedPool ==
    ASSUME IndInv, NEW p \in Pools, ReleasePool(p)
    PROVE  pool' \in [Pools -> PoolObjects] /\ (\A q \in Pools \ {p} : pool'[q] = pool[q])
<1>0. pool \in [Pools -> PoolObjects]
  BY PoolTypes DEF IndInv
<1>1. Patched(pool[p], [pool[p] EXCEPT !.finalizer = FALSE]) \in PoolObjects
  BY <1>0 DEF Patched, PoolObjects, Lives
<1>2. pool' = [pool EXCEPT ![p] = Patched(pool[p], [pool[p] EXCEPT !.finalizer = FALSE])]
  BY <1>0 DEF ReleasePool
<1> HIDE DEF Patched
<1> QED BY <1>0, <1>1, <1>2

LEMMA StartPoolGood ==
    ASSUME IndInv, NEW p \in Pools, StartPool(p)
    PROVE  Good
<1> DEFINE step == IF pool[p].life = "deleting" THEN "deletePool" ELSE "putPool"
           read == [replicas |-> want.replicas[p], closing |-> cluster = "deleting"]
<1>0. /\ UNCHANGED <<inputs, cp, infra, kubeconfig, net, mc, ap, faults>>
      /\ pool' = [pool EXCEPT ![p].finalizer = TRUE]
      /\ pc' = [pc EXCEPT ![p] = step] /\ mem' = [mem EXCEPT ![p] = read]
      /\ pool \in [Pools -> PoolObjects] /\ ap \in [Pools -> AgentPools]
  BY PoolTypes DEF StartPool, Goto, azure, IndInv, Types
<1>1. pool' \in [Pools -> PoolObjects] /\ (\A q \in Pools \ {p} : pool'[q] = pool[q])
      /\ pool'[p].life = pool[p].life
  BY <1>0 DEF PoolObjects
<1>2. read \in PoolReads /\ (read.closing => cluster = "deleting")
  BY PoolTypes DEF PoolReads, IndInv
<1>3. step \in {"idle"} \cup PoolSteps /\ read \in Reads
  BY <1>2 DEF PoolSteps, Reads
<1> HIDE DEF step, read
<1> QED BY <1>0, <1>1, <1>2, <1>3, PoolGood

\* A reconciliation of a pool that ends.
LEMMA PoolReturns ==
    ASSUME IndInv, NEW p \in Pools, Return(p)
    PROVE  /\ pc' = [pc EXCEPT ![p] = "idle"] /\ mem' = [mem EXCEPT ![p] = << >>]
           /\ "idle" \in {"idle"} \cup PoolSteps /\ << >> \in Reads
  BY DEF Return, Goto, Reads

\* An idle managed cluster exists.
LEMMA IdleExists ==
    ASSUME ~Busy PROVE mc.state # "absent"
  BY DEF Busy, Terminal

\* One that ends without having changed anything.
LEMMA PoolGivesUp ==
    ASSUME IndInv, NEW p \in Pools, Return(p),
           UNCHANGED <<inputs, cp, pool, infra, kubeconfig, net, mc, ap, faults>>
    PROVE  Good
<1>1. /\ UNCHANGED <<inputs, cp, infra, kubeconfig, net, mc, faults>>
      /\ pool' \in [Pools -> PoolObjects] /\ (\A q \in Pools \ {p} : pool'[q] = pool[q])
      /\ ap' \in [Pools -> AgentPools] /\ (\A q \in Pools \ {p} : ap'[q] = ap[q])
      /\ pool'[p] = pool[p] /\ ap'[p] = ap[p]
  BY PoolTypes DEF IndInv, Types
<1> QED BY <1>1, PoolReturns, PoolGood

LEMMA PutAgentPoolGood ==
    ASSUME IndInv, NEW p \in Pools, PutAgentPool(p)
    PROVE  Good
<1>0. /\ UNCHANGED <<inputs, cp, infra, kubeconfig, net, mc, faults>>
      /\ pool \in [Pools -> PoolObjects] /\ ap \in [Pools -> AgentPools]
      /\ mem[p] \in PoolReads
  BY PoolTypes DEF PutAgentPool, IndInv, Types, StepInv
<1>1. CASE ListInstances(p) /\ Return(p) /\ UNCHANGED ap
  BY <1>0, <1>1, ListedInstances, PoolReturns, PoolGood
<1>2. CASE Return(p) /\ UNCHANGED <<pool, ap>>
  BY <1>0, <1>2, PoolGivesUp
<1>3. ASSUME ~Busy, Step(p, "waitPool"), UNCHANGED pool,
             ap' = [ap EXCEPT ![p] = [state |-> IF ap[p].state = "absent" THEN "Creating" ELSE "Updating",
                                      count |-> mem[p].replicas]]
      PROVE  Good
  <2>1. ap' \in [Pools -> AgentPools] /\ (\A q \in Pools \ {p} : ap'[q] = ap[q])
    BY <1>0, <1>3 DEF AgentPools, States, PoolReads
  <2>2. PICK read \in Reads : mem' = [mem EXCEPT ![p] = read]
    BY <1>3, PoolGoesOn
  <2>3. pc' = [pc EXCEPT ![p] = "waitPool"] /\ "waitPool" \in {"idle"} \cup PoolSteps
    BY <1>3 DEF Step, PoolSteps
  <2>4. mc.state # "absent"
    BY <1>3, IdleExists
  <2> QED BY <1>0, <1>3, <2>1, <2>2, <2>3, <2>4, PoolGood
<1> HIDE DEF ListInstances, Return, Step, Busy, Good
<1> QED BY <1>0, <1>1, <1>2, <1>3 DEF PutAgentPool

LEMMA WaitAgentPoolGood ==
    ASSUME IndInv, NEW p \in Pools, WaitAgentPool(p)
    PROVE  Good
<1>0. /\ UNCHANGED <<inputs, cp, infra, kubeconfig, net, mc, ap, faults>> /\ Return(p)
      /\ pool \in [Pools -> PoolObjects] /\ ap \in [Pools -> AgentPools]
  BY PoolTypes DEF WaitAgentPool, azure, IndInv, Types
<1>1. CASE ListInstances(p)
  BY <1>0, <1>1, ListedInstances, PoolReturns, PoolGood
<1>2. CASE UNCHANGED pool
  BY <1>0, <1>2, PoolGivesUp
<1> QED BY <1>1, <1>2 DEF WaitAgentPool

LEMMA DeleteAgentPoolGood ==
    ASSUME IndInv, NEW p \in Pools, DeleteAgentPool(p)
    PROVE  Good
<1>0. /\ UNCHANGED <<inputs, cp, infra, kubeconfig, net, mc, faults>>
      /\ pool \in [Pools -> PoolObjects] /\ ap \in [Pools -> AgentPools]
      /\ mem[p].closing => cluster = "deleting"
  BY PoolTypes DEF DeleteAgentPool, IndInv, Types, StepInv
<1>1. CASE (mem[p].closing \/ ap[p].state = "absent") /\ ReleasePool(p) /\ Return(p) /\ UNCHANGED ap
  BY <1>0, <1>1, ReleasedPool, PoolReturns, PoolGood
<1>2. CASE Return(p) /\ UNCHANGED <<pool, ap>>
  BY <1>0, <1>2, PoolGivesUp
<1>3. ASSUME ~Busy, Step(p, "waitPoolDeletion"), UNCHANGED pool,
             ap' = [ap EXCEPT ![p].state = "Deleting"]
      PROVE  Good
  <2>1. ap' \in [Pools -> AgentPools] /\ (\A q \in Pools \ {p} : ap'[q] = ap[q])
    BY <1>0, <1>3 DEF AgentPools, States
  <2>2. PICK read \in Reads : mem' = [mem EXCEPT ![p] = read]
    BY <1>3, PoolGoesOn
  <2>3. pc' = [pc EXCEPT ![p] = "waitPoolDeletion"] /\ "waitPoolDeletion" \in {"idle"} \cup PoolSteps
    BY <1>3 DEF Step, PoolSteps
  <2>4. mc.state # "absent"
    BY <1>3, IdleExists
  <2> QED BY <1>0, <1>3, <2>1, <2>2, <2>3, <2>4, PoolGood
<1> QED BY <1>1, <1>2, <1>3 DEF DeleteAgentPool

LEMMA WaitPoolDeletionGood ==
    ASSUME IndInv, NEW p \in Pools, WaitPoolDeletion(p)
    PROVE  Good
<1>0. /\ UNCHANGED <<inputs, cp, infra, kubeconfig, net, mc, ap, faults>> /\ Return(p)
      /\ ReleasePool(p) /\ ap[p].state = "absent" /\ ap \in [Pools -> AgentPools]
  BY DEF WaitPoolDeletion, azure, IndInv, Types
<1> QED BY <1>0, ReleasedPool, PoolReturns, PoolGood

-----------------------------------------------------------------------------
(* The control plane *)

ControlPlanes(n) ==
    [life: Lives, finalizer: BOOLEAN, initialized: BOOLEAN, endpoint: 0..n]

ControlPlaneSteps == {"idle"} \cup Provisioning \cup Removing

\* What the control plane's controller leaves alone, and the types of what it
\* writes: the rest of each step is its EndpointInv, FinalizerInv and Promise.
LEMMA ControlPlaneGood ==
    ASSUME IndInv, UNCHANGED <<inputs, pool, infra, faults>>,
           NEW step \in ControlPlaneSteps, pc' = [pc EXCEPT !["controlPlane"] = step],
           NEW read \in Reads, mem' = [mem EXCEPT !["controlPlane"] = read],
           step \in {"network", "putManagedCluster"} => read \in ClusterReads,
           mc' \in ManagedClusters, mc.fqdn <= mc'.fqdn,
           ap' \in [Pools -> AgentPools],
           \A p \in Pools : ap'[p].state # "absent" => mc'.state # "absent",
           net' \subseteq {"group", "vnet", "subnet"},
           cp' \in ControlPlanes(mc'.fqdn), kubeconfig' \in 0..mc'.fqdn,
           cp'.initialized => cp'.endpoint > 0 /\ kubeconfig' > 0,
           EndpointInv', FinalizerInv', Promise
    PROVE  Good
<1>0. /\ UNCHANGED <<cfg, cluster, want, edits, pool, infra, faults>>
      /\ "controlPlane" \in Controllers
      /\ Types
  BY DEF inputs, Controllers, IndInv
<1>1. /\ pc' \in [Controllers -> Places] /\ mem' \in [Controllers -> Reads]
      /\ pc'["controlPlane"] = step /\ mem'["controlPlane"] = read
      /\ \A p \in Pools : pc'[p] = pc[p] /\ mem'[p] = mem[p]
  BY <1>0, ControllersAssumption DEF Types, Places, ControlPlaneSteps, Controllers
<1>2. Types'
  BY <1>0, <1>1 DEF Types
<1>3. StepInv'
  BY <1>0, <1>1 DEF IndInv, StepInv, ControlPlaneSteps
<1>4. infra' \in [ready: BOOLEAN, endpoint: 0..mc'.fqdn]
  <2>1. infra \in [ready: BOOLEAN, endpoint: 0..mc.fqdn]
    BY DEF IndInv, TypeOK
  <2>2. mc.fqdn \in Nat /\ mc'.fqdn \in Nat
    BY <1>0 DEF Types, ManagedClusters
  <2>3. 0..mc.fqdn \subseteq 0..mc'.fqdn
    BY <2>2
  <2> QED BY <1>0, <2>1, <2>3
<1>5. mc'.state \in Terminal \cup {"absent", "Creating", "Updating", "Deleting"}
  BY DEF ManagedClusters, States
<1>6. TypeOK'
  BY <1>0, <1>4, <1>5 DEF IndInv, TypeOK, ControlPlanes
<1>7. PoolPromise
  BY <1>0 DEF PoolPromise
<1> QED BY <1>2, <1>3, <1>6, <1>7 DEF Good, IndInv

\* What holds at the beginning of a step.
LEMMA ControlPlaneNow ==
    ASSUME IndInv
    PROVE  /\ cp \in ControlPlanes(mc.fqdn) /\ kubeconfig \in 0..mc.fqdn
           /\ cp.initialized => cp.endpoint > 0 /\ kubeconfig > 0
           /\ mc \in ManagedClusters /\ mc.fqdn \in Nat /\ mc.fqdn <= mc.fqdn
           /\ ap \in [Pools -> AgentPools]
           /\ \A p \in Pools : ap[p].state # "absent" => mc.state # "absent"
           /\ net \subseteq {"group", "vnet", "subnet"}
           /\ cfg.users \subseteq {"group", "vnet", "subnet"}
           /\ pc \in [Controllers -> Places] /\ "controlPlane" \in Controllers
           /\ mem["controlPlane"] \in Reads
<1>1. TypeOK /\ Types
  BY DEF IndInv
<1>2. mc.fqdn \in Nat /\ mc.fqdn <= mc.fqdn
  BY <1>1 DEF Types, ManagedClusters
<1> QED BY <1>1, <1>2, PoolTypes DEF TypeOK, Types, ControlPlanes, Controllers

\* The two ways to leave a step, and where the controller is then.
LEMMA GoesTo ==
    ASSUME IndInv, NEW step, NEW read, Goto("controlPlane", step, read)
    PROVE  /\ pc' = [pc EXCEPT !["controlPlane"] = step] /\ pc'["controlPlane"] = step
           /\ mem' = [mem EXCEPT !["controlPlane"] = read]
  BY ControlPlaneNow DEF Goto

LEMMA GoesOn ==
    ASSUME IndInv, NEW step, Step("controlPlane", step)
    PROVE  /\ pc' = [pc EXCEPT !["controlPlane"] = step] /\ pc'["controlPlane"] = step
           /\ mem' = [mem EXCEPT !["controlPlane"] = mem["controlPlane"]]
           /\ mem["controlPlane"] \in Reads
<1>1. mem \in [Controllers -> Reads] /\ mem' = mem
  BY DEF IndInv, Types, Step
<1> QED BY <1>1, ControlPlaneNow DEF Step

LEMMA GivesUp ==
    ASSUME IndInv, Return("controlPlane")
    PROVE  /\ pc' = [pc EXCEPT !["controlPlane"] = "idle"] /\ pc'["controlPlane"] = "idle"
           /\ mem' = [mem EXCEPT !["controlPlane"] = << >>]
           /\ << >> \in Reads /\ "idle" \in ControlPlaneSteps
  BY ControlPlaneNow DEF Return, Goto, Reads, ControlPlaneSteps

\* A step that only changes the place of the controller.
LEMMA PlaceGood ==
    ASSUME IndInv, UNCHANGED <<inputs, objects, azure, faults>>,
           NEW step \in ControlPlaneSteps, pc' = [pc EXCEPT !["controlPlane"] = step],
           NEW read \in Reads, mem' = [mem EXCEPT !["controlPlane"] = read],
           step \in {"network", "putManagedCluster"} => read \in ClusterReads,
           EndpointInv', FinalizerInv'
    PROVE  Good
<1>1. UNCHANGED <<inputs, cp, pool, infra, kubeconfig, net, mc, ap, faults>>
  BY DEF objects, azure
<1>2. Promise
  BY <1>1 DEF Promise, Protected!vars, Owned, inputs
<1>3. /\ UNCHANGED <<inputs, pool, infra, faults>>
      /\ mc' \in ManagedClusters /\ mc.fqdn <= mc'.fqdn
      /\ ap' \in [Pools -> AgentPools]
      /\ \A p \in Pools : ap'[p].state # "absent" => mc'.state # "absent"
      /\ net' \subseteq {"group", "vnet", "subnet"}
      /\ cp' \in ControlPlanes(mc'.fqdn) /\ kubeconfig' \in 0..mc'.fqdn
      /\ cp'.initialized => cp'.endpoint > 0 /\ kubeconfig' > 0
  BY <1>1, ControlPlaneNow
<1> QED BY <1>2, <1>3, ControlPlaneGood

\* A reconciliation that ends without having changed anything.
LEMMA ControlPlaneGivesUp ==
    ASSUME IndInv, Return("controlPlane"), UNCHANGED <<inputs, objects, azure, faults>>
    PROVE  Good
<1>1. UNCHANGED <<cfg, cp, kubeconfig, net, mc, ap>>
  BY DEF inputs, objects, azure
<1>2. EndpointInv' /\ FinalizerInv'
  BY <1>1, GivesUp DEF IndInv, EndpointInv, FinalizerInv, Owned, Removing
<1> QED BY <1>2, GivesUp, PlaceGood

\* A step that writes the control plane or the Secret, not Azure.
LEMMA ControlPlaneWritten ==
    ASSUME IndInv, UNCHANGED <<inputs, pool, infra, azure, faults>>,
           NEW step \in ControlPlaneSteps, pc' = [pc EXCEPT !["controlPlane"] = step],
           NEW read \in Reads, mem' = [mem EXCEPT !["controlPlane"] = read],
           step \in {"network", "putManagedCluster"} => read \in ClusterReads,
           cp' \in ControlPlanes(mc.fqdn), kubeconfig' \in 0..mc.fqdn,
           cp'.initialized => cp'.endpoint > 0 /\ kubeconfig' > 0,
           EndpointInv', FinalizerInv', Promise
    PROVE  Good
<1>1. UNCHANGED <<net, mc, ap>>
  BY DEF azure
<1>2. /\ UNCHANGED <<inputs, pool, infra, faults>>
      /\ mc' \in ManagedClusters /\ mc.fqdn <= mc'.fqdn
      /\ ap' \in [Pools -> AgentPools]
      /\ \A p \in Pools : ap'[p].state # "absent" => mc'.state # "absent"
      /\ net' \subseteq {"group", "vnet", "subnet"}
      /\ cp' \in ControlPlanes(mc'.fqdn) /\ kubeconfig' \in 0..mc'.fqdn
  BY <1>1, ControlPlaneNow
<1> QED BY <1>2, ControlPlaneGood

\* A step that writes Azure, not the objects.
LEMMA AzureWritten ==
    ASSUME IndInv, UNCHANGED <<inputs, objects, faults>>,
           NEW step \in ControlPlaneSteps, pc' = [pc EXCEPT !["controlPlane"] = step],
           NEW read \in Reads, mem' = [mem EXCEPT !["controlPlane"] = read],
           step \in {"network", "putManagedCluster"} => read \in ClusterReads,
           mc' \in ManagedClusters, mc.fqdn <= mc'.fqdn,
           ap' \in [Pools -> AgentPools],
           \A p \in Pools : ap'[p].state # "absent" => mc'.state # "absent",
           net' \subseteq {"group", "vnet", "subnet"},
           EndpointInv', FinalizerInv', Promise
    PROVE  Good
<1>1. UNCHANGED <<cp, pool, infra, kubeconfig>>
  BY DEF objects
<1>2. 0..mc.fqdn \subseteq 0..mc'.fqdn
  <2>1. mc'.fqdn \in Nat
    BY DEF ManagedClusters
  <2> QED BY <2>1, ControlPlaneNow
<1>3. /\ UNCHANGED <<inputs, pool, infra, faults>>
      /\ cp' \in ControlPlanes(mc'.fqdn) /\ kubeconfig' \in 0..mc'.fqdn
      /\ cp'.initialized => cp'.endpoint > 0 /\ kubeconfig' > 0
  BY <1>1, <1>2, ControlPlaneNow DEF ControlPlanes
<1> QED BY <1>3, ControlPlaneGood

LEMMA StartControlPlaneGood ==
    ASSUME IndInv, StartControlPlane
    PROVE  Good
<1> DEFINE step == IF cp.life = "deleting" THEN "deleteManagedCluster" ELSE "network"
<1>0. /\ UNCHANGED <<inputs, pool, infra, kubeconfig, azure, faults>> /\ UNCHANGED <<cfg, net, mc>>
      /\ cp' = [cp EXCEPT !.finalizer = TRUE] /\ cp.life # "gone"
      /\ Goto("controlPlane", step, ReadControlPlane)
  BY DEF StartControlPlane, inputs, azure
<1>1. /\ cp' \in ControlPlanes(mc.fqdn) /\ cp'.finalizer = TRUE
      /\ cp'.life = cp.life /\ cp'.initialized = cp.initialized /\ cp'.endpoint = cp.endpoint
  BY <1>0, ControlPlaneNow DEF ControlPlanes
<1>2. ReadControlPlane \in ClusterReads
  BY PoolTypes, DefaultPoolAssumption DEF IndInv, ReadControlPlane, ClusterReads
<1>3. step \in ControlPlaneSteps /\ ReadControlPlane \in Reads
  BY <1>2 DEF ControlPlaneSteps, Provisioning, Removing, Reads
<1>4. /\ pc' = [pc EXCEPT !["controlPlane"] = step] /\ pc'["controlPlane"] = step
      /\ mem' = [mem EXCEPT !["controlPlane"] = ReadControlPlane]
  BY <1>0, GoesTo
<1>5. Owned' = Owned
  BY <1>0 DEF Owned
<1>6. EndpointInv' /\ FinalizerInv'
  BY <1>0, <1>1, <1>4, <1>5, ControlPlaneNow
     DEF IndInv, EndpointInv, FinalizerInv, Removing, ControlPlanes, Lives
<1>7. Promise
  <2>1. CASE cp.life = "live"
    BY <1>1, <1>5, <2>1 DEF Promise, Protected!Next, Protected!Protect
  <2>2. CASE cp.life = "deleting"
    BY <1>1, <1>5, <2>2 DEF IndInv, FinalizerInv, Promise, Protected!vars
  <2> QED BY <1>0, <2>1, <2>2, ControlPlaneNow DEF ControlPlanes, Lives
<1>8. kubeconfig' \in 0..mc.fqdn /\ (cp'.initialized => cp'.endpoint > 0 /\ kubeconfig' > 0)
  BY <1>0, <1>1, ControlPlaneNow
<1> HIDE DEF step
<1> QED BY <1>0, <1>1, <1>2, <1>3, <1>4, <1>6, <1>7, <1>8, ControlPlaneWritten

\* What has been created is claimed while the finalizer is set, what has been
\* removed is disposed of.
LEMMA Claimed ==
    ASSUME IndInv, UNCHANGED <<inputs, objects>>, pc["controlPlane"] # "idle",
           net' \subseteq {"group", "vnet", "subnet"},
           net \subseteq net', mc.state # "absent" => mc'.state # "absent"
    PROVE  Promise
<1>1. UNCHANGED <<cfg, cp>>
  BY DEF inputs, objects
<1>2. Owned \subseteq Owned' /\ Owned' \subseteq {"group", "vnet", "subnet", "managedCluster"}
  BY <1>1 DEF Owned
<1>3. cp.finalizer /\ cp.life # "gone"
  BY DEF IndInv, FinalizerInv
<1> QED BY <1>1, <1>2, <1>3 DEF Promise, Protected!Next, Protected!Claim

LEMMA Disposed ==
    ASSUME IndInv, UNCHANGED <<inputs, objects>>, pc["controlPlane"] # "idle",
           net' \subseteq net, mc'.state # "absent" => mc.state # "absent"
    PROVE  Promise
<1>1. UNCHANGED <<cfg, cp>>
  BY DEF inputs, objects
<1>2. Owned' \subseteq Owned
  BY <1>1 DEF Owned
<1>3. cp.life # "gone"
  BY DEF IndInv, FinalizerInv
<1> QED BY <1>1, <1>2, <1>3 DEF Promise, Protected!Next, Protected!Dispose

LEMMA ReconcileNetworkGood ==
    ASSUME IndInv, ReconcileNetwork
    PROVE  Good
<1> DEFINE read == [mem["controlPlane"] EXCEPT !.found = mc.state # "absent"]
<1>0. /\ UNCHANGED <<inputs, objects, mc, ap, faults>> /\ UNCHANGED <<cfg, cp, kubeconfig>>
      /\ pc["controlPlane"] = "network" /\ net' = {"group", "vnet", "subnet"}
  BY DEF ReconcileNetwork, inputs, objects
<1>1. /\ mc' \in ManagedClusters /\ mc.fqdn <= mc'.fqdn
      /\ ap' \in [Pools -> AgentPools]
      /\ \A p \in Pools : ap'[p].state # "absent" => mc'.state # "absent"
      /\ net' \subseteq {"group", "vnet", "subnet"} /\ net \subseteq net'
  BY <1>0, ControlPlaneNow
<1>2. Promise
  BY <1>0, <1>1, Claimed
<1>3. cp.finalizer /\ cp.life # "gone" /\ (cp.life = "deleting" => cp.finalizer)
  BY <1>0 DEF IndInv, FinalizerInv
<1>4. CASE Goto("controlPlane", "putManagedCluster", read)
  <2>1. read \in ClusterReads
    BY <1>0 DEF IndInv, StepInv, ClusterReads
  <2>2. read \in Reads /\ "putManagedCluster" \in ControlPlaneSteps
    BY <2>1 DEF Reads, ControlPlaneSteps, Provisioning
  <2> HIDE DEF read
  <2>3. EndpointInv' /\ FinalizerInv'
    BY <1>0, <1>3, <1>4, GoesTo DEF IndInv, EndpointInv, FinalizerInv, Removing
  <2> QED BY <1>0, <1>1, <1>2, <1>4, <2>1, <2>2, <2>3, GoesTo, AzureWritten
<1>5. CASE Return("controlPlane")
  <2>1. EndpointInv' /\ FinalizerInv'
    BY <1>0, <1>3, <1>5, GivesUp DEF IndInv, EndpointInv, FinalizerInv, Removing
  <2> QED BY <1>0, <1>1, <1>2, <1>5, <2>1, GivesUp, AzureWritten
<1> QED BY <1>4, <1>5 DEF ReconcileNetwork

\* The managed cluster is created or updated.
LEMMA ManagedClusterPut ==
    ASSUME IndInv, UNCHANGED <<inputs, objects, net, faults>>,
           pc["controlPlane"] = "putManagedCluster", Step("controlPlane", "waitManagedCluster"),
           mc' \in ManagedClusters, mc.fqdn <= mc'.fqdn, mc'.state # "absent", mc'.fqdn > 0,
           ap' \in [Pools -> AgentPools]
    PROVE  Good
<1>1. UNCHANGED <<cfg, cp, kubeconfig, net>>
  BY DEF inputs, objects
<1>2. Promise
  BY <1>1, ControlPlaneNow, Claimed
<1>3. cp.finalizer /\ cp.life # "gone" /\ (cp.life = "deleting" => cp.finalizer)
  BY DEF IndInv, FinalizerInv
<1>4. EndpointInv' /\ FinalizerInv'
  BY <1>1, <1>3, GoesOn DEF IndInv, EndpointInv, FinalizerInv, Removing
<1>5. /\ "waitManagedCluster" \in ControlPlaneSteps
      /\ net' \subseteq {"group", "vnet", "subnet"}
      /\ \A p \in Pools : ap'[p].state # "absent" => mc'.state # "absent"
  BY <1>1, ControlPlaneNow DEF ControlPlaneSteps, Provisioning
<1> QED BY <1>2, <1>4, <1>5, GoesOn, AzureWritten

LEMMA PutManagedClusterGood ==
    ASSUME IndInv, PutManagedCluster
    PROVE  Good
<1> DEFINE read == mem["controlPlane"]
<1>0. /\ UNCHANGED <<inputs, objects, net, faults>> /\ pc["controlPlane"] = "putManagedCluster"
      /\ read \in ClusterReads
  BY DEF PutManagedCluster, IndInv, StepInv
<1>1. CASE CreateManagedCluster(read) /\ Step("controlPlane", "waitManagedCluster")
  <2>1. mc' = [state |-> "Creating", version |-> read.version, fqdn |-> mc.fqdn + 1]
        /\ ap' = [ap EXCEPT ![DefaultPool] = [state |-> "Creating", count |-> read.replicas]]
    BY <1>1 DEF CreateManagedCluster
  <2>2. mc' \in ManagedClusters /\ mc.fqdn <= mc'.fqdn /\ mc'.state # "absent" /\ mc'.fqdn > 0
    BY <1>0, <2>1, ControlPlaneNow DEF ManagedClusters, ClusterReads, States
  <2>3. ap' \in [Pools -> AgentPools]
    BY <1>0, <2>1, ControlPlaneNow DEF AgentPools, ClusterReads, States
  <2> QED BY <1>0, <1>1, <2>2, <2>3, ManagedClusterPut
<1>2. CASE Return("controlPlane") /\ UNCHANGED <<mc, ap>>
  BY <1>0, <1>2, ControlPlaneGivesUp DEF azure
<1>3. CASE Step("controlPlane", "endpoint") /\ UNCHANGED <<mc, ap>>
  <2>1. UNCHANGED <<inputs, objects, azure, faults>> /\ UNCHANGED <<cfg, cp, kubeconfig, net, mc>>
    BY <1>0, <1>3 DEF azure, inputs, objects
  <2>2. EndpointInv' /\ FinalizerInv'
    BY <1>0, <1>3, <2>1, GoesOn DEF IndInv, EndpointInv, FinalizerInv, Owned, Removing
  <2>3. "endpoint" \in ControlPlaneSteps
    BY DEF ControlPlaneSteps, Provisioning
  <2> QED BY <1>3, <2>1, <2>2, <2>3, GoesOn, PlaceGood
<1>4. CASE mc.state # "absent" /\ UpdateManagedCluster(read) /\ Step("controlPlane", "waitManagedCluster")
  <2>1. mc' = [mc EXCEPT !.state = "Updating", !.version = read.version] /\ ap' = ap
    BY <1>4 DEF UpdateManagedCluster
  <2>2. mc' \in ManagedClusters /\ mc.fqdn <= mc'.fqdn /\ mc'.state # "absent" /\ mc'.fqdn = mc.fqdn
    BY <1>0, <2>1, ControlPlaneNow DEF ManagedClusters, ClusterReads, States
  <2>3. ap' \in [Pools -> AgentPools] /\ mc'.fqdn > 0
    BY <1>4, <2>1, <2>2, ControlPlaneNow DEF IndInv, EndpointInv
  <2> QED BY <1>0, <1>4, <2>2, <2>3, ManagedClusterPut
<1> QED BY <1>1, <1>2, <1>3, <1>4 DEF PutManagedCluster

LEMMA WaitManagedClusterGood ==
    ASSUME IndInv, WaitManagedCluster
    PROVE  Good
<1>0. /\ UNCHANGED <<inputs, objects, azure, faults>> /\ UNCHANGED <<cfg, cp, kubeconfig, net, mc>>
      /\ pc["controlPlane"] = "waitManagedCluster"
  BY DEF WaitManagedCluster, azure, inputs, objects
<1>1. CASE Return("controlPlane")
  BY <1>0, <1>1, ControlPlaneGivesUp
<1>2. CASE Step("controlPlane", "endpoint")
  <2>1. EndpointInv' /\ FinalizerInv'
    BY <1>0, <1>2, GoesOn DEF IndInv, EndpointInv, FinalizerInv, Owned, Removing
  <2>2. "endpoint" \in ControlPlaneSteps
    BY DEF ControlPlaneSteps, Provisioning
  <2> QED BY <1>0, <1>2, <2>1, <2>2, GoesOn, PlaceGood
<1> QED BY <1>1, <1>2 DEF WaitManagedCluster

LEMMA ReconcileEndpointGood ==
    ASSUME IndInv, ReconcileEndpoint
    PROVE  Good
<1>0. /\ UNCHANGED <<inputs, pool, infra, kubeconfig, azure, faults>> /\ UNCHANGED <<cfg, net, mc>>
      /\ pc["controlPlane"] = "endpoint"
  BY DEF ReconcileEndpoint, azure, inputs
<1>1. CASE Return("controlPlane") /\ UNCHANGED cp
  BY <1>0, <1>1, ControlPlaneGivesUp DEF objects
<1>2. CASE /\ mc.state # "absent" /\ Step("controlPlane", "kubeconfig")
           /\ cp' = [cp EXCEPT !.endpoint = mc.fqdn]
  <2>1. mc.fqdn \in 0..mc.fqdn /\ mc.fqdn > 0
    BY <1>2, ControlPlaneNow DEF IndInv, EndpointInv
  <2>2. /\ cp' \in ControlPlanes(mc.fqdn) /\ cp'.endpoint = mc.fqdn
        /\ cp'.life = cp.life /\ cp'.finalizer = cp.finalizer /\ cp'.initialized = cp.initialized
    BY <1>2, <2>1, ControlPlaneNow DEF ControlPlanes
  <2>3. Owned' = Owned
    BY <1>0 DEF Owned
  <2>4. EndpointInv' /\ FinalizerInv'
    BY <1>0, <1>2, <2>1, <2>2, <2>3, GoesOn DEF IndInv, EndpointInv, FinalizerInv, Removing
  <2>5. Promise
    BY <2>2, <2>3 DEF Promise, Protected!vars
  <2>6. kubeconfig' \in 0..mc.fqdn /\ (cp'.initialized => cp'.endpoint > 0 /\ kubeconfig' > 0)
    BY <1>0, <2>1, <2>2, ControlPlaneNow
  <2>7. "kubeconfig" \in ControlPlaneSteps
    BY DEF ControlPlaneSteps, Provisioning
  <2> QED BY <1>0, <1>2, <2>2, <2>4, <2>5, <2>6, <2>7, GoesOn, ControlPlaneWritten
<1> QED BY <1>1, <1>2 DEF ReconcileEndpoint

LEMMA ReconcileKubeconfigGood ==
    ASSUME IndInv, ReconcileKubeconfig
    PROVE  Good
<1>0. /\ UNCHANGED <<inputs, pool, infra, azure, faults>> /\ UNCHANGED <<cfg, net, mc>>
      /\ pc["controlPlane"] = "kubeconfig" /\ Return("controlPlane")
  BY DEF ReconcileKubeconfig, azure, inputs
<1>1. CASE UNCHANGED <<cp, kubeconfig>>
  BY <1>0, <1>1, ControlPlaneGivesUp DEF objects
<1>2. CASE /\ mc.state # "absent" /\ kubeconfig' = mc.fqdn
           /\ cp' = [cp EXCEPT !.initialized = TRUE]
  <2>1. mc.fqdn \in 0..mc.fqdn /\ mc.fqdn > 0 /\ cp.endpoint > 0
    BY <1>0, <1>2, ControlPlaneNow DEF IndInv, EndpointInv
  <2>2. /\ cp' \in ControlPlanes(mc.fqdn) /\ cp'.endpoint = cp.endpoint
        /\ cp'.life = cp.life /\ cp'.finalizer = cp.finalizer
    BY <1>2, ControlPlaneNow DEF ControlPlanes
  <2>3. Owned' = Owned
    BY <1>0 DEF Owned
  <2>4. EndpointInv' /\ FinalizerInv'
    BY <1>0, <2>2, <2>3, GivesUp DEF IndInv, EndpointInv, FinalizerInv, Removing
  <2>5. Promise
    BY <2>2, <2>3 DEF Promise, Protected!vars
  <2>6. kubeconfig' \in 0..mc.fqdn /\ (cp'.initialized => cp'.endpoint > 0 /\ kubeconfig' > 0)
    BY <1>2, <2>1, <2>2
  <2> QED BY <1>0, <2>2, <2>4, <2>5, <2>6, GivesUp, ControlPlaneWritten
<1> QED BY <1>1, <1>2 DEF ReconcileKubeconfig

LEMMA DeleteManagedClusterGood ==
    ASSUME IndInv, DeleteManagedCluster
    PROVE  Good
<1>0. /\ UNCHANGED <<inputs, objects, net, ap, faults>> /\ UNCHANGED <<cfg, cp, kubeconfig>>
      /\ pc["controlPlane"] = "deleteManagedCluster"
      /\ cp.life = "deleting" /\ cp.finalizer
  BY DEF DeleteManagedCluster, inputs, objects, IndInv, FinalizerInv, Removing
<1>1. CASE mc.state = "absent" /\ Step("controlPlane", "deleteNetwork") /\ UNCHANGED mc
  <2>1. UNCHANGED <<inputs, objects, azure, faults>>
    BY <1>0, <1>1 DEF azure
  <2>2. EndpointInv' /\ FinalizerInv'
    BY <1>0, <1>1, GoesOn DEF IndInv, EndpointInv, FinalizerInv, Removing
  <2>3. "deleteNetwork" \in ControlPlaneSteps
    BY DEF ControlPlaneSteps, Removing
  <2> QED BY <1>1, <2>1, <2>2, <2>3, GoesOn, PlaceGood
<1>2. CASE /\ mc.state # "absent" /\ mc' = [mc EXCEPT !.state = "Deleting"]
           /\ Step("controlPlane", "waitDeletion")
  <2>1. /\ mc' \in ManagedClusters /\ mc.fqdn <= mc'.fqdn
        /\ mc'.state = "Deleting" /\ mc'.fqdn = mc.fqdn
    BY <1>2, ControlPlaneNow DEF ManagedClusters, States
  <2>2. Promise
    BY <1>0, <1>2, <2>1, Disposed
  <2>3. EndpointInv' /\ FinalizerInv'
    BY <1>0, <1>2, <2>1, GoesOn DEF IndInv, EndpointInv, FinalizerInv, Removing
  <2>4. /\ "waitDeletion" \in ControlPlaneSteps
        /\ ap' \in [Pools -> AgentPools]
        /\ \A p \in Pools : ap'[p].state # "absent" => mc'.state # "absent"
        /\ net' \subseteq {"group", "vnet", "subnet"}
    BY <1>0, <2>1, ControlPlaneNow DEF ControlPlaneSteps, Removing
  <2> QED BY <1>0, <1>2, <2>1, <2>2, <2>3, <2>4, GoesOn, AzureWritten
<1> QED BY <1>1, <1>2 DEF DeleteManagedCluster

LEMMA WaitDeletionGood ==
    ASSUME IndInv, WaitDeletion
    PROVE  Good
<1>0. /\ UNCHANGED <<inputs, objects, azure, faults>> /\ UNCHANGED <<cfg, cp, kubeconfig, net, mc>>
      /\ pc["controlPlane"] = "waitDeletion" /\ mc.state = "absent"
      /\ Step("controlPlane", "deleteNetwork")
      /\ cp.life = "deleting" /\ cp.finalizer
  BY DEF WaitDeletion, inputs, objects, azure, IndInv, FinalizerInv, Removing
<1>1. EndpointInv' /\ FinalizerInv'
  BY <1>0, GoesOn DEF IndInv, EndpointInv, FinalizerInv, Removing
<1>2. "deleteNetwork" \in ControlPlaneSteps
  BY DEF ControlPlaneSteps, Removing
<1> QED BY <1>0, <1>1, <1>2, GoesOn, PlaceGood

\* Part of the network is removed when the managed cluster has gone.
LEMMA NetworkRemoved ==
    ASSUME IndInv, UNCHANGED <<inputs, objects, mc, ap, faults>>, net' \subseteq net,
           pc["controlPlane"] \in {"deleteNetwork", "deleteGroup"},
           NEW step \in {"deleteGroup", "release"}, Step("controlPlane", step),
           step = "deleteGroup" => net' \cap {"vnet", "subnet"} = {},
           step = "release" => net' \subseteq cfg.users
    PROVE  Good
<1>0. /\ UNCHANGED <<cfg, cp, kubeconfig, mc>> /\ mc.state = "absent"
      /\ cp.life = "deleting" /\ cp.finalizer
  BY DEF inputs, objects, IndInv, FinalizerInv, Removing
<1>1. Promise
  BY <1>0, Disposed
<1>2. step = "release" => Owned' = {}
  BY <1>0 DEF Owned
<1>3. EndpointInv' /\ FinalizerInv'
  BY <1>0, <1>2, GoesOn DEF IndInv, EndpointInv, FinalizerInv, Removing
<1>4. /\ step \in ControlPlaneSteps
      /\ mc' \in ManagedClusters /\ mc.fqdn <= mc'.fqdn
      /\ ap' \in [Pools -> AgentPools]
      /\ \A p \in Pools : ap'[p].state # "absent" => mc'.state # "absent"
      /\ net' \subseteq {"group", "vnet", "subnet"}
  BY <1>0, ControlPlaneNow DEF ControlPlaneSteps, Removing
<1> QED BY <1>1, <1>3, <1>4, GoesOn, AzureWritten

LEMMA DeleteNetworkGood ==
    ASSUME IndInv, DeleteNetwork
    PROVE  Good
  BY NetworkRemoved DEF DeleteNetwork

LEMMA DeleteGroupGood ==
    ASSUME IndInv, DeleteGroup
    PROVE  Good
<1>1. net \subseteq {"group"}
  BY ControlPlaneNow DEF DeleteGroup, IndInv, FinalizerInv
<1>2. net' \subseteq net /\ net' \subseteq cfg.users
  BY <1>1 DEF DeleteGroup
<1> QED BY <1>2, NetworkRemoved DEF DeleteGroup

LEMMA ReleaseControlPlaneGood ==
    ASSUME IndInv, ReleaseControlPlane
    PROVE  Good
<1>0. /\ UNCHANGED <<inputs, pool, infra, kubeconfig, azure, faults>> /\ UNCHANGED <<cfg, net, mc>>
      /\ Return("controlPlane") /\ cp' = Patched(cp, [cp EXCEPT !.finalizer = FALSE])
      /\ cp.life = "deleting" /\ Owned = {}
  BY DEF ReleaseControlPlane, inputs, azure, IndInv, FinalizerInv, Removing
<1>1. /\ cp' \in ControlPlanes(mc.fqdn) /\ cp'.life = "gone" /\ cp'.finalizer = FALSE
      /\ cp'.initialized = cp.initialized /\ cp'.endpoint = cp.endpoint
  BY <1>0, ControlPlaneNow DEF ControlPlanes, Patched, Lives
<1>2. Owned' = {}
  BY <1>0 DEF Owned
<1>3. EndpointInv' /\ FinalizerInv'
  BY <1>0, <1>1, <1>2, GivesUp DEF IndInv, EndpointInv, FinalizerInv, Removing
<1>4. Promise
  BY <1>0, <1>1, <1>2 DEF Promise, Protected!Next, Protected!Release
<1>5. kubeconfig' \in 0..mc.fqdn /\ (cp'.initialized => cp'.endpoint > 0 /\ kubeconfig' > 0)
  BY <1>0, <1>1, ControlPlaneNow
<1> QED BY <1>0, <1>1, <1>3, <1>4, <1>5, GivesUp, ControlPlaneWritten

-----------------------------------------------------------------------------
(* Faults, and the whole *)

LEMMA InterruptGood ==
    ASSUME IndInv, NEW c \in Controllers, Interrupt(c)
    PROVE  Good
<1>0. /\ UNCHANGED <<cfg, cluster, want, edits, cp, pool, infra, kubeconfig, net, mc, ap>>
      /\ pc' = [pc EXCEPT ![c] = "idle"] /\ mem' = [mem EXCEPT ![c] = << >>]
      /\ faults' = faults + 1 /\ edits + faults < MaxEvents /\ Types
  BY DEF Interrupt, Return, Goto, inputs, objects, azure, IndInv
<1>1. edits \in Nat /\ faults \in Nat
  BY <1>0 DEF Types
<1>2. faults' \in Nat /\ edits' + faults' \in 0..MaxEvents
  BY <1>0, <1>1, BoundsAssumption
<1>3. /\ pc' \in [Controllers -> Places] /\ mem' \in [Controllers -> Reads]
      /\ \A d \in Controllers : pc'[d] = "idle" \/ (pc'[d] = pc[d] /\ mem'[d] = mem[d])
  BY <1>0 DEF Types, Places, Reads
<1>4. TypeOK' /\ Types'
  BY <1>0, <1>2, <1>3 DEF IndInv, TypeOK, Types
<1>5. "controlPlane" \in Controllers /\ (\A p \in Pools : p \in Controllers)
  BY DEF Controllers
<1>6. StepInv' /\ EndpointInv'
  BY <1>0, <1>3, <1>5 DEF IndInv, StepInv, EndpointInv
<1>7. FinalizerInv' /\ Promise
  BY <1>0, <1>3, <1>5 DEF IndInv, FinalizerInv, Promise, Protected!vars, Owned, Removing
<1>8. PoolPromise
  BY <1>0 DEF PoolPromise
<1> QED BY <1>4, <1>6, <1>7, <1>8 DEF Good, IndInv

LEMMA InitInv ==
    ASSUME Init PROVE IndInv
<1>0. /\ mc = [state |-> "absent", version |-> 0, fqdn |-> 0]
      /\ cp = [life |-> "live", finalizer |-> FALSE, initialized |-> FALSE, endpoint |-> 0]
      /\ net = cfg.users /\ cfg \in Setups
      /\ pc = [c \in Controllers |-> "idle"] /\ mem = [c \in Controllers |-> << >>]
  BY DEF Init
<1>1. cfg.users \subseteq {"group", "vnet", "subnet"}
  BY <1>0, SetupsAssumption
<1>2. mc.fqdn = 0 /\ 0 \in 0..mc.fqdn /\ Owned = {}
  BY <1>0 DEF Owned
<1>3. edits = 0 /\ faults = 0 /\ edits + faults \in 0..MaxEvents
  BY BoundsAssumption DEF Init
<1>4. TypeOK
  BY <1>0, <1>1, <1>2, <1>3 DEF Init, TypeOK, Lives
<1>5. Types
  BY <1>0, <1>3 DEF Init, Types, Places, Reads, ManagedClusters, AgentPools, States
<1>6. "controlPlane" \in Controllers /\ (\A p \in Pools : p \in Controllers)
  BY DEF Controllers
<1>7. StepInv /\ EndpointInv
  BY <1>0, <1>6 DEF StepInv, EndpointInv
<1>8. FinalizerInv
  BY <1>0, <1>2, <1>6 DEF FinalizerInv, Removing
<1> QED BY <1>4, <1>5, <1>7, <1>8 DEF IndInv

LEMMA NextGood ==
    ASSUME IndInv, [Next]_vars
    PROVE  Good
<1>1. CASE UNCHANGED vars
  <2>1. UNCHANGED <<cfg, cluster, want, cp, pool, infra, kubeconfig, pc, mem, net, mc, ap, edits, faults>>
    BY <1>1 DEF vars
  <2>2. TypeOK' /\ Types' /\ StepInv' /\ EndpointInv'
    BY <2>1 DEF IndInv, TypeOK, Types, StepInv, EndpointInv
  <2>3. FinalizerInv' /\ Promise /\ PoolPromise
    BY <2>1 DEF IndInv, FinalizerInv, Promise, Protected!vars, Owned, PoolPromise
  <2> QED BY <2>2, <2>3 DEF Good, IndInv
<1>2. CASE Edit \/ DeleteCluster \/ DeleteControlPlane \/ ReconcileCluster
  BY <1>2, EditGood, DeleteClusterGood, DeleteControlPlaneGood, ReconcileClusterGood
<1>3. CASE \E p \in Pools : DeletePool(p) \/ ReconcilePool(p)
  BY <1>3, DeletePoolGood, StartPoolGood, PutAgentPoolGood, WaitAgentPoolGood,
     DeleteAgentPoolGood, WaitPoolDeletionGood DEF ReconcilePool
<1>4. CASE ReconcileControlPlane
  BY <1>4, StartControlPlaneGood, ReconcileNetworkGood, PutManagedClusterGood,
     WaitManagedClusterGood, ReconcileEndpointGood, ReconcileKubeconfigGood,
     DeleteManagedClusterGood, WaitDeletionGood, DeleteNetworkGood, DeleteGroupGood,
     ReleaseControlPlaneGood DEF ReconcileControlPlane
<1>5. CASE Settle
  BY <1>5, ManagedClusterSettlesGood, AgentPoolSettlesGood DEF Settle
<1>6. CASE ManagedClusterVanishes
  BY <1>6, VanishesGood
<1>7. CASE \E c \in Controllers : Interrupt(c)
  BY <1>7, InterruptGood
<1> QED BY <1>1, <1>2, <1>3, <1>4, <1>5, <1>6, <1>7 DEF Next

\* The invariant: every reconciliation works on what it has read, an initialized
\* control plane keeps an endpoint and a kubeconfig, and without the finalizer
\* there is nothing in Azure and no reconciliation under way.
THEOREM Inductive == Spec => []IndInv
<1>1. Init => IndInv
  BY InitInv
<1>2. IndInv /\ [Next]_vars => IndInv'
  BY NextGood DEF Good
<1> QED BY <1>1, <1>2, PTL DEF Spec

\* The variables keep their types, no agent pool exists without its managed
\* cluster, and an initialized control plane has an endpoint and a kubeconfig,
\* whatever fails or vanishes meanwhile.
THEOREM ObjectsAgree == Spec => []TypeOK
<1>1. IndInv => TypeOK
  BY DEF IndInv
<1> QED BY <1>1, Inductive, PTL

\* The finalizers protect what exists in Azure: the control plane's object goes
\* only when nothing that its controller created is left, and a pool that is
\* deleted on its own only after its agent pool.
THEOREM AzureGoesFirst == Spec => FinalizersProtect
<1>1. Init => Protected!Init
  <2> SUFFICES ASSUME Init PROVE Protected!Init
    OBVIOUS
  <2>1. cp.life = "live" /\ cp.finalizer = FALSE /\ Owned = {}
    BY DEF Init, Owned
  <2> QED BY <2>1 DEF Protected!Init
<1>2. IndInv /\ [Next]_vars => [Protected!Next]_(Protected!vars)
  BY NextGood DEF Good, Promise
<1>3. IndInv /\ [Next]_vars =>
          [\A p \in Pools : pool[p].life = "deleting" /\ pool'[p].life = "gone" =>
               ap[p].state = "absent" \/ cluster = "deleting"]_vars
  BY NextGood DEF Good, PoolPromise
<1> QED BY <1>1, <1>2, <1>3, Inductive, PTL
        DEF Spec, FinalizersProtect, FinalizerProtects, Protected!Spec, PoolReleasedLast
====
