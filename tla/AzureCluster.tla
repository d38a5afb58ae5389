---- MODULE AzureCluster ----
(***************************************************************************)
(* The AzureCluster controller and its network services.                   *)
(*                                                                         *)
(* A reconciliation works on a copy of the object from the manager's       *)
(* cache, which lags behind the API server.  It registers the finalizer,   *)
(* walks through the resources of all services in a fixed order and saves  *)
(* what it has changed when it ends, whether or not a call failed.  The    *)
(* deletion of a cluster has Azure delete the resource group if it is      *)
(* owned and walks through the services otherwise.  One step is one        *)
(* resource; the load balancers and security groups, which are merged with *)
(* what other programs put into them, take two, since they are read first. *)
(***************************************************************************)
EXTENDS ClusterScope, FiniteSets, TLC

CONSTANTS
    Clusters,   \* configurations to start with
    Contended,  \* merged resources that other programs write to
    MaxFaults,  \* restarts, failed calls, lost responses
    MaxEdits    \* writes of other programs

ASSUME ClustersAssumption == Clusters \subseteq Configs
ASSUME ContendedAssumption == Contended \subseteq Merged
ASSUME MaxFaultsAssumption == MaxFaults \in Nat
ASSUME MaxEditsAssumption == MaxEdits \in Nat

VARIABLES
    cfg,     \* the cluster's configuration
    obj,     \* the AzureCluster in the API server
    cached,  \* and in the cache of the manager
    base,    \* the copy a reconciliation has read
    mem,     \* and what it has made of it
    pc,      \* where the reconciliation is
    pos,     \* the resource of the walk it is at
    seen,    \* entries of the merged resource it has read
    az,      \* who created each Azure resource
    going,   \* Azure is deleting the resource group
    entries, \* entries of each merged resource
    faults,
    edits

vars == <<cfg, obj, cached, base, mem, pc, pos, seen, az, going, entries, faults, edits>>

Lives == {"live", "deleting", "gone"}

\* vnet: what the spec records of the virtual network, its ID ("none" if it is empty)
\* and the owned tag.  Nothing reads the IDs of subnets and route tables.
Objects == [life: Lives, finalizer: BOOLEAN, vnet: {"none", "ours", "users"}, ready: BOOLEAN]

\* An object as users create it; the copies while there is no reconciliation.
Fresh == [life |-> "live", finalizer |-> FALSE, vnet |-> "none", ready |-> FALSE]

Owners == {"absent", "ours", "users"}

PCs == {"idle", "register", "prepare", "reconcile", "put", "ready",
        "deleting", "deleteGroup", "await", "delete", "release", "close"}

Unread == {"unread"}

UserResources(c) ==
    (IF c.userGroup THEN {"group"} ELSE {})
        \cup (IF c.userVnet
              THEN {"vnet", "subnetControlPlane", "subnetNode"}
                       \cup (IF c.bastion THEN {"subnetBastion"} ELSE {})
              ELSE {})

Init ==
    /\ cfg \in Clusters
    /\ obj = Fresh /\ cached = Fresh
    /\ base = Fresh /\ mem = Fresh
    /\ pc = "idle"
    /\ pos = 0
    /\ seen = Unread
    /\ az = [r \in Resources |-> IF r \in UserResources(cfg) THEN "users" ELSE "absent"]
    /\ going = FALSE
    /\ entries = [r \in Merged |-> {}]
    /\ faults = 0
    /\ edits = 0

----------------------------------------------------------------------------
\* Users and other programs

DeleteCluster ==
    /\ obj.life = "live"
    /\ obj' = [obj EXCEPT !.life = IF obj.finalizer THEN "deleting" ELSE "gone"]
    /\ UNCHANGED <<cfg, cached, base, mem, pc, pos, seen, az, going, entries, faults, edits>>

\* The Azure cloud provider, the inbound NAT rules of a machine or a user add an
\* entry, or remove one.
ForeignEdit(r) ==
    /\ edits < MaxEdits
    /\ az[r] # "absent"
    /\ \E new \in {entries[r] \cup {e} : e \in Foreign(r)} \cup {entries[r] \ {e} : e \in entries[r]} :
           /\ new # entries[r]
           /\ entries' = [entries EXCEPT ![r] = new]
    /\ edits' = edits + 1
    /\ UNCHANGED <<cfg, obj, cached, base, mem, pc, pos, seen, az, going, faults>>

\* The watch of the manager delivers the object as it is.
CacheSync ==
    /\ cached # obj
    /\ cached' = obj
    /\ UNCHANGED <<cfg, obj, base, mem, pc, pos, seen, az, going, entries, faults, edits>>

----------------------------------------------------------------------------
\* Azure

Existing == {r \in Resources : az[r] # "absent"}

CanPut(r) == Refers(cfg, r) \subseteq Existing /\ "group" \in Existing \cup {r}

CanRemove(r) ==
    \A u \in Existing \ ({r} \cup Parts(r)) : ({r} \cup Parts(r)) \cap Refers(cfg, u) = {}

C == INSTANCE Clients

\* The client of the service that is responsible for a resource.
Client(r) ==
    CASE r = "group" -> C!groups
      [] r = "vnet" -> C!virtualnetworks
      [] r \in SecurityGroups -> C!securitygroups
      [] r = "routeTableNode" -> C!routetables
      [] r \in Subnets -> C!subnets
      [] r \in PublicIPs -> C!publicips
      [] r \in LoadBalancers -> C!loadbalancers
      [] r = "zone" -> C!privatezones
      [] r = "link" -> C!vnetlinks
      [] r = "record" -> C!recordsets
      [] r = "bastion" -> C!bastionhosts

Put(r) == [az EXCEPT ![r] = IF @ = "absent" /\ C!Effective(Client(r).CreateOrUpdate)
                            THEN "ours" ELSE @]

Without(rs) == [r \in Resources |-> IF r \in rs THEN "absent" ELSE az[r]]

Remove(r) == Without(IF C!Effective(Client(r).Delete) THEN {r} \cup Parts(r) ELSE {})

EntriesWithout(rs) == [r \in Merged |-> IF r \in rs THEN {} ELSE entries[r]]

\* What Azure may delete next of the group: nothing refers to it any more.
Removable ==
    {r \in (Existing \cap InGroup(cfg)) \ {"group"} : \A u \in Existing : r \notin Refers(cfg, u)}

\* The deletion of a group, which goes on whether or not anybody waits for it.
GroupShrinks(rs) ==
    /\ going
    /\ rs # {} /\ rs \subseteq Removable
    /\ az' = Without(rs) /\ entries' = EntriesWithout(rs)
    /\ UNCHANGED <<cfg, obj, cached, base, mem, pc, pos, seen, going, faults, edits>>

\* It fails, with the group half gone, if what is left is referred to from elsewhere.
GroupEnds ==
    /\ going /\ Removable = {}
    /\ going' = FALSE
    /\ az' = IF Existing \cap InGroup(cfg) = {"group"} THEN Without({"group"}) ELSE az
    /\ UNCHANGED <<cfg, obj, cached, base, mem, pc, pos, seen, entries, faults, edits>>

----------------------------------------------------------------------------
\* The reconciliation

\* Reconcile gets the object from the cache and makes a scope.
Start ==
    /\ pc = "idle"
    /\ cached.life # "gone"
    /\ base' = cached /\ mem' = cached
    /\ pc' = IF cached.life = "deleting" THEN "deleting" ELSE "register"
    /\ UNCHANGED <<cfg, obj, cached, pos, seen, az, going, entries, faults, edits>>

\* A patch writes the fields in which the copy differs from what was read.
Field(now, was, is) == IF is = was THEN now ELSE is

\* The deletion timestamp is the API server's, and an object that is being
\* deleted goes with its finalizer.
Patched(m) ==
    LET finalizer == Field(obj.finalizer, base.finalizer, m.finalizer)
    IN [obj EXCEPT !.finalizer = finalizer,
                   !.vnet = Field(@, base.vnet, m.vnet),
                   !.ready = Field(@, base.ready, m.ready),
                   !.life = IF @ = "deleting" /\ ~finalizer THEN "gone" ELSE @]

\* An object that is gone cannot be patched.
Patch(m) == obj' = IF obj.life = "gone" THEN obj ELSE Patched(m)

End(m) ==
    /\ mem' = m
    /\ pc' = "close"
    /\ pos' = 0
    /\ seen' = Unread

\* Nothing follows a patch that fails; but one without changes is not sent.
Register ==
    /\ pc = "register"
    /\ IF obj.life = "gone" /\ ~base.finalizer
       THEN End(mem) /\ UNCHANGED obj
       ELSE /\ mem' = [mem EXCEPT !.finalizer = TRUE]
            /\ Patch(mem')
            /\ pc' = "prepare"
            /\ UNCHANGED <<pos, seen>>
    /\ UNCHANGED <<cfg, cached, base, az, going, entries, faults, edits>>

\* The services in the order of azureClusterService.Reconcile.
ReconcileOrder ==
    <<"group", "vnet">> \o NSGSpecs(cfg) \o RouteTableSpecs(cfg) \o SubnetSpecs(cfg)
        \o PublicIPSpecs(cfg) \o LBSpecs(cfg) \o PrivateDNSSpec(cfg) \o BastionSpec(cfg)

\* Failure domains, DNS name and default security rules.
Prepare ==
    /\ pc = "prepare"
    /\ pc' = "reconcile"
    /\ pos' = 1
    /\ UNCHANGED <<cfg, obj, cached, base, mem, seen, az, going, entries, faults, edits>>

Current == ReconcileOrder[pos]

At(rs) == pc = "reconcile" /\ Current \in rs

\* The walk goes on with the next resource, and ends after the last one.
Advance(m) ==
    /\ mem' = m
    /\ pc' = IF pos = Len(ReconcileOrder) THEN "ready" ELSE "reconcile"
    /\ pos' = IF pos = Len(ReconcileOrder) THEN 0 ELSE pos + 1
    /\ seen' = Unread

Pass(m) == az' = az /\ faults' = faults /\ Advance(m)

Stop == az' = az /\ faults' = faults /\ End(mem)

\* Azure has done what was asked for: the caller learns of it, or its wait for
\* the operation times out.
Answered(goesOn) ==
    \/ goesOn /\ faults' = faults
    \/ faults < MaxFaults /\ faults' = faults + 1 /\ End(mem)

\* A PUT that Azure accepts, or refuses because a reference is missing.
PutOrFail(r) ==
    IF CanPut(r)
    THEN az' = Put(r) /\ Answered(Advance(mem))
    ELSE Stop

IsVnetManaged == mem.vnet \in {"none", "ours"}

\* groups: an existing group is left alone, a missing one is created as owned.
ReconcileGroup ==
    /\ At({"group"})
    /\ IF az["group"] = "absent" THEN PutOrFail("group") ELSE Pass(mem)
    /\ UNCHANGED <<cfg, obj, cached, base, going, entries, edits>>

\* virtualnetworks.getExisting: the ID and the tags of what exists.
ExistingVnet == [mem EXCEPT !.vnet = az["vnet"]]

\* virtualnetworks: what exists is copied into the spec.
ReconcileVnet ==
    /\ At({"vnet"})
    /\ IF az["vnet"] = "absent" THEN PutOrFail("vnet") ELSE Pass(ExistingVnet)
    /\ UNCHANGED <<cfg, obj, cached, base, going, entries, edits>>

\* securitygroups and loadbalancers read what is there; the entries read are
\* the etag, and nothing is written if no wanted entry is missing.
ReadMerged(r) ==
    IF az[r] # "absent" /\ Wanted(cfg, r) \subseteq entries[r]
    THEN Advance(mem)
    ELSE /\ seen' = IF az[r] = "absent" THEN {} ELSE entries[r]
         /\ pc' = "put"
         /\ UNCHANGED <<mem, pos>>

ReconcileSecurityGroups ==
    /\ At(SecurityGroups)
    /\ IF IsVnetManaged THEN ReadMerged(Current) ELSE Advance(mem)
    /\ UNCHANGED <<cfg, obj, cached, base, az, going, entries, faults, edits>>

ReconcileLoadBalancers ==
    /\ At(LoadBalancers)
    /\ ReadMerged(Current)
    /\ UNCHANGED <<cfg, obj, cached, base, az, going, entries, faults, edits>>

\* The PUT of a resource that existed carries If-Match with the etag read.
EtagMatches(r) == ~Client(r).etag \/ az[r] = "absent" \/ seen = entries[r]

\* What has been read and what is wanted; a load balancer is written without the
\* inbound NAT rules it had.
Merge(r) == (seen \ IF r \in LoadBalancers THEN {"natRule"} ELSE {}) \cup Wanted(cfg, r)

CreateOrUpdateMerged ==
    /\ pc = "put"
    /\ IF EtagMatches(Current) /\ CanPut(Current)
       THEN /\ az' = Put(Current)
            /\ entries' = [entries EXCEPT ![Current] = Merge(Current)]
            /\ Answered(Advance(mem))
       ELSE Stop /\ UNCHANGED entries
    /\ UNCHANGED <<cfg, obj, cached, base, going, edits>>

\* routetables: created when missing.
ReconcileRouteTables ==
    /\ At({"routeTableNode"})
    /\ IF IsVnetManaged /\ az[Current] = "absent" THEN PutOrFail(Current) ELSE Pass(mem)
    /\ UNCHANGED <<cfg, obj, cached, base, going, entries, edits>>

\* subnets: a missing subnet of a virtual network that was provided is an error.
ReconcileSubnets ==
    /\ At(Subnets)
    /\ CASE az[Current] # "absent" -> Pass(mem)
         [] az[Current] = "absent" /\ IsVnetManaged -> PutOrFail(Current)
         [] OTHER -> Stop
    /\ UNCHANGED <<cfg, obj, cached, base, going, entries, edits>>

\* publicips and privatedns write without reading.
ReconcilePublicIPs ==
    /\ At(PublicIPs)
    /\ PutOrFail(Current)
    /\ UNCHANGED <<cfg, obj, cached, base, going, entries, edits>>

ReconcilePrivateDNS ==
    /\ At({"zone", "link", "record"})
    /\ PutOrFail(Current)
    /\ UNCHANGED <<cfg, obj, cached, base, going, entries, edits>>

\* bastionhosts looks for the subnet in the cluster's resource group.
ReconcileBastion ==
    /\ At({"bastion"})
    /\ IF {"ipBastion", "subnetBastion"} \subseteq Existing \cap InGroup(cfg)
       THEN PutOrFail("bastion")
       ELSE Stop
    /\ UNCHANGED <<cfg, obj, cached, base, going, entries, edits>>

\* reconcileNormal after the services: endpoint, ready and condition.
MarkReady ==
    /\ pc = "ready"
    /\ End([mem EXCEPT !.ready = TRUE])
    /\ UNCHANGED <<cfg, obj, cached, base, az, going, entries, faults, edits>>

----------------------------------------------------------------------------
\* The deletion

\* reconcileDelete first saves its condition: an object that is gone fails here,
\* unless the copy has the condition already.
StartDelete ==
    /\ pc = "deleting"
    /\ \/ pc' = "deleteGroup" /\ UNCHANGED <<mem, pos, seen>>
       \/ obj.life = "gone" /\ End(mem)
    /\ UNCHANGED <<cfg, obj, cached, base, az, going, entries, faults, edits>>

\* groups.Delete: a missing group is success, the deletion of an owned one is
\* started, any other one is not owned and the services delete their resources.
DeleteGroup ==
    /\ pc = "deleteGroup"
    /\ CASE az["group"] = "absent" ->
              pc' = "release" /\ UNCHANGED <<pos, going>>
         [] az["group"] = "ours" ->
              /\ pc' = IF C!Effective(C!groups.Delete) THEN "await" ELSE "release"
              /\ going' = TRUE
              /\ UNCHANGED pos
         [] OTHER ->
              pc' = "delete" /\ pos' = 1 /\ UNCHANGED going
    /\ UNCHANGED <<cfg, obj, cached, base, mem, seen, az, entries, faults, edits>>

\* The client waits for the end of the deletion.
AwaitGroup ==
    /\ pc = "await" /\ ~going
    /\ pc' = IF az["group"] = "absent" THEN "release" ELSE "close"
    /\ UNCHANGED <<cfg, obj, cached, base, mem, pos, seen, az, going, entries, faults, edits>>

\* Slip: addresses before the load balancers that refer to them.
DeleteOrderSwapped ==
    (IF cfg.private THEN <<"link", "zone">> ELSE <<>>)
        \o PublicIPSpecs(cfg) \o LBSpecs(cfg) \o SubnetSpecs(cfg) \o RouteTableSpecs(cfg)
        \o NSGSpecs(cfg) \o <<"vnet">> \o BastionSpec(cfg)

\* The services in the order of azureClusterService.Delete; deleting a zone
\* deletes its records.
DeleteOrder ==
    (IF cfg.private THEN <<"link", "zone">> ELSE <<>>)
        \o LBSpecs(cfg) \o PublicIPSpecs(cfg) \o SubnetSpecs(cfg) \o RouteTableSpecs(cfg)
        \o NSGSpecs(cfg) \o <<"vnet">> \o BastionSpec(cfg)

\* subnets, route tables, security groups and the virtual network are left alone
\* unless the network is managed, and addresses unless they carry the owned tag.
Skipped(r) ==
    \/ az[r] = "absent"
    \/ ~IsVnetManaged /\ r \in Subnets \cup SecurityGroups \cup {"routeTableNode", "vnet"}

\* A service deletes what it is responsible for, and the walk goes on unless
\* Azure refuses.
DeleteEach(rs) ==
    /\ pc = "delete"
    /\ DeleteOrder[pos] \in rs
    /\ LET r == DeleteOrder[pos]
           next == /\ IF pos = Len(DeleteOrder)
                      THEN pc' = "release" /\ pos' = 0
                      ELSE pc' = "delete" /\ pos' = pos + 1
                   /\ UNCHANGED <<mem, seen>>
       IN CASE Skipped(r) -> next /\ UNCHANGED <<az, entries, faults>>
            [] ~Skipped(r) /\ CanRemove(r) ->
                 /\ az' = Remove(r)
                 /\ entries' = EntriesWithout({r})
                 /\ Answered(next)
            [] OTHER -> Stop /\ UNCHANGED entries
    /\ UNCHANGED <<cfg, obj, cached, base, going, edits>>

DeletePrivateDNS == DeleteEach({"link", "zone"})

DeleteLoadBalancers == DeleteEach(LoadBalancers)

DeletePublicIPs == DeleteEach(PublicIPs)

DeleteSubnets == DeleteEach(Subnets)

DeleteRouteTables == DeleteEach({"routeTableNode"})

DeleteSecurityGroups == DeleteEach(SecurityGroups)

DeleteVnet == DeleteEach({"vnet"})

DeleteBastion == DeleteEach({"bastion"})

RemoveFinalizer ==
    /\ pc = "release"
    /\ End([mem EXCEPT !.finalizer = FALSE])
    /\ UNCHANGED <<cfg, obj, cached, base, az, going, entries, faults, edits>>

\* The scope and its copies are dropped.
Rest == pc' = "idle" /\ base' = Fresh /\ mem' = Fresh /\ pos' = 0 /\ seen' = Unread

\* The deferred Close saves spec and status, also after an error.
Close ==
    /\ pc = "close"
    /\ Patch(mem) /\ Rest
    /\ UNCHANGED <<cfg, cached, az, going, entries, faults, edits>>

----------------------------------------------------------------------------
\* Faults

\* The cache is filled anew.
Restart ==
    /\ pc # "idle"
    /\ Rest /\ cached' = obj
    /\ UNCHANGED <<cfg, obj, az, going, entries, edits>>

\* Slip: the error of a service is not returned.
CallFailsIgnored ==
    /\ pc = "reconcile"
    /\ Advance(mem)
    /\ UNCHANGED <<cfg, obj, cached, base, az, going, entries, edits>>

\* A call of Azure, the wait for the group or the list of zones fails: the
\* reconciliation ends.
CallFails ==
    /\ pc \in {"prepare", "reconcile", "put", "deleteGroup", "await", "delete"}
    /\ End(mem)
    /\ UNCHANGED <<cfg, obj, cached, base, az, going, entries, edits>>

\* The patch fails, so nothing of the reconciliation is saved.
PatchFails ==
    /\ \/ pc = "close" /\ Rest
       \/ pc \in {"register", "deleting"} /\ End(mem) /\ UNCHANGED base
    /\ UNCHANGED <<cfg, obj, cached, az, going, entries, edits>>

Fault ==
    /\ faults < MaxFaults
    /\ faults' = faults + 1
    /\ Restart \/ CallFails \/ PatchFails

----------------------------------------------------------------------------
Reconcile ==
    \/ Start \/ Register \/ Prepare \/ ReconcileGroup \/ ReconcileVnet
    \/ ReconcileSecurityGroups \/ ReconcileRouteTables \/ ReconcileSubnets
    \/ ReconcilePublicIPs \/ ReconcileLoadBalancers \/ CreateOrUpdateMerged
    \/ ReconcilePrivateDNS \/ ReconcileBastion \/ MarkReady
    \/ StartDelete \/ DeleteGroup \/ AwaitGroup \/ DeletePrivateDNS \/ DeleteLoadBalancers
    \/ DeletePublicIPs \/ DeleteSubnets \/ DeleteRouteTables \/ DeleteSecurityGroups
    \/ DeleteVnet \/ DeleteBastion \/ RemoveFinalizer \/ Close

Azure == GroupEnds \/ \E rs \in SUBSET Removable : GroupShrinks(rs)

Next ==
    \/ Reconcile
    \/ DeleteCluster
    \/ CacheSync
    \/ Azure
    \/ \E r \in Contended : ForeignEdit(r)
    \/ Fault

\* Failed requests are retried and objects resynced, so the controller goes on;
\* the watch delivers what it missed, and Azure ends what it has accepted.
Spec == Init /\ [][Next]_vars /\ WF_vars(Reconcile) /\ WF_vars(CacheSync) /\ WF_vars(Azure)

----------------------------------------------------------------------------
\* Every variable keeps its type, and the walk stays inside its order.
TypeOK ==
    /\ cfg \in Clusters
    /\ obj \in Objects /\ cached \in Objects
    /\ base \in Objects /\ mem \in Objects
    /\ pc \in PCs
    /\ pos \in 0..20
    /\ seen \in (SUBSET Entries) \cup {Unread}
    /\ az \in [Resources -> Owners]
    /\ going \in BOOLEAN
    /\ entries \in [Merged -> SUBSET Entries]
    /\ faults \in 0..MaxFaults
    /\ edits \in 0..MaxEdits

\* A pre-existing resource group stays, and a pre-existing network stays once the
\* copy that the deletion has read records it (Vnet.IsManaged decides from the
\* recorded ID and tags).  The record in the API server is not enough: the copy
\* is the cache's, which may lack it.
RecordedNetworkKept ==
    [][\A r \in Resources : az[r] = "users" /\ az'[r] # "users" =>
           r # "group" /\ base.vnet = "none"]_vars

\* docs/book/src/topics/custom-vnet.md: pre-existing networks and resource
\* groups are not deleted.
UsersKept == [][\A r \in Resources : az[r] = "users" => az'[r] = "users"]_vars

\* The cluster implements the promise of a finalizer for the resources of its
\* group: none is created without the finalizer, and it goes after all of them.
Protected ==
    INSTANCE ProtectedResources WITH
        Resource <- Resources,
        life <- obj.life,
        finalizer <- obj.finalizer,
        owned <- {r \in InGroup(cfg) : az[r] = "ours"}

\* Every behaviour of the cluster is well typed and one of ProtectedResources.
FinalizerProtects == []TypeOK /\ Protected!Spec

\* A load balancer or security group keeps the entries that other programs
\* have written, however the reconciliation and they are interleaved.  The
\* exception are the inbound NAT rules of a load balancer, which go when the
\* reconciliation has to restore an entry of its own (loadbalancers.go, the PUT).
ForeignEntriesKept ==
    [][edits' = edits => \A r \in Merged : az'[r] # "absent" =>
           \/ entries[r] \subseteq entries'[r]
           \/ /\ r \in LoadBalancers /\ ~(Wanted(cfg, r) \subseteq entries[r])
              /\ entries[r] \ {"natRule"} \subseteq entries'[r]]_vars

\* Every resource a running service writes refers to what exists: the cluster is
\* reported ready only with all its resources in place.
ReadyWhenComplete ==
    [][~obj.ready /\ obj'.ready =>
           \A i \in 1..Len(ReconcileOrder) :
               \/ az[ReconcileOrder[i]] # "absent"
               \/ cfg.userVnet /\ ReconcileOrder[i] \in SecurityGroups \cup {"routeTableNode"}]_vars

\* A deleted cluster goes away.  Two kinds of cluster are left out: the services
\* delete addresses before the bastion that uses one, and a group is not
\* deleted while a network of another group uses its security groups.
DeletionCompletes ==
    obj.life = "deleting"
        /\ ~(cfg.bastion /\ cfg.userGroup)
        /\ ~(cfg.vnetApart /\ ~cfg.userVnet /\ ~cfg.userGroup)
        ~> obj.life = "gone"

\* A cluster that stays becomes ready.  A bastion is looked for in the wrong
\* resource group when the network is in another one.
EventuallyReady ==
    []<>(obj.ready \/ obj.life # "live" \/ (cfg.bastion /\ cfg.vnetApart))

\* Nothing of others is lost: neither the user's group, and the network that the
\* deletion has a record of, nor what other programs write into the cluster's
\* resources, except for NAT rules on a load balancer that is repaired.
OthersKept == RecordedNetworkKept /\ ForeignEntriesKept

\* The cluster becomes ready, and with all its resources in place.
BecomesReady == ReadyWhenComplete /\ EventuallyReady
====
