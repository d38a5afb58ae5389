------------------------------- MODULE ExpAPI -------------------------------
(***************************************************************************)
(* The experimental kinds at the API server: AzureMachinePool,             *)
(* AzureManagedControlPlane, AzureManagedCluster and                       *)
(* AzureManagedMachinePool.                                                *)
(***************************************************************************)
EXTENDS MachineAPI

(* Of the strategy, only the type and the deletion policy are restored.    *)
RestoreStrategy(restored) ==
    [Type |-> restored.Type,
     RollingUpdate |-> Each(LAMBDA r : [MaxUnavailable |-> <<>>, MaxSurge |-> <<>>,
                                        DeletePolicy |-> r.DeletePolicy], restored.RollingUpdate)]

ConvertTo_AzureMachinePool(src) ==
    LET dst == [name |-> src.name, Spec |-> To4_AzureMachinePoolSpec(src.Spec),
                Status |-> To4_AzureMachinePoolStatus(src.Status)]
    IN  IF src.data = <<>> THEN dst
        ELSE LET restored == src.data[1]
             IN  [dst EXCEPT
                     !.Spec.Template.OSDisk = RestoreManagedDisk(@, restored.Spec.Template.OSDisk),
                     !.Spec.Strategy = RestoreStrategy(restored.Spec.Strategy),
                     !.Status.Image = restored.Status.Image]

ConvertFrom_AzureMachinePool(src) ==
    [name |-> src.name, Spec |-> To3_AzureMachinePoolSpec(src.Spec),
     Status |-> To3_AzureMachinePoolStatus(src.Status), env |-> "", data |-> <<src>>]

(* The defaults of the schema, which the API server fills in when it reads *)
(* an object in v1alpha4 or a webhook has changed it.                      *)
SchemaDefault_AzureMachinePool(p) ==
    LET OrInt(n, default) == IF n = <<>> THEN <<default>> ELSE n
    IN  [p EXCEPT !.Spec.Strategy.Type = OrElse(@, "RollingUpdate"),
                  !.Spec.Strategy.RollingUpdate =
                      Each(LAMBDA r : [MaxUnavailable |-> OrInt(r.MaxUnavailable, 0),
                                       MaxSurge |-> OrInt(r.MaxSurge, 1),
                                       DeletePolicy |-> OrElse(r.DeletePolicy, "Oldest")], @)]

(* Slip: the key is generated whether or not there is one.                 *)
Default_AzureMachinePoolAnew(p, fresh) == [p EXCEPT !.Spec.Template.SSHPublicKey = fresh]

Default_AzureMachinePool(p, fresh) ==
    [p EXCEPT !.Spec.Template.SSHPublicKey = SetDefaultSSHPublicKey(@, fresh)]

ValidateTerminateNotificationTimeout(timeout) == \A t \in Range(timeout) : 5 <= t /\ t <= 15

(* The surge is dereferenced, and the unavailable machines when the surge  *)
(* is zero: nil there is a panic.                                          *)
ValidateStrategy(strategy) ==
    strategy.Type = "RollingUpdate" =>
        \A r \in Range(strategy.RollingUpdate) :
            /\ r.MaxSurge # <<>>
            /\ r.MaxSurge = <<0>> => r.MaxUnavailable # <<>> /\ r.MaxUnavailable # <<0>>

ValidateSystemAssignedRole(p, old) ==
    ValidateSystemAssignedIdentity(p.Spec.Identity,
        IF old = <<>> THEN "" ELSE old[1].Spec.RoleAssignmentName, p.Spec.RoleAssignmentName)

Validate_AzureMachinePool(p, old) ==
    /\ ValidateImage(p.Spec.Template.Image)
    /\ ValidateTerminateNotificationTimeout(p.Spec.Template.TerminateNotificationTimeout)
    /\ p.Spec.Template.SSHPublicKey # "" => ValidateSSHKey(p.Spec.Template.SSHPublicKey)
    /\ ValidateUserAssignedIdentity(p.Spec.Identity, p.Spec.UserAssignedIdentities)
    /\ ValidateStrategy(p.Spec.Strategy)
    /\ ValidateSystemAssignedRole(p, old)

-----------------------------------------------------------------------------
(* AzureManagedControlPlane                                                *)
(* Slip: the whole specification is taken from the hub copy.               *)
ConvertTo_AzureManagedControlPlaneStale(src) ==
    [name |-> src.name,
     Spec |-> IF src.data = <<>> THEN To4_AzureManagedControlPlaneSpec(src.Spec)
              ELSE src.data[1].Spec,
     Status |-> Convert_AzureManagedControlPlaneStatus(src.Status)]

ConvertTo_AzureManagedControlPlane(src) ==
    [name |-> src.name,
     Spec |-> [To4_AzureManagedControlPlaneSpec(src.Spec) EXCEPT !.IdentityRef =
                   IF src.data = <<>> THEN <<>> ELSE src.data[1].Spec.IdentityRef],
     Status |-> Convert_AzureManagedControlPlaneStatus(src.Status)]

ConvertFrom_AzureManagedControlPlane(src) ==
    [name |-> src.name, Spec |-> To3_AzureManagedControlPlaneSpec(src.Spec),
     Status |-> Convert_AzureManagedControlPlaneStatus(src.Status), env |-> "", data |-> <<src>>]

setDefaultVirtualNetwork(vnet, name) ==
    [Name |-> OrElse(vnet.Name, name), CIDRBlock |-> OrElse(vnet.CIDRBlock, "10.0.0.0/8"),
     Subnet |-> [Name |-> OrElse(vnet.Subnet.Name, name),
                 CIDRBlock |-> OrElse(vnet.Subnet.CIDRBlock, "10.240.0.0/16")]]

DefaultControlPlaneSpec(spec, name, fresh) ==
    LET OrNil(p, default) == IF p = <<>> THEN <<default>> ELSE p
    IN  [spec EXCEPT !.NetworkPlugin = OrNil(@, "azure"),
                     !.LoadBalancerSKU = OrNil(@, "Standard"),
                     !.NetworkPolicy = OrNil(@, "calico"),
                     !.Version.v = @ \/ spec.Version.number # "",
                     !.SSHPublicKey = SetDefaultSSHPublicKey(@, fresh),
                     !.NodeResourceGroupName = OrElse(@, "MC_group_name_location"),
                     !.VirtualNetwork = setDefaultVirtualNetwork(@, name)]

Default_AzureManagedControlPlane(r, fresh) ==
    [r EXCEPT !.Spec = DefaultControlPlaneSpec(@, r.name, fresh)]

Validate_AzureManagedControlPlane(r) ==
    /\ r.Spec.Version.v /\ WellFormed(r.Spec.Version.number)
    /\ \A ip \in Range(r.Spec.DNSServiceIP) : WellFormed(ip)
    /\ r.Spec.SSHPublicKey # "" => ValidateSSHKey(r.Spec.SSHPublicKey)

ImmutableControlPlaneSpec ==
    {"SubscriptionID", "ResourceGroupName", "NodeResourceGroupName", "Location"}
SetOnceControlPlaneSpec ==
    [SSHPublicKey |-> "", DefaultPoolRef |-> "", DNSServiceIP |-> <<>>, NetworkPlugin |-> <<>>,
     NetworkPolicy |-> <<>>, LoadBalancerSKU |-> <<>>]

ValidateUpdate_AzureManagedControlPlane(r, old) ==
    /\ \A f \in ImmutableControlPlaneSpec : r.Spec[f] = old.Spec[f]
    /\ \A f \in DOMAIN SetOnceControlPlaneSpec :
           old.Spec[f] = SetOnceControlPlaneSpec[f] \/ r.Spec[f] = old.Spec[f]
    /\ Validate_AzureManagedControlPlane(r)

-----------------------------------------------------------------------------
(* AzureManagedCluster and AzureManagedMachinePool have no webhook, and    *)
(* the same fields in both versions.                                       *)
Convert_AzureManagedCluster(in) ==
    [name |-> in.name, Spec |-> Convert_AzureManagedClusterSpec(in.Spec),
     Status |-> Convert_AzureManagedClusterStatus(in.Status)]

ConvertFrom_AzureManagedCluster(src) ==
    [name |-> src.name, Spec |-> Convert_AzureManagedClusterSpec(src.Spec),
     Status |-> Convert_AzureManagedClusterStatus(src.Status), env |-> "", data |-> <<src>>]

Convert_AzureManagedMachinePool(in) ==
    [name |-> in.name, Spec |-> Convert_AzureManagedMachinePoolSpec(in.Spec),
     Status |-> Convert_AzureManagedMachinePoolStatus(in.Status)]

ConvertFrom_AzureManagedMachinePool(src) ==
    [name |-> src.name, Spec |-> Convert_AzureManagedMachinePoolSpec(src.Spec),
     Status |-> Convert_AzureManagedMachinePoolStatus(src.Status), env |-> "", data |-> <<src>>]
=============================================================================
