---------------------------- MODULE MCAPIServer ----------------------------
(* Objects that users write in either version, and the edits they make.    *)
EXTENDS APIServer

Rule(name, direction, priority) ==
    [Name |-> name, Description |-> "d", Protocol |-> "Tcp", Direction |-> direction,
     Priority |-> priority, SourcePorts |-> <<>>, DestinationPorts |-> <<"22">>,
     Source |-> <<"*">>, Destination |-> <<>>]

Subnet(role, name, rules) ==
    [EmptySubnet(role) EXCEPT !.Name = name, !.SecurityGroup.SecurityRules = rules]

MinimalCluster ==
    [name |-> "c",
     Spec |-> [NetworkSpec |-> [Vnet |-> [ResourceGroup |-> "", ID |-> "", Name |-> "",
                                          CIDRBlocks |-> <<>>, Tags |-> ""],
                                Subnets |-> <<>>, APIServerLB |-> EmptyLB, NodeOutboundLB |-> <<>>,
                                PrivateDNSZoneName |-> ""],
               ResourceGroup |-> "", SubscriptionID |-> "s", Location |-> "l",
               ControlPlaneEndpoint |-> "", AdditionalTags |-> "", IdentityRef |-> <<>>,
               AzureEnvironment |-> "", BastionSpec |-> [AzureBastion |-> <<>>],
               CloudProviderConfigOverrides |-> <<>>],
     Status |-> [FailureDomains |-> "", Ready |-> FALSE, Conditions |-> ""]]

Bastion == [Name |-> "", Subnet |-> EmptySubnet(""), PublicIP |-> [Name |-> "", DNSName |-> ""]]

Overrides ==
    [RateLimits |-> <<>>,
     BackOffs |-> [CloudProviderBackoff |-> TRUE, CloudProviderBackoffRetries |-> 2,
                   CloudProviderBackoffExponent |-> <<>>, CloudProviderBackoffDuration |-> 5,
                   CloudProviderBackoffJitter |-> <<>>]]

PrivateCluster ==
    [MinimalCluster EXCEPT
        !.Spec.ResourceGroup = "g", !.Spec.AzureEnvironment = "AzureChinaCloud",
        !.Spec.NetworkSpec.Vnet.Name = "custom",
        !.Spec.NetworkSpec.Subnets =
            <<Subnet("node", "n", <<Rule("out", "Outbound", 100), Rule("in", "", 4096)>>),
              Subnet("control-plane", "", <<Rule("ssh", "Inbound", 200)>>)>>,
        !.Spec.NetworkSpec.APIServerLB.Type = "Internal",
        !.Spec.NetworkSpec.PrivateDNSZoneName = "zone",
        !.Spec.BastionSpec.AzureBastion = <<Bastion>>]

OutboundCluster ==
    [MinimalCluster EXCEPT
        !.Spec.NetworkSpec.APIServerLB.IdleTimeoutInMinutes = <<10>>,
        !.Spec.NetworkSpec.NodeOutboundLB = <<[EmptyLB EXCEPT !.FrontendIPsCount = <<2>>]>>]

(* Each of these is refused by a validation of its own.                    *)
InvalidClusters ==
    {[MinimalCluster EXCEPT !.name = "bad"],
     [MinimalCluster EXCEPT !.Spec.NetworkSpec.Vnet.CIDRBlocks = <<<<>>>>],
     [MinimalCluster EXCEPT !.Spec.NetworkSpec.Subnets =
         <<[Subnet("node", "n", <<>>) EXCEPT !.CIDRBlocks = <<<<200, 210>>>>]>>],
     [MinimalCluster EXCEPT !.Spec.NetworkSpec.Subnets =
         <<Subnet("node", "n", <<Rule("low", "Inbound", 99)>>)>>],
     [MinimalCluster EXCEPT !.Spec.NetworkSpec.PrivateDNSZoneName = "zone"],
     [MinimalCluster EXCEPT !.Spec.NetworkSpec.APIServerLB.Type = "Internal",
                            !.Spec.NetworkSpec.APIServerLB.FrontendIPs =
                               <<[Name |-> "f", PrivateIPAddress |-> <<50>>, PublicIP |-> <<>>]>>],
     [OutboundCluster EXCEPT !.Spec.NetworkSpec.NodeOutboundLB =
         <<[EmptyLB EXCEPT !.FrontendIPsCount = <<17>>]>>],
     [OutboundCluster EXCEPT !.Spec.NetworkSpec.APIServerLB.IdleTimeoutInMinutes = <<31>>]}

Disk == [OSType |-> "Linux", DiskSizeGB |-> <<30>>,
         ManagedDisk |-> <<[StorageAccountType |-> "Premium_LRS",
                            DiskEncryptionSet |-> <<[ID |-> "e"]>>]>>,
         DiffDiskSettings |-> <<>>, CachingType |-> ""]

Data(name, lun) == [NameSuffix |-> name, DiskSizeGB |-> 4, ManagedDisk |-> <<>>, Lun |-> lun,
                    CachingType |-> ""]

Market == [ID |-> <<>>, SharedGallery |-> <<>>,
           Marketplace |-> <<[Publisher |-> "p", Offer |-> "o", SKU |-> "k", Version |-> "1",
                              ThirdPartyImage |-> TRUE]>>]

Gallery == [Market EXCEPT !.Marketplace = <<>>,
            !.SharedGallery = <<[SubscriptionID |-> "s", ResourceGroup |-> "g", Gallery |-> "y",
                                 Name |-> "n", Version |-> "1"]>>]

MachineSpec ==
    [ProviderID |-> <<>>, VMSize |-> "D2", FailureDomain |-> <<>>, Image |-> <<>>,
     Identity |-> "None", UserAssignedIdentities |-> <<>>, RoleAssignmentName |-> "",
     OSDisk |-> [Disk EXCEPT !.DiskSizeGB = <<>>, !.ManagedDisk = <<>>], DataDisks |-> <<>>,
     SSHPublicKey |-> "", AdditionalTags |-> "", AllocatePublicIP |-> FALSE,
     EnableIPForwarding |-> FALSE, AcceleratedNetworking |-> <<>>, SpotVMOptions |-> <<>>,
     SecurityProfile |-> <<>>]

FullMachineSpec ==
    [MachineSpec EXCEPT !.Image = <<Market>>, !.Identity = "SystemAssigned", !.OSDisk = Disk,
                        !.DataDisks = <<Data("a", <<>>), Data("b", <<0>>), Data("c", <<>>)>>,
                        !.SSHPublicKey = "key", !.SpotVMOptions = <<[MaxPrice |-> <<"1">>]>>,
                        !.SecurityProfile = <<[EncryptionAtHost |-> <<TRUE>>]>>]

MachineStatus == [Ready |-> FALSE, Addresses |-> "", VMState |-> <<>>, FailureReason |-> <<>>,
                  FailureMessage |-> <<>>, Conditions |-> ""]

Machine(spec) == [name |-> "m", Spec |-> spec, Status |-> MachineStatus]

InvalidMachines ==
    {Machine([MachineSpec EXCEPT !.OSDisk.OSType = ""]),
     Machine([MachineSpec EXCEPT !.OSDisk.DiskSizeGB = <<0>>]),
     Machine([FullMachineSpec EXCEPT !.OSDisk.ManagedDisk[1].StorageAccountType = "UltraSSD_LRS"]),
     Machine([FullMachineSpec EXCEPT !.DataDisks = <<Data("a", <<64>>)>>]),
     Machine([FullMachineSpec EXCEPT !.DataDisks = <<Data("a", <<1>>), Data("b", <<1>>)>>]),
     Machine([MachineSpec EXCEPT !.RoleAssignmentName = "r"]),
     Machine([MachineSpec EXCEPT !.Identity = "UserAssigned"]),
     Machine([MachineSpec EXCEPT !.SSHPublicKey = "bad"]),
     Machine([MachineSpec EXCEPT !.Image = <<[Market EXCEPT !.ID = <<"id">>]>>]),
     Machine([MachineSpec EXCEPT !.Image = <<[Gallery EXCEPT !.SharedGallery[1].Name = ""]>>]),
     Machine([MachineSpec EXCEPT !.Image = <<[Market EXCEPT !.Marketplace[1].Offer = ""]>>])}

Template(spec) == [name |-> "t", Spec |-> [Template |-> [Spec |-> spec]]]

ClusterIdentity(allowed) ==
    [name |-> "i", Spec |-> [Type |-> "ServicePrincipal", ResourceID |-> "", ClientID |-> "c",
                             ClientSecret |-> "s", TenantID |-> "t", AllowedNamespaces |-> allowed],
     Status |-> [Conditions |-> ""]]

Allowed(namespaces) == <<[NamespaceList |-> namespaces, Selector |-> <<"dev">>]>>

Pool(strategy, identity) ==
    [name |-> "p",
     Spec |-> [Location |-> "l",
               Template |-> [VMSize |-> "D2", Image |-> <<Market>>, OSDisk |-> Disk,
                             DataDisks |-> <<>>, SSHPublicKey |-> "", AcceleratedNetworking |-> <<>>,
                             TerminateNotificationTimeout |-> <<5>>, SecurityProfile |-> <<>>,
                             SpotVMOptions |-> <<>>],
               AdditionalTags |-> "", ProviderID |-> "", ProviderIDList |-> <<>>,
               Identity |-> identity, UserAssignedIdentities |-> <<>>,
               RoleAssignmentName |-> IF identity = "SystemAssigned" THEN "guid" ELSE "",
               Strategy |-> strategy],
     Status |-> [Ready |-> FALSE, Replicas |-> 1,
                 Instances |-> <<[Version |-> "v", ProvisioningState |-> <<"Succeeded">>,
                                  ProviderID |-> "i0", InstanceID |-> "0", InstanceName |-> "n0",
                                  LatestModelApplied |-> TRUE]>>,
                 Image |-> <<>>, Version |-> "", ProvisioningState |-> <<>>, FailureReason |-> <<>>,
                 FailureMessage |-> <<>>, Conditions |-> "",
                 LongRunningOperationState |-> <<[Type |-> "PUT", ResourceGroup |-> "g",
                                                  Name |-> "p", FutureData |-> "f"]>>]]

Rolling(unavailable, surge) ==
    [Type |-> "RollingUpdate",
     RollingUpdate |-> <<[MaxUnavailable |-> unavailable, MaxSurge |-> surge, DeletePolicy |-> ""]>>]
NoStrategy == [Type |-> "", RollingUpdate |-> <<>>]

ControlPlane ==
    [name |-> "k",
     Spec |-> [Version |-> [v |-> FALSE, number |-> "1.20.5"], ResourceGroupName |-> "g",
               NodeResourceGroupName |-> "",
               VirtualNetwork |-> [Name |-> "", CIDRBlock |-> "",
                                   Subnet |-> [Name |-> "", CIDRBlock |-> ""]],
               SubscriptionID |-> "s", Location |-> "l", ControlPlaneEndpoint |-> "",
               AdditionalTags |-> "", NetworkPlugin |-> <<>>, NetworkPolicy |-> <<>>,
               SSHPublicKey |-> "", DefaultPoolRef |-> "", DNSServiceIP |-> <<>>,
               LoadBalancerSKU |-> <<"Basic">>, IdentityRef |-> <<"i">>],
     Status |-> [Ready |-> FALSE, Initialized |-> FALSE]]

ManagedCluster == [name |-> "k", Spec |-> [ControlPlaneEndpoint |-> ""], Status |-> [Ready |-> FALSE]]

ManagedPool ==
    [name |-> "a", Spec |-> [SKU |-> "D2", OSDiskSizeGB |-> <<>>, ProviderIDList |-> <<>>],
     Status |-> [Ready |-> FALSE, Replicas |-> 0, ErrorReason |-> <<>>, ErrorMessage |-> <<>>]]

AllManifests4(k) ==
    CASE k = "AzureCluster" -> {MinimalCluster, PrivateCluster, OutboundCluster} \cup InvalidClusters
      [] k = "AzureMachine" -> {Machine(MachineSpec), Machine(FullMachineSpec)} \cup InvalidMachines
      [] k = "AzureMachineTemplate" -> {Template(MachineSpec),
                                        Template([FullMachineSpec EXCEPT !.Image = <<Gallery>>])}
      [] k = "AzureClusterIdentity" -> {ClusterIdentity(<<>>), ClusterIdentity(Allowed(<<>>)),
                                        ClusterIdentity(Allowed(<<"n1">>))}
      [] k = "AzureMachinePool" -> {Pool(NoStrategy, "None"), Pool(Rolling(<<1>>, <<0>>), "SystemAssigned"),
                                    Pool(Rolling(<<>>, <<>>), "None"), Pool(Rolling(<<0>>, <<0>>), "None")}
      [] k = "AzureManagedControlPlane" ->
             {ControlPlane, [ControlPlane EXCEPT !.Spec.DNSServiceIP = <<"bad">>]}
      [] k = "AzureManagedCluster" -> {ManagedCluster}
      [] k = "AzureManagedMachinePool" -> {ManagedPool}

(* A v1alpha3 manifest: what v1alpha3 can say, without annotations.        *)
Spoke(k, obj) ==
    LET Bare(o, spec, status) == [name |-> o.name, Spec |-> spec, Status |-> status,
                                  env |-> "", data |-> <<>>]
    IN  CASE k = "AzureCluster" -> Bare(obj, To3_AzureClusterSpec(obj.Spec), obj.Status)
          [] k = "AzureMachine" ->
                 Bare(obj, [To3_AzureMachineSpec(obj.Spec) EXCEPT !.Location = "l"], obj.Status)
          [] k = "AzureMachineTemplate" ->
                 [name |-> obj.name, env |-> "", data |-> <<>>,
                  Spec |-> [Template |-> [Spec |-> [To3_AzureMachineSpec(obj.Spec.Template.Spec)
                                                    EXCEPT !.Location = "l"]]]]
          [] k = "AzureClusterIdentity" ->
                 Bare(obj, [To3_AzureClusterIdentitySpec(obj.Spec) EXCEPT
                                !.AllowedNamespaces = <<"n1">>], obj.Status)
          [] k = "AzureMachinePool" ->
                 Bare(obj, To3_AzureMachinePoolSpec(obj.Spec), To3_AzureMachinePoolStatus(obj.Status))
          [] k = "AzureManagedControlPlane" ->
                 Bare(obj, To3_AzureManagedControlPlaneSpec(obj.Spec), obj.Status)
          [] OTHER -> Bare(obj, obj.Spec, obj.Status)

AllManifests3(k) == {Spoke(k, obj) : obj \in AllManifests4(k)}

(* Edits that both versions can express, on an object of either.           *)
Shared(k, o) ==
    CASE k = "AzureCluster" ->
             {o, [o EXCEPT !.Spec.AdditionalTags = "t"], [o EXCEPT !.Spec.Location = "elsewhere"],
              [o EXCEPT !.Spec.ResourceGroup = ""], [o EXCEPT !.Spec.ControlPlaneEndpoint = "e"],
              [o EXCEPT !.Spec.NetworkSpec.Vnet.ID = "id"],
              [o EXCEPT !.Spec.NetworkSpec.Subnets[1].RouteTable.Name = "r"],
              [o EXCEPT !.Spec.NetworkSpec.Subnets = Reverse(@)],
              [o EXCEPT !.Spec.NetworkSpec.APIServerLB.Name = "lb2"],
              [o EXCEPT !.Spec.NetworkSpec.APIServerLB.FrontendIPs[1].PublicIP = <<[Name |-> "p", DNSName |-> "d"]>>]}
      [] k = "AzureMachine" ->
             {o, [o EXCEPT !.Spec.ProviderID = <<"vm">>], [o EXCEPT !.Spec.SSHPublicKey = ""],
              [o EXCEPT !.Spec.OSDisk.CachingType = "ReadOnly"], [o EXCEPT !.Spec.DataDisks = <<>>],
              [o EXCEPT !.Spec.RoleAssignmentName = ""], [o EXCEPT !.Spec.AdditionalTags = "t"]}
      [] k = "AzureMachineTemplate" ->
             {o, [o EXCEPT !.Spec.Template.Spec.VMSize = "D4"],
              [o EXCEPT !.Spec.Template.Spec.SSHPublicKey = "key2"]}
      [] k = "AzureClusterIdentity" -> {o, [o EXCEPT !.Spec.ClientID = "c2"]}
      [] k = "AzureMachinePool" ->
             {o, [o EXCEPT !.Spec.ProviderID = "ss"], [o EXCEPT !.Spec.Template.VMSize = "D4"],
              [o EXCEPT !.Spec.Template.TerminateNotificationTimeout = <<16>>],
              [o EXCEPT !.Spec.Template.OSDisk.OSType = "Windows"],
              [o EXCEPT !.Spec.RoleAssignmentName = "guid2"]}
      [] k = "AzureManagedControlPlane" ->
             {o, [o EXCEPT !.Spec.Version = [v |-> FALSE, number |-> "1.21.0"]],
              [o EXCEPT !.Spec.SSHPublicKey = ""], [o EXCEPT !.Spec.LoadBalancerSKU = <<>>],
              [o EXCEPT !.Spec.DefaultPoolRef = "pool"], [o EXCEPT !.Spec.NodeResourceGroupName = ""],
              [o EXCEPT !.Spec.DNSServiceIP = <<"10.0.0.10">>]}
      [] k = "AzureManagedCluster" -> {o, [o EXCEPT !.Spec.ControlPlaneEndpoint = "e"]}
      [] k = "AzureManagedMachinePool" -> {o, [o EXCEPT !.Spec.OSDiskSizeGB = <<30>>],
                                           [o EXCEPT !.Spec.ProviderIDList = <<"i0">>]}

AllEdited3(k, o) ==
    Shared(k, o) \cup
    CASE k = "AzureCluster" ->
             {[o EXCEPT !.Spec.NetworkSpec.Subnets[1].SecurityGroup.IngressRules = <<>>],
              [o EXCEPT !.Spec.NetworkSpec.Vnet.CidrBlock = "10.0.0.0/8", !.Spec.AdditionalTags = "u"],
              [o EXCEPT !.Spec.NetworkSpec.Subnets[1].CidrBlock = "10.0.0.0/16",
                        !.Spec.NetworkSpec.Subnets[1].InternalLBIPAddress = "10.0.0.9"]}
      [] k = "AzureMachine" ->
             {[o EXCEPT !.Spec.Location = "elsewhere",
                        !.Spec.AvailabilityZone = [ID |-> <<"1">>, Enabled |-> <<TRUE>>]]}
      [] k = "AzureClusterIdentity" -> {[o EXCEPT !.Spec.AllowedNamespaces = <<"n1", "n2">>],
                                        [o EXCEPT !.Spec.AllowedNamespaces = <<>>]}
      [] k = "AzureMachinePool" -> {[o EXCEPT !.Spec.Template.SSHPublicKey = ""]}
      [] OTHER -> {}

AllEdited4(k, o) ==
    Shared(k, o) \cup
    CASE k = "AzureCluster" ->
             {[o EXCEPT !.Spec.BastionSpec.AzureBastion = <<Bastion>>],
              [o EXCEPT !.Spec.BastionSpec.AzureBastion = <<>>],
              [o EXCEPT !.Spec.NetworkSpec.NodeOutboundLB = <<[EmptyLB EXCEPT !.FrontendIPsCount = <<3>>]>>],
              [o EXCEPT !.Spec.NetworkSpec.NodeOutboundLB = <<>>],
              [o EXCEPT !.Spec.NetworkSpec.Subnets[1].SecurityGroup.SecurityRules =
                            Append(@, Rule("out2", "Outbound", 300))],
              [o EXCEPT !.Spec.CloudProviderConfigOverrides = <<Overrides>>],
              [o EXCEPT !.Status.Ready = TRUE]}
      [] k = "AzureMachine" -> {[o EXCEPT !.Status.VMState = <<"Succeeded">>]}
      [] k = "AzureClusterIdentity" -> {[o EXCEPT !.Spec.AllowedNamespaces = Allowed(<<"n2">>)]}
      [] k = "AzureMachinePool" -> {[o EXCEPT !.Status.Image = <<Gallery>>],
                                    [o EXCEPT !.Spec.Strategy = Rolling(<<2>>, <<0>>)]}
      [] k = "AzureManagedControlPlane" -> {[o EXCEPT !.Spec.IdentityRef = <<"j">>],
                                            [o EXCEPT !.Status.Initialized = TRUE]}
      [] OTHER -> {}

AllKinds == DOMAIN V4!Kinds

Drawn(v) == "generated" \o ToString(v)
=============================================================================
