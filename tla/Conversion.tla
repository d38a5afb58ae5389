----------------------------- MODULE Conversion -----------------------------
(***************************************************************************)
(* The conversion functions between v1alpha3 and v1alpha4: field by field, *)
(* To4 towards the hub and To3 away from it, and one operator for both     *)
(* directions where the two structures have the same fields.  A field that *)
(* the other version lacks is dropped; one that the source lacks gets its  *)
(* zero value.                                                             *)
(***************************************************************************)
EXTENDS Integers, Sequences, SequencesExt

Copy(in, fields) == [f \in fields |-> in[f]]
Each(Op(_), s) == [i \in DOMAIN s |-> Op(s[i])]

-----------------------------------------------------------------------------
(* Structures shared by the kinds.                                         *)
Convert_Future(in) == Copy(in, {"Type", "ResourceGroup", "Name", "FutureData"})

Convert_AzureMarketplaceImage(in) ==
    Copy(in, {"Publisher", "Offer", "SKU", "Version", "ThirdPartyImage"})

Convert_AzureSharedGalleryImage(in) ==
    Copy(in, {"SubscriptionID", "ResourceGroup", "Gallery", "Name", "Version"})

Convert_Image(in) ==
    [ID |-> in.ID,
     SharedGallery |-> Each(Convert_AzureSharedGalleryImage, in.SharedGallery),
     Marketplace |-> Each(Convert_AzureMarketplaceImage, in.Marketplace)]

Convert_UserAssignedIdentity(in) == Copy(in, {"ProviderID"})

Convert_SecurityProfile(in) == Copy(in, {"EncryptionAtHost"})

Convert_SpotVMOptions(in) == Copy(in, {"MaxPrice"})

Convert_DiskEncryptionSetParameters(in) == Copy(in, {"ID"})

Convert_DiffDiskSettings(in) == Copy(in, {"Option"})

(* ManagedDisk became ManagedDiskParameters, with the same fields.         *)
Convert_ManagedDisk(in) ==
    [StorageAccountType |-> in.StorageAccountType,
     DiskEncryptionSet |-> Each(Convert_DiskEncryptionSetParameters, in.DiskEncryptionSet)]

Convert_DataDisk(in) ==
    [NameSuffix |-> in.NameSuffix, DiskSizeGB |-> in.DiskSizeGB,
     ManagedDisk |-> Each(Convert_ManagedDisk, in.ManagedDisk),
     Lun |-> in.Lun, CachingType |-> in.CachingType]

(* The size of zero means the default size, which the hub writes as nil;   *)
(* the managed disk is a value in v1alpha3 and a pointer in v1alpha4.      *)
To4_OSDisk(in) ==
    [OSType |-> in.OSType,
     DiskSizeGB |-> IF in.DiskSizeGB # 0 THEN <<in.DiskSizeGB>> ELSE <<>>,
     DiffDiskSettings |-> Each(Convert_DiffDiskSettings, in.DiffDiskSettings),
     CachingType |-> in.CachingType,
     ManagedDisk |-> <<Convert_ManagedDisk(in.ManagedDisk)>>]

EmptyManagedDisk == [StorageAccountType |-> "", DiskEncryptionSet |-> <<>>]

To3_OSDisk(in) ==
    [OSType |-> in.OSType,
     DiskSizeGB |-> IF in.DiskSizeGB # <<>> THEN in.DiskSizeGB[1] ELSE 0,
     DiffDiskSettings |-> Each(Convert_DiffDiskSettings, in.DiffDiskSettings),
     CachingType |-> in.CachingType,
     ManagedDisk |-> IF in.ManagedDisk # <<>> THEN Convert_ManagedDisk(in.ManagedDisk[1])
                     ELSE EmptyManagedDisk]

(* Slip: the empty managed disk stays.                                     *)
RestoreManagedDiskNever(disk, restored) == disk

(* ConvertTo's special case: an empty managed disk of an object whose hub  *)
(* copy had none is none again.                                            *)
RestoreManagedDisk(disk, restored) ==
    IF restored.ManagedDisk = <<>> /\ disk.ManagedDisk = <<EmptyManagedDisk>>
    THEN [disk EXCEPT !.ManagedDisk = <<>>]
    ELSE disk

-----------------------------------------------------------------------------
(* AzureCluster                                                            *)
Convert_PublicIPSpec(in) == Copy(in, {"Name", "DNSName"})

Convert_FrontendIP(in) ==
    [Name |-> in.Name, PrivateIPAddress |-> in.PrivateIPAddress,
     PublicIP |-> Each(Convert_PublicIPSpec, in.PublicIP)]

Convert_RouteTable(in) == Copy(in, {"ID", "Name"})

To3_LoadBalancerSpec(in) ==
    [ID |-> in.ID, Name |-> in.Name, SKU |-> in.SKU, Type |-> in.Type,
     FrontendIPs |-> Each(Convert_FrontendIP, in.FrontendIPs)]

To4_LoadBalancerSpec(in) ==
    [ID |-> in.ID, Name |-> in.Name, SKU |-> in.SKU, Type |-> in.Type,
     FrontendIPs |-> Each(Convert_FrontendIP, in.FrontendIPs),
     FrontendIPsCount |-> <<>>, IdleTimeoutInMinutes |-> <<>>]

To3_IngressRule(in) ==
    Copy(in, {"Name", "Description", "Protocol", "Priority", "SourcePorts",
              "DestinationPorts", "Source", "Destination"})

To4_SecurityRule(in) == To3_IngressRule(in) @@ [Direction |-> "Inbound"]

(* Only inbound rules exist in v1alpha3.                                   *)
To3_SecurityGroup(in) ==
    LET Inbound(rule) == rule.Direction = "Inbound"
    IN  [ID |-> in.ID, Name |-> in.Name, Tags |-> in.Tags,
         IngressRules |-> Each(To3_IngressRule, SelectSeq(in.SecurityRules, Inbound))]

To4_SecurityGroup(in) ==
    [ID |-> in.ID, Name |-> in.Name, Tags |-> in.Tags,
     SecurityRules |-> Each(To4_SecurityRule, in.IngressRules)]

To3_SubnetSpec(in) ==
    [Role |-> in.Role, ID |-> in.ID, Name |-> in.Name, CIDRBlocks |-> in.CIDRBlocks,
     SecurityGroup |-> To3_SecurityGroup(in.SecurityGroup),
     RouteTable |-> Convert_RouteTable(in.RouteTable),
     CidrBlock |-> "", InternalLBIPAddress |-> ""]

To4_SubnetSpec(in) ==
    [Role |-> in.Role, ID |-> in.ID, Name |-> in.Name, CIDRBlocks |-> in.CIDRBlocks,
     SecurityGroup |-> To4_SecurityGroup(in.SecurityGroup),
     RouteTable |-> Convert_RouteTable(in.RouteTable)]

To4_VnetSpec(in) == Copy(in, {"ResourceGroup", "ID", "Name", "CIDRBlocks", "Tags"})

To3_VnetSpec(in) == To4_VnetSpec(in) @@ [CidrBlock |-> ""]

To3_NetworkSpec(in) ==
    [Vnet |-> To3_VnetSpec(in.Vnet), Subnets |-> Each(To3_SubnetSpec, in.Subnets),
     APIServerLB |-> To3_LoadBalancerSpec(in.APIServerLB)]

To4_NetworkSpec(in) ==
    [Vnet |-> To4_VnetSpec(in.Vnet), Subnets |-> Each(To4_SubnetSpec, in.Subnets),
     APIServerLB |-> To4_LoadBalancerSpec(in.APIServerLB),
     NodeOutboundLB |-> <<>>, PrivateDNSZoneName |-> ""]

SharedClusterSpec == {"ResourceGroup", "SubscriptionID", "Location", "ControlPlaneEndpoint",
                      "AdditionalTags", "IdentityRef"}

To3_AzureClusterSpec(in) ==
    Copy(in, SharedClusterSpec) @@ [NetworkSpec |-> To3_NetworkSpec(in.NetworkSpec)]

To4_AzureClusterSpec(in) ==
    Copy(in, SharedClusterSpec)
        @@ [NetworkSpec |-> To4_NetworkSpec(in.NetworkSpec), AzureEnvironment |-> "",
            BastionSpec |-> [AzureBastion |-> <<>>], CloudProviderConfigOverrides |-> <<>>]

Convert_AzureClusterStatus(in) == Copy(in, {"FailureDomains", "Ready", "Conditions"})

-----------------------------------------------------------------------------
(* AzureMachine and AzureMachineTemplate                                   *)
SharedMachineSpec ==
    {"ProviderID", "VMSize", "FailureDomain", "Identity", "RoleAssignmentName",
     "SSHPublicKey", "AdditionalTags", "AllocatePublicIP", "EnableIPForwarding",
     "AcceleratedNetworking"}

MachineParts(in) ==
    [Image |-> Each(Convert_Image, in.Image),
     UserAssignedIdentities |-> Each(Convert_UserAssignedIdentity, in.UserAssignedIdentities),
     DataDisks |-> Each(Convert_DataDisk, in.DataDisks),
     SpotVMOptions |-> Each(Convert_SpotVMOptions, in.SpotVMOptions),
     SecurityProfile |-> Each(Convert_SecurityProfile, in.SecurityProfile)]

To3_AzureMachineSpec(in) ==
    Copy(in, SharedMachineSpec) @@ MachineParts(in)
        @@ [OSDisk |-> To3_OSDisk(in.OSDisk), Location |-> "",
            AvailabilityZone |-> [ID |-> <<>>, Enabled |-> <<>>]]

To4_AzureMachineSpec(in) ==
    Copy(in, SharedMachineSpec) @@ MachineParts(in) @@ [OSDisk |-> To4_OSDisk(in.OSDisk)]

Convert_AzureMachineStatus(in) ==
    Copy(in, {"Ready", "Addresses", "VMState", "FailureReason", "FailureMessage", "Conditions"})

-----------------------------------------------------------------------------
(* AzureClusterIdentity                                                    *)
To3_AzureClusterIdentitySpec(in) ==
    [Type |-> in.Type, ResourceID |-> in.ResourceID, ClientID |-> in.ClientID,
     ClientSecret |-> in.ClientSecret, TenantID |-> in.TenantID, AllowedNamespaces |-> <<>>]

To4_AzureClusterIdentitySpec(in) ==
    [Type |-> in.Type, ResourceID |-> in.ResourceID, ClientID |-> in.ClientID,
     ClientSecret |-> in.ClientSecret, TenantID |-> in.TenantID, AllowedNamespaces |-> <<>>]

-----------------------------------------------------------------------------
(* The kinds of exp/api                                                    *)
PoolTemplateFields == {"VMSize", "SSHPublicKey", "AcceleratedNetworking",
                       "TerminateNotificationTimeout"}

PoolTemplateParts(in) ==
    [Image |-> Each(Convert_Image, in.Image), DataDisks |-> Each(Convert_DataDisk, in.DataDisks),
     SecurityProfile |-> Each(Convert_SecurityProfile, in.SecurityProfile),
     SpotVMOptions |-> Each(Convert_SpotVMOptions, in.SpotVMOptions)]

To4_AzureMachinePoolMachineTemplate(in) ==
    Copy(in, PoolTemplateFields) @@ PoolTemplateParts(in) @@ [OSDisk |-> To4_OSDisk(in.OSDisk)]

To3_AzureMachinePoolMachineTemplate(in) ==
    Copy(in, PoolTemplateFields) @@ PoolTemplateParts(in) @@ [OSDisk |-> To3_OSDisk(in.OSDisk)]

To4_AzureMachinePoolSpec(in) ==
    [Location |-> in.Location, AdditionalTags |-> in.AdditionalTags,
     ProviderID |-> in.ProviderID, ProviderIDList |-> in.ProviderIDList,
     Identity |-> in.Identity, RoleAssignmentName |-> in.RoleAssignmentName,
     Template |-> To4_AzureMachinePoolMachineTemplate(in.Template),
     UserAssignedIdentities |-> Each(Convert_UserAssignedIdentity, in.UserAssignedIdentities),
     Strategy |-> [Type |-> "", RollingUpdate |-> <<>>]]

To3_AzureMachinePoolSpec(in) ==
    [Location |-> in.Location, AdditionalTags |-> in.AdditionalTags,
     ProviderID |-> in.ProviderID, ProviderIDList |-> in.ProviderIDList,
     Identity |-> in.Identity, RoleAssignmentName |-> in.RoleAssignmentName,
     Template |-> To3_AzureMachinePoolMachineTemplate(in.Template),
     UserAssignedIdentities |-> Each(Convert_UserAssignedIdentity, in.UserAssignedIdentities)]

Convert_AzureMachinePoolInstanceStatus(in) ==
    Copy(in, {"Version", "ProvisioningState", "ProviderID", "InstanceID", "InstanceName",
              "LatestModelApplied"})

To4_AzureMachinePoolStatus(in) ==
    [Ready |-> in.Ready, Replicas |-> in.Replicas, Version |-> in.Version,
     ProvisioningState |-> in.ProvisioningState, FailureReason |-> in.FailureReason,
     FailureMessage |-> in.FailureMessage, Conditions |-> in.Conditions,
     Instances |-> Each(Convert_AzureMachinePoolInstanceStatus, in.Instances),
     LongRunningOperationState |-> Each(Convert_Future, in.LongRunningOperationState),
     Image |-> <<>>]

To3_AzureMachinePoolStatus(in) ==
    [Ready |-> in.Ready, Replicas |-> in.Replicas, Version |-> in.Version,
     ProvisioningState |-> in.ProvisioningState, FailureReason |-> in.FailureReason,
     FailureMessage |-> in.FailureMessage, Conditions |-> in.Conditions,
     Instances |-> Each(Convert_AzureMachinePoolInstanceStatus, in.Instances),
     LongRunningOperationState |-> Each(Convert_Future, in.LongRunningOperationState)]

Convert_ManagedControlPlaneSubnet(in) == Copy(in, {"Name", "CIDRBlock"})

Convert_ManagedControlPlaneVirtualNetwork(in) ==
    [Name |-> in.Name, CIDRBlock |-> in.CIDRBlock,
     Subnet |-> Convert_ManagedControlPlaneSubnet(in.Subnet)]

To3_AzureManagedControlPlaneSpec(in) ==
    [Version |-> in.Version, ResourceGroupName |-> in.ResourceGroupName,
     NodeResourceGroupName |-> in.NodeResourceGroupName, SubscriptionID |-> in.SubscriptionID,
     Location |-> in.Location, ControlPlaneEndpoint |-> in.ControlPlaneEndpoint,
     AdditionalTags |-> in.AdditionalTags, NetworkPlugin |-> in.NetworkPlugin,
     NetworkPolicy |-> in.NetworkPolicy, SSHPublicKey |-> in.SSHPublicKey,
     DefaultPoolRef |-> in.DefaultPoolRef, DNSServiceIP |-> in.DNSServiceIP,
     LoadBalancerSKU |-> in.LoadBalancerSKU,
     VirtualNetwork |-> Convert_ManagedControlPlaneVirtualNetwork(in.VirtualNetwork)]

To4_AzureManagedControlPlaneSpec(in) ==
    [Version |-> in.Version, ResourceGroupName |-> in.ResourceGroupName,
     NodeResourceGroupName |-> in.NodeResourceGroupName, SubscriptionID |-> in.SubscriptionID,
     Location |-> in.Location, ControlPlaneEndpoint |-> in.ControlPlaneEndpoint,
     AdditionalTags |-> in.AdditionalTags, NetworkPlugin |-> in.NetworkPlugin,
     NetworkPolicy |-> in.NetworkPolicy, SSHPublicKey |-> in.SSHPublicKey,
     DefaultPoolRef |-> in.DefaultPoolRef, DNSServiceIP |-> in.DNSServiceIP,
     LoadBalancerSKU |-> in.LoadBalancerSKU,
     VirtualNetwork |-> Convert_ManagedControlPlaneVirtualNetwork(in.VirtualNetwork),
     IdentityRef |-> <<>>]

Convert_AzureManagedControlPlaneStatus(in) == Copy(in, {"Ready", "Initialized"})

Convert_AzureManagedClusterSpec(in) == Copy(in, {"ControlPlaneEndpoint"})

Convert_AzureManagedClusterStatus(in) == Copy(in, {"Ready"})

Convert_AzureManagedMachinePoolSpec(in) == Copy(in, {"SKU", "OSDiskSizeGB", "ProviderIDList"})

Convert_AzureManagedMachinePoolStatus(in) ==
    Copy(in, {"Ready", "Replicas", "ErrorReason", "ErrorMessage"})
=============================================================================
