------------------------------ MODULE V1alpha4 ------------------------------
(***************************************************************************)
(* The hub version of the API: the structures of api/v1alpha4 and          *)
(* exp/api/v1alpha4 as sets of records.  A pointer is a sequence of at     *)
(* most one element, a slice a sequence, and a string whose content no     *)
(* code looks into is any string, the empty one being its zero value.      *)
(* A CIDR block is the interval <<lo, hi>> of the addresses it holds, and  *)
(* <<>> is a text that does not parse.                                     *)
(***************************************************************************)
EXTENDS Integers, Sequences

Ptr(S) == {p \in Seq(S) : Len(p) <= 1}
CIDRs == Seq(Seq(Int))
Refs == Ptr(STRING)

(* Structures shared by the kinds (types.go, tags.go).                     *)
FutureType == [Type : STRING, ResourceGroup : STRING, Name : STRING, FutureData : STRING]

VnetSpec == [ResourceGroup : STRING, ID : STRING, Name : STRING,
             CIDRBlocks : CIDRs, Tags : STRING]

SecurityGroupProtocol == {"*", "Tcp", "Udp", "Icmp"}

SecurityRuleDirection == {"", "Inbound", "Outbound"}

SecurityRule == [Name : STRING, Description : STRING, Protocol : SecurityGroupProtocol,
                 Direction : SecurityRuleDirection, Priority : Int,
                 SourcePorts : Ptr(STRING), DestinationPorts : Ptr(STRING),
                 Source : Ptr(STRING), Destination : Ptr(STRING)]

SecurityGroup == [ID : STRING, Name : STRING, SecurityRules : Seq(SecurityRule), Tags : STRING]

RouteTable == [ID : STRING, Name : STRING]

PublicIPSpec == [Name : STRING, DNSName : STRING]

FrontendIP == [Name : STRING, PrivateIPAddress : Seq(Int), PublicIP : Ptr(PublicIPSpec)]

SKUs == {"", "Standard"}

LBType == {"", "Internal", "Public"}

LoadBalancerSpec == [ID : STRING, Name : STRING, SKU : SKUs, FrontendIPs : Seq(FrontendIP),
                     Type : LBType, FrontendIPsCount : Ptr(Int),
                     IdleTimeoutInMinutes : Ptr(Int)]

SubnetRole == {"control-plane", "node", ""}

SubnetSpec == [Role : SubnetRole, ID : STRING, Name : STRING, CIDRBlocks : CIDRs,
               SecurityGroup : SecurityGroup, RouteTable : RouteTable]

NetworkSpec == [Vnet : VnetSpec, Subnets : Seq(SubnetSpec), APIServerLB : LoadBalancerSpec,
                NodeOutboundLB : Ptr(LoadBalancerSpec), PrivateDNSZoneName : STRING]

ProvisioningState == {"Creating", "Deleting", "Failed", "Migrating", "Succeeded",
                      "Updating", "Deleted"}

AzureMarketplaceImage == [Publisher : STRING, Offer : STRING, SKU : STRING,
                          Version : STRING, ThirdPartyImage : BOOLEAN]

AzureSharedGalleryImage == [SubscriptionID : STRING, ResourceGroup : STRING,
                            Gallery : STRING, Name : STRING, Version : STRING]

Image == [ID : Ptr(STRING), SharedGallery : Ptr(AzureSharedGalleryImage),
          Marketplace : Ptr(AzureMarketplaceImage)]

VMIdentity == {"None", "SystemAssigned", "UserAssigned"}

UserAssignedIdentity == [ProviderID : STRING]

IdentityType == {"UserAssignedMSI", "ServicePrincipal"}

DiskEncryptionSetParameters == [ID : STRING]

ManagedDiskParameters == [StorageAccountType : STRING,
                          DiskEncryptionSet : Ptr(DiskEncryptionSetParameters)]

DiffDiskSettings == [Option : STRING]

OSDisk == [OSType : STRING, DiskSizeGB : Ptr(Int), ManagedDisk : Ptr(ManagedDiskParameters),
           DiffDiskSettings : Ptr(DiffDiskSettings), CachingType : STRING]

DataDisk == [NameSuffix : STRING, DiskSizeGB : Int, ManagedDisk : Ptr(ManagedDiskParameters),
             Lun : Ptr(Int), CachingType : STRING]

SecurityProfile == [EncryptionAtHost : Ptr(BOOLEAN)]

SpotVMOptions == [MaxPrice : Ptr(STRING)]

BackOffConfig == [CloudProviderBackoff : BOOLEAN, CloudProviderBackoffRetries : Int,
                  CloudProviderBackoffExponent : Ptr(STRING), CloudProviderBackoffDuration : Int,
                  CloudProviderBackoffJitter : Ptr(STRING)]

RateLimitConfig == [CloudProviderRateLimit : BOOLEAN, CloudProviderRateLimitQPS : Ptr(STRING),
                    CloudProviderRateLimitBucket : Int,
                    CloudProviderRateLimitQPSWrite : Ptr(STRING),
                    CloudProviderRateLimitBucketWrite : Int]

RateLimitSpec == [Name : STRING, Config : RateLimitConfig]

CloudProviderConfigOverrides == [RateLimits : Seq(RateLimitSpec), BackOffs : BackOffConfig]

AzureBastion == [Name : STRING, Subnet : SubnetSpec, PublicIP : PublicIPSpec]

BastionSpec == [AzureBastion : Ptr(AzureBastion)]

-----------------------------------------------------------------------------
(* The kinds: name is metadata.name, the other fields those of spec and    *)
(* status.                                                                 *)
AzureClusterSpec ==
    [NetworkSpec : NetworkSpec, ResourceGroup : STRING, SubscriptionID : STRING,
     Location : STRING, ControlPlaneEndpoint : STRING, AdditionalTags : STRING,
     IdentityRef : Refs, AzureEnvironment : STRING, BastionSpec : BastionSpec,
     CloudProviderConfigOverrides : Ptr(CloudProviderConfigOverrides)]

AzureClusterStatus == [FailureDomains : STRING, Ready : BOOLEAN, Conditions : STRING]

AzureCluster == [name : STRING, Spec : AzureClusterSpec, Status : AzureClusterStatus]

AzureMachineSpec ==
    [ProviderID : Ptr(STRING), VMSize : STRING, FailureDomain : Ptr(STRING),
     Image : Ptr(Image), Identity : VMIdentity,
     UserAssignedIdentities : Seq(UserAssignedIdentity), RoleAssignmentName : STRING,
     OSDisk : OSDisk, DataDisks : Seq(DataDisk), SSHPublicKey : STRING,
     AdditionalTags : STRING, AllocatePublicIP : BOOLEAN, EnableIPForwarding : BOOLEAN,
     AcceleratedNetworking : Ptr(BOOLEAN), SpotVMOptions : Ptr(SpotVMOptions),
     SecurityProfile : Ptr(SecurityProfile)]

AzureMachineStatus == [Ready : BOOLEAN, Addresses : STRING, VMState : Ptr(ProvisioningState),
                       FailureReason : Ptr(STRING), FailureMessage : Ptr(STRING),
                       Conditions : STRING]

AzureMachine == [name : STRING, Spec : AzureMachineSpec, Status : AzureMachineStatus]

AzureMachineTemplateResource == [Spec : AzureMachineSpec]

AzureMachineTemplate == [name : STRING, Spec : [Template : AzureMachineTemplateResource]]

AllowedNamespaces == [NamespaceList : Seq(STRING), Selector : Ptr(STRING)]

AzureClusterIdentitySpec ==
    [Type : IdentityType, ResourceID : STRING, ClientID : STRING, ClientSecret : STRING,
     TenantID : STRING, AllowedNamespaces : Ptr(AllowedNamespaces)]

AzureClusterIdentity ==
    [name : STRING, Spec : AzureClusterIdentitySpec, Status : [Conditions : STRING]]

-----------------------------------------------------------------------------
(* exp/api/v1alpha4                                                        *)
AzureMachinePoolMachineTemplate ==
    [VMSize : STRING, Image : Ptr(Image), OSDisk : OSDisk, DataDisks : Seq(DataDisk),
     SSHPublicKey : STRING, AcceleratedNetworking : Ptr(BOOLEAN),
     TerminateNotificationTimeout : Ptr(Int), SecurityProfile : Ptr(SecurityProfile),
     SpotVMOptions : Ptr(SpotVMOptions)]

MachineRollingUpdateDeployment ==
    [MaxUnavailable : Ptr(Int), MaxSurge : Ptr(Int),
     DeletePolicy : {"", "Oldest", "Newest", "Random"}]

AzureMachinePoolDeploymentStrategy ==
    [Type : {"", "RollingUpdate"}, RollingUpdate : Ptr(MachineRollingUpdateDeployment)]

AzureMachinePoolSpec ==
    [Location : STRING, Template : AzureMachinePoolMachineTemplate, AdditionalTags : STRING,
     ProviderID : STRING, ProviderIDList : Seq(STRING), Identity : VMIdentity,
     UserAssignedIdentities : Seq(UserAssignedIdentity), RoleAssignmentName : STRING,
     Strategy : AzureMachinePoolDeploymentStrategy]

AzureMachinePoolInstanceStatus ==
    [Version : STRING, ProvisioningState : Ptr(ProvisioningState), ProviderID : STRING,
     InstanceID : STRING, InstanceName : STRING, LatestModelApplied : BOOLEAN]

AzureMachinePoolStatus ==
    [Ready : BOOLEAN, Replicas : Nat, Instances : Seq(AzureMachinePoolInstanceStatus),
     Image : Ptr(Image), Version : STRING, ProvisioningState : Ptr(ProvisioningState),
     FailureReason : Ptr(STRING), FailureMessage : Ptr(STRING), Conditions : STRING,
     LongRunningOperationState : Ptr(FutureType)]

AzureMachinePool == [name : STRING, Spec : AzureMachinePoolSpec, Status : AzureMachinePoolStatus]

ManagedControlPlaneSubnet == [Name : STRING, CIDRBlock : STRING]

ManagedControlPlaneVirtualNetwork ==
    [Name : STRING, CIDRBlock : STRING, Subnet : ManagedControlPlaneSubnet]

(* A version with or without its leading v.                                *)
KubernetesVersion == [v : BOOLEAN, number : STRING]

AzureManagedControlPlaneSpec ==
    [Version : KubernetesVersion, ResourceGroupName : STRING, NodeResourceGroupName : STRING,
     VirtualNetwork : ManagedControlPlaneVirtualNetwork, SubscriptionID : STRING,
     Location : STRING, ControlPlaneEndpoint : STRING, AdditionalTags : STRING,
     NetworkPlugin : Ptr(STRING), NetworkPolicy : Ptr(STRING), SSHPublicKey : STRING,
     DefaultPoolRef : STRING, DNSServiceIP : Ptr(STRING), LoadBalancerSKU : Ptr(STRING),
     IdentityRef : Refs]

AzureManagedControlPlaneStatus == [Ready : BOOLEAN, Initialized : BOOLEAN]

AzureManagedControlPlane ==
    [name : STRING, Spec : AzureManagedControlPlaneSpec, Status : AzureManagedControlPlaneStatus]

AzureManagedClusterSpec == [ControlPlaneEndpoint : STRING]

AzureManagedCluster == [name : STRING, Spec : AzureManagedClusterSpec, Status : [Ready : BOOLEAN]]

AzureManagedMachinePoolSpec ==
    [SKU : STRING, OSDiskSizeGB : Ptr(Int), ProviderIDList : Seq(STRING)]

AzureManagedMachinePoolStatus ==
    [Ready : BOOLEAN, Replicas : Nat, ErrorReason : Ptr(STRING), ErrorMessage : Ptr(STRING)]

AzureManagedMachinePool ==
    [name : STRING, Spec : AzureManagedMachinePoolSpec, Status : AzureManagedMachinePoolStatus]

Kinds == [AzureCluster |-> AzureCluster, AzureMachine |-> AzureMachine,
          AzureMachineTemplate |-> AzureMachineTemplate,
          AzureClusterIdentity |-> AzureClusterIdentity,
          AzureMachinePool |-> AzureMachinePool,
          AzureManagedControlPlane |-> AzureManagedControlPlane,
          AzureManagedCluster |-> AzureManagedCluster,
          AzureManagedMachinePool |-> AzureManagedMachinePool]
=============================================================================
