------------------------------ MODULE V1alpha3 ------------------------------
(***************************************************************************)
(* The old version of the API, which clients of an earlier release still   *)
(* use: the structures of api/v1alpha3 and exp/api/v1alpha3 as sets of     *)
(* records, with the conventions of V1alpha4.                              *)
(***************************************************************************)
EXTENDS Integers, Sequences

Ptr(S) == {p \in Seq(S) : Len(p) <= 1}
CIDRs == Seq(Seq(Int))
Refs == Ptr(STRING)

(* Structures shared by the kinds (types.go).                              *)
FutureType == [Type : STRING, ResourceGroup : STRING, Name : STRING, FutureData : STRING]

VnetSpec == [ResourceGroup : STRING, ID : STRING, Name : STRING,
             CidrBlock : STRING, CIDRBlocks : CIDRs, Tags : STRING]

IngressRule == [Name : STRING, Description : STRING, Protocol : STRING, Priority : Int,
                SourcePorts : Ptr(STRING), DestinationPorts : Ptr(STRING),
                Source : Ptr(STRING), Destination : Ptr(STRING)]

SecurityGroup == [ID : STRING, Name : STRING, IngressRules : Seq(IngressRule), Tags : STRING]

RouteTable == [ID : STRING, Name : STRING]

PublicIPSpec == [Name : STRING, DNSName : STRING]

FrontendIP == [Name : STRING, PrivateIPAddress : Seq(Int), PublicIP : Ptr(PublicIPSpec)]

SKUs == {"", "Standard"}

LBType == {"", "Internal", "Public"}

LoadBalancerSpec == [ID : STRING, Name : STRING, SKU : SKUs, FrontendIPs : Seq(FrontendIP),
                     Type : LBType]

SubnetRole == {"control-plane", "node", ""}

SubnetSpec == [Role : SubnetRole, ID : STRING, Name : STRING, CidrBlock : STRING,
               CIDRBlocks : CIDRs, InternalLBIPAddress : STRING,
               SecurityGroup : SecurityGroup, RouteTable : RouteTable]

NetworkSpec == [Vnet : VnetSpec, Subnets : Seq(SubnetSpec), APIServerLB : LoadBalancerSpec]

VMState == {"Creating", "Deleting", "Failed", "Migrating", "Succeeded",
            "Updating", "Deleted"}

AvailabilityZone == [ID : Ptr(STRING), Enabled : Ptr(BOOLEAN)]

AzureMarketplaceImage == [Publisher : STRING, Offer : STRING, SKU : STRING,
                          Version : STRING, ThirdPartyImage : BOOLEAN]

AzureSharedGalleryImage == [SubscriptionID : STRING, ResourceGroup : STRING,
                            Gallery : STRING, Name : STRING, Version : STRING]

Image == [ID : Ptr(STRING), SharedGallery : Ptr(AzureSharedGalleryImage),
          Marketplace : Ptr(AzureMarketplaceImage)]

VMIdentity == {"None", "SystemAssigned", "UserAssigned"}

UserAssignedIdentity == [ProviderID : STRING]

IdentityType == {"UserAssignedMSI", "ServicePrincipal"}

DiskEncryptionSetParameters == [ID : STRING]

ManagedDisk == [StorageAccountType : STRING,
                DiskEncryptionSet : Ptr(DiskEncryptionSetParameters)]

DiffDiskSettings == [Option : STRING]

OSDisk == [OSType : STRING, DiskSizeGB : Int, ManagedDisk : ManagedDisk,
           DiffDiskSettings : Ptr(DiffDiskSettings), CachingType : STRING]

DataDisk == [NameSuffix : STRING, DiskSizeGB : Int, ManagedDisk : Ptr(ManagedDisk),
             Lun : Ptr(Int), CachingType : STRING]

SecurityProfile == [EncryptionAtHost : Ptr(BOOLEAN)]

SpotVMOptions == [MaxPrice : Ptr(STRING)]

-----------------------------------------------------------------------------
(* The kinds: name is metadata.name, the other fields those of spec and    *)
(* status.                                                                 *)
AzureClusterSpec ==
    [NetworkSpec : NetworkSpec, ResourceGroup : STRING, SubscriptionID : STRING,
     Location : STRING, ControlPlaneEndpoint : STRING, AdditionalTags : STRING,
     IdentityRef : Refs]

AzureClusterStatus == [FailureDomains : STRING, Ready : BOOLEAN, Conditions : STRING]

AzureCluster == [name : STRING, Spec : AzureClusterSpec, Status : AzureClusterStatus]

AzureMachineSpec ==
    [ProviderID : Ptr(STRING), VMSize : STRING, FailureDomain : Ptr(STRING),
     AvailabilityZone : AvailabilityZone, Location : STRING, Image : Ptr(Image),
     Identity : VMIdentity,
     UserAssignedIdentities : Seq(UserAssignedIdentity), RoleAssignmentName : STRING,
     OSDisk : OSDisk, DataDisks : Seq(DataDisk), SSHPublicKey : STRING,
     AdditionalTags : STRING, AllocatePublicIP : BOOLEAN, EnableIPForwarding : BOOLEAN,
     AcceleratedNetworking : Ptr(BOOLEAN), SpotVMOptions : Ptr(SpotVMOptions),
     SecurityProfile : Ptr(SecurityProfile)]

AzureMachineStatus == [Ready : BOOLEAN, Addresses : STRING, VMState : Ptr(VMState),
                       FailureReason : Ptr(STRING), FailureMessage : Ptr(STRING),
                       Conditions : STRING]

AzureMachine == [name : STRING, Spec : AzureMachineSpec, Status : AzureMachineStatus]

AzureMachineTemplateResource == [Spec : AzureMachineSpec]

AzureMachineTemplate == [name : STRING, Spec : [Template : AzureMachineTemplateResource]]

AzureClusterIdentitySpec ==
    [Type : IdentityType, ResourceID : STRING, ClientID : STRING, ClientSecret : STRING,
     TenantID : STRING, AllowedNamespaces : Seq(STRING)]

AzureClusterIdentity ==
    [name : STRING, Spec : AzureClusterIdentitySpec, Status : [Conditions : STRING]]

-----------------------------------------------------------------------------
(* exp/api/v1alpha3                                                        *)
AzureMachinePoolMachineTemplate ==
    [VMSize : STRING, Image : Ptr(Image), OSDisk : OSDisk, DataDisks : Seq(DataDisk),
     SSHPublicKey : STRING, AcceleratedNetworking : Ptr(BOOLEAN),
     TerminateNotificationTimeout : Ptr(Int), SecurityProfile : Ptr(SecurityProfile),
     SpotVMOptions : Ptr(SpotVMOptions)]

AzureMachinePoolSpec ==
    [Location : STRING, Template : AzureMachinePoolMachineTemplate, AdditionalTags : STRING,
     ProviderID : STRING, ProviderIDList : Seq(STRING), Identity : VMIdentity,
     UserAssignedIdentities : Seq(UserAssignedIdentity), RoleAssignmentName : STRING]

AzureMachinePoolInstanceStatus ==
    [Version : STRING, ProvisioningState : Ptr(VMState), ProviderID : STRING,
     InstanceID : STRING, InstanceName : STRING, LatestModelApplied : BOOLEAN]

AzureMachinePoolStatus ==
    [Ready : BOOLEAN, Replicas : Nat, Instances : Seq(AzureMachinePoolInstanceStatus),
     Version : STRING, ProvisioningState : Ptr(VMState),
     FailureReason : Ptr(STRING), FailureMessage : Ptr(STRING), Conditions : STRING,
     LongRunningOperationState : Ptr(FutureType)]

AzureMachinePool == [name : STRING, Spec : AzureMachinePoolSpec, Status : AzureMachinePoolStatus]

ManagedControlPlaneSubnet == [Name : STRING, CIDRBlock : STRING]

ManagedControlPlaneVirtualNetwork ==
    [Name : STRING, CIDRBlock : STRING, Subnet : ManagedControlPlaneSubnet]

(* A version with or without its leading v.                                *)
KubernetesVersion == [v : BOOLEAN, number : STRING]

AzureManagedControlPlaneSpec ==
    [Version : KubernetesVersion, ResourceGroupName : STRING, NodeResourceGroupName : STRING,
     VirtualNetwork : ManagedControlPlaneVirtualNetwork, SubscriptionID : STRING,
     Location : STRING, ControlPlaneEndpoint : STRING, AdditionalTags : STRING,
     NetworkPlugin : Ptr(STRING), NetworkPolicy : Ptr(STRING), SSHPublicKey : STRING,
     DefaultPoolRef : STRING, DNSServiceIP : Ptr(STRING), LoadBalancerSKU : Ptr(STRING)]

AzureManagedControlPlaneStatus == [Ready : BOOLEAN, Initialized : BOOLEAN]

AzureManagedControlPlane ==
    [name : STRING, Spec : AzureManagedControlPlaneSpec, Status : AzureManagedControlPlaneStatus]

AzureManagedClusterSpec == [ControlPlaneEndpoint : STRING]

AzureManagedCluster == [name : STRING, Spec : AzureManagedClusterSpec, Status : [Ready : BOOLEAN]]

AzureManagedMachinePoolSpec ==
    [SKU : STRING, OSDiskSizeGB : Ptr(Int), ProviderIDList : Seq(STRING)]

AzureManagedMachinePoolStatus ==
    [Ready : BOOLEAN, Replicas : Nat, ErrorReason : Ptr(STRING), ErrorMessage : Ptr(STRING)]

AzureManagedMachinePool ==
    [name : STRING, Spec : AzureManagedMachinePoolSpec, Status : AzureManagedMachinePoolStatus]

Kinds == [AzureCluster |-> AzureCluster, AzureMachine |-> AzureMachine,
          AzureMachineTemplate |-> AzureMachineTemplate,
          AzureClusterIdentity |-> AzureClusterIdentity,
          AzureMachinePool |-> AzureMachinePool,
          AzureManagedControlPlane |-> AzureManagedControlPlane,
          AzureManagedCluster |-> AzureManagedCluster,
          AzureManagedMachinePool |-> AzureManagedMachinePool]
=============================================================================
