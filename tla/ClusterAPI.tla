----------------------------- MODULE ClusterAPI -----------------------------
(***************************************************************************)
(* The AzureCluster kind at the API server: conversion between the two     *)
(* versions with the hub copy that travels in an annotation, the           *)
(* defaulting webhook and the validating webhook.                          *)
(*                                                                         *)
(* A v1alpha3 object carries data, the hub copy (<<>> when the object was  *)
(* written without it), and env, the annotation of the Azure environment.  *)
(* The names generated from the cluster's name are told apart by what they *)
(* name.  IllFormed holds the texts that the regular expressions and the   *)
(* parsers refuse.                                                         *)
(***************************************************************************)
EXTENDS Conversion, FiniteSets
CONSTANT IllFormed

(* Slip: the subnets of the two copies are matched by their position.      *)
RestoreOutboundRulesByIndex(subnets, restored) ==
    LET Outbound(rule) == rule.Direction # "Inbound"
    IN  [i \in DOMAIN subnets |->
            IF i \notin DOMAIN restored THEN subnets[i]
            ELSE [subnets[i] EXCEPT !.SecurityGroup.SecurityRules =
                      @ \o SelectSeq(restored[i].SecurityGroup.SecurityRules, Outbound)]]

(* Only the annotation tells the outbound rules of a subnet: they come     *)
(* back, after the inbound ones, to the first subnet of the same name.     *)
RestoreOutboundRules(subnets, restored) ==
    LET Outbound(rule) == rule.Direction # "Inbound"
        First(name) == SelectInSeq(subnets, LAMBDA s : s.Name = name)
        Back(i) == SelectInSeq(restored, LAMBDA r : First(r.Name) = i)
    IN  [i \in DOMAIN subnets |->
            IF Back(i) = 0 THEN subnets[i]
            ELSE [subnets[i] EXCEPT !.SecurityGroup.SecurityRules =
                      @ \o SelectSeq(restored[Back(i)].SecurityGroup.SecurityRules, Outbound)]]

ConvertTo_AzureCluster(src) ==
    LET dst == [name |-> src.name,
                Spec |-> [To4_AzureClusterSpec(src.Spec) EXCEPT !.AzureEnvironment = src.env],
                Status |-> Convert_AzureClusterStatus(src.Status)]
    IN  IF src.data = <<>> THEN dst
        ELSE LET restored == src.data[1].Spec
                 network == restored.NetworkSpec
             IN  [dst EXCEPT
                     !.Spec.NetworkSpec.PrivateDNSZoneName = network.PrivateDNSZoneName,
                     !.Spec.NetworkSpec.APIServerLB.FrontendIPsCount =
                         network.APIServerLB.FrontendIPsCount,
                     !.Spec.NetworkSpec.APIServerLB.IdleTimeoutInMinutes =
                         network.APIServerLB.IdleTimeoutInMinutes,
                     !.Spec.NetworkSpec.NodeOutboundLB = network.NodeOutboundLB,
                     !.Spec.CloudProviderConfigOverrides = restored.CloudProviderConfigOverrides,
                     !.Spec.BastionSpec = restored.BastionSpec,
                     !.Spec.NetworkSpec.Subnets = RestoreOutboundRules(@, network.Subnets)]

ConvertFrom_AzureCluster(src) ==
    [name |-> src.name, Spec |-> To3_AzureClusterSpec(src.Spec),
     Status |-> Convert_AzureClusterStatus(src.Status),
     env |-> src.Spec.AzureEnvironment, data |-> <<src>>]

-----------------------------------------------------------------------------
(* Defaults                                                                *)
DefaultVnetCIDR == <<0, 99>>
DefaultControlPlaneSubnetCIDR == <<0, 15>>
DefaultNodeSubnetCIDR == <<16, 31>>
DefaultAzureBastionSubnetCIDR == <<96, 99>>
DefaultInternalLBIPAddress == <<10>>
DefaultOutboundRuleIdleTimeoutInMinutes == 4

OrElse(value, default) == IF value = "" THEN default ELSE value
OrBlocks(blocks, default) == IF blocks = <<>> THEN <<default>> ELSE blocks

setVnetDefaults(vnet, group) ==
    [vnet EXCEPT !.ResourceGroup = OrElse(@, group), !.Name = OrElse(@, "c-vnet"),
                 !.CIDRBlocks = OrBlocks(@, DefaultVnetCIDR)]

EmptySubnet(role) ==
    [Role |-> role, ID |-> "", Name |-> "", CIDRBlocks |-> <<>>,
     SecurityGroup |-> [ID |-> "", Name |-> "", SecurityRules |-> <<>>, Tags |-> ""],
     RouteTable |-> [ID |-> "", Name |-> ""]]

(* The first subnet of a role is that role's subnet: 0 when there is none. *)
GetSubnet(subnets, role) == SelectInSeq(subnets, LAMBDA s : s.Role = role)

setSecurityRuleDefaults(group) ==
    [group EXCEPT !.SecurityRules =
        [i \in DOMAIN @ |-> [@[i] EXCEPT !.Direction = OrElse(@, "Inbound")]]]

(* UpdateControlPlaneSubnet and UpdateNodeSubnet write the subnet back to  *)
(* every subnet of the role.                                               *)
setSubnetDefaults(subnets) ==
    LET WithRole(s, role) == IF GetSubnet(s, role) = 0 THEN Append(s, EmptySubnet(role)) ELSE s
        all == WithRole(WithRole(subnets, "control-plane"), "node")
        Completed(s, name, cidr, group) ==
            [s EXCEPT !.Name = OrElse(@, name), !.CIDRBlocks = OrBlocks(@, cidr),
                      !.SecurityGroup = setSecurityRuleDefaults([@ EXCEPT !.Name = OrElse(@, group)])]
        controlPlane == Completed(all[GetSubnet(all, "control-plane")], "c-controlplane-subnet",
                                  DefaultControlPlaneSubnetCIDR, "c-controlplane-nsg")
        node == [Completed(all[GetSubnet(all, "node")], "c-node-subnet",
                           DefaultNodeSubnetCIDR, "c-node-nsg")
                 EXCEPT !.RouteTable.Name = OrElse(@, "c-node-routetable")]
    IN  [i \in DOMAIN all |-> CASE all[i].Role = "control-plane" -> controlPlane
                                [] all[i].Role = "node" -> node
                                [] OTHER -> all[i]]

setAPIServerLBDefaults(lb) ==
    LET typed == [lb EXCEPT !.Type = OrElse(@, "Public"), !.SKU = OrElse(@, "Standard"),
                            !.IdleTimeoutInMinutes =
                                IF @ = <<>> THEN <<DefaultOutboundRuleIdleTimeoutInMinutes>> ELSE @]
        public == typed.Type = "Public"
        ip == [Name |-> "frontEnd", PrivateIPAddress |-> IF public THEN <<>> ELSE DefaultInternalLBIPAddress,
               PublicIP |-> IF public THEN <<[Name |-> "pip-c-apiserver", DNSName |-> ""]>> ELSE <<>>]
    IN  [typed EXCEPT !.Name = OrElse(@, IF public THEN "c-public-lb" ELSE "c-internal-lb"),
                      !.FrontendIPs = IF @ = <<>> THEN <<ip>> ELSE @]

EmptyLB == [ID |-> "", Name |-> "", SKU |-> "", FrontendIPs |-> <<>>, Type |-> "",
            FrontendIPsCount |-> <<>>, IdleTimeoutInMinutes |-> <<>>]

(* The index is in the name only when there are several addresses.         *)
OutboundIP(count, i) ==
    LET suffix == IF count = 1 THEN "" ELSE ToString(i)
    IN  [Name |-> "outbound" \o suffix, PrivateIPAddress |-> <<>>,
         PublicIP |-> <<[Name |-> "pip-c-node-outbound" \o suffix, DNSName |-> ""]>>]

setNodeOutboundLBDefaults(outbound, apiServerLB) ==
    IF outbound = <<>> /\ apiServerLB.Type = "Internal" THEN <<>>
    ELSE LET lb == IF outbound = <<>> THEN EmptyLB ELSE outbound[1]
             count == IF lb.FrontendIPsCount = <<>> THEN 1 ELSE lb.FrontendIPsCount[1]
         IN  <<[ID |-> lb.ID, Type |-> "Public", SKU |-> "Standard", Name |-> "c",
                IdleTimeoutInMinutes |->
                    IF lb.IdleTimeoutInMinutes = <<>>
                    THEN <<DefaultOutboundRuleIdleTimeoutInMinutes>> ELSE lb.IdleTimeoutInMinutes,
                FrontendIPsCount |-> <<count>>,
                FrontendIPs |-> [i \in 1..count |-> OutboundIP(count, i)]]>>

setBastionDefaults(bastion) ==
    Each(LAMBDA b : [b EXCEPT
             !.Name = OrElse(@, "c-azure-bastion"),
             !.Subnet.Name = OrElse(@, "AzureBastionSubnet"),
             !.Subnet.CIDRBlocks = OrBlocks(@, DefaultAzureBastionSubnetCIDR),
             !.PublicIP.Name = OrElse(@, "c-azure-bastion-pip")], bastion)

Default_AzureCluster(c) ==
    LET group == OrElse(c.Spec.ResourceGroup, c.name)
        lb == setAPIServerLBDefaults(c.Spec.NetworkSpec.APIServerLB)
    IN  [c EXCEPT !.Spec.ResourceGroup = group,
                  !.Spec.AzureEnvironment = OrElse(@, "AzurePublicCloud"),
                  !.Spec.NetworkSpec.Vnet = setVnetDefaults(@, group),
                  !.Spec.BastionSpec.AzureBastion = setBastionDefaults(@),
                  !.Spec.NetworkSpec.Subnets = setSubnetDefaults(@),
                  !.Spec.NetworkSpec.APIServerLB = lb,
                  !.Spec.NetworkSpec.NodeOutboundLB = setNodeOutboundLBDefaults(@, lb)]

-----------------------------------------------------------------------------
(* Validation.  A panic of a webhook refuses the request, as an error does.*)
MaxLoadBalancerOutboundIPs == 16
MinLBIdleTimeoutInMinutes == 4
MaxLBIdleTimeoutInMinutes == 30
minRulePriority == 100
maxRulePriority == 4096

WellFormed(name) == name # "" /\ name \notin IllFormed
ParseCIDR(block) == block # <<>>
Holds(block, address) == ParseCIDR(block) /\ block[1] <= address /\ address <= block[2]

validateClusterName(name) == WellFormed(name)

validateSecurityRule(rule) == minRulePriority <= rule.Priority /\ rule.Priority <= maxRulePriority

validateSubnetCIDR(blocks, vnetBlocks) ==
    \A b \in Range(blocks) : ParseCIDR(b) /\ \E v \in Range(vnetBlocks) : Holds(v, b[1])

validateSubnets(subnets, vnet) ==
    /\ \A s \in Range(subnets) :
           /\ WellFormed(s.Name)
           /\ \A rule \in Range(s.SecurityGroup.SecurityRules) : validateSecurityRule(rule)
           /\ validateSubnetCIDR(s.CIDRBlocks, vnet.CIDRBlocks)
    /\ \A i, j \in DOMAIN subnets : subnets[i].Name = subnets[j].Name => i = j
    /\ \A role \in {"control-plane", "node"} : GetSubnet(subnets, role) # 0

(* A block that does not parse ends the search for the address in a panic. *)
validateInternalLBIPAddress(address, blocks) ==
    /\ address[1] >= 0
    /\ \E i \in DOMAIN blocks :
           Holds(blocks[i], address[1]) /\ \A j \in 1..i : ParseCIDR(blocks[j])

validIdleTimeout(lb) ==
    \A t \in Range(lb.IdleTimeoutInMinutes) :
        MinLBIdleTimeoutInMinutes <= t /\ t <= MaxLBIdleTimeoutInMinutes

(* A field of the old load balancer that was empty may be set.             *)
validateAPIServerLB(lb, old, blocks) ==
    LET SetOnce(f, empty) == old[f] = empty \/ old[f] = lb[f]
        ip == lb.FrontendIPs[1]
    IN  /\ lb.SKU = "Standard" /\ SetOnce("SKU", "")
        /\ lb.Type \in {"Internal", "Public"} /\ SetOnce("Type", "")
        /\ WellFormed(lb.Name) /\ SetOnce("Name", "")
        /\ SetOnce("IdleTimeoutInMinutes", <<>>)
        /\ Len(lb.FrontendIPs) = 1 /\ lb.FrontendIPsCount \in {<<>>, <<1>>}
        /\ lb.Type = "Internal" =>
               /\ ip.PublicIP = <<>>
               /\ ip.PrivateIPAddress # <<>> =>
                      /\ validateInternalLBIPAddress(ip.PrivateIPAddress, blocks)
                      /\ old.FrontendIPs = <<>>
                             \/ old.FrontendIPs[1].PrivateIPAddress = ip.PrivateIPAddress
        /\ lb.Type = "Public" => ip.PrivateIPAddress = <<>>
        /\ validIdleTimeout(lb)

(* The counts are compared as pointers, which are equal only when both are *)
(* nil, so that the addresses may be changed through the count alone.      *)
SameFrontendIPs(lb, old) ==
    old.FrontendIPsCount = <<>> /\ lb.FrontendIPsCount = <<>> => old.FrontendIPs = lb.FrontendIPs

validateNodeOutboundLB(outbound, oldOutbound, apiServerLB) ==
    \/ outbound = <<>> /\ apiServerLB.Type = "Internal"
    \/ /\ outbound # <<>>
       /\ LET lb == outbound[1]
          IN  /\ \A old \in Range(oldOutbound) :
                     /\ \A f \in {"ID", "Name", "SKU", "Type", "IdleTimeoutInMinutes"} : old[f] = lb[f]
                     /\ SameFrontendIPs(lb, old)
              /\ \A n \in Range(lb.FrontendIPsCount) : n <= MaxLoadBalancerOutboundIPs
              /\ validIdleTimeout(lb)

validatePrivateDNSZoneName(network) ==
    network.PrivateDNSZoneName # "" =>
        network.APIServerLB.Type = "Internal" /\ WellFormed(network.PrivateDNSZoneName)

validateNetworkSpec(network, oldLB, oldOutbound) ==
    LET controlPlane == GetSubnet(network.Subnets, "control-plane")
    IN  /\ network.Vnet.ResourceGroup # "" =>
               /\ WellFormed(network.Vnet.ResourceGroup)
               /\ \A b \in Range(network.Vnet.CIDRBlocks) : ParseCIDR(b)
               /\ validateSubnets(network.Subnets, network.Vnet)
        /\ controlPlane # 0
        /\ validateAPIServerLB(network.APIServerLB, oldLB, network.Subnets[controlPlane].CIDRBlocks)
        /\ validateNodeOutboundLB(network.NodeOutboundLB, oldOutbound, network.APIServerLB)
        /\ validatePrivateDNSZoneName(network)

validateCloudProviderConfigOverrides(old, new) == old = new

ValidateCreate_AzureCluster(c) ==
    /\ validateClusterName(c.name)
    /\ validateNetworkSpec(c.Spec.NetworkSpec, EmptyLB, <<>>)
    /\ validateCloudProviderConfigOverrides(c.Spec.CloudProviderConfigOverrides, <<>>)

ImmutableClusterSpec == {"ResourceGroup", "SubscriptionID", "Location", "AzureEnvironment"}

ValidateUpdate_AzureCluster(c, old) ==
    /\ \A f \in ImmutableClusterSpec : c.Spec[f] = old.Spec[f]
    /\ c.Spec.NetworkSpec.PrivateDNSZoneName = old.Spec.NetworkSpec.PrivateDNSZoneName
    /\ old.Spec.BastionSpec.AzureBastion # <<>> => c.Spec.BastionSpec = old.Spec.BastionSpec
    /\ validateClusterName(c.name)
    /\ validateNetworkSpec(c.Spec.NetworkSpec, old.Spec.NetworkSpec.APIServerLB,
                           old.Spec.NetworkSpec.NodeOutboundLB)
    /\ validateCloudProviderConfigOverrides(c.Spec.CloudProviderConfigOverrides,
                                            old.Spec.CloudProviderConfigOverrides)
=============================================================================
