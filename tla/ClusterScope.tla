---- MODULE ClusterScope ----
(***************************************************************************)
(* What the scope of an AzureCluster makes of its spec: the names of the   *)
(* Azure resources each service is responsible for, in the order in which  *)
(* the service visits them.  A resource is a name.                         *)
(*                                                                         *)
(* A configuration is the part of an AzureCluster the services tell apart: *)
(*   private    the API server's load balancer is Internal                 *)
(*   bastion    an Azure Bastion is asked for                              *)
(*   outbound   frontend IPs of the node outbound load balancer, -1 = nil  *)
(*   userGroup  the resource group exists before the cluster               *)
(*   userVnet   the virtual network and its subnets exist before it        *)
(*   vnetApart  the virtual network is in another resource group           *)
(***************************************************************************)
EXTENDS Integers, Sequences

\* A network that exists before the cluster is in a group that does, too.
Configs == {c \in [private: BOOLEAN, bastion: BOOLEAN, outbound: -1..2,
                   userGroup: BOOLEAN, userVnet: BOOLEAN, vnetApart: BOOLEAN] :
                c.userVnet => c.userGroup \/ c.vnetApart}

Resources == {"group", "vnet", "nsgControlPlane", "nsgNode", "routeTableNode",
              "subnetControlPlane", "subnetNode", "subnetBastion",
              "ipControlPlane", "ipNode", "ipNode1", "ipNode2", "ipBastion",
              "lbAPIServer", "lbNode", "lbControlPlaneOutbound",
              "zone", "link", "record", "bastion"}

SecurityGroups == {"nsgControlPlane", "nsgNode"}
Subnets == {"subnetControlPlane", "subnetNode", "subnetBastion"}
PublicIPs == {"ipControlPlane", "ipNode", "ipNode1", "ipNode2", "ipBastion"}
LoadBalancers == {"lbAPIServer", "lbNode", "lbControlPlaneOutbound"}

NSGSpecs(c) == <<"nsgControlPlane", "nsgNode">>

\* The webhook names a route table for the node subnet only.
RouteTableSpecs(c) == <<"routeTableNode">>

SubnetSpecs(c) ==
    <<"subnetControlPlane", "subnetNode">>
        \o (IF c.bastion THEN <<"subnetBastion">> ELSE <<>>)

\* One address of the node load balancer is named without an index, two with one.
PublicIPSpecs(c) ==
    <<"ipControlPlane">>
        \o (CASE c.outbound = 1 -> <<"ipNode">>
              [] c.outbound = 2 -> <<"ipNode1", "ipNode2">>
              [] OTHER -> <<>>)
        \o (IF c.bastion THEN <<"ipBastion">> ELSE <<>>)

LBSpecs(c) ==
    <<"lbAPIServer">>
        \o (IF c.outbound >= 0 THEN <<"lbNode">> ELSE <<>>)
        \o (IF c.private THEN <<"lbControlPlaneOutbound">> ELSE <<>>)

PrivateDNSSpec(c) == IF c.private THEN <<"zone", "link", "record">> ELSE <<>>

BastionSpec(c) == IF c.bastion THEN <<"bastion">> ELSE <<>>

----------------------------------------------------------------------------
\* The entries each service wants in a resource it merges with what it finds.
\* Load balancer entries are compared by name only, so are security rules here.

LBIsInternal(c, lb) == lb = "lbAPIServer" /\ c.private

\* "frontend" stands for all frontend IP configurations of the load balancer.
getFrontendIPConfigs(c, lb) == {"frontend"}

getBackendAddressPools(c, lb) == {"pool"}

getOutboundRules(c, lb) == IF LBIsInternal(c, lb) THEN {} ELSE {"outboundRule"}

getLoadBalancingRules(c, lb) == IF lb = "lbAPIServer" THEN {"rule"} ELSE {}

getProbes(c, lb) == IF lb = "lbAPIServer" THEN {"probe"} ELSE {}

LBEntries(c, lb) ==
    getFrontendIPConfigs(c, lb) \cup getLoadBalancingRules(c, lb)
        \cup getBackendAddressPools(c, lb) \cup getOutboundRules(c, lb)
        \cup getProbes(c, lb)

\* SetControlPlaneSecurityRules gives the control plane its rules, a node
\* subnet has those of the user.
SecurityRules(c, nsg) ==
    IF nsg = "nsgControlPlane" THEN {"allow_ssh", "allow_apiserver"} ELSE {}

Wanted(c, r) == IF r \in LoadBalancers THEN LBEntries(c, r) ELSE SecurityRules(c, r)

Merged == SecurityGroups \cup LoadBalancers

Entries == {"frontend", "pool", "outboundRule", "rule", "probe",
            "allow_ssh", "allow_apiserver", "foreign", "natRule"}

\* What others add: inbound NAT rules are entries of load balancers.
Foreign(r) == {"foreign"} \cup IF r \in LoadBalancers THEN {"natRule"} ELSE {}

----------------------------------------------------------------------------
\* Azure: what a resource refers to.  A PUT is refused while one of these is
\* missing, a DELETE while a resource refers to what is to be deleted.
Refers(c, r) ==
    CASE r \in Subnets \ {"subnetBastion"} ->
             {"vnet"} \cup (IF c.userVnet THEN {} ELSE
                 {IF r = "subnetControlPlane" THEN "nsgControlPlane" ELSE "nsgNode"}
                   \cup (IF r = "subnetNode" THEN {"routeTableNode"} ELSE {}))
      [] r = "subnetBastion" -> {"vnet"}
      [] r = "lbAPIServer" -> IF c.private THEN {"subnetControlPlane"} ELSE {"ipControlPlane"}
      [] r = "lbNode" -> CASE c.outbound = 1 -> {"ipNode"}
                           [] c.outbound = 2 -> {"ipNode1", "ipNode2"}
                           [] OTHER -> {}
      [] r = "lbControlPlaneOutbound" -> {"ipControlPlane"}
      [] r = "link" -> {"zone", "vnet"}
      [] r = "record" -> {"zone"}
      [] r = "bastion" -> {"subnetBastion", "ipBastion"}
      [] OTHER -> {}

\* Azure: what goes together with a resource.
Parts(r) ==
    CASE r = "vnet" -> Subnets
      [] r = "zone" -> {"record"}
      [] OTHER -> {}

\* The resources in the cluster's resource group.
InGroup(c) == IF c.vnetApart THEN Resources \ (Subnets \cup {"vnet"}) ELSE Resources
====
