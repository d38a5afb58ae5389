--------------------------- MODULE APIServerProofs ---------------------------
(***************************************************************************)
(* What holds for every object, every edit of clients of both versions and *)
(* any number of requests: for the kinds of AKS an accepted update changes *)
(* only what its client changed and a v1alpha3 client reads back what it   *)
(* wrote, and for every kind but AzureCluster what only v1alpha4 can say   *)
(* outlives the writes of v1alpha3 clients.                                *)
(***************************************************************************)
EXTENDS APIServer, TLAPS

\* The kinds of AKS.
ManagedKinds == {"AzureManagedControlPlane", "AzureManagedCluster", "AzureManagedMachinePool"}

-----------------------------------------------------------------------------
(* Resource versions and the copies of clients *)

\* A copy that is not stale is the stored object, converted.
HeldCopy ==
    held # <<>> => /\ stored # <<>> /\ held[1].version \in Nat /\ held[1].version <= version
                   /\ held[1].version = version => held[1].object = ConvertFrom(stored[1])

Tracks ==
    /\ version \in 0..MaxWrites + 1
    /\ stored = <<>> => version = 0
    /\ HeldCopy

LEMMA TracksInit == Init => Tracks
BY WritesAssumption DEF Init, Tracks, HeldCopy

\* The conversions depend on the kind only.
LEMMA SameConversion ==
    ASSUME UNCHANGED kind
    PROVE  \A o : ConvertFrom(o)' = ConvertFrom(o)
BY DEF ConvertFrom

LEMMA TracksUnchanged ==
    ASSUME Tracks, UNCHANGED <<kind, stored, version>>, held' \in {held, <<>>}
    PROVE  Tracks'
<1>1. HeldCopy'
  BY SameConversion DEF Tracks, HeldCopy
<1> QED BY <1>1 DEF Tracks

\* A write makes every copy that is held stale.
LEMMA TracksStore ==
    ASSUME Tracks, NEW adm, NEW accepted, Store(adm, accepted), version <= MaxWrites,
           held' \in {held, <<>>}
    PROVE  Tracks'
<1>1. CASE ~accepted
  BY <1>1, TracksUnchanged DEF Store
<1>2. CASE accepted
  <2>1. version' = version + 1 /\ stored' = <<SchemaDefault(adm)>>
    BY <1>2 DEF Store
  <2>2. version \in Nat /\ MaxWrites \in Nat
    BY WritesAssumption DEF Tracks
  <2>3. HeldCopy'
    BY <2>1, <2>2 DEF Tracks, HeldCopy
  <2> QED BY <2>1, <2>2, <2>3 DEF Tracks
<1> QED BY <1>1, <1>2

\* What a step can be, with what each request found.
LEMMA Steps ==
    ASSUME Tracks, Next
    PROVE  \/ Get3
           \/ version <= MaxWrites /\ \E obj : \/ stored = <<>> /\ (Create4(obj) \/ Create3(obj))
                                               \/ stored # <<>> /\ (Update4(obj) \/ UpdateStatus4(obj))
                                               \/ stored # <<>> /\ held # <<>> /\ Update3(obj)
<1>1. stored = <<>> => version <= MaxWrites
  BY WritesAssumption DEF Tracks
<1>2. held # <<>> => stored # <<>>
  BY DEF Tracks, HeldCopy
<1>3. ASSUME NEW obj, Create4(obj) \/ Create3(obj) PROVE stored = <<>>
  BY <1>3 DEF Create4, Create3
<1> QED BY <1>1, <1>2, <1>3, Zenon DEF Next

LEMMA TracksStep ==
    ASSUME Tracks, [Next]_vars
    PROVE  Tracks'
<1>1. CASE UNCHANGED vars
  BY <1>1, TracksUnchanged DEF vars
<1>2. CASE Get3
  <2>1. /\ UNCHANGED <<kind, stored, version>> /\ stored # <<>>
        /\ held' = <<[object |-> ConvertFrom(stored[1]), version |-> version]>>
    BY <1>2 DEF Get3
  <2>2. held'[1].object = ConvertFrom(stored[1]) /\ held'[1].version = version
    BY <2>1
  <2>3. version \in Nat
    BY WritesAssumption DEF Tracks
  <2>4. HeldCopy'
    BY <2>1, <2>2, <2>3, SameConversion DEF HeldCopy
  <2> QED BY <2>1, <2>4 DEF Tracks
<1>3. ASSUME version <= MaxWrites, NEW obj, Create4(obj) PROVE Tracks'
  BY <1>3, TracksStore DEF Create4
<1>4. ASSUME version <= MaxWrites, NEW obj, Create3(obj) PROVE Tracks'
  BY <1>4, TracksStore DEF Create3
<1>5. ASSUME version <= MaxWrites, NEW obj, Update4(obj) PROVE Tracks'
  BY <1>5, TracksStore DEF Update4
<1>6. ASSUME version <= MaxWrites, NEW obj, UpdateStatus4(obj) PROVE Tracks'
  BY <1>6, TracksStore DEF UpdateStatus4
<1>7. ASSUME version <= MaxWrites, NEW obj, Update3(obj) PROVE Tracks'
  BY <1>7, TracksStore DEF Update3
<1>8. CASE Next
  BY <1>2, <1>3, <1>4, <1>5, <1>6, <1>7, <1>8, Steps, Zenon
<1> QED BY <1>1, <1>8

LEMMA Drawn == Tracks => Generated(version) # ""
BY GeneratedAssumption DEF Tracks

-----------------------------------------------------------------------------
(* The defaults of a control plane *)

\* The defaults of the schema concern pools only.
LEMMA NoSchemaDefault ==
    ASSUME kind # "AzureMachinePool", NEW obj
    PROVE  SchemaDefault(obj) = obj /\ Mutated(obj) = Default(obj)
BY DEF SchemaDefault, Mutated

LEMMA DefaultedSpec ==
    ASSUME NEW r, NEW fresh, "Spec" \in DOMAIN r
    PROVE  /\ Default_AzureManagedControlPlane(r, fresh).Spec = DefaultControlPlaneSpec(r.Spec, r.name, fresh)
           /\ "Spec" \in DOMAIN Default_AzureManagedControlPlane(r, fresh)
           /\ DOMAIN Default_AzureManagedControlPlane(r, fresh).Spec = DOMAIN r.Spec
<1>1. Default_AzureManagedControlPlane(r, fresh).Spec = DefaultControlPlaneSpec(r.Spec, r.name, fresh)
  BY DEF Default_AzureManagedControlPlane
<1>2. DOMAIN DefaultControlPlaneSpec(r.Spec, r.name, fresh) = DOMAIN r.Spec
  BY DEF DefaultControlPlaneSpec
<1>3. "Spec" \in DOMAIN Default_AzureManagedControlPlane(r, fresh)
  BY DEF Default_AzureManagedControlPlane
<1> QED BY <1>1, <1>2, <1>3

LEMMA KeyDefaulted ==
    ASSUME NEW spec, NEW name, NEW fresh, "SSHPublicKey" \in DOMAIN spec
    PROVE  DefaultControlPlaneSpec(spec, name, fresh).SSHPublicKey = OrElse(spec.SSHPublicKey, fresh)
BY DEF DefaultControlPlaneSpec, SetDefaultSSHPublicKey

LEMMA IdentityDefaulted ==
    ASSUME NEW spec, NEW name, NEW fresh, "IdentityRef" \in DOMAIN spec
    PROVE  DefaultControlPlaneSpec(spec, name, fresh).IdentityRef = spec.IdentityRef
BY DEF DefaultControlPlaneSpec

\* Only the default of the key depends on what the generator returns.
SameDefault(spec, name, one, other, f) ==
    DefaultControlPlaneSpec(spec, name, one)[f] = DefaultControlPlaneSpec(spec, name, other)[f]

LEMMA OthersDefaulted ==
    ASSUME NEW spec, NEW name, NEW one, NEW other, NEW f, f \in DOMAIN spec, f # "SSHPublicKey"
    PROVE  SameDefault(spec, name, one, other, f)
BY DEF SameDefault, DefaultControlPlaneSpec

\* The values of a field that the defaults leave alone.
NetworkShape(v) ==
    v = [Name |-> v.Name, CIDRBlock |-> v.CIDRBlock,
         Subnet |-> [Name |-> v.Subnet.Name, CIDRBlock |-> v.Subnet.CIDRBlock]]

SettledNetwork(v) ==
    /\ NetworkShape(v)
    /\ v.Name # "" /\ v.CIDRBlock # "" /\ v.Subnet.Name # "" /\ v.Subnet.CIDRBlock # ""

SettledField(f, v) ==
    /\ f \in {"NetworkPlugin", "NetworkPolicy", "LoadBalancerSKU"} => v # <<>>
    /\ f \in {"SSHPublicKey", "NodeResourceGroupName"} => v # ""
    /\ f = "Version" => v \in V3!KubernetesVersion /\ (v.number # "" => v.v)
    /\ f = "VirtualNetwork" => SettledNetwork(v)

-----------------------------------------------------------------------------
(* What a v1alpha3 client wrote *)

\* The specification of a request that the schema of v1alpha3 allows.
LEMMA SchemaSpec ==
    ASSUME NEW obj, Schema3(obj)
    PROVE  /\ kind = "AzureManagedControlPlane" => obj.Spec \in V3!AzureManagedControlPlaneSpec
           /\ kind = "AzureManagedCluster" => obj.Spec \in V3!AzureManagedClusterSpec
           /\ kind = "AzureManagedMachinePool" => obj.Spec \in V3!AzureManagedMachinePoolSpec
<1> DEFINE o == Copy(obj, DOMAIN obj \ {"env", "data"})
<1>1. o \in V3!Kinds[kind] /\ ("Spec" \in DOMAIN o => o.Spec = obj.Spec)
  BY DEF Schema3, Copy
<1> HIDE DEF o
<1>2. kind = "AzureManagedControlPlane" => o \in V3!AzureManagedControlPlane
  BY <1>1 DEF V3!Kinds
<1>3. kind = "AzureManagedCluster" => o \in V3!AzureManagedCluster
  BY <1>1 DEF V3!Kinds
<1>4. kind = "AzureManagedMachinePool" => o \in V3!AzureManagedMachinePool
  BY <1>1 DEF V3!Kinds
<1> QED BY <1>1, <1>2, <1>3, <1>4
        DEF V3!AzureManagedControlPlane, V3!AzureManagedCluster, V3!AzureManagedMachinePool

\* The conversions of a virtual network change nothing.
LEMMA VirtualNetworkCopied ==
    ASSUME NEW v, NetworkShape(v)
    PROVE  Convert_ManagedControlPlaneVirtualNetwork(v) = v
<1>1. \A s : Convert_ManagedControlPlaneSubnet(s) = [Name |-> s.Name, CIDRBlock |-> s.CIDRBlock]
  BY DEF Convert_ManagedControlPlaneSubnet, Copy
<1> QED BY <1>1 DEF NetworkShape, Convert_ManagedControlPlaneVirtualNetwork

LEMMA NetworkOfSchema ==
    ASSUME NEW v, \/ v \in V3!ManagedControlPlaneVirtualNetwork
                  \/ v \in V4!ManagedControlPlaneVirtualNetwork
    PROVE  NetworkShape(v)
BY DEF NetworkShape, V3!ManagedControlPlaneVirtualNetwork, V3!ManagedControlPlaneSubnet,
       V4!ManagedControlPlaneVirtualNetwork, V4!ManagedControlPlaneSubnet

\* The fields that both versions of a control plane have.
ControlPlaneFields ==
    {"Version", "ResourceGroupName", "NodeResourceGroupName", "SubscriptionID", "Location",
     "ControlPlaneEndpoint", "AdditionalTags", "NetworkPlugin", "NetworkPolicy", "SSHPublicKey",
     "DefaultPoolRef", "DNSServiceIP", "LoadBalancerSKU", "VirtualNetwork"}

LEMMA ControlPlaneTo4 ==
    ASSUME NEW src, NEW f \in ControlPlaneFields,
           f = "VirtualNetwork" => NetworkShape(src.Spec.VirtualNetwork)
    PROVE  LET c == ConvertTo_AzureManagedControlPlane(src)
           IN  "Spec" \in DOMAIN c /\ f \in DOMAIN c.Spec /\ c.Spec[f] = src.Spec[f]
<1>1. CASE f = "VirtualNetwork"
  <2>1. Convert_ManagedControlPlaneVirtualNetwork(src.Spec.VirtualNetwork) = src.Spec.VirtualNetwork
    BY <1>1, VirtualNetworkCopied
  <2> QED BY <1>1, <2>1 DEF ConvertTo_AzureManagedControlPlane, To4_AzureManagedControlPlaneSpec
<1>2. CASE f # "VirtualNetwork"
  BY <1>2 DEF ControlPlaneFields, ConvertTo_AzureManagedControlPlane, To4_AzureManagedControlPlaneSpec
<1> QED BY <1>1, <1>2

LEMMA ControlPlaneTo3 ==
    ASSUME NEW src, NEW f \in ControlPlaneFields,
           f = "VirtualNetwork" => NetworkShape(src.Spec.VirtualNetwork)
    PROVE  ConvertFrom_AzureManagedControlPlane(src).Spec[f] = src.Spec[f]
<1>1. CASE f = "VirtualNetwork"
  <2>1. Convert_ManagedControlPlaneVirtualNetwork(src.Spec.VirtualNetwork) = src.Spec.VirtualNetwork
    BY <1>1, VirtualNetworkCopied
  <2> QED BY <1>1, <2>1 DEF ConvertFrom_AzureManagedControlPlane, To3_AzureManagedControlPlaneSpec
<1>2. CASE f # "VirtualNetwork"
  BY <1>2 DEF ControlPlaneFields, ConvertFrom_AzureManagedControlPlane, To3_AzureManagedControlPlaneSpec
<1> QED BY <1>1, <1>2

LEMMA KeyDefaults ==
    ASSUME NEW r, NEW fresh, "Spec" \in DOMAIN r, "SSHPublicKey" \in DOMAIN r.Spec
    PROVE  Default_AzureManagedControlPlane(r, fresh).Spec.SSHPublicKey = OrElse(r.Spec.SSHPublicKey, fresh)
BY DefaultedSpec, KeyDefaulted

\* Which fields the defaults complete does not depend on the key they draw.
LEMMA ControlPlaneCompleted ==
    ASSUME NEW r, NEW one, NEW other, other # "", "Spec" \in DOMAIN r, NEW f \in DOMAIN r.Spec,
           Default_AzureManagedControlPlane(r, other).Spec[f] = r.Spec[f]
    PROVE  Default_AzureManagedControlPlane(r, one).Spec[f] = r.Spec[f]
<1>1. CASE f = "SSHPublicKey"
  <2>1. "SSHPublicKey" \in DOMAIN r.Spec
    BY <1>1
  <2>2. /\ Default_AzureManagedControlPlane(r, one).Spec.SSHPublicKey = OrElse(r.Spec.SSHPublicKey, one)
        /\ Default_AzureManagedControlPlane(r, other).Spec.SSHPublicKey = OrElse(r.Spec.SSHPublicKey, other)
    BY <2>1, KeyDefaults
  <2>3. r.Spec.SSHPublicKey # ""
    BY <1>1, <2>2 DEF OrElse
  <2> QED BY <1>1, <2>2, <2>3 DEF OrElse
<1>2. CASE f # "SSHPublicKey"
  <2>1. /\ Default_AzureManagedControlPlane(r, one).Spec = DefaultControlPlaneSpec(r.Spec, r.name, one)
        /\ Default_AzureManagedControlPlane(r, other).Spec = DefaultControlPlaneSpec(r.Spec, r.name, other)
    BY DefaultedSpec
  <2>2. f \in DOMAIN r.Spec
    OBVIOUS
  <2>3. SameDefault(r.Spec, r.name, one, other, f)
    BY <1>2, <2>2, OthersDefaulted, Zenon
  <2> QED BY <2>1, <2>3 DEF SameDefault
<1> QED BY <1>1, <1>2

\* The field that a v1alpha3 client wrote is stored, and is the one it reads.
ReadsBack(obj, f) ==
    /\ Admitted3(obj).Spec[f] = obj.Spec[f]
    /\ ConvertFrom(Admitted3(obj)).Spec[f] = obj.Spec[f]

\* A control plane reads back as it was written, but for the defaults.
LEMMA ControlPlaneRoundTrip ==
    ASSUME kind = "AzureManagedControlPlane", NEW obj, Schema3(obj), NEW other, other # "",
           NEW f, f \in DOMAIN obj.Spec, NEW c, c = ConvertTo_AzureManagedControlPlane(obj),
           Default_AzureManagedControlPlane(c, other).Spec[f] = c.Spec[f]
    PROVE  ReadsBack(obj, f)
<1> DEFINE d == Default_AzureManagedControlPlane(c, Generated(version))
           back == ConvertFrom_AzureManagedControlPlane(d)
           adm == ConvertTo_AzureManagedControlPlane(back)
<1>1. Admitted3(obj) = adm
  <2>1. Mutated(c) = d
    BY NoSchemaDefault DEF Default, DefaultWith
  <2> QED BY <2>1 DEF Admitted3, ConvertTo, ConvertFrom
<1>2. f \in ControlPlaneFields /\ (f = "VirtualNetwork" => NetworkShape(obj.Spec.VirtualNetwork))
  BY SchemaSpec, NetworkOfSchema DEF ControlPlaneFields, V3!AzureManagedControlPlaneSpec
<1>3. "Spec" \in DOMAIN c /\ f \in DOMAIN c.Spec /\ c.Spec[f] = obj.Spec[f]
  BY <1>2, ControlPlaneTo4
<1>4. d.Spec[f] = obj.Spec[f]
  <2>1. d.Spec[f] = c.Spec[f]
    BY <1>3, ControlPlaneCompleted, Zenon
  <2> QED BY <1>3, <2>1
<1> HIDE DEF d
<1>5. back.Spec[f] = obj.Spec[f]
  BY <1>2, <1>4, ControlPlaneTo3
<1> HIDE DEF back
<1>6. adm.Spec[f] = obj.Spec[f]
  BY <1>2, <1>5, ControlPlaneTo4
<1> HIDE DEF adm
<1>7. ConvertFrom_AzureManagedControlPlane(adm).Spec[f] = obj.Spec[f]
  BY <1>2, <1>6, ControlPlaneTo3
<1> QED BY <1>1, <1>6, <1>7 DEF ReadsBack, ConvertFrom

\* The two kinds without webhooks read back as they were written.
LEMMA ManagedRoundTrip ==
    ASSUME kind \in {"AzureManagedCluster", "AzureManagedMachinePool"},
           NEW obj, Schema3(obj), NEW f \in DOMAIN obj.Spec
    PROVE  ReadsBack(obj, f)
<1> SUFFICES /\ Admitted3(obj).Spec[f] = obj.Spec[f]
             /\ ConvertFrom(Admitted3(obj)).Spec[f] = obj.Spec[f]
  BY DEF ReadsBack
<1>1. Admitted3(obj) = ConvertTo(ConvertFrom(ConvertTo(obj)))
  <2>1. \A o : Mutated(o) = o
    BY DEF Mutated, Default, DefaultWith
  <2> QED BY <2>1 DEF Admitted3
<1>2. CASE kind = "AzureManagedCluster"
  <2>1. \A o : /\ ConvertTo(o).Spec = Copy(o.Spec, {"ControlPlaneEndpoint"})
               /\ ConvertFrom(o).Spec = Copy(o.Spec, {"ControlPlaneEndpoint"})
    BY <1>2 DEF ConvertTo, ConvertFrom, Convert_AzureManagedCluster,
                ConvertFrom_AzureManagedCluster, Convert_AzureManagedClusterSpec
  <2>2. f = "ControlPlaneEndpoint"
    BY <1>2, SchemaSpec DEF V3!AzureManagedClusterSpec
  <2>3. \A o : ConvertTo(o).Spec[f] = o.Spec[f] /\ ConvertFrom(o).Spec[f] = o.Spec[f]
    <3>1. \A x : Copy(x, {"ControlPlaneEndpoint"})[f] = x[f]
      BY <2>2 DEF Copy
    <3> QED BY <2>1, <3>1
  <2> QED BY <1>1, <2>3, Zenon
<1>3. CASE kind = "AzureManagedMachinePool"
  <2>1. \A o : /\ ConvertTo(o).Spec = Copy(o.Spec, {"SKU", "OSDiskSizeGB", "ProviderIDList"})
               /\ ConvertFrom(o).Spec = Copy(o.Spec, {"SKU", "OSDiskSizeGB", "ProviderIDList"})
    BY <1>3 DEF ConvertTo, ConvertFrom, Convert_AzureManagedMachinePool,
                ConvertFrom_AzureManagedMachinePool, Convert_AzureManagedMachinePoolSpec
  <2>2. f \in {"SKU", "OSDiskSizeGB", "ProviderIDList"}
    BY <1>3, SchemaSpec DEF V3!AzureManagedMachinePoolSpec
  <2>3. \A o : ConvertTo(o).Spec[f] = o.Spec[f] /\ ConvertFrom(o).Spec[f] = o.Spec[f]
    <3>1. \A x : Copy(x, {"SKU", "OSDiskSizeGB", "ProviderIDList"})[f] = x[f]
      BY <2>2 DEF Copy
    <3> QED BY <2>1, <3>1
  <2> QED BY <1>1, <2>3, Zenon
<1> QED BY <1>2, <1>3

-----------------------------------------------------------------------------
(* What a client left alone *)

\* A network whose names and blocks are given.
LEMMA NetworkSettled ==
    ASSUME NEW v, NEW name
    PROVE  /\ SettledNetwork(v) => setDefaultVirtualNetwork(v, name) = v
           /\ name # "" => SettledNetwork(setDefaultVirtualNetwork(v, name))
<1>1. SettledNetwork(v) => setDefaultVirtualNetwork(v, name) = v
  BY DEF SettledNetwork, NetworkShape, setDefaultVirtualNetwork, OrElse
<1>2. ASSUME name # "" PROVE SettledNetwork(setDefaultVirtualNetwork(v, name))
  BY <1>2 DEF SettledNetwork, NetworkShape, setDefaultVirtualNetwork, OrElse
<1> QED BY <1>1, <1>2

\* What the defaults make of the fields of a control plane.
FieldDefaults(spec, name, fresh, d) ==
    /\ \A f \in {"NetworkPlugin", "NetworkPolicy", "LoadBalancerSKU"} :
           d[f] # <<>> /\ (spec[f] # <<>> => d[f] = spec[f])
    /\ d.SSHPublicKey = OrElse(spec.SSHPublicKey, fresh)
    /\ d.NodeResourceGroupName = OrElse(spec.NodeResourceGroupName, "MC_group_name_location")
    /\ d.Version = [spec.Version EXCEPT !.v = @ \/ spec.Version.number # ""]
    /\ d.VirtualNetwork = setDefaultVirtualNetwork(spec.VirtualNetwork, name)
    /\ \A f \in {"ResourceGroupName", "SubscriptionID", "Location", "ControlPlaneEndpoint",
                  "AdditionalTags", "DefaultPoolRef", "DNSServiceIP", "IdentityRef"} :
           f \in DOMAIN spec => d[f] = spec[f]

LEMMA FieldsDefaulted ==
    ASSUME NEW spec, NEW name, NEW fresh, ControlPlaneFields \subseteq DOMAIN spec,
           NEW d, d = DefaultControlPlaneSpec(spec, name, fresh)
    PROVE  FieldDefaults(spec, name, fresh, d)
BY DEF FieldDefaults, DefaultControlPlaneSpec, ControlPlaneFields, SetDefaultSSHPublicKey

LEMMA SettledDefault ==
    ASSUME NEW spec, NEW name, NEW fresh, ControlPlaneFields \subseteq DOMAIN spec,
           NEW f \in ControlPlaneFields \cup {"IdentityRef"}, f \in DOMAIN spec, SettledField(f, spec[f])
    PROVE  DefaultControlPlaneSpec(spec, name, fresh)[f] = spec[f]
<1> DEFINE d == DefaultControlPlaneSpec(spec, name, fresh)
<1>1. FieldDefaults(spec, name, fresh, d)
  BY FieldsDefaulted, Zenon
<1> HIDE DEF d
<1>2. CASE f = "Version"
  <2>1. spec.Version \in V3!KubernetesVersion /\ (spec.Version.number # "" => spec.Version.v)
    BY <1>2 DEF SettledField
  <2>2. [spec.Version EXCEPT !.v = @ \/ spec.Version.number # ""] = spec.Version
    BY <2>1 DEF V3!KubernetesVersion
  <2> QED BY <1>1, <1>2, <2>2 DEF FieldDefaults, d
<1>3. CASE f = "VirtualNetwork"
  <2>1. setDefaultVirtualNetwork(spec.VirtualNetwork, name) = spec.VirtualNetwork
    BY <1>3, NetworkSettled DEF SettledField
  <2> QED BY <1>1, <1>3, <2>1 DEF FieldDefaults, d
<1>4. CASE f \in {"SSHPublicKey", "NodeResourceGroupName"}
  BY <1>1, <1>4 DEF FieldDefaults, SettledField, OrElse, d
<1>5. CASE f \in {"NetworkPlugin", "NetworkPolicy", "LoadBalancerSKU"}
  BY <1>1, <1>5 DEF FieldDefaults, SettledField, d
<1>6. CASE f \in {"ResourceGroupName", "SubscriptionID", "Location", "ControlPlaneEndpoint",
                  "AdditionalTags", "DefaultPoolRef", "DNSServiceIP", "IdentityRef"}
  BY <1>1, <1>6 DEF FieldDefaults, d
<1> QED BY <1>2, <1>3, <1>4, <1>5, <1>6 DEF ControlPlaneFields

\* The specification of a control plane with every field that has a default.
Settled(spec) ==
    ControlPlaneFields \subseteq DOMAIN spec /\ \A f \in ControlPlaneFields : SettledField(f, spec[f])

LEMMA DefaultSettled ==
    ASSUME NEW spec, NEW name, name # "", NEW fresh, fresh # "",
           ControlPlaneFields \subseteq DOMAIN spec, spec.Version \in V3!KubernetesVersion
    PROVE  Settled(DefaultControlPlaneSpec(spec, name, fresh))
<1> DEFINE d == DefaultControlPlaneSpec(spec, name, fresh)
<1>1. FieldDefaults(spec, name, fresh, d)
  BY FieldsDefaulted, Zenon
<1>2. DOMAIN d = DOMAIN spec
  BY DEF DefaultControlPlaneSpec
<1> HIDE DEF d
<1>3. d.SSHPublicKey # "" /\ d.NodeResourceGroupName # ""
  BY <1>1 DEF FieldDefaults, OrElse
<1>4. d.Version \in V3!KubernetesVersion /\ (d.Version.number # "" => d.Version.v)
  BY <1>1 DEF FieldDefaults, V3!KubernetesVersion
<1>5. SettledNetwork(d.VirtualNetwork)
  <2>1. d.VirtualNetwork = setDefaultVirtualNetwork(spec.VirtualNetwork, name)
    BY <1>1 DEF FieldDefaults
  <2>2. SettledNetwork(setDefaultVirtualNetwork(spec.VirtualNetwork, name))
    BY NetworkSettled
  <2> QED BY <2>1, <2>2
<1>6. ASSUME NEW f \in ControlPlaneFields PROVE SettledField(f, d[f])
  <2>1. CASE f \in {"NetworkPlugin", "NetworkPolicy", "LoadBalancerSKU"}
    BY <1>1, <2>1 DEF FieldDefaults, SettledField
  <2>2. CASE f \in {"SSHPublicKey", "NodeResourceGroupName"}
    BY <1>3, <2>2 DEF SettledField
  <2>3. CASE f = "Version"
    BY <1>4, <2>3 DEF SettledField
  <2>4. CASE f = "VirtualNetwork"
    BY <1>5, <2>4 DEF SettledField
  <2>5. CASE f \notin {"NetworkPlugin", "NetworkPolicy", "LoadBalancerSKU", "SSHPublicKey",
                       "NodeResourceGroupName", "Version", "VirtualNetwork"}
    BY <2>5 DEF SettledField
  <2> QED BY <2>1, <2>2, <2>3, <2>4, <2>5
<1> QED BY <1>2, <1>6 DEF Settled, d

\* The stored control plane has every field that has a default.
SettledObject(o) == "Spec" \in DOMAIN o /\ Settled(o.Spec)

ManagedObject(o) ==
    /\ kind \in ManagedKinds => "Spec" \in DOMAIN o
    /\ kind = "AzureManagedControlPlane" => SettledObject(o)

StoredSettled == stored # <<>> => ManagedObject(stored[1])

\* A settled object stays so on its way through v1alpha3.
LEMMA SpokeSettled ==
    ASSUME NEW m, SettledObject(m), NEW src, src.Spec = ConvertFrom_AzureManagedControlPlane(m).Spec
    PROVE  SettledObject(ConvertTo_AzureManagedControlPlane(src))
<1> DEFINE c == ConvertTo_AzureManagedControlPlane(src)
<1>1. ASSUME NEW f \in ControlPlaneFields
      PROVE  "Spec" \in DOMAIN c /\ f \in DOMAIN c.Spec /\ SettledField(f, c.Spec[f])
  <2>1. SettledField(f, m.Spec[f])
    BY DEF SettledObject, Settled
  <2>2. f = "VirtualNetwork" => NetworkShape(m.Spec.VirtualNetwork)
    BY <2>1 DEF SettledField, SettledNetwork
  <2>3. src.Spec[f] = m.Spec[f]
    BY <2>2, ControlPlaneTo3
  <2>4. f = "VirtualNetwork" => NetworkShape(src.Spec.VirtualNetwork)
    BY <2>2, <2>3
  <2>5. "Spec" \in DOMAIN c /\ f \in DOMAIN c.Spec /\ c.Spec[f] = src.Spec[f]
    BY <2>4, ControlPlaneTo4
  <2> QED BY <2>1, <2>3, <2>5
<1>2. "Version" \in ControlPlaneFields
  BY DEF ControlPlaneFields
<1> HIDE DEF c
<1>3. SettledObject(c)
  BY <1>1, <1>2 DEF SettledObject, Settled
<1> QED BY <1>3 DEF c

\* The defaults settle what a client of either version writes.
LEMMA DefaultedSettled ==
    ASSUME NEW r, "Spec" \in DOMAIN r, ControlPlaneFields \subseteq DOMAIN r.Spec, r.name # "",
           r.Spec.Version \in V3!KubernetesVersion, NEW fresh, fresh # ""
    PROVE  SettledObject(Default_AzureManagedControlPlane(r, fresh))
<1>1. Settled(DefaultControlPlaneSpec(r.Spec, r.name, fresh))
  BY DefaultSettled
<1> QED BY <1>1, DefaultedSpec DEF SettledObject

LEMMA ConvertedSettled ==
    ASSUME kind = "AzureManagedControlPlane", NEW obj, Schema3(obj), NEW fresh, fresh # ""
    PROVE  SettledObject(Default_AzureManagedControlPlane(ConvertTo_AzureManagedControlPlane(obj), fresh))
<1> DEFINE c == ConvertTo_AzureManagedControlPlane(obj)
<1>1. obj.Spec \in V3!AzureManagedControlPlaneSpec /\ obj.name # ""
  BY SchemaSpec DEF Schema3
<1>2. obj.Spec.Version \in V3!KubernetesVersion /\ NetworkShape(obj.Spec.VirtualNetwork)
  BY <1>1, NetworkOfSchema DEF V3!AzureManagedControlPlaneSpec
<1>3. \A f \in ControlPlaneFields : "Spec" \in DOMAIN c /\ f \in DOMAIN c.Spec /\ c.Spec[f] = obj.Spec[f]
  BY <1>2, ControlPlaneTo4
<1>4. c.name = obj.name
  BY DEF ConvertTo_AzureManagedControlPlane
<1>5. "Version" \in ControlPlaneFields
  BY DEF ControlPlaneFields
<1> HIDE DEF c
<1>6. "Spec" \in DOMAIN c /\ ControlPlaneFields \subseteq DOMAIN c.Spec /\ c.Spec.Version = obj.Spec.Version
  BY <1>3, <1>5
<1>7. SettledObject(Default_AzureManagedControlPlane(c, fresh))
  BY <1>1, <1>2, <1>4, <1>6, DefaultedSettled
<1> QED BY <1>7 DEF c

\* The specification of a request that the schema of v1alpha4 allows.
LEMMA SchemaSpec4 ==
    ASSUME kind = "AzureManagedControlPlane", NEW obj, Schema4(obj)
    PROVE  /\ "Spec" \in DOMAIN obj /\ obj.name # ""
           /\ DOMAIN obj.Spec = ControlPlaneFields \cup {"IdentityRef"}
           /\ obj.Spec.Version \in V3!KubernetesVersion
<1>1. obj \in V4!AzureManagedControlPlane
  BY DEF Schema4, V4!Kinds
<1>2. "Spec" \in DOMAIN obj /\ obj.Spec \in V4!AzureManagedControlPlaneSpec
  BY <1>1 DEF V4!AzureManagedControlPlane
<1>3. /\ DOMAIN obj.Spec = ControlPlaneFields \cup {"IdentityRef"}
      /\ obj.Spec.Version \in V4!KubernetesVersion
  BY <1>2 DEF V4!AzureManagedControlPlaneSpec, ControlPlaneFields
<1> QED BY <1>2, <1>3 DEF Schema4, V3!KubernetesVersion, V4!KubernetesVersion

LEMMA ControlPlaneAdmitted ==
    ASSUME kind = "AzureManagedControlPlane", NEW obj
    PROVE  /\ Admitted4(obj) = Default_AzureManagedControlPlane(obj, Generated(version))
           /\ Admitted3(obj) = ConvertTo_AzureManagedControlPlane(ConvertFrom_AzureManagedControlPlane(
                  Default_AzureManagedControlPlane(ConvertTo_AzureManagedControlPlane(obj), Generated(version))))
<1>1. \A o : Mutated(o) = Default_AzureManagedControlPlane(o, Generated(version)) /\ SchemaDefault(o) = o
  BY NoSchemaDefault DEF Default, DefaultWith
<1> QED BY <1>1 DEF Admitted4, Admitted3, ConvertTo, ConvertFrom

LEMMA AdmittedSettled ==
    ASSUME Tracks, kind = "AzureManagedControlPlane", NEW obj
    PROVE  /\ Schema4(obj) => SettledObject(Admitted4(obj))
           /\ Schema3(obj) => SettledObject(Admitted3(obj))
<1>1. Generated(version) # ""
  BY Drawn
<1>2. ASSUME Schema4(obj) PROVE SettledObject(Admitted4(obj))
  <2>1. SettledObject(Default_AzureManagedControlPlane(obj, Generated(version)))
    BY <1>1, <1>2, SchemaSpec4, DefaultedSettled
  <2> QED BY <2>1, ControlPlaneAdmitted
<1>3. ASSUME Schema3(obj) PROVE SettledObject(Admitted3(obj))
  <2> DEFINE d == Default_AzureManagedControlPlane(ConvertTo_AzureManagedControlPlane(obj), Generated(version))
  <2>1. SettledObject(d)
    BY <1>1, <1>3, ConvertedSettled
  <2>2. Admitted3(obj) = ConvertTo_AzureManagedControlPlane(ConvertFrom_AzureManagedControlPlane(d))
    BY ControlPlaneAdmitted
  <2> HIDE DEF d
  <2> QED BY <2>1, <2>2, SpokeSettled
<1> QED BY <1>2, <1>3

LEMMA AdmittedManaged ==
    ASSUME Tracks, NEW obj
    PROVE  /\ Schema4(obj) => ManagedObject(Admitted4(obj))
           /\ Schema3(obj) => ManagedObject(Admitted3(obj))
<1>1. CASE kind = "AzureManagedControlPlane"
  BY <1>1, AdmittedSettled DEF ManagedObject, SettledObject
<1>2. CASE kind \in ManagedKinds /\ kind # "AzureManagedControlPlane"
  <2>1. Admitted4(obj) = obj
    BY <1>2 DEF ManagedKinds, Admitted4, Mutated, SchemaDefault, Default, DefaultWith
  <2>2. ASSUME Schema4(obj) PROVE "Spec" \in DOMAIN obj
    <3>1. CASE kind = "AzureManagedCluster"
      BY <2>2, <3>1 DEF Schema4, V4!Kinds, V4!AzureManagedCluster
    <3>2. CASE kind = "AzureManagedMachinePool"
      BY <2>2, <3>2 DEF Schema4, V4!Kinds, V4!AzureManagedMachinePool
    <3> QED BY <1>2, <3>1, <3>2 DEF ManagedKinds
  <2>3. \A o : "Spec" \in DOMAIN ConvertTo(o)
    BY <1>2 DEF ManagedKinds, ConvertTo, Convert_AzureManagedCluster, Convert_AzureManagedMachinePool
  <2> QED BY <1>2, <2>1, <2>2, <2>3 DEF ManagedObject, Admitted3
<1>3. CASE kind \notin ManagedKinds
  BY <1>3 DEF ManagedObject, ManagedKinds
<1> QED BY <1>1, <1>2, <1>3

\* What the earlier release stored is settled too.
LEMMA SettledInit == Init => StoredSettled
<1> SUFFICES ASSUME Init, stored # <<>>, kind \in ManagedKinds
             PROVE  ManagedObject(stored[1])
  BY DEF StoredSettled, ManagedObject, ManagedKinds
<1>1. PICK m : Schema3(m) /\ stored = <<SchemaDefault(ConvertTo(Stored3(m)))>>
  BY DEF Init
<1>2. stored[1] = ConvertTo(Stored3(m))
  BY <1>1, NoSchemaDefault DEF ManagedKinds
<1>3. CASE kind = "AzureManagedControlPlane"
  <2> DEFINE d == Default_AzureManagedControlPlane(ConvertTo_AzureManagedControlPlane(m), "earlier")
  <2>1. SettledObject(d)
    BY <1>1, <1>3, ConvertedSettled
  <2>2. Stored3(m) = [ConvertFrom_AzureManagedControlPlane(d) EXCEPT !.env = "", !.data = <<>>]
    BY <1>3 DEF Stored3, ConvertFrom, ConvertTo, DefaultWith
  <2> HIDE DEF d
  <2>3. Stored3(m).Spec = ConvertFrom_AzureManagedControlPlane(d).Spec
    BY <2>2 DEF ConvertFrom_AzureManagedControlPlane
  <2>4. SettledObject(stored[1])
    BY <1>2, <1>3, <2>1, <2>3, SpokeSettled DEF ConvertTo
  <2> QED BY <2>4 DEF ManagedObject, SettledObject
<1>4. CASE kind # "AzureManagedControlPlane"
  <2>1. \A o : "Spec" \in DOMAIN ConvertTo(o)
    BY <1>4 DEF ManagedKinds, ConvertTo, Convert_AzureManagedCluster, Convert_AzureManagedMachinePool
  <2> QED BY <1>2, <1>4, <2>1 DEF ManagedObject
<1> QED BY <1>3, <1>4

\* A field that the client of v1alpha4 left alone.
LEMMA UntouchedUpdate4 ==
    ASSUME StoredSettled, kind \in ManagedKinds, stored # <<>>, NEW obj, Schema4(obj),
           NEW f, f \in DOMAIN obj.Spec, obj.Spec[f] = stored[1].Spec[f]
    PROVE  Admitted4(obj).Spec[f] = stored[1].Spec[f]
<1>1. CASE kind = "AzureManagedControlPlane"
  <2> DEFINE fresh == Generated(version)
  <2>1. /\ "Spec" \in DOMAIN obj
        /\ DOMAIN obj.Spec = ControlPlaneFields \cup {"IdentityRef"}
    BY <1>1, SchemaSpec4
  <2>2. SettledField(f, obj.Spec[f])
    <3>1. CASE f \in ControlPlaneFields
      BY <1>1, <3>1 DEF StoredSettled, ManagedObject, SettledObject, Settled
    <3>2. CASE f = "IdentityRef"
      BY <3>2 DEF SettledField
    <3> QED BY <2>1, <3>1, <3>2
  <2>3. DefaultControlPlaneSpec(obj.Spec, obj.name, fresh)[f] = obj.Spec[f]
    <3>1. ControlPlaneFields \subseteq DOMAIN obj.Spec /\ f \in ControlPlaneFields \cup {"IdentityRef"}
      BY <2>1
    <3> QED BY <2>2, <3>1, SettledDefault
  <2>4. Default_AzureManagedControlPlane(obj, fresh).Spec = DefaultControlPlaneSpec(obj.Spec, obj.name, fresh)
    BY <2>1, DefaultedSpec
  <2> QED BY <1>1, <2>3, <2>4, ControlPlaneAdmitted
<1>2. CASE kind # "AzureManagedControlPlane"
  <2>1. Admitted4(obj) = obj
    BY <1>2 DEF ManagedKinds, Admitted4, Mutated, SchemaDefault, Default, DefaultWith
  <2> QED BY <2>1
<1> QED BY <1>1, <1>2

\* And one that the client of v1alpha3 left as it had read it.
LEMMA UntouchedUpdate3 ==
    ASSUME Tracks, StoredSettled, kind \in ManagedKinds, stored # <<>>, held # <<>>,
           held[1].version = version, NEW obj, Schema3(obj),
           NEW f, f \in DOMAIN obj.Spec, obj.Spec[f] = held[1].object.Spec[f]
    PROVE  Admitted3(obj).Spec[f] = stored[1].Spec[f]
<1>1. obj.Spec[f] = ConvertFrom(stored[1]).Spec[f]
  BY DEF Tracks, HeldCopy
<1>2. CASE kind = "AzureManagedControlPlane"
  <2> DEFINE c == ConvertTo_AzureManagedControlPlane(obj)
             fresh == Generated(version)
  <2>1. f \in ControlPlaneFields /\ (f = "VirtualNetwork" => NetworkShape(obj.Spec.VirtualNetwork))
    BY <1>2, SchemaSpec, NetworkOfSchema DEF ControlPlaneFields, V3!AzureManagedControlPlaneSpec
  <2>2. SettledField(f, stored[1].Spec[f])
    BY <1>2, <2>1 DEF StoredSettled, ManagedObject, SettledObject, Settled
  <2>3. obj.Spec[f] = stored[1].Spec[f]
    <3>1. f = "VirtualNetwork" => NetworkShape(stored[1].Spec.VirtualNetwork)
      BY <2>2 DEF SettledField, SettledNetwork
    <3>2. ConvertFrom_AzureManagedControlPlane(stored[1]).Spec[f] = stored[1].Spec[f]
      BY <2>1, <3>1, ControlPlaneTo3
    <3> QED BY <1>1, <1>2, <3>2 DEF ConvertFrom
  <2>4. \A g \in ControlPlaneFields : "Spec" \in DOMAIN c /\ g \in DOMAIN c.Spec /\ c.Spec[g] = obj.Spec[g]
    <3>1. NetworkShape(obj.Spec.VirtualNetwork)
      BY <1>2, SchemaSpec, NetworkOfSchema DEF V3!AzureManagedControlPlaneSpec
    <3> QED BY <3>1, ControlPlaneTo4
  <2> HIDE DEF c
  <2>5. Default_AzureManagedControlPlane(c, fresh).Spec[f] = c.Spec[f]
    <3>1. "Spec" \in DOMAIN c /\ ControlPlaneFields \subseteq DOMAIN c.Spec
      BY <2>1, <2>4
    <3>2. SettledField(f, c.Spec[f])
      BY <2>1, <2>2, <2>3, <2>4
    <3>3. DefaultControlPlaneSpec(c.Spec, c.name, fresh)[f] = c.Spec[f]
      BY <2>1, <3>1, <3>2, SettledDefault
    <3>4. Default_AzureManagedControlPlane(c, fresh).Spec = DefaultControlPlaneSpec(c.Spec, c.name, fresh)
      BY <3>1, DefaultedSpec
    <3> QED BY <3>3, <3>4
  <2>6. fresh # ""
    BY Drawn
  <2> HIDE DEF fresh
  <2>7. c = ConvertTo_AzureManagedControlPlane(obj)
    BY DEF c
  <2>8. ReadsBack(obj, f)
    BY <1>2, <2>5, <2>6, <2>7, ControlPlaneRoundTrip, Zenon
  <2> QED BY <2>3, <2>8 DEF ReadsBack
<1>3. CASE kind = "AzureManagedCluster"
  <2>1. ReadsBack(obj, f) /\ f = "ControlPlaneEndpoint"
    BY <1>3, SchemaSpec, ManagedRoundTrip DEF V3!AzureManagedClusterSpec
  <2>2. ConvertFrom(stored[1]).Spec[f] = stored[1].Spec[f]
    BY <1>3, <2>1 DEF ConvertFrom, ConvertFrom_AzureManagedCluster, Convert_AzureManagedClusterSpec, Copy
  <2> QED BY <1>1, <2>1, <2>2 DEF ReadsBack
<1>4. CASE kind = "AzureManagedMachinePool"
  <2>1. ReadsBack(obj, f) /\ f \in {"SKU", "OSDiskSizeGB", "ProviderIDList"}
    BY <1>4, SchemaSpec, ManagedRoundTrip DEF V3!AzureManagedMachinePoolSpec
  <2>2. ConvertFrom(stored[1]).Spec[f] = stored[1].Spec[f]
    BY <1>4, <2>1 DEF ConvertFrom, ConvertFrom_AzureManagedMachinePool,
                      Convert_AzureManagedMachinePoolSpec, Copy
  <2> QED BY <1>1, <2>1, <2>2 DEF ReadsBack
<1> QED BY <1>2, <1>3, <1>4 DEF ManagedKinds

\* A write of a managed kind: its object is stored as it was admitted.
LEMMA ManagedStore ==
    ASSUME kind \in ManagedKinds, NEW adm, NEW accepted, Store(adm, accepted)
    PROVE  /\ ~accepted => version' = version
           /\ accepted => stored'[1] = adm
BY NoSchemaDefault DEF ManagedKinds, Store

LEMMA SettledStore ==
    ASSUME StoredSettled, NEW adm, NEW accepted, Store(adm, accepted), ManagedObject(adm)
    PROVE  StoredSettled'
<1>1. kind' = kind
  BY DEF Store
<1>2. CASE ~accepted
  BY <1>1, <1>2 DEF Store, StoredSettled, ManagedObject
<1>3. CASE accepted
  <2>1. ASSUME kind \in ManagedKinds PROVE stored'[1] = adm
    BY <1>3, <2>1, ManagedStore
  <2>2. "AzureManagedControlPlane" \in ManagedKinds
    BY DEF ManagedKinds
  <2> QED BY <1>1, <2>1, <2>2 DEF StoredSettled, ManagedObject
<1> QED BY <1>2, <1>3

\* The property, for a kind with neither rules nor losses.
LEMMA ManagedUntouched ==
    ASSUME kind \in ManagedKinds, UNCHANGED kind,
           \A f \in DOMAIN last'.object[1].Spec :
               /\ last'.object[1].Spec[f] = (IF last'.op = "update3" THEN held[1].object ELSE stored[1]).Spec[f]
               /\ stored # <<>> /\ version' # version
               => stored'[1].Spec[f] = stored[1].Spec[f]
    PROVE  KeepsUntouched
<1>1. \A s : Unordered(s) = s /\ Unordered(s)' = s
  BY DEF ManagedKinds, Unordered
<1> QED BY <1>1, Zenon DEF KeepsUntouched, Untouched

LEMMA UntouchedStep ==
    ASSUME Tracks, StoredSettled, Next
    PROVE  StoredSettled' /\ (kind \in ManagedKinds => KeepsUntouched)
<1> DEFINE Goal == StoredSettled' /\ (kind \in ManagedKinds => KeepsUntouched)
<1> SUFFICES Goal
  OBVIOUS
<1>1. CASE Get3
  BY <1>1 DEF Get3, StoredSettled, ManagedObject, KeepsUntouched
<1>2. ASSUME stored = <<>>, NEW obj, Create4(obj) PROVE Goal
  <2>1. StoredSettled'
    BY <1>2, AdmittedManaged, SettledStore DEF Create4
  <2> QED BY <1>2, <2>1 DEF KeepsUntouched
<1>3. ASSUME stored = <<>>, NEW obj, Create3(obj) PROVE Goal
  <2>1. StoredSettled'
    BY <1>3, AdmittedManaged, SettledStore DEF Create3
  <2> QED BY <1>3, <2>1 DEF KeepsUntouched
<1>4. ASSUME stored # <<>>, NEW obj, Update4(obj) PROVE Goal
  <2> DEFINE accepted == Accepts4(obj, stored)
  <2>1. /\ Schema4(obj) /\ Store(Admitted4(obj), accepted)
        /\ last'.op = "update4" /\ last'.object[1] = obj
    BY <1>4 DEF Update4, Request
  <2>2. StoredSettled'
    BY <2>1, AdmittedManaged, SettledStore
  <2> HIDE DEF accepted
  <2>3. ASSUME kind \in ManagedKinds PROVE KeepsUntouched
    <3>1. ASSUME NEW f \in DOMAIN obj.Spec, obj.Spec[f] = stored[1].Spec[f], version' # version
          PROVE  stored'[1].Spec[f] = stored[1].Spec[f]
      <4>1. stored'[1] = Admitted4(obj)
        BY <2>1, <2>3, <3>1, ManagedStore
      <4> QED BY <1>4, <2>1, <2>3, <3>1, <4>1, UntouchedUpdate4
    <3>2. kind' = kind
      BY <2>1 DEF Store
    <3> QED BY <2>1, <2>3, <3>1, <3>2, ManagedUntouched
  <2> QED BY <2>2, <2>3
<1>5. ASSUME stored # <<>>, NEW obj, UpdateStatus4(obj) PROVE Goal
  <2> DEFINE adm == [stored[1] EXCEPT !.Status = obj.Status]
  <2>1. Store(adm, TRUE) /\ last'.op = "status4" /\ last'.object[1] = obj
    BY <1>5 DEF UpdateStatus4, Request
  <2>2. /\ ManagedObject(stored[1])
        /\ "Spec" \in DOMAIN stored[1] => "Spec" \in DOMAIN adm /\ adm.Spec = stored[1].Spec
    BY <1>5 DEF StoredSettled
  <2> HIDE DEF adm
  <2>3. StoredSettled'
    BY <2>1, <2>2, SettledStore DEF ManagedObject, SettledObject
  <2>4. ASSUME kind \in ManagedKinds PROVE KeepsUntouched
    <3>1. stored'[1].Spec = stored[1].Spec /\ kind' = kind
      BY <2>1, <2>2, <2>4, ManagedStore DEF Store, ManagedObject
    <3> QED BY <2>1, <2>2, <2>4, <3>1, ManagedUntouched
  <2> QED BY <2>3, <2>4
<1>6. ASSUME stored # <<>>, held # <<>>, NEW obj, Update3(obj) PROVE Goal
  <2> DEFINE accepted == held[1].version = version /\ Accepts3(obj, stored)
  <2>1. /\ Schema3(obj) /\ Store(Admitted3(obj), accepted)
        /\ last'.op = "update3" /\ last'.object[1] = obj
    BY <1>6 DEF Update3, Request
  <2>2. StoredSettled'
    BY <2>1, AdmittedManaged, SettledStore
  <2>3. ASSUME kind \in ManagedKinds PROVE KeepsUntouched
    <3>1. ASSUME NEW f \in DOMAIN obj.Spec, obj.Spec[f] = held[1].object.Spec[f], version' # version
          PROVE  stored'[1].Spec[f] = stored[1].Spec[f]
      <4>1. accepted /\ stored'[1] = Admitted3(obj)
        BY <2>1, <2>3, <3>1, ManagedStore
      <4> QED BY <1>6, <2>1, <2>3, <3>1, <4>1, UntouchedUpdate3
    <3>2. kind' = kind
      BY <2>1 DEF Store
    <3> QED BY <2>1, <2>3, <3>1, <3>2, ManagedUntouched
  <2> QED BY <2>2, <2>3
<1> QED BY <1>1, <1>2, <1>3, <1>4, <1>5, <1>6, Steps, Zenon

\* For the kinds of AKS, whatever clients of both versions write and however
\* old what they read: an accepted update changes only the fields that its
\* client changed.  The webhooks generate no second key for a client that left
\* the key alone, and complete no field that was complete before.
THEOREM ManagedUntouchedKept == Spec => [][(kind \in ManagedKinds) => KeepsUntouched]_vars
<1>1. Tracks /\ StoredSettled /\ [Next]_vars => (Tracks /\ StoredSettled)'
  <2>1. ASSUME StoredSettled, UNCHANGED vars PROVE StoredSettled'
    BY <2>1 DEF vars, StoredSettled, ManagedObject
  <2> QED BY <2>1, TracksStep, UntouchedStep
<1>2. Tracks /\ StoredSettled /\ [Next]_vars => [(kind \in ManagedKinds) => KeepsUntouched]_vars
  BY UntouchedStep
<1> QED BY <1>1, <1>2, TracksInit, SettledInit, PTL DEF Spec

-----------------------------------------------------------------------------
(* A pool between the versions *)

Strategies == V4!AzureMachinePoolDeploymentStrategy

\* An object with a specification that has a strategy of the schema.
HasStrategy(p) ==
    "Spec" \in DOMAIN p /\ "Strategy" \in DOMAIN p.Spec /\ p.Spec.Strategy \in Strategies

LEMMA NilPointer == <<>> \in V4!Ptr(Int) /\ \A n \in Int : <<n>> \in V4!Ptr(Int)
BY DEF V4!Ptr

\* A pointer that is nil or not, copied.
LEMMA CopiedPointer ==
    ASSUME NEW R, NEW p \in Seq(R), NEW c, c = [i \in DOMAIN p |-> c[i]],
           \A i \in DOMAIN p : p[i] \in R => c[i] \in R
    PROVE  /\ c \in Seq(R) /\ Len(c) = Len(p)
           /\ c = <<>> <=> p = <<>>
           /\ p # <<>> => 1 \in DOMAIN p
<1>1. Len(p) \in Nat /\ DOMAIN p = 1..Len(p) /\ \A i \in 1..Len(p) : p[i] \in R
  OBVIOUS
<1>2. c = [i \in 1..Len(p) |-> c[i]]
  BY <1>1
<1>3. \A i \in 1..Len(p) : c[i] \in R
  BY <1>1
<1>4. c \in Seq(R) /\ Len(c) = Len(p)
  BY <1>1, <1>2, <1>3
<1>5. p = <<>> <=> Len(p) = 0
  OBVIOUS
<1>6. c = <<>> <=> Len(c) = 0
  BY <1>4
<1> QED BY <1>1, <1>4, <1>5, <1>6

\* The surge of a rolling update is lost, the rest of a strategy is restored.
LEMMA RestoredStrategy ==
    ASSUME NEW s \in Strategies
    PROVE  /\ RestoreStrategy(s) \in Strategies
           /\ RestoreStrategy(s).Type = s.Type
           /\ s.RollingUpdate = <<>> => RestoreStrategy(s) = s
           /\ s.RollingUpdate # <<>> =>
                  \E r \in Range(RestoreStrategy(s).RollingUpdate) : r.MaxSurge = <<>>
<1> DEFINE R == V4!MachineRollingUpdateDeployment
           t == RestoreStrategy(s)
           Cut(r) == [MaxUnavailable |-> <<>>, MaxSurge |-> <<>>, DeletePolicy |-> r.DeletePolicy]
           cut == [i \in DOMAIN s.RollingUpdate |-> Cut(s.RollingUpdate[i])]
<1>1. /\ s.RollingUpdate \in Seq(R) /\ Len(s.RollingUpdate) <= 1
      /\ s.Type \in {"", "RollingUpdate"}
      /\ s = [Type |-> s.Type, RollingUpdate |-> s.RollingUpdate]
  BY DEF Strategies, V4!AzureMachinePoolDeploymentStrategy, V4!Ptr
<1>2. t = [Type |-> s.Type, RollingUpdate |-> cut]
  BY DEF RestoreStrategy, Each
<1>3. \A r \in R : Cut(r) \in R
  BY NilPointer DEF V4!MachineRollingUpdateDeployment
<1>4. /\ cut \in Seq(R) /\ Len(cut) = Len(s.RollingUpdate)
      /\ cut = <<>> <=> s.RollingUpdate = <<>>
      /\ s.RollingUpdate # <<>> => 1 \in DOMAIN s.RollingUpdate
  <2> HIDE DEF R, Cut
  <2>1. cut = [i \in DOMAIN s.RollingUpdate |-> cut[i]]
    OBVIOUS
  <2>2. \A i \in DOMAIN s.RollingUpdate : s.RollingUpdate[i] \in R => cut[i] \in R
    BY <1>3
  <2>3. s.RollingUpdate \in Seq(R)
    BY <1>1
  <2> HIDE DEF cut
  <2> QED BY <2>1, <2>2, <2>3, CopiedPointer, Zenon
<1> HIDE DEF R, Cut, t
<1>5. t \in Strategies
  BY <1>1, <1>2, <1>4 DEF Strategies, V4!AzureMachinePoolDeploymentStrategy, V4!Ptr, R
<1>6. s.RollingUpdate = <<>> => t = s
  <2> HIDE DEF cut
  <2> QED BY <1>1, <1>2, <1>4
<1>7. ASSUME s.RollingUpdate # <<>>
      PROVE  \E r \in Range(t.RollingUpdate) : r.MaxSurge = <<>>
  <2>1. 1 \in DOMAIN s.RollingUpdate
    BY <1>4, <1>7
  <2>2. cut[1] = Cut(s.RollingUpdate[1]) /\ 1 \in DOMAIN cut
    BY <2>1
  <2>3. cut[1].MaxSurge = <<>>
    BY <2>2 DEF Cut
  <2>4. cut[1] \in Range(t.RollingUpdate)
    BY <1>2, <2>2 DEF Range
  <2> QED BY <2>3, <2>4
<1> QED BY <1>2, <1>5, <1>6, <1>7 DEF t

\* The defaults of the schema name the type of a strategy and keep an empty one.
LEMMA SchemaStrategy ==
    ASSUME NEW p, HasStrategy(p), NEW q, q = SchemaDefault_AzureMachinePool(p)
    PROVE  /\ HasStrategy(q) /\ q.Spec.Strategy.Type = "RollingUpdate"
           /\ q.Spec.Strategy.RollingUpdate = <<>> <=> p.Spec.Strategy.RollingUpdate = <<>>
           /\ "Status" \in DOMAIN p => q.Status = p.Status
<1> DEFINE R == V4!MachineRollingUpdateDeployment
           s == p.Spec.Strategy
           OrInt(n, default) == IF n = <<>> THEN <<default>> ELSE n
           Fill(r) == [MaxUnavailable |-> OrInt(r.MaxUnavailable, 0),
                       MaxSurge |-> OrInt(r.MaxSurge, 1),
                       DeletePolicy |-> OrElse(r.DeletePolicy, "Oldest")]
           filled == [i \in DOMAIN s.RollingUpdate |-> Fill(s.RollingUpdate[i])]
<1>1. /\ s.RollingUpdate \in Seq(R) /\ Len(s.RollingUpdate) <= 1
      /\ s.Type \in {"", "RollingUpdate"}
      /\ s = [Type |-> s.Type, RollingUpdate |-> s.RollingUpdate]
      /\ "Spec" \in DOMAIN p /\ "Strategy" \in DOMAIN p.Spec
  BY DEF HasStrategy, Strategies, V4!AzureMachinePoolDeploymentStrategy, V4!Ptr
<1>2. \A r \in R : Fill(r) \in R
  <2>1. \A r \in R : /\ OrInt(r.MaxUnavailable, 0) \in V4!Ptr(Int)
                      /\ OrInt(r.MaxSurge, 1) \in V4!Ptr(Int)
    <3>1. <<0>> \in V4!Ptr(Int) /\ <<1>> \in V4!Ptr(Int)
      BY NilPointer
    <3>2. \A r \in R : r.MaxUnavailable \in V4!Ptr(Int) /\ r.MaxSurge \in V4!Ptr(Int)
      BY DEF V4!MachineRollingUpdateDeployment
    <3> QED BY <3>1, <3>2, Zenon
  <2>2. \A r \in R : OrElse(r.DeletePolicy, "Oldest") \in {"", "Oldest", "Newest", "Random"}
    BY DEF V4!MachineRollingUpdateDeployment, OrElse
  <2> HIDE DEF OrInt
  <2> QED BY <2>1, <2>2 DEF V4!MachineRollingUpdateDeployment
<1>3. /\ "Spec" \in DOMAIN q /\ "Strategy" \in DOMAIN q.Spec
      /\ "Status" \in DOMAIN p => q.Status = p.Status
  BY <1>1 DEF SchemaDefault_AzureMachinePool
<1>4. q.Spec.Strategy = [Type |-> OrElse(s.Type, "RollingUpdate"), RollingUpdate |-> filled]
  BY <1>1 DEF SchemaDefault_AzureMachinePool, Each
<1> HIDE DEF R, Fill, s
<1>5. /\ filled \in Seq(R) /\ Len(filled) = Len(s.RollingUpdate)
      /\ filled = <<>> <=> s.RollingUpdate = <<>>
  <2>1. filled = [i \in DOMAIN s.RollingUpdate |-> filled[i]]
    OBVIOUS
  <2>2. \A i \in DOMAIN s.RollingUpdate : s.RollingUpdate[i] \in R => filled[i] \in R
    BY <1>2
  <2>3. s.RollingUpdate \in Seq(R)
    BY <1>1
  <2> HIDE DEF filled
  <2>4. /\ filled \in Seq(R) /\ Len(filled) = Len(s.RollingUpdate)
        /\ filled = <<>> <=> s.RollingUpdate = <<>>
        /\ s.RollingUpdate # <<>> => 1 \in DOMAIN s.RollingUpdate
    BY <2>1, <2>2, <2>3, CopiedPointer, Zenon
  <2> QED BY <2>4
<1> HIDE DEF filled
<1>7. OrElse(s.Type, "RollingUpdate") = "RollingUpdate"
  BY <1>1 DEF OrElse
<1>8. q.Spec.Strategy \in Strategies
  <2>1. filled \in V4!Ptr(R)
    BY <1>1, <1>5 DEF V4!Ptr
  <2>2. [Type |-> "RollingUpdate", RollingUpdate |-> filled] \in Strategies
    BY <2>1 DEF Strategies, V4!AzureMachinePoolDeploymentStrategy, R
  <2> QED BY <1>4, <1>7, <2>2, Zenon
<1> QED BY <1>3, <1>4, <1>5, <1>7, <1>8 DEF HasStrategy, s

\* The default key leaves the strategy and the status alone.
LEMMA PoolDefaults ==
    ASSUME NEW p, HasStrategy(p), NEW fresh
    PROVE  LET d == Default_AzureMachinePool(p, fresh)
           IN  /\ HasStrategy(d) /\ d.Spec.Strategy = p.Spec.Strategy
               /\ "Status" \in DOMAIN p => d.Status = p.Status /\ "Status" \in DOMAIN d
BY DEF HasStrategy, Default_AzureMachinePool

\* A pool of v1alpha3 takes its strategy and its image from the hub copy.
LEMMA PoolConverted ==
    ASSUME NEW src, NEW c, c = ConvertTo_AzureMachinePool(src)
    PROVE  /\ "Spec" \in DOMAIN c /\ "Status" \in DOMAIN c /\ "Strategy" \in DOMAIN c.Spec
           /\ src.data = <<>> => c.Spec.Strategy = [Type |-> "", RollingUpdate |-> <<>>]
           /\ src.data # <<>> => /\ c.Spec.Strategy = RestoreStrategy(src.data[1].Spec.Strategy)
                                 /\ c.Status.Image = src.data[1].Status.Image
<1>1. CASE src.data = <<>>
  BY <1>1 DEF ConvertTo_AzureMachinePool, To4_AzureMachinePoolSpec
<1>2. CASE src.data # <<>>
  BY <1>2 DEF ConvertTo_AzureMachinePool, To4_AzureMachinePoolSpec, To4_AzureMachinePoolStatus
<1> QED BY <1>1, <1>2

LEMMA NoStrategyOK == [Type |-> "", RollingUpdate |-> <<>>] \in Strategies
<1>1. <<>> \in V4!Ptr(V4!MachineRollingUpdateDeployment)
  BY DEF V4!Ptr
<1> QED BY <1>1 DEF Strategies, V4!AzureMachinePoolDeploymentStrategy

\* The webhook that defaults a pool keeps whether it has a rolling update.
LEMMA MutatedPool ==
    ASSUME kind = "AzureMachinePool", NEW c, HasStrategy(c), "Status" \in DOMAIN c
    PROVE  LET m == Mutated(c)
           IN  /\ HasStrategy(m) /\ m.Status = c.Status
               /\ m.Spec.Strategy.RollingUpdate = <<>> <=> c.Spec.Strategy.RollingUpdate = <<>>
               /\ c.Spec.Strategy.Type = "RollingUpdate" => m.Spec.Strategy.Type = "RollingUpdate"
<1> DEFINE d == Default(c)
           m == Mutated(c)
<1>1. CASE d = c
  <2>1. m = c
    BY <1>1 DEF Mutated
  <2> QED BY <2>1, Zenon
<1>2. CASE d # c
  <2>1. d = Default_AzureMachinePool(c, Generated(version))
    BY DEF Default, DefaultWith
  <2>2. /\ HasStrategy(d) /\ d.Spec.Strategy = c.Spec.Strategy
        /\ d.Status = c.Status /\ "Status" \in DOMAIN d
    BY <2>1, PoolDefaults
  <2>3. m = SchemaDefault_AzureMachinePool(d)
    BY <1>2 DEF Mutated, SchemaDefault
  <2> HIDE DEF d, m
  <2>4. /\ HasStrategy(m) /\ m.Spec.Strategy.Type = "RollingUpdate"
        /\ m.Spec.Strategy.RollingUpdate = <<>> <=> d.Spec.Strategy.RollingUpdate = <<>>
        /\ m.Status = d.Status
    BY <2>2, <2>3, SchemaStrategy
  <2>5. /\ HasStrategy(m) /\ m.Status = c.Status
        /\ m.Spec.Strategy.RollingUpdate = <<>> <=> c.Spec.Strategy.RollingUpdate = <<>>
        /\ c.Spec.Strategy.Type = "RollingUpdate" => m.Spec.Strategy.Type = "RollingUpdate"
    BY <2>2, <2>4, Zenon
  <2> QED BY <2>5 DEF m
<1> QED BY <1>1, <1>2

\* What becomes of a pool that a v1alpha3 client writes.
LEMMA PoolAdmitted3 ==
    ASSUME kind = "AzureMachinePool", NEW obj, NEW adm, adm = Admitted3(obj),
           obj.data # <<>> => obj.data[1].Spec.Strategy \in Strategies
    PROVE  /\ HasStrategy(adm)
           /\ obj.data # <<>> /\ obj.data[1].Spec.Strategy.Type = "RollingUpdate" =>
                  /\ adm.Spec.Strategy.Type = "RollingUpdate"
                  /\ IF obj.data[1].Spec.Strategy.RollingUpdate = <<>>
                     THEN adm.Spec.Strategy = obj.data[1].Spec.Strategy
                     ELSE \E r \in Range(adm.Spec.Strategy.RollingUpdate) : r.MaxSurge = <<>>
           /\ obj.data # <<>> => adm.Status.Image = obj.data[1].Status.Image
<1> DEFINE c == ConvertTo_AzureMachinePool(obj)
           m == Mutated(c)
           f == ConvertFrom_AzureMachinePool(m)
           s == obj.data[1].Spec.Strategy
<1>1. adm = ConvertTo_AzureMachinePool(f)
  BY DEF Admitted3, ConvertTo, ConvertFrom
<1>2. f.data # <<>> /\ f.data[1] = m
  BY DEF ConvertFrom_AzureMachinePool
<1>3. /\ "Spec" \in DOMAIN c /\ "Status" \in DOMAIN c /\ "Strategy" \in DOMAIN c.Spec
      /\ obj.data = <<>> => c.Spec.Strategy = [Type |-> "", RollingUpdate |-> <<>>]
      /\ obj.data # <<>> => /\ c.Spec.Strategy = RestoreStrategy(s)
                            /\ c.Status.Image = obj.data[1].Status.Image
  BY PoolConverted
<1> HIDE DEF c, f
<1>4. HasStrategy(c)
  <2>1. obj.data # <<>> => RestoreStrategy(s) \in Strategies
    BY RestoredStrategy
  <2> QED BY <1>3, <2>1, NoStrategyOK, Zenon DEF HasStrategy
<1>5. /\ HasStrategy(m) /\ m.Status = c.Status
      /\ m.Spec.Strategy.RollingUpdate = <<>> <=> c.Spec.Strategy.RollingUpdate = <<>>
      /\ c.Spec.Strategy.Type = "RollingUpdate" => m.Spec.Strategy.Type = "RollingUpdate"
  BY <1>3, <1>4, MutatedPool
<1> HIDE DEF m, s
<1> DEFINE t == m.Spec.Strategy
<1>6. /\ "Spec" \in DOMAIN adm /\ "Strategy" \in DOMAIN adm.Spec
      /\ adm.Spec.Strategy = RestoreStrategy(t) /\ adm.Status.Image = m.Status.Image
  BY <1>1, <1>2, PoolConverted
<1>7. t \in Strategies
  BY <1>5, Zenon DEF HasStrategy
<1> HIDE DEF t
<1>8. /\ RestoreStrategy(t) \in Strategies /\ RestoreStrategy(t).Type = t.Type
      /\ t.RollingUpdate = <<>> => RestoreStrategy(t) = t
      /\ t.RollingUpdate # <<>> =>
             \E r \in Range(RestoreStrategy(t).RollingUpdate) : r.MaxSurge = <<>>
  BY <1>7, RestoredStrategy
<1>9. HasStrategy(adm)
  BY <1>6, <1>8, Zenon DEF HasStrategy
<1>10. obj.data # <<>> => adm.Status.Image = obj.data[1].Status.Image
  BY <1>3, <1>5, <1>6, Zenon
<1>11. ASSUME obj.data # <<>>, s.Type = "RollingUpdate"
       PROVE  /\ adm.Spec.Strategy.Type = "RollingUpdate"
              /\ IF s.RollingUpdate = <<>> THEN adm.Spec.Strategy = s
                 ELSE \E r \in Range(adm.Spec.Strategy.RollingUpdate) : r.MaxSurge = <<>>
  <2>1. s \in Strategies
    BY <1>11 DEF s
  <2>2. /\ RestoreStrategy(s).Type = s.Type
        /\ s.RollingUpdate = <<>> => RestoreStrategy(s) = s
        /\ s.RollingUpdate # <<>> =>
               \E r \in Range(RestoreStrategy(s).RollingUpdate) : r.MaxSurge = <<>>
    BY <2>1, RestoredStrategy
  <2>3. t.Type = "RollingUpdate"
    BY <1>3, <1>5, <1>11, <2>2, Zenon DEF t
  <2>4. t.RollingUpdate = <<>> <=> RestoreStrategy(s).RollingUpdate = <<>>
    BY <1>3, <1>5, <1>11, Zenon DEF t
  <2>5. CASE s.RollingUpdate = <<>>
    <3>1. t.RollingUpdate = <<>>
      BY <2>2, <2>4, <2>5, Zenon
    <3>2. t = s
      <4>1. /\ t = [Type |-> t.Type, RollingUpdate |-> t.RollingUpdate]
            /\ s = [Type |-> s.Type, RollingUpdate |-> s.RollingUpdate]
        BY <1>7, <2>1 DEF Strategies, V4!AzureMachinePoolDeploymentStrategy
      <4> QED BY <1>11, <2>3, <2>5, <3>1, <4>1, Zenon
    <3>3. adm.Spec.Strategy = s
      BY <1>6, <1>8, <3>1, <3>2, Zenon
    <3> QED BY <1>11, <2>5, <3>3, Zenon
  <2>6. CASE s.RollingUpdate # <<>>
    <3>1. RestoreStrategy(s).RollingUpdate # <<>>
      <4>1. Range(<<>>) = {}
        BY DEF Range
      <4> QED BY <2>2, <2>6, <4>1, Zenon
    <3>2. t.RollingUpdate # <<>>
      BY <2>4, <3>1, Zenon
    <3> QED BY <1>6, <1>8, <2>3, <2>6, <3>2, Zenon
  <2> QED BY <2>5, <2>6
<1> QED BY <1>9, <1>10, <1>11 DEF s

\* And of one that a v1alpha4 client writes.
LEMMA PoolAdmitted4 ==
    ASSUME kind = "AzureMachinePool", NEW obj \in V4!Kinds[kind]
    PROVE  HasStrategy(Admitted4(obj))
<1> DEFINE c == SchemaDefault_AzureMachinePool(obj)
<1>1. obj \in V4!AzureMachinePool
  BY DEF V4!Kinds
<1>2. HasStrategy(obj) /\ "Status" \in DOMAIN obj
  BY <1>1 DEF V4!AzureMachinePool, V4!AzureMachinePoolSpec, HasStrategy, Strategies
<1>3. HasStrategy(c)
  BY <1>2, SchemaStrategy
<1>4. "Status" \in DOMAIN c
  BY <1>2 DEF SchemaDefault_AzureMachinePool
<1>5. Admitted4(obj) = Mutated(c)
  BY DEF Admitted4, SchemaDefault
<1> HIDE DEF c
<1> QED BY <1>3, <1>4, <1>5, MutatedPool

-----------------------------------------------------------------------------
(* What only the hub can say *)

\* The kinds with fields that only the hub has, AzureCluster aside.
HubKinds == {"AzureMachinePool", "AzureManagedControlPlane", "AzureClusterIdentity"}

StoredStrategy ==
    kind = "AzureMachinePool" /\ stored # <<>> =>
        HasStrategy(stored[1]) /\ stored[1].Spec.Strategy.Type = "RollingUpdate"

HubInv == Tracks /\ StoredStrategy

LEMMA HubInit == Init => HubInv
<1> SUFFICES ASSUME Init, kind = "AzureMachinePool", stored # <<>>
             PROVE  HasStrategy(stored[1]) /\ stored[1].Spec.Strategy.Type = "RollingUpdate"
  BY TracksInit DEF HubInv, StoredStrategy
<1>1. PICK m : stored = <<SchemaDefault(ConvertTo(Stored3(m)))>>
  BY DEF Init
<1> DEFINE c == ConvertTo_AzureMachinePool(Stored3(m))
<1>2. stored[1] = SchemaDefault_AzureMachinePool(c)
  BY <1>1 DEF SchemaDefault, ConvertTo
<1>3. Stored3(m).data = <<>>
  BY DEF Stored3, ConvertFrom, ConvertFrom_AzureMachinePool
<1>4. HasStrategy(c)
  BY <1>3, PoolConverted, NoStrategyOK DEF HasStrategy
<1> HIDE DEF c
<1> QED BY <1>2, <1>4, SchemaStrategy

LEMMA StrategyStore ==
    ASSUME StoredStrategy, NEW adm, NEW accepted, Store(adm, accepted),
           kind = "AzureMachinePool" /\ accepted => HasStrategy(adm)
    PROVE  StoredStrategy'
<1>1. kind' = kind
  BY DEF Store
<1>2. CASE ~accepted
  <2>1. stored' = stored
    BY <1>2 DEF Store
  <2> QED BY <1>1, <2>1 DEF StoredStrategy
<1>3. CASE accepted
  <2>1. ASSUME kind = "AzureMachinePool"
        PROVE  HasStrategy(stored'[1]) /\ stored'[1].Spec.Strategy.Type = "RollingUpdate"
    <3>1. stored'[1] = SchemaDefault_AzureMachinePool(adm)
      BY <1>3, <2>1 DEF Store, SchemaDefault
    <3>2. HasStrategy(adm)
      BY <1>3, <2>1
    <3> QED BY <3>1, <3>2, SchemaStrategy
  <2> QED BY <1>1, <2>1 DEF StoredStrategy
<1> QED BY <1>2, <1>3

LEMMA IdentityDefaults ==
    ASSUME NEW r, NEW fresh, "Spec" \in DOMAIN r, "IdentityRef" \in DOMAIN r.Spec
    PROVE  Default_AzureManagedControlPlane(r, fresh).Spec.IdentityRef = r.Spec.IdentityRef
BY DefaultedSpec, IdentityDefaulted

\* A copy that is not stale carries the stored object.
LEMMA HeldData ==
    ASSUME Tracks, held # <<>>, held[1].version = version, kind \in HubKinds
    PROVE  held[1].object.data # <<>> /\ held[1].object.data[1] = stored[1]
<1>1. held[1].object = ConvertFrom(stored[1])
  BY DEF Tracks, HeldCopy
<1>2. CASE kind = "AzureMachinePool"
  <2>1. ConvertFrom(stored[1]) = ConvertFrom_AzureMachinePool(stored[1])
    BY <1>2 DEF ConvertFrom
  <2>2. ConvertFrom_AzureMachinePool(stored[1]).data = <<stored[1]>>
    BY DEF ConvertFrom_AzureMachinePool
  <2> QED BY <1>1, <2>1, <2>2
<1>3. CASE kind = "AzureManagedControlPlane"
  <2>1. ConvertFrom(stored[1]) = ConvertFrom_AzureManagedControlPlane(stored[1])
    BY <1>3 DEF ConvertFrom
  <2>2. ConvertFrom_AzureManagedControlPlane(stored[1]).data = <<stored[1]>>
    BY DEF ConvertFrom_AzureManagedControlPlane
  <2> QED BY <1>1, <2>1, <2>2
<1>4. CASE kind = "AzureClusterIdentity"
  <2>1. ConvertFrom(stored[1]) = ConvertFrom_AzureClusterIdentity(stored[1])
    BY <1>4 DEF ConvertFrom
  <2>2. ConvertFrom_AzureClusterIdentity(stored[1]).data = <<stored[1]>>
    BY DEF ConvertFrom_AzureClusterIdentity
  <2> QED BY <1>1, <2>1, <2>2
<1> QED BY <1>2, <1>3, <1>4 DEF HubKinds

\* A v1alpha3 client writes the reference to the identity that it read.
LEMMA IdentityAdmitted3 ==
    ASSUME kind = "AzureManagedControlPlane", NEW obj, obj.data # <<>>
    PROVE  Admitted3(obj).Spec.IdentityRef = obj.data[1].Spec.IdentityRef
<1> DEFINE c == ConvertTo_AzureManagedControlPlane(obj)
           d == Default_AzureManagedControlPlane(c, Generated(version))
           f == ConvertFrom_AzureManagedControlPlane(d)
<1>1. Admitted3(obj) = ConvertTo_AzureManagedControlPlane(f)
  <2>1. Mutated(c) = d
    BY NoSchemaDefault DEF Default, DefaultWith
  <2> QED BY <2>1 DEF Admitted3, ConvertTo, ConvertFrom
<1>2. /\ "Spec" \in DOMAIN c /\ "IdentityRef" \in DOMAIN c.Spec
      /\ c.Spec.IdentityRef = obj.data[1].Spec.IdentityRef
  BY DEF ConvertTo_AzureManagedControlPlane, To4_AzureManagedControlPlaneSpec
<1> HIDE DEF c
<1>3. d.Spec.IdentityRef = c.Spec.IdentityRef
  BY <1>2, IdentityDefaults
<1> HIDE DEF d
<1>4. f.data # <<>> /\ f.data[1] = d
  BY DEF ConvertFrom_AzureManagedControlPlane
<1> HIDE DEF f
<1>5. ConvertTo_AzureManagedControlPlane(f).Spec.IdentityRef = f.data[1].Spec.IdentityRef
  BY <1>4 DEF ConvertTo_AzureManagedControlPlane, To4_AzureManagedControlPlaneSpec
<1> QED BY <1>1, <1>2, <1>3, <1>4, <1>5

\* Only AzureCluster has subnets.
LEMMA NoSubnets ==
    ASSUME kind # "AzureCluster", HubOnly(stored'[1]) = HubOnly(stored[1])
    PROVE  KeepsHubData
BY DEF KeepsHubData, SubnetNames, OutboundRules

\* A list of namespaces keeps the selector that was stored next to one.
LEMMA SelectorAdmitted3 ==
    ASSUME kind = "AzureClusterIdentity", NEW obj, obj.data # <<>>,
           obj.Spec.AllowedNamespaces # <<>>, CanConvert(obj)
    PROVE  HubOnly(Admitted3(obj)) = HubOnly(obj.data[1])
<1> DEFINE list == obj.Spec.AllowedNamespaces
           old == obj.data[1].Spec.AllowedNamespaces
           c == ConvertTo_AzureClusterIdentity(obj)
           b == ConvertFrom_AzureClusterIdentity(c)
           allowed == <<[NamespaceList |-> list, Selector |-> old[1].Selector]>>
<1>1. Admitted3(obj) = ConvertTo_AzureClusterIdentity(b)
  <2>1. Mutated(c) = c
    BY DEF Mutated, Default, DefaultWith
  <2> QED BY <2>1 DEF Admitted3, ConvertTo, ConvertFrom
<1>2. old # <<>>
  BY DEF CanConvert, CanConvert_AzureClusterIdentity
<1>3. c.Spec.AllowedNamespaces = allowed
  BY DEF ConvertTo_AzureClusterIdentity, To4_AzureClusterIdentitySpec
<1> HIDE DEF c
<1>4. b.Spec.AllowedNamespaces = list /\ b.data # <<>> /\ b.data[1] = c
  BY <1>3 DEF ConvertFrom_AzureClusterIdentity, To3_AzureClusterIdentitySpec
<1> HIDE DEF b
<1>5. ConvertTo_AzureClusterIdentity(b).Spec.AllowedNamespaces = allowed
  BY <1>3, <1>4 DEF ConvertTo_AzureClusterIdentity, To4_AzureClusterIdentitySpec
<1>6. HubOnly(Admitted3(obj)) = <<old[1].Selector>>
  BY <1>1, <1>5 DEF HubOnly
<1>7. HubOnly(obj.data[1]) = <<old[1].Selector>>
  BY <1>2 DEF HubOnly
<1> QED BY <1>6, <1>7

\* The write of a v1alpha3 client that is accepted.
LEMMA HubUpdate3 ==
    ASSUME HubInv, kind # "AzureCluster", held # <<>>, NEW obj, ~DropsSelector(obj),
           obj.data = held[1].object.data, held[1].version = version, Accepts3(obj, stored),
           stored' = <<SchemaDefault(Admitted3(obj))>>
    PROVE  HubOnly(stored'[1]) = HubOnly(stored[1])
<1> DEFINE adm == Admitted3(obj)
<1>1. stored # <<>> /\ stored'[1] = SchemaDefault(adm)
  BY DEF HubInv, Tracks, HeldCopy
<1>2. CASE kind \notin HubKinds
  BY <1>2 DEF HubOnly, HubKinds
<1>3. ASSUME kind \in HubKinds PROVE obj.data # <<>> /\ obj.data[1] = stored[1]
  BY <1>3, HeldData DEF HubInv
<1>4. CASE kind = "AzureManagedControlPlane"
  <2>1. stored'[1] = adm
    BY <1>1, <1>4 DEF SchemaDefault
  <2>2. adm.Spec.IdentityRef = stored[1].Spec.IdentityRef
    BY <1>3, <1>4, IdentityAdmitted3 DEF HubKinds
  <2> HIDE DEF adm
  <2> QED BY <1>4, <2>1, <2>2 DEF HubOnly
<1>5. CASE kind = "AzureMachinePool"
  <2> DEFINE s == stored[1].Spec.Strategy
  <2>1. obj.data # <<>> /\ obj.data[1] = stored[1]
    BY <1>3, <1>5 DEF HubKinds
  <2>2. s \in Strategies /\ s.Type = "RollingUpdate"
    BY <1>1, <1>5 DEF HubInv, StoredStrategy, HasStrategy
  <2>3. /\ HasStrategy(adm) /\ adm.Status.Image = stored[1].Status.Image
        /\ adm.Spec.Strategy.Type = "RollingUpdate"
        /\ IF s.RollingUpdate = <<>> THEN adm.Spec.Strategy = s
           ELSE \E r \in Range(adm.Spec.Strategy.RollingUpdate) : r.MaxSurge = <<>>
    BY <1>5, <2>1, <2>2, PoolAdmitted3
  <2>4. ValidateStrategy(adm.Spec.Strategy)
    BY <1>5 DEF Accepts3, Valid, Validate_AzureMachinePool
  <2>5. "Status" \in DOMAIN adm
    BY <1>5, PoolConverted DEF Admitted3, ConvertTo
  <2> HIDE DEF adm, s
  <2>6. s.RollingUpdate = <<>> /\ adm.Spec.Strategy = s
    BY <2>3, <2>4 DEF ValidateStrategy
  <2> DEFINE q == SchemaDefault_AzureMachinePool(adm)
  <2>7. /\ HasStrategy(q) /\ q.Spec.Strategy.Type = "RollingUpdate"
        /\ q.Spec.Strategy.RollingUpdate = <<>> <=> adm.Spec.Strategy.RollingUpdate = <<>>
        /\ q.Status = adm.Status
    BY <2>3, <2>5, SchemaStrategy
  <2>8. stored'[1] = q
    BY <1>1, <1>5 DEF SchemaDefault
  <2> HIDE DEF q
  <2>9. q.Spec.Strategy = s
    <3>1. q.Spec.Strategy \in Strategies
      BY <2>7, Zenon DEF HasStrategy
    <3>2. /\ q.Spec.Strategy = [Type |-> q.Spec.Strategy.Type, RollingUpdate |-> q.Spec.Strategy.RollingUpdate]
          /\ s = [Type |-> s.Type, RollingUpdate |-> s.RollingUpdate]
      BY <2>2, <3>1 DEF Strategies, V4!AzureMachinePoolDeploymentStrategy
    <3> QED BY <2>2, <2>6, <2>7, <3>2, Zenon
  <2>10. q.Status.Image = stored[1].Status.Image
    BY <2>3, <2>7
  <2> QED BY <1>5, <2>8, <2>9, <2>10 DEF HubOnly, s
<1>6. CASE kind = "AzureClusterIdentity"
  <2>1. stored'[1] = adm
    BY <1>1, <1>6 DEF SchemaDefault
  <2>2. CanConvert(obj) /\ obj.Spec.AllowedNamespaces # <<>>
    BY <1>6 DEF Accepts3, DropsSelector
  <2>3. HubOnly(adm) = HubOnly(stored[1])
    BY <1>3, <1>6, <2>2, SelectorAdmitted3 DEF HubKinds
  <2> QED BY <2>1, <2>3
<1> QED BY <1>2, <1>4, <1>5, <1>6 DEF HubKinds

LEMMA HubStep ==
    ASSUME HubInv, Next
    PROVE  StoredStrategy' /\ (kind # "AzureCluster" => KeepsHubData)
<1> DEFINE Goal == StoredStrategy' /\ (kind # "AzureCluster" => KeepsHubData)
<1> SUFFICES Goal
  OBVIOUS
<1>0. Tracks /\ StoredStrategy
  BY DEF HubInv
<1>1. ASSUME NEW obj, Create4(obj) PROVE Goal
  <2>1. StoredStrategy'
    BY <1>0, <1>1, PoolAdmitted4, StrategyStore DEF Create4, Schema4
  <2>2. last'.op # "update3"
    BY <1>1 DEF Create4, Request
  <2> QED BY <2>1, <2>2 DEF KeepsHubData
<1>2. ASSUME NEW obj, Create3(obj) PROVE Goal
  <2>1. ASSUME kind = "AzureMachinePool" PROVE HasStrategy(Admitted3(obj))
    BY <1>2, <2>1, PoolAdmitted3 DEF Create3
  <2>2. StoredStrategy'
    BY <1>0, <1>2, <2>1, StrategyStore DEF Create3
  <2>3. last'.op # "update3"
    BY <1>2 DEF Create3, Request
  <2> QED BY <2>2, <2>3 DEF KeepsHubData
<1>3. CASE Get3
  <2>1. UNCHANGED <<kind, stored>>
    BY <1>3 DEF Get3
  <2>2. HubOnly(stored'[1]) = HubOnly(stored[1])
    BY <2>1
  <2> QED BY <1>0, <2>1, <2>2, NoSubnets DEF StoredStrategy
<1>4. ASSUME NEW obj, Update4(obj) PROVE Goal
  <2>1. StoredStrategy'
    BY <1>0, <1>4, PoolAdmitted4, StrategyStore DEF Update4, Schema4
  <2>2. last'.op # "update3"
    BY <1>4 DEF Update4, Request
  <2> QED BY <2>1, <2>2 DEF KeepsHubData
<1>5. ASSUME stored # <<>>, NEW obj, UpdateStatus4(obj) PROVE Goal
  <2> DEFINE adm == [stored[1] EXCEPT !.Status = obj.Status]
  <2>1. Store(adm, TRUE)
    BY <1>5 DEF UpdateStatus4
  <2>2. kind = "AzureMachinePool" => HasStrategy(adm)
    BY <1>0, <1>5 DEF StoredStrategy, HasStrategy
  <2> HIDE DEF adm
  <2>3. StoredStrategy'
    BY <1>0, <2>1, <2>2, StrategyStore
  <2>4. last'.op # "update3"
    BY <1>5 DEF UpdateStatus4, Request
  <2> QED BY <2>3, <2>4 DEF KeepsHubData
<1>6. ASSUME stored # <<>>, held # <<>>, NEW obj, Update3(obj) PROVE Goal
  <2> DEFINE accepted == held[1].version = version /\ Accepts3(obj, stored)
             adm == Admitted3(obj)
  <2>1. /\ Store(adm, accepted) /\ obj.data = held[1].object.data
        /\ last'.object[1] = obj
    BY <1>6 DEF Update3, Request
  <2>2. ASSUME kind = "AzureMachinePool", accepted PROVE HasStrategy(adm)
    <3>1. obj.data # <<>> /\ obj.data[1] = stored[1]
      BY <1>0, <1>6, <2>1, <2>2, HeldData DEF HubKinds
    <3>2. obj.data[1].Spec.Strategy \in Strategies
      BY <1>0, <1>6, <2>2, <3>1 DEF StoredStrategy, HasStrategy
    <3> QED BY <2>2, <3>2, PoolAdmitted3
  <2>3. StoredStrategy'
    <3> HIDE DEF adm, accepted
    <3> QED BY <1>0, <2>1, <2>2, StrategyStore
  <2>4. ASSUME kind # "AzureCluster" PROVE KeepsHubData
    <3>1. CASE ~accepted
      <4>1. stored' = stored
        BY <2>1, <3>1 DEF Store
      <4> QED BY <2>4, <4>1, NoSubnets
    <3>2. CASE accepted /\ ~DropsSelector(obj)
      <4>1. stored' = <<SchemaDefault(Admitted3(obj))>>
        BY <2>1, <3>2 DEF Store
      <4> QED BY <1>6, <2>1, <2>4, <3>2, <4>1, HubUpdate3, NoSubnets
    <3>3. CASE DropsSelector(obj)
      BY <2>1, <3>3 DEF KeepsHubData
    <3> QED BY <3>1, <3>2, <3>3
  <2> QED BY <2>3, <2>4
<1> QED BY <1>0, <1>1, <1>2, <1>3, <1>4, <1>5, <1>6, Steps, Zenon

\* For every kind but AzureCluster, whatever clients of both versions write
\* and whenever they read what they write back: no accepted write of a
\* v1alpha3 client changes the rolling update strategy or the image status of
\* a pool, the identity reference of a control plane, or the selector of an
\* identity's namespaces, unless it empties the list next to the selector.
THEOREM HubDataIsKept == Spec => [][(kind # "AzureCluster") => KeepsHubData]_vars
<1>1. HubInv /\ [Next]_vars => HubInv'
  <2>1. ASSUME StoredStrategy, UNCHANGED vars PROVE StoredStrategy'
    BY <2>1 DEF vars, StoredStrategy
  <2> QED BY <2>1, HubStep, TracksStep DEF HubInv
<1>2. HubInv /\ [Next]_vars => [(kind # "AzureCluster") => KeepsHubData]_vars
  BY HubStep
<1> QED BY <1>1, <1>2, HubInit, PTL DEF Spec

-----------------------------------------------------------------------------
(* What was written is still what is read *)

EditsInv == kind \in ManagedKinds => EditsTakeEffect

\* The kinds of AKS have no field that only v1alpha3 has, and lose none.
LEMMA NothingLost ==
    ASSUME kind \in ManagedKinds
    PROVE  \A x : Spoken(x) = x /\ Lost3(x) = {}
BY DEF ManagedKinds, Spoken, Lost3

LEMMA NothingLostNext ==
    ASSUME kind' \in ManagedKinds
    PROVE  \A x : Spoken(x)' = x /\ Lost3(x)' = {}
BY DEF ManagedKinds, Spoken, Lost3

LEMMA EditsUnchanged ==
    ASSUME EditsInv, UNCHANGED <<kind, stored, version, last>>
    PROVE  EditsInv'
<1> SUFFICES ASSUME kind' \in ManagedKinds PROVE EditsTakeEffect'
  BY DEF EditsInv
<1>1. kind' = kind /\ kind \in ManagedKinds
  OBVIOUS
<1>2. \A o : ConvertFrom(o)' = ConvertFrom(o) /\ Completed3(o)' = Completed3(o)
  BY <1>1 DEF ConvertFrom, Completed3, ConvertTo, Default, DefaultWith
<1>3. \A x : Spoken(x)' = x /\ Lost3(x)' = {} /\ Spoken(x) = x /\ Lost3(x) = {}
  BY <1>1, NothingLost, NothingLostNext
<1>4. EditsTakeEffect
  BY <1>1 DEF EditsInv
<1> QED BY <1>2, <1>3, <1>4 DEF EditsTakeEffect

\* A write of a v1alpha3 client.
LEMMA EditsWrite ==
    ASSUME Tracks', kind \in ManagedKinds, NEW obj, Schema3(obj), NEW accepted, Store(Admitted3(obj), accepted),
           NEW op, last' = [op |-> op, accepted |-> accepted, object |-> <<obj>>]
    PROVE  EditsTakeEffect'
<1>0. kind' = kind /\ \A o : ConvertFrom(o)' = ConvertFrom(o)
  BY SameConversion DEF Store
<1>1. Schema3(obj) /\ last'.accepted = accepted /\ last'.object[1] = obj
  OBVIOUS
<1>4. \A x : Spoken(x)' = x /\ Lost3(x)' = {}
  BY <1>0, NothingLostNext
<1>2. CASE ~accepted
  BY <1>1, <1>2 DEF EditsTakeEffect
<1>3. CASE accepted
  <2>1. stored'[1] = Admitted3(obj)
    BY <1>3 DEF Store, SchemaDefault, ManagedKinds
  <2>2. Generated(version') # ""
    BY GeneratedAssumption DEF Tracks
  <2>3. ASSUME NEW f \in DOMAIN obj.Spec, f \notin Completed3(obj)'
        PROVE  ReadsBack(obj, f)
    <3>1. CASE kind = "AzureManagedControlPlane"
      <4> DEFINE c == ConvertTo_AzureManagedControlPlane(obj)
      <4>1. Completed3(obj)' = {g \in DOMAIN c.Spec :
                Default_AzureManagedControlPlane(c, Generated(version')).Spec[g] # c.Spec[g]}
        BY <1>0, <3>1 DEF Completed3, ConvertTo, Default, DefaultWith
      <4>2. obj.Spec \in V3!AzureManagedControlPlaneSpec
        BY <1>1, <3>1, SchemaSpec
      <4>3. /\ f \in ControlPlaneFields
            /\ f = "VirtualNetwork" => NetworkShape(obj.Spec.VirtualNetwork)
        BY <4>2, NetworkOfSchema DEF ControlPlaneFields, V3!AzureManagedControlPlaneSpec
      <4>4. f \in DOMAIN c.Spec
        BY <4>3, ControlPlaneTo4
      <4> HIDE DEF c
      <4>5. Default_AzureManagedControlPlane(c, Generated(version')).Spec[f] = c.Spec[f]
        BY <2>3, <4>1, <4>4, Zenon
      <4>6. c = ConvertTo_AzureManagedControlPlane(obj)
        BY DEF c
      <4>7. PICK other : other # "" /\ Default_AzureManagedControlPlane(c, other).Spec[f] = c.Spec[f]
        BY <2>2, <4>5, Zenon
      <4>8. Schema3(obj) /\ f \in DOMAIN obj.Spec
        BY <1>1, <2>3
      <4> QED BY <3>1, <4>6, <4>7, <4>8, ControlPlaneRoundTrip, Zenon
    <3>2. CASE kind # "AzureManagedControlPlane"
      BY <1>0, <1>1, <3>2, ManagedRoundTrip DEF ManagedKinds
    <3> QED BY <3>1, <3>2
  <2> QED BY <1>0, <1>1, <1>4, <2>1, <2>3 DEF EditsTakeEffect, ReadsBack
<1> QED BY <1>2, <1>3

LEMMA EditsStep ==
    ASSUME Tracks, Tracks', EditsInv, Next
    PROVE  EditsInv'
<1> SUFFICES ASSUME kind' \in ManagedKinds PROVE EditsTakeEffect'
  BY DEF EditsInv
<1>0. kind' = kind /\ kind \in ManagedKinds
  BY DEF Next, Create4, Create3, Get3, Update4, Update3, UpdateStatus4, Store
<1>1. CASE Get3
  <2>1. UNCHANGED <<kind, stored, version, last>>
    BY <1>1 DEF Get3
  <2> QED BY <1>0, <2>1, EditsUnchanged DEF EditsInv
<1>2. ASSUME NEW obj, Create4(obj) \/ Update4(obj) \/ UpdateStatus4(obj) PROVE EditsTakeEffect'
  <2>1. last'.op \in {"create4", "update4", "status4"}
    <3>1. CASE Create4(obj)
      BY <3>1 DEF Create4, Request
    <3>2. CASE Update4(obj)
      BY <3>2 DEF Update4, Request
    <3>3. CASE UpdateStatus4(obj)
      BY <3>3 DEF UpdateStatus4, Request
    <3> QED BY <1>2, <3>1, <3>2, <3>3
  <2> QED BY <2>1 DEF EditsTakeEffect
<1>3. ASSUME NEW obj, Create3(obj) PROVE EditsTakeEffect'
  <2>1. /\ Schema3(obj) /\ Store(Admitted3(obj), Accepts3(obj, <<>>))
        /\ last' = [op |-> "create3", accepted |-> Accepts3(obj, <<>>), object |-> <<obj>>]
    BY <1>3 DEF Create3, Request
  <2> QED BY <1>0, <2>1, EditsWrite
<1>4. ASSUME NEW obj, Update3(obj) PROVE EditsTakeEffect'
  <2> DEFINE accepted == held[1].version = version /\ Accepts3(obj, stored)
  <2>1. /\ Schema3(obj) /\ Store(Admitted3(obj), accepted)
        /\ last' = [op |-> "update3", accepted |-> accepted, object |-> <<obj>>]
    BY <1>4 DEF Update3, Request
  <2> HIDE DEF accepted
  <2> QED BY <1>0, <2>1, EditsWrite
<1> QED BY <1>1, <1>2, <1>3, <1>4, Steps, Zenon

\* For the kinds of AKS, whatever clients of both versions write: what an
\* accepted creation or update of a v1alpha3 client said is what it reads
\* back, field by field, unless the defaults completed the field.
THEOREM ManagedEditsTakeEffect == Spec => [](kind \in ManagedKinds => EditsTakeEffect)
<1>1. Init => Tracks /\ EditsInv
  BY TracksInit DEF Init, NoRequest, EditsInv, EditsTakeEffect
<1>2. Tracks /\ EditsInv /\ [Next]_vars => (Tracks /\ EditsInv)'
  <2>1. ASSUME EditsInv, UNCHANGED vars PROVE EditsInv'
    BY <2>1, EditsUnchanged DEF vars
  <2> QED BY <2>1, TracksStep, EditsStep
<1> QED BY <1>1, <1>2, PTL DEF Spec, EditsInv
=============================================================================
