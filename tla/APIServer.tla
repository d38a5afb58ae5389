----------------------------- MODULE APIServer -----------------------------
(***************************************************************************)
(* One object at the API server, written by clients of both versions.      *)
(* The storage version is v1alpha4.  A v1alpha3 client reads the object    *)
(* through ConvertFrom, keeps it while others write, and writes it back;   *)
(* its requests cross the conversions on the way to each webhook and to    *)
(* the store.  An update based on an old resource version is refused.      *)
(***************************************************************************)
EXTENDS ExpAPI

CONSTANTS KindsChecked,      \* the kinds of the objects
          Manifests3(_),     \* what a v1alpha3 client creates, by kind
          Manifests4(_),     \* what a v1alpha4 client creates, by kind
          Edited3(_, _),     \* a kind and a v1alpha3 object: what one edit makes of it
          Edited4(_, _),     \* the same in v1alpha4
          Generated(_),      \* what the generators of keys and GUIDs return, by resource version
          MaxWrites          \* requests after the creation

VARIABLES kind,     \* the kind of the object
          stored,   \* the object in the store: <<>> before its creation
          version,  \* its resource version, one per accepted write
          held,     \* the copy a v1alpha3 client holds, with its version
          upgraded, \* whether the object was stored by a release without v1alpha4
          last      \* the last request

vars == <<kind, stored, version, held, upgraded, last>>

V3 == INSTANCE V1alpha3
V4 == INSTANCE V1alpha4

ASSUME KindsAssumption == KindsChecked \subseteq DOMAIN V4!Kinds
ASSUME WritesAssumption == MaxWrites \in Nat
ASSUME GeneratedAssumption == \A v \in 0..MaxWrites + 1 : Generated(v) # ""

-----------------------------------------------------------------------------
(* The conversion and admission webhooks of each kind.                     *)
CanConvert(obj) == kind = "AzureClusterIdentity" => CanConvert_AzureClusterIdentity(obj)

ConvertTo(obj) ==
    CASE kind = "AzureCluster" -> ConvertTo_AzureCluster(obj)
      [] kind = "AzureMachine" -> ConvertTo_AzureMachine(obj)
      [] kind = "AzureMachineTemplate" -> ConvertTo_AzureMachineTemplate(obj)
      [] kind = "AzureClusterIdentity" -> ConvertTo_AzureClusterIdentity(obj)
      [] kind = "AzureMachinePool" -> ConvertTo_AzureMachinePool(obj)
      [] kind = "AzureManagedControlPlane" -> ConvertTo_AzureManagedControlPlane(obj)
      [] kind = "AzureManagedCluster" -> Convert_AzureManagedCluster(obj)
      [] kind = "AzureManagedMachinePool" -> Convert_AzureManagedMachinePool(obj)

ConvertFrom(obj) ==
    CASE kind = "AzureCluster" -> ConvertFrom_AzureCluster(obj)
      [] kind = "AzureMachine" -> ConvertFrom_AzureMachine(obj)
      [] kind = "AzureMachineTemplate" -> ConvertFrom_AzureMachineTemplate(obj)
      [] kind = "AzureClusterIdentity" -> ConvertFrom_AzureClusterIdentity(obj)
      [] kind = "AzureMachinePool" -> ConvertFrom_AzureMachinePool(obj)
      [] kind = "AzureManagedControlPlane" -> ConvertFrom_AzureManagedControlPlane(obj)
      [] kind = "AzureManagedCluster" -> ConvertFrom_AzureManagedCluster(obj)
      [] kind = "AzureManagedMachinePool" -> ConvertFrom_AzureManagedMachinePool(obj)

SchemaDefault(obj) ==
    IF kind = "AzureMachinePool" THEN SchemaDefault_AzureMachinePool(obj) ELSE obj

(* fresh is what the generators of keys and GUIDs return.                  *)
DefaultWith(obj, fresh) ==
    CASE kind = "AzureCluster" -> Default_AzureCluster(obj)
      [] kind = "AzureMachine" -> Default_AzureMachine(obj, fresh)
      [] kind = "AzureMachinePool" -> Default_AzureMachinePool(obj, fresh)
      [] kind = "AzureManagedControlPlane" -> Default_AzureManagedControlPlane(obj, fresh)
      [] OTHER -> obj

Default(obj) == DefaultWith(obj, Generated(version))

(* old is <<>> at the creation.                                            *)
Valid(obj, old) ==
    CASE kind = "AzureCluster" ->
             IF old = <<>> THEN ValidateCreate_AzureCluster(obj)
             ELSE ValidateUpdate_AzureCluster(obj, old[1])
      [] kind = "AzureMachine" ->
             IF old = <<>> THEN ValidateCreate_AzureMachine(obj)
             ELSE ValidateUpdate_AzureMachine(obj, old[1])
      [] kind = "AzureMachineTemplate" ->
             old = <<>> \/ ValidateUpdate_AzureMachineTemplate(obj, old[1])
      [] kind = "AzureMachinePool" -> Validate_AzureMachinePool(obj, old)
      [] kind = "AzureManagedControlPlane" ->
             IF old = <<>> THEN Validate_AzureManagedControlPlane(obj)
             ELSE ValidateUpdate_AzureManagedControlPlane(obj, old[1])
      [] OTHER -> TRUE

(* A webhook that changed the object makes the API server fill in the      *)
(* defaults of the schema again.                                           *)
Mutated(obj) == IF Default(obj) = obj THEN obj ELSE SchemaDefault(Default(obj))

(* What reaches the store of a v1alpha4 request, and of a v1alpha3 one,    *)
(* which returns to its own version between the two webhooks.              *)
Admitted4(obj) == Mutated(SchemaDefault(obj))
Admitted3(obj) == ConvertTo(ConvertFrom(Mutated(ConvertTo(obj))))

Accepts4(obj, old) == Valid(Admitted4(obj), old)
Accepts3(obj, old) == CanConvert(obj) /\ Valid(Admitted3(obj), old)

-----------------------------------------------------------------------------
(* A request that the schema of its version does not allow never gets      *)
(* further.  env and data stand for annotations.                           *)
Schema3(obj) == obj.name # "" /\ Copy(obj, DOMAIN obj \ {"env", "data"}) \in V3!Kinds[kind]
Schema4(obj) == obj.name # "" /\ obj \in V4!Kinds[kind]

NoRequest == [op |-> "none", accepted |-> FALSE, object |-> <<>>]

(* What the earlier release stored: its defaults, and no hub copy.         *)
Stored3(m) == [ConvertFrom(DefaultWith(ConvertTo(m), "earlier")) EXCEPT !.env = "", !.data = <<>>]

Init ==
    /\ kind \in KindsChecked
    /\ version = 0 /\ held = <<>> /\ last = NoRequest
    /\ \/ upgraded = FALSE /\ stored = <<>>
       \/ upgraded = TRUE /\ \E m \in Manifests3(kind) :
              /\ Schema3(m) /\ m.data = <<>> /\ Accepts3(m, <<>>) = TRUE
              /\ stored = <<SchemaDefault(ConvertTo(Stored3(m)))>>

Request(op, obj, accepted) == last' = [op |-> op, accepted |-> accepted, object |-> <<obj>>]

(* A refused request leaves the store alone.                               *)
Store(obj, accepted) ==
    /\ stored' = IF accepted THEN <<SchemaDefault(obj)>> ELSE stored
    /\ version' = IF accepted THEN version + 1 ELSE version
    /\ UNCHANGED <<kind, upgraded>>

Create4(obj) ==
    /\ stored = <<>> /\ last.op = "none" /\ Schema4(obj)
    /\ Request("create4", obj, Accepts4(obj, <<>>))
    /\ Store(Admitted4(obj), Accepts4(obj, <<>>))
    /\ UNCHANGED held

Create3(obj) ==
    /\ stored = <<>> /\ last.op = "none" /\ Schema3(obj) /\ obj.data = <<>>
    /\ Request("create3", obj, Accepts3(obj, <<>>))
    /\ Store(Admitted3(obj), Accepts3(obj, <<>>))
    /\ UNCHANGED held

Update4(obj) ==
    /\ Schema4(obj)
    /\ Request("update4", obj, Accepts4(obj, stored))
    /\ Store(Admitted4(obj), Accepts4(obj, stored))
    /\ UNCHANGED held

(* The webhooks are not registered for the status subresource.             *)
UpdateStatus4(obj) ==
    /\ Request("status4", obj, TRUE)
    /\ Store([stored[1] EXCEPT !.Status = obj.Status], TRUE)
    /\ UNCHANGED held

Get3 ==
    /\ stored # <<>> /\ held = <<>>
    /\ held' = <<[object |-> ConvertFrom(stored[1]), version |-> version]>>
    /\ UNCHANGED <<kind, stored, version, upgraded, last>>

(* The client leaves the annotation with the hub copy as it read it.       *)
Update3(obj) ==
    LET accepted == held[1].version = version /\ Accepts3(obj, stored)
    IN  /\ Schema3(obj) /\ obj.data = held[1].object.data
        /\ Request("update3", obj, accepted)
        /\ Store(Admitted3(obj), accepted)
        /\ held' = <<>>

Next ==
    \/ \E obj \in Manifests4(kind) : Create4(obj)
    \/ \E obj \in Manifests3(kind) : Create3(obj)
    \/ Get3
    \/ /\ stored # <<>> /\ version <= MaxWrites
       /\ \E obj \in Edited4(kind, stored[1]) :
              IF "Status" \in DOMAIN obj /\ obj.Status # stored[1].Status THEN UpdateStatus4(obj)
              ELSE Update4(obj)
    \/ /\ held # <<>> /\ version <= MaxWrites
       /\ \E obj \in Edited3(kind, held[1].object) : Update3(obj)

Spec == Init /\ [][Next]_vars

-----------------------------------------------------------------------------
(* The structures of both versions have their declared types: what comes   *)
(* out of the conversions and the defaults is a v1alpha4 object in the     *)
(* store and a v1alpha3 object with its hub copy at the client.            *)
TypeOK ==
    /\ kind \in KindsChecked /\ version \in Nat /\ upgraded \in BOOLEAN
    /\ Len(stored) <= 1 /\ \A o \in Range(stored) : o \in V4!Kinds[kind]
    /\ Len(held) <= 1
    /\ \A h \in Range(held) :
           /\ Schema3(h.object)
           /\ h.object.data[1] \in V4!Kinds[kind]
           /\ h.version \in Nat

(* Security rules are a set: restoring the outbound ones reorders them.    *)
Unordered(spec) ==
    IF kind # "AzureCluster" THEN spec
    ELSE [spec EXCEPT !.NetworkSpec.Subnets =
             Each(LAMBDA subnet : [subnet EXCEPT !.SecurityGroup.SecurityRules = Range(@)], @)]

SameObject(a, b) ==
    Unordered(a.Spec) = Unordered(b.Spec) /\ [a EXCEPT !.Spec = {}] = [b EXCEPT !.Spec = {}]

(* Whether the v1alpha3 round trip of the object is known to fail: the     *)
(* surge of a pool's rolling update is not restored, which the validating  *)
(* webhook then dereferences, and an identity allows by a selector alone.  *)
LossyRoundTrip(obj) ==
    CASE kind = "AzureMachinePool" -> obj.Spec.Strategy.RollingUpdate # <<>>
      [] kind = "AzureClusterIdentity" ->
             \E a \in Range(obj.Spec.AllowedNamespaces) : a.NamespaceList = <<>>
      [] OTHER -> FALSE

(* An object that the API server accepted can always be written again: the *)
(* controllers' and the clients' write of exactly what they read, in       *)
(* either version, is accepted and changes nothing.  The defaults are      *)
(* idempotent, no immutable field moves by conversion or defaulting, and   *)
(* what was valid stays valid.  An AzureCluster of an earlier release is   *)
(* left out: its Azure environment is empty, the defaults fill it in, and  *)
(* the immutability check then refuses every update of it.                 *)
WriteBackAccepted ==
    ~(upgraded /\ kind = "AzureCluster") => \A obj \in Range(stored) :
        /\ Accepts4(obj, stored) /\ SameObject(SchemaDefault(Admitted4(obj)), obj)
        /\ LossyRoundTrip(obj)
              \/ /\ Accepts3(ConvertFrom(obj), stored)
                 /\ SameObject(SchemaDefault(Admitted3(ConvertFrom(obj))), obj)

(* What v1alpha3 cannot express.                                           *)
HubOnly(obj) ==
    CASE kind = "AzureCluster" ->
             LET network == obj.Spec.NetworkSpec
             IN  <<obj.Spec.AzureEnvironment, obj.Spec.BastionSpec,
                   obj.Spec.CloudProviderConfigOverrides, network.NodeOutboundLB,
                   network.PrivateDNSZoneName, network.APIServerLB.FrontendIPsCount,
                   network.APIServerLB.IdleTimeoutInMinutes>>
      [] kind = "AzureMachinePool" -> <<obj.Spec.Strategy, obj.Status.Image>>
      [] kind = "AzureManagedControlPlane" -> <<obj.Spec.IdentityRef>>
      [] kind = "AzureClusterIdentity" ->
             LET allowed == obj.Spec.AllowedNamespaces
             IN  IF allowed = <<>> THEN <<>> ELSE <<allowed[1].Selector>>
      [] OTHER -> <<>>

OutboundRules(obj, name) ==
    IF kind # "AzureCluster" THEN {}
    ELSE {r \in UNION {Range(s.SecurityGroup.SecurityRules) : s \in {t \in Range(obj.Spec.NetworkSpec.Subnets) : t.Name = name}} :
             r.Direction = "Outbound"}
SubnetNames(obj) ==
    IF kind # "AzureCluster" THEN {} ELSE {s.Name : s \in Range(obj.Spec.NetworkSpec.Subnets)}

(* The selector of an identity survives only beside a list of namespaces.  *)
DropsSelector(written) == kind = "AzureClusterIdentity" /\ written.Spec.AllowedNamespaces = <<>>

KeepsHubData ==
    last'.op = "update3" /\ ~DropsSelector(last'.object[1]) =>
        /\ HubOnly(stored'[1]) = HubOnly(stored[1])
        /\ \A name \in SubnetNames(stored'[1]) \cap SubnetNames(stored[1]) :
               OutboundRules(stored'[1], name) = OutboundRules(stored[1], name)

(* What only v1alpha4 can say outlives the writes of v1alpha3 clients: the *)
(* bastion, the outbound load balancer, the DNS zone, the rolling update   *)
(* strategy, the identity reference, the selector of an identity's         *)
(* namespaces and the outbound rules of every subnet that keeps its name   *)
(* stay as they were.  One write is excepted because it does destroy: of   *)
(* an AzureClusterIdentity with an empty list of namespaces, next to which *)
(* ConvertTo restores no selector.                                         *)
HubDataKept == [][KeepsHubData]_vars

(* A v1alpha3 specification without the fields that the hub does not have, *)
(* which the conversion drops whatever they hold.                          *)
SpokenMachine(spec) ==
    [spec EXCEPT !.Location = "", !.AvailabilityZone = [ID |-> <<>>, Enabled |-> <<>>]]
Spoken(spec) ==
    CASE kind = "AzureCluster" ->
             [spec EXCEPT
                 !.NetworkSpec.Vnet.CidrBlock = "",
                 !.NetworkSpec.Subnets =
                     Each(LAMBDA s : [s EXCEPT !.CidrBlock = "", !.InternalLBIPAddress = ""], @)]
      [] kind = "AzureMachine" -> SpokenMachine(spec)
      [] kind = "AzureMachineTemplate" -> [spec EXCEPT !.Template.Spec = SpokenMachine(@)]
      [] OTHER -> spec

(* The fields that the defaults complete in what a v1alpha3 client wrote.  *)
Completed3(obj) ==
    LET hub == ConvertTo(obj) IN {f \in DOMAIN hub.Spec : Default(hub).Spec[f] # hub.Spec[f]}

(* The namespaces of an identity that comes without the hub copy, which    *)
(* ConvertTo leaves before it copies them.                                 *)
Lost3(obj) ==
    IF kind = "AzureClusterIdentity" /\ obj.data = <<>> THEN {"AllowedNamespaces"} ELSE {}

(* What a v1alpha3 client wrote, at the creation or in an update, is what  *)
(* it reads back, unless the defaults completed the field: neither the     *)
(* conversions nor the hub copy that travels with the object undo or alter *)
(* an accepted write.  Two losses of the code are excepted: the namespaces *)
(* of an AzureClusterIdentity that v1alpha3 creates, and the deprecated    *)
(* fields without a counterpart in v1alpha4 (CidrBlock, and                *)
(* InternalLBIPAddress of a cluster's network, Location and                *)
(* AvailabilityZone of a machine).                                         *)
EditsTakeEffect ==
    last.op \in {"create3", "update3"} /\ last.accepted =>
        LET written == last.object[1]
        IN  \A f \in DOMAIN written.Spec \ (Completed3(written) \cup Lost3(written)) :
                Spoken(ConvertFrom(stored[1]).Spec)[f] = Spoken(written.Spec)[f]

(* The fields of both versions that an update left as its client had read  *)
(* them.                                                                   *)
Untouched(read, written) ==
    {f \in DOMAIN written.Spec \cap DOMAIN stored[1].Spec : written.Spec[f] = read.Spec[f]}

KeepsUntouched ==
    stored # <<>> /\ version' # version =>
        LET byV3 == last'.op = "update3"
            read == IF byV3 THEN held[1].object ELSE stored[1]
        IN  \/ byV3 /\ LossyRoundTrip(stored[1])
            \/ \A f \in Untouched(read, last'.object[1]) :
                   Unordered(stored'[1].Spec)[f] = Unordered(stored[1].Spec)[f]

(* An accepted update changes only what its client changed: a field of the *)
(* specification that a client of either version writes as it read it is   *)
(* stored as it was.  No key, GUID or name is drawn a second time for a    *)
(* client that left it alone, and neither the defaults nor the conversions *)
(* nor the hub copy let an edit of one field reach another.  A key that a  *)
(* client blanks is its own edit: AzureMachinePool's is then generated     *)
(* again, and accepted.  Left out are the v1alpha3 updates of objects      *)
(* whose round trip is known to lose something.                            *)
UntouchedKept == [][KeepsUntouched]_vars

(* The invariant of the stored object: a structure of its kind that can be *)
(* written back.                                                           *)
ObjectInv == TypeOK /\ WriteBackAccepted
=============================================================================
