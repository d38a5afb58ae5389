---- MODULE MachineScope ----
(***************************************************************************)
(* What the scope of an AzureMachine derives from the objects: which       *)
(* resources a machine has, in which order the services handle them, and   *)
(* whether its virtual machine can be described at all.                    *)
(***************************************************************************)
EXTENDS ResourceSKUs

CONSTANT Catalog \* the SKUs of each location

ASSUME CatalogAssumption == \A l \in DOMAIN Catalog : Catalog[l] \in Seq(SKUs)

\* The part of Machine, AzureMachine and AzureCluster that decides.
\* image: Image of the spec, or the default one of the version.
MachineConfigs ==
    [controlPlane: BOOLEAN, deployment: BOOLEAN, privateAPI: BOOLEAN, publicIP: BOOLEAN,
     ownedGroup: BOOLEAN, dataDisk: BOOLEAN, systemIdentity: BOOLEAN,
     bootstrapExtension: BOOLEAN, size: SkuNames, accelerated: {"unset", "set"}, ephemeral: BOOLEAN,
     encryption: BOOLEAN, image: {"valid", "invalid"},
     location: DOMAIN Catalog]

NatRule == "nat"

PublicIPSpecs(c) == IF c.publicIP THEN {"ip"} ELSE {}

InboundNatSpecs(c) == IF c.controlPlane THEN {NatRule} ELSE {}

NICSpecs(c) == {"nic"} \cup (IF c.publicIP THEN {"publicNic"} ELSE {})

\* What an interface refers to: the rule of a public API server, the address.
NICRefers(c, nic) ==
    IF nic = "publicNic" THEN {"ip"}
    ELSE IF c.controlPlane /\ ~c.privateAPI THEN {NatRule} ELSE {}

DiskSpecs(c) == {"osDisk"} \cup (IF c.dataDisk THEN {"dataDisk"} ELSE {})

RoleAssignmentSpecs(c) == IF c.systemIdentity THEN {"role"} ELSE {}

VMExtensionSpecs(c) == IF c.bootstrapExtension THEN {"extension"} ELSE {}

\* A location without zones has availability sets, one for the control plane
\* and one for each machine deployment.
AvailabilitySetEnabled(c) == GetZones(Catalog[c.location]) = {}

AvailabilitySet(c) ==
    IF ~AvailabilitySetEnabled(c) THEN "none"
    ELSE IF c.controlPlane THEN "controlPlane"
    ELSE IF c.deployment THEN "deployment"
    ELSE "none"

When(b, s) == IF b THEN s ELSE <<>>

\* The services of azureMachineService.Reconcile that have something to do.
ReconcileSteps(c) ==
    <<"register">>
        \o When(PublicIPSpecs(c) # {}, <<"publicIPs">>)
        \o When(InboundNatSpecs(c) # {}, <<"readRules", "putRule">>)
        \o <<"networkInterfaces">>
        \o When(AvailabilitySet(c) # "none", <<"availabilitySets">>)
        \o <<"virtualMachines">>
        \o When(RoleAssignmentSpecs(c) # {}, <<"roleAssignments">>)
        \o When(VMExtensionSpecs(c) # {}, <<"vmExtensions">>)
        \o <<"ready">>

\* Slip: the availability set is looked at before the machine has left it.
DeleteStepsSwapped(c) ==
    When(AvailabilitySet(c) # "none", <<"readSet", "deleteSet">>)
        \o <<"deleteVM", "deleteNICs">>
        \o When(InboundNatSpecs(c) # {}, <<"deleteRule">>)
        \o When(PublicIPSpecs(c) # {}, <<"deleteIP">>)
        \o <<"deleteDisks">>
        \o <<"release">>

\* Slip: the interfaces before the machine that uses them.
DeleteStepsInterfacesFirst(c) ==
    <<"deleteNICs", "deleteVM">>
        \o When(InboundNatSpecs(c) # {}, <<"deleteRule">>)
        \o When(PublicIPSpecs(c) # {}, <<"deleteIP">>)
        \o <<"deleteDisks">>
        \o When(AvailabilitySet(c) # "none", <<"readSet", "deleteSet">>)
        \o <<"release">>

\* The services of azureMachineService.Delete that have something to do.
DeleteSteps(c) ==
    <<"deleteVM", "deleteNICs">>
        \o When(InboundNatSpecs(c) # {}, <<"deleteRule">>)
        \o When(PublicIPSpecs(c) # {}, <<"deleteIP">>)
        \o <<"deleteDisks">>
        \o When(AvailabilitySet(c) # "none", <<"readSet", "deleteSet">>)
        \o <<"release">>

\* The step after step s of a sequence of different steps.
After(steps, s) == steps[1 + CHOOSE i \in DOMAIN steps : steps[i] = s]

\* generateStorageProfile: a size that is too small, or without ephemeral disks
\* where one is wanted, can never work; an image that cannot be converted may be
\* corrected.
StorageProfile(c, sku) ==
    IF HasCapabilityWithCapacity(sku.vCPUs, MinimumVCPUS) # "yes" THEN "terminal"
    ELSE IF HasCapabilityWithCapacity(sku.memory, MinimumMemory) # "yes" THEN "terminal"
    ELSE IF c.ephemeral /\ ~HasCapability(sku, "EphemeralOSDisk") THEN "terminal"
    ELSE IF c.image = "invalid" THEN "error"
    ELSE "ok"

\* getSecurityProfile
SecurityProfile(c, sku) ==
    IF c.encryption /\ ~HasCapability(sku, "EncryptionAtHost") THEN "terminal" ELSE "ok"

\* Whether Reconcile of virtualmachines can describe the machine.
VMProfile(c) ==
    LET sku == Get(Catalog[c.location], c.size)
    IN IF sku = NotFound THEN "terminal"
       ELSE IF StorageProfile(c, sku) # "ok" THEN StorageProfile(c, sku)
       ELSE SecurityProfile(c, sku)

\* Whether Reconcile of networkinterfaces knows the networking capability.
NICProfile(c) ==
    IF c.accelerated = "unset" /\ Get(Catalog[c.location], c.size) = NotFound THEN "terminal" ELSE "ok"

\* Whether Reconcile of availabilitysets knows the number of fault domains.
SetProfile(c) ==
    LET sku == Get(Catalog[c.location], "Aligned")
    IN IF sku = NotFound THEN "error" ELSE IF GetCapability(sku) THEN "ok" ELSE "error"
====
