---- MODULE ResourceSKUs ----
(***************************************************************************)
(* What azure/services/resourceskus knows of a location: the list of SKUs  *)
(* that the compute API returned, and what the services ask it.            *)
(***************************************************************************)
EXTENDS Integers, Sequences, SequencesExt

CONSTANTS SkuNames, Zones

\* A numeric capability that is not a number fails to parse.
Unparsable == -1

\* One SKU of the location.  Capabilities maps a name to its value, and a
\* location restriction withdraws every zone, other ones the zones they name.
SKUs == [name: SkuNames,
         type: {"virtualMachines", "availabilitySets", "disks"},
         zones: SUBSET Zones,
         restrictions: Seq([type: {"Location", "Zone"}, zones: SUBSET Zones]),
         supported: SUBSET {"EphemeralOSDisk", "AcceleratedNetworking", "EncryptionAtHost"},
         vCPUs: Int,
         memory: Int,
         faultDomains: BOOLEAN]

MinimumVCPUS == 2
MinimumMemory == 2

NotFound == [name |-> "notFound"]

\* Cache.Get returns the first SKU of that name; its kind is not compared.
Get(data, name) ==
    LET found == SelectSeq(data, LAMBDA sku : sku.name = name)
    IN IF found = <<>> THEN NotFound ELSE Head(found)

HasCapability(sku, name) == name \in sku.supported

\* "yes", "no" or an error.
HasCapabilityWithCapacity(capacity, minimum) ==
    IF capacity = Unparsable THEN "error" ELSE IF capacity >= minimum THEN "yes" ELSE "no"

GetCapability(sku) == sku.faultDomains

\* The zones of one SKU that no restriction withdraws.
AvailableZones(sku) ==
    IF \E i \in DOMAIN sku.restrictions : sku.restrictions[i].type = "Location"
    THEN {}
    ELSE sku.zones \ UNION {sku.restrictions[i].zones : i \in DOMAIN sku.restrictions}

VirtualMachineSKUs(data) == {sku \in ToSet(data) : sku.type = "virtualMachines"}

\* Zones into which some size may deploy.
GetZones(data) == UNION {AvailableZones(sku) : sku \in VirtualMachineSKUs(data)}

\* Zones into which this size may deploy.
GetZonesWithVMSize(data, size) ==
    UNION {AvailableZones(sku) : sku \in {s \in VirtualMachineSKUs(data) : s.name = size}}
====
