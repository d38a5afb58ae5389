---- MODULE MCAzureMachine ----
(***************************************************************************)
(* Two machines: control planes or workers of a location without zones,    *)
(* and one machine of each other kind.                                     *)
(***************************************************************************)
EXTENDS AzureMachine

CONSTANTS m1, m2

VMSku == [name |-> "D2", type |-> "virtualMachines", zones |-> {"1", "2"},
          restrictions |-> <<[type |-> "Zone", zones |-> {"1"}]>>,
          supported |-> {"AcceleratedNetworking", "EphemeralOSDisk"},
          vCPUs |-> 2, memory |-> 8, faultDomains |-> FALSE]

SmallSku == [VMSku EXCEPT !.name = "B1", !.vCPUs = 1]

OddSku == [VMSku EXCEPT !.name = "Odd", !.memory = Unparsable]

SetSku == [VMSku EXCEPT !.name = "Aligned", !.type = "availabilitySets", !.faultDomains = TRUE]

\* Locations with zones, without them, and with odd entries.
Zonal == <<SetSku, SmallSku, VMSku, OddSku>>

Withdrawn(skus0) ==
    [i \in DOMAIN skus0 |->
        [skus0[i] EXCEPT !.restrictions = @ \o <<[type |-> "Location", zones |-> {}]>>]]

AllLocations ==
    [zonal |-> Zonal,
     zoneless |-> Withdrawn(Zonal),
     setless |-> Withdrawn(Tail(Zonal)),
     domainless |-> Withdrawn([Zonal EXCEPT ![1].faultDomains = FALSE])]

ControlPlane ==
    [controlPlane |-> TRUE, deployment |-> FALSE, privateAPI |-> FALSE, publicIP |-> FALSE,
     ownedGroup |-> FALSE, dataDisk |-> FALSE, systemIdentity |-> FALSE,
     bootstrapExtension |-> FALSE, size |-> "D2", accelerated |-> "unset", ephemeral |-> FALSE,
     encryption |-> FALSE, image |-> "valid", location |-> "zoneless"]

Worker ==
    [ControlPlane EXCEPT !.controlPlane = FALSE, !.deployment = TRUE]

Rich ==
    [ControlPlane EXCEPT !.publicIP = TRUE, !.dataDisk = TRUE, !.systemIdentity = TRUE,
                         !.bootstrapExtension = TRUE, !.location = "zonal"]

\* One machine of each other kind.
Kinds ==
    {Rich, [Rich EXCEPT !.controlPlane = FALSE, !.ownedGroup = TRUE],
     [Worker EXCEPT !.size = "B1"], [Worker EXCEPT !.size = "none"],
     [Worker EXCEPT !.size = "none", !.accelerated = "set"],
     [Worker EXCEPT !.size = "Odd"], [Worker EXCEPT !.encryption = TRUE],
     [Worker EXCEPT !.image = "invalid"], [ControlPlane EXCEPT !.privateAPI = TRUE],
     [Worker EXCEPT !.location = "setless"], [Worker EXCEPT !.location = "domainless"],
     [Worker EXCEPT !.deployment = FALSE], [Worker EXCEPT !.ephemeral = TRUE]}

AllSetups ==
    {[m \in Machines |-> [ControlPlane EXCEPT !.accelerated = "set"]]} \cup {[m \in {m1} |-> c] : c \in Kinds}
====
