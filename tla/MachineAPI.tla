----------------------------- MODULE MachineAPI -----------------------------
(***************************************************************************)
(* The AzureMachine, AzureMachineTemplate and AzureClusterIdentity kinds   *)
(* at the API server: conversion, defaults and validation.                 *)
(*                                                                         *)
(* fresh stands for what a defaulting webhook draws at random: the SSH key *)
(* or the GUID that it generates.                                          *)
(***************************************************************************)
EXTENDS ClusterAPI

CachingTypes == {"None", "ReadOnly", "ReadWrite"}
StorageAccountTypes == {"Standard_LRS", "Premium_LRS", "StandardSSD_LRS", "UltraSSD_LRS"}

ConvertTo_AzureMachine(src) ==
    LET spec == To4_AzureMachineSpec(src.Spec)
        Restored(s) == IF src.data = <<>> THEN s
                       ELSE [s EXCEPT !.OSDisk = RestoreManagedDisk(@, src.data[1].Spec.OSDisk)]
    IN  [name |-> src.name, Spec |-> Restored(spec),
         Status |-> Convert_AzureMachineStatus(src.Status)]

ConvertFrom_AzureMachine(src) ==
    [name |-> src.name, Spec |-> To3_AzureMachineSpec(src.Spec),
     Status |-> Convert_AzureMachineStatus(src.Status), env |-> "", data |-> <<src>>]

Convert_AzureMachineTemplateResource(converted) == [Spec |-> converted]

ConvertTo_AzureMachineTemplate(src) ==
    LET template == Convert_AzureMachineTemplateResource(To4_AzureMachineSpec(src.Spec.Template.Spec))
    IN  [name |-> src.name,
         Spec |-> [Template |->
             IF src.data = <<>> THEN template
             ELSE [template EXCEPT !.Spec.OSDisk =
                       RestoreManagedDisk(@, src.data[1].Spec.Template.Spec.OSDisk)]]]

ConvertFrom_AzureMachineTemplate(src) ==
    [name |-> src.name,
     Spec |-> [Template |->
         Convert_AzureMachineTemplateResource(To3_AzureMachineSpec(src.Spec.Template.Spec))],
     env |-> "", data |-> <<src>>]

-----------------------------------------------------------------------------
(* Defaults of a machine                                                   *)
SetDefaultSSHPublicKey(key, fresh) == OrElse(key, fresh)

SetDefaultCachingType(disk) == [disk EXCEPT !.CachingType = OrElse(@, "None")]

(* The disks without a LUN get, in order, the smallest numbers that no     *)
(* disk has.                                                               *)
SetDataDisksDefaults(disks) ==
    LET used == UNION {Range(d.Lun) : d \in Range(disks)}
        free == SetToSortSeq((0..Len(disks) - 1) \ used, LAMBDA a, b : a < b)
        Rank(i) == Cardinality({j \in 1..i : disks[j].Lun = <<>>})
    IN  [i \in DOMAIN disks |->
            [disks[i] EXCEPT !.Lun = IF @ = <<>> /\ Rank(i) <= Len(free) THEN <<free[Rank(i)]>> ELSE @,
                             !.CachingType = OrElse(@, "ReadWrite")]]

SetIdentityDefaults(spec, fresh) ==
    IF spec.Identity = "SystemAssigned" THEN OrElse(spec.RoleAssignmentName, fresh)
    ELSE spec.RoleAssignmentName

Default_AzureMachine(m, fresh) ==
    [m EXCEPT !.Spec.SSHPublicKey = SetDefaultSSHPublicKey(@, fresh),
              !.Spec.OSDisk = SetDefaultCachingType(@),
              !.Spec.DataDisks = SetDataDisksDefaults(@),
              !.Spec.RoleAssignmentName = SetIdentityDefaults(m.Spec, fresh)]

-----------------------------------------------------------------------------
(* Validation of a machine                                                 *)
ValidateSSHKey(key) == WellFormed(key)

ValidateSystemAssignedIdentity(identity, old, new) ==
    IF identity = "SystemAssigned" THEN WellFormed(new) /\ old \in {"", new} ELSE new = ""

ValidateUserAssignedIdentity(identity, identities) ==
    identity = "UserAssigned" => identities # <<>>

validateStorageAccountType(type, isOSDisk) ==
    type \in StorageAccountTypes /\ ~(isOSDisk /\ type = "UltraSSD_LRS")

ValidateDataDisks(disks) ==
    /\ \A d \in Range(disks) :
           /\ 4 <= d.DiskSizeGB /\ d.DiskSizeGB <= 32767
           /\ d.NameSuffix # ""
           /\ \A m \in Range(d.ManagedDisk) : validateStorageAccountType(m.StorageAccountType, FALSE)
           /\ d.Lun # <<>> /\ d.Lun[1] \in 0..63
           /\ d.CachingType \in CachingTypes
    /\ \A i, j \in DOMAIN disks :
           disks[i].NameSuffix = disks[j].NameSuffix \/ disks[i].Lun = disks[j].Lun => i = j

ValidateOSDisk(disk) ==
    /\ \A size \in Range(disk.DiskSizeGB) : 1 <= size /\ size <= 2048
    /\ disk.OSType # ""
    /\ disk.CachingType \in CachingTypes
    /\ \A m \in Range(disk.ManagedDisk) :
           /\ validateStorageAccountType(m.StorageAccountType, TRUE)
           /\ disk.DiffDiskSettings # <<>> => m.DiskEncryptionSet = <<>>

validateSingleDetailsOnly(image) ==
    Len(image.ID) + Len(image.Marketplace) + Len(image.SharedGallery) = 1

validateSharedGalleryImage(g) ==
    \A f \in {"SubscriptionID", "ResourceGroup", "Gallery", "Name", "Version"} : g[f] # ""

validateMarketplaceImage(m) == \A f \in {"Publisher", "Offer", "SKU", "Version"} : m[f] # ""

ValidateImage(images) ==
    \A image \in Range(images) :
        /\ validateSingleDetailsOnly(image)
        /\ \A m \in Range(image.Marketplace) : validateMarketplaceImage(m)
        /\ \A g \in Range(image.SharedGallery) : validateSharedGalleryImage(g)
        /\ image.ID # <<"">>

ValidateCreate_AzureMachine(m) ==
    /\ ValidateImage(m.Spec.Image)
    /\ ValidateOSDisk(m.Spec.OSDisk)
    /\ ValidateSSHKey(m.Spec.SSHPublicKey)
    /\ ValidateSystemAssignedIdentity(m.Spec.Identity, "", m.Spec.RoleAssignmentName)
    /\ ValidateUserAssignedIdentity(m.Spec.Identity, m.Spec.UserAssignedIdentities)
    /\ ValidateDataDisks(m.Spec.DataDisks)

ImmutableMachineSpec ==
    {"Image", "Identity", "UserAssignedIdentities", "RoleAssignmentName", "OSDisk", "DataDisks",
     "SSHPublicKey", "AllocatePublicIP", "EnableIPForwarding", "AcceleratedNetworking",
     "SpotVMOptions", "SecurityProfile"}

ValidateUpdate_AzureMachine(m, old) == \A f \in ImmutableMachineSpec : m.Spec[f] = old.Spec[f]

ValidateUpdate_AzureMachineTemplate(t, old) == t.Spec.Template.Spec = old.Spec.Template.Spec

-----------------------------------------------------------------------------
(* AzureClusterIdentity has no webhook.  Its allowed namespaces cross the  *)
(* versions only together with the annotation, and the selector only       *)
(* together with a list; a list over a hub copy without allowed namespaces *)
(* dereferences nil, which fails the request.                              *)
CanConvert_AzureClusterIdentity(src) ==
    src.data # <<>> /\ src.Spec.AllowedNamespaces # <<>> =>
        src.data[1].Spec.AllowedNamespaces # <<>>

ConvertTo_AzureClusterIdentity(src) ==
    LET spec == To4_AzureClusterIdentitySpec(src.Spec)
        allowed == IF src.data = <<>> \/ src.Spec.AllowedNamespaces = <<>> THEN <<>>
                   ELSE <<[NamespaceList |-> src.Spec.AllowedNamespaces,
                           Selector |-> src.data[1].Spec.AllowedNamespaces[1].Selector]>>
    IN  [name |-> src.name, Spec |-> [spec EXCEPT !.AllowedNamespaces = allowed],
         Status |-> Copy(src.Status, {"Conditions"})]

ConvertFrom_AzureClusterIdentity(src) ==
    LET allowed == src.Spec.AllowedNamespaces
    IN  [name |-> src.name,
         Spec |-> [To3_AzureClusterIdentitySpec(src.Spec) EXCEPT !.AllowedNamespaces =
                       IF allowed = <<>> THEN <<>> ELSE allowed[1].NamespaceList],
         Status |-> Copy(src.Status, {"Conditions"}), env |-> "", data |-> <<src>>]
=============================================================================
