SPECIFICATION Spec
CONSTANTS
    KindsChecked <- AllKinds
    Manifests3 <- AllManifests3
    Manifests4 <- AllManifests4
    Edited3 <- AllEdited3
    Edited4 <- AllEdited4
    Generated <- Drawn
    IllFormed = {"bad"}
    MaxWrites = 2
INVARIANTS ObjectInv EditsTakeEffect
PROPERTIES HubDataKept UntouchedKept
CHECK_DEADLOCK FALSE
