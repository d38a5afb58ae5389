---- MODULE Tags ----
(***************************************************************************)
(* The tags service of an AzureMachine: the additional tags of the machine *)
(* are applied to its VM, and what was applied last is remembered in an    *)
(* annotation, so that tags that others have put on the VM are kept and    *)
(* tags that the user removed from the machine are removed from the VM.    *)
(***************************************************************************)
EXTENDS Integers, Functions

CONSTANTS
    TagNames,    \* names of additional tags
    TagValues,
    ForeignTags, \* names of the tags that others put on the VM
    MaxEdits     \* bound on edits of users and others, and on faults

ASSUME TagsAssumption == TagNames \cap ForeignTags = {} /\ MaxEdits \in Nat

VARIABLES
    additional, \* AdditionalTags of the machine
    annotation, \* the annotation that was saved
    vm,         \* the tags of the VM
    tagPC,
    read,       \* the tags that the service has read
    unsaved,    \* names of tags that were put or deleted, but not so in the annotation
    edits

tagVars == <<additional, annotation, vm, tagPC, read, unsaved, edits>>

C == INSTANCE Clients

TagMaps == UNION {[names -> TagValues] : names \in SUBSET TagNames}

\* The functions f and g together; f where both are defined.
Over(f, g) == [t \in DOMAIN f \cup DOMAIN g |-> IF t \in DOMAIN f THEN f[t] ELSE g[t]]

tagsChanged(old, src) ==
    LET created == Restrict(src, {t \in DOMAIN src : t \in DOMAIN old => src[t] # old[t]})
        deleted == DOMAIN old \ DOMAIN src
    IN [changed |-> DOMAIN created # {} \/ deleted # {}, created |-> created,
        deleted |-> deleted, newAnnotation |-> src]

----------------------------------------------------------------------------

TagsInit(tags) ==
    /\ additional = tags /\ vm = tags
    /\ annotation = [t \in {} |-> 0]
    /\ tagPC = "idle" /\ read = [t \in {} |-> 0]
    /\ unsaved = DOMAIN tags
    /\ edits \in 0..MaxEdits

Edit == edits < MaxEdits /\ edits' = edits + 1

\* A reconciliation works with the machine as it was when it started.
EditTags(tags) ==
    /\ Edit
    /\ tagPC = "idle" /\ additional' = tags
    /\ UNCHANGED <<annotation, vm, tagPC, read, unsaved>>

ForeignTag(t, v) ==
    /\ Edit
    /\ vm' = Over([n \in {t} |-> v], vm)
    /\ UNCHANGED <<additional, annotation, tagPC, read, unsaved>>

\* Reconcile, up to GetAtScope.
GetAtScope ==
    /\ tagPC = "idle"
    /\ tagsChanged(annotation, additional).changed
    /\ read' = vm
    /\ tagPC' = "put"
    /\ UNCHANGED <<additional, annotation, vm, unsaved, edits>>

\* Slip: the tags that were read are not put back.
CreateOrUpdateAtScopeOwn ==
    /\ tagPC = "put"
    /\ LET change == tagsChanged(annotation, additional)
       IN /\ vm' = additional
          /\ unsaved' = unsaved \cup DOMAIN change.created \cup change.deleted
    /\ tagPC' = "close"
    /\ UNCHANGED <<additional, annotation, read, edits>>

\* The PUT replaces all tags of the VM.
CreateOrUpdateAtScope ==
    /\ tagPC = "put"
    /\ LET change == tagsChanged(annotation, additional)
           tags == Over(change.created, read)
       IN /\ vm' = Restrict(tags, DOMAIN tags \ change.deleted)
          /\ unsaved' = unsaved \cup DOMAIN change.created \cup change.deleted
    /\ C!Effective(C!tags.CreateOrUpdateAtScope)
    /\ tagPC' = "close"
    /\ UNCHANGED <<additional, annotation, read, edits>>

\* UpdateAnnotationJSON, and the patch of the machine when its scope is closed.
UpdateAnnotationJSON ==
    /\ tagPC = "close"
    /\ LET change == tagsChanged(annotation, additional)
       IN /\ annotation' = change.newAnnotation
          /\ unsaved' = unsaved \ (DOMAIN change.created \cup change.deleted)
    /\ tagPC' = "idle" /\ read' = [t \in {} |-> 0]
    /\ UNCHANGED <<additional, vm, edits>>

\* A call or the patch fails, or the manager restarts: the annotation is not saved.
TagsInterrupted ==
    /\ Edit
    /\ tagPC # "idle"
    /\ tagPC' = "idle" /\ read' = [t \in {} |-> 0]
    /\ UNCHANGED <<additional, annotation, vm, unsaved>>

ReconcileTags == GetAtScope \/ CreateOrUpdateAtScope \/ UpdateAnnotationJSON

TagsNext ==
    \/ ReconcileTags \/ TagsInterrupted
    \/ \E tags \in TagMaps : tags # additional /\ EditTags(tags)
    \/ \E t \in ForeignTags, v \in TagValues : ForeignTag(t, v)

TagsSpec ==
    /\ \E tags \in TagMaps : TagsInit(tags)
    /\ [][TagsNext]_tagVars /\ WF_tagVars(ReconcileTags)

\* In the end the additional tags of the machine are on the VM with their
\* values, and those removed from the machine are not, but for tags whose last
\* change on the VM never got into the annotation (tags.go, Reconcile).
TagsConverge ==
    <>[](\A t \in TagNames \ unsaved :
            IF t \in DOMAIN additional THEN t \in DOMAIN vm /\ vm[t] = additional[t]
            ELSE t \notin DOMAIN vm)

\* A tag that others put on the VM is lost only to the PUT of a reconciliation
\* that has read the tags before it was put there.
ForeignTagsKept ==
    [][\A t \in ForeignTags \cap DOMAIN vm :
          (t \notin DOMAIN vm' \/ vm'[t] # vm[t]) => \/ edits' # edits
                                                     \/ t \notin DOMAIN read \/ read[t] # vm[t]]_tagVars

\* The tags of the machine converge, and those of others are kept.
TagsMerged == TagsConverge /\ ForeignTagsKept
====
