---- MODULE MCCredentials ----
(***************************************************************************)
(* What machines get from the management cluster: identities, azure.json   *)
(* secrets and tags.  Each initial state is one setup; in the setup of the *)
(* tags there is nothing else, and in the others there are no tags.        *)
(***************************************************************************)
EXTENDS AzureJSON, Tags, TLC

CONSTANTS c1, c2, i1, i2, machine, template, pool

MCOwners == {c1, c2}
MCNameOf == c1 :> <<"a">> @@ c2 :> <<"b", "x">>
MCNamespaceOf == [o \in MCOwners |-> <<"n">>]
MCOwnerKind == c1 :> "AzureCluster" @@ c2 :> "AzureManagedControlPlane"
MCIds == {i1, i2}
MCAllowed == i1 :> <<[list |-> {}, selector |-> <<>>]>>
          @@ i2 :> <<[list |-> {<<"m">>}, selector |-> <<{<<"n">>}>>]>>
MCTypeOf == i1 :> "ServicePrincipal" @@ i2 :> "UserAssignedMSI"
MCObjects == {machine, template, pool}
MCCallers == MCOwners \cup MCObjects
MCOwnerOf == [p \in MCCallers |-> IF p = c2 THEN c2 ELSE c1]
MCKindOf == machine :> "AzureMachine" @@ template :> "AzureMachineTemplate" @@ pool :> "AzureMachinePool"
\* The template and the pool have the same name.
MCSecretOf == machine :> "s1" @@ template :> "s2" @@ pool :> "s2"

NoTags == [t \in {} |-> 0]

Object(live, identity, userIdentities, cloned) ==
    [live |-> live, uid |-> 0, identity |-> identity, userIdentities |-> userIdentities, cloned |-> cloned]
Absent == Object(FALSE, "None", <<>>, FALSE)

Setup(owned, ref1, ref2, objs, events0, edits0) ==
    /\ owners = c1 :> [live |-> owned, ref |-> ref1, config |-> 0]
             @@ c2 :> [live |-> owned /\ ref2 # None, ref |-> ref2, config |-> 0]
    /\ objects = machine :> objs[1] @@ template :> objs[2] @@ pool :> objs[3]
    /\ pending = {o \in {c1} : owned}
    /\ events = events0 /\ edits = edits0

MCInit ==
    /\ \/ \* two clusters that use the same identity
          /\ Setup(TRUE, i1, i1, <<Absent, Absent, Absent>>, MaxEvents - 1, MaxEdits)
          /\ additional = NoTags
       \/ \* the identity of the cluster and a machine that depends on it
          /\ Setup(TRUE, i1, None, <<Object(TRUE, "UserAssigned", <<"u">>, FALSE), Absent, Absent>>, 0, MaxEdits)
          /\ additional = NoTags
       \/ \* secrets that are shared, by objects that need the same data
          /\ Setup(TRUE, None, None, <<Object(TRUE, "SystemAssigned", <<>>, TRUE),
                                       Object(TRUE, "SystemAssigned", <<>>, FALSE),
                                       Object(TRUE, "SystemAssigned", <<>>, FALSE)>>, 0, MaxEdits)
          /\ additional = NoTags
       \/ \* a pool without the identity it needs
          /\ Setup(TRUE, None, None, <<Absent, Absent, Object(TRUE, "UserAssigned", <<"u">>, FALSE)>>, 0, MaxEdits)
          /\ additional = NoTags
       \/ \* tags
          /\ Setup(FALSE, None, None, <<Absent, Absent, Absent>>, MaxEvents, 0)
          /\ additional \in {NoTags, [t \in {"x"} |-> 1]}
    /\ Init /\ TagsInit(additional)

\* A resynchronisation has nothing to do without a binding, and comes when other
\* requests have ended; without an object nobody looks at its secret.
Useful ==
    /\ pending' # pending /\ work' = work /\ events' = events /\ pending \subseteq pending'
           => bindings # {} /\ pending = {} /\ \A o \in Owners : work[o] = NoWork
    /\ secrets' # secrets => \E x \in Objects : objects[x].live \/ objects[x].uid > 0

MCNext == (Next /\ Useful /\ UNCHANGED tagVars) \/ (TagsNext /\ UNCHANGED vars)

MCSpec ==
    /\ MCInit
    /\ [][MCNext]_<<vars, tagVars>>
    /\ Fairness
    /\ WF_tagVars(ReconcileTags)
====
