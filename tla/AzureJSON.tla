---- MODULE AzureJSON ----
(***************************************************************************)
(* The azure.json secrets: each AzureMachine that was not cloned from a    *)
(* template, each AzureMachineTemplate and each AzureMachinePool has a     *)
(* reconciler that keeps the cloud provider configuration of its nodes in  *)
(* a secret, unless the label of the cluster on the secret says that it is *)
(* the user's.                                                             *)
(***************************************************************************)
EXTENDS Identities

CONSTANTS
    Objects,    \* machines, templates and pools: the callers that are not owners
    KindOf,     \* the kind of each
    SecretOf,   \* the name of its secret, derived from its name only
    OwnerKind,  \* the kind of each owner
    UserIdentities \* the user-assigned identities that a machine may have

ASSUME ObjectsAssumption == Callers = Owners \cup Objects /\ Owners \cap Objects = {}

VARIABLES
    objects,  \* in the API server: live, uid, the VM's identity, clones
    secrets,  \* the secret of each name, <<>> if none
    stale     \* those with a copy of their secret that was written since

vars == <<identityVars, objects, secrets, stale>>
secretVars == <<objects, secrets, stale>>

Secrets == {SecretOf[x] : x \in Objects}

----------------------------------------------------------------------------
\* The content of a secret

\* Credentials are those of the environment; config stands for everything that
\* is read from the cluster's specification.
newCloudProviderConfig(config) ==
    [aad |-> TRUE, useManagedIdentityExtension |-> FALSE, userAssignedIdentityID |-> <<>>, config |-> config]

systemAssignedIdentityCloudProviderConfig(config) ==
    [newCloudProviderConfig(config) EXCEPT !.aad = FALSE, !.useManagedIdentityExtension = TRUE]

userAssignedIdentityCloudProviderConfig(config, id) ==
    [systemAssignedIdentityCloudProviderConfig(config) EXCEPT !.userAssignedIdentityID = id]

\* A pool's reconciler passes no user-assigned identity on.
UserIdentityID(x) ==
    IF KindOf[x] # "AzureMachinePool" /\ objects[x].userIdentities # <<>>
    THEN <<Head(objects[x].userIdentities)>> ELSE <<>>

\* The name of an object is what the name of its secret is made from.
Reference(x, uid) == [kind |-> KindOf[x], name |-> SecretOf[x], uid |-> uid]

\* <<>> for an error.
GetCloudProviderSecret(x, read) ==
    IF objects[x].identity = "UserAssigned" /\ UserIdentityID(x) = <<>> THEN <<>>
    ELSE <<[label |-> "owned", refs |-> {Reference(x, read.uid)},
            data |-> CASE objects[x].identity = "SystemAssigned" -> systemAssignedIdentityCloudProviderConfig(read.config)
                       [] objects[x].identity = "UserAssigned" -> userAssignedIdentityCloudProviderConfig(read.config, UserIdentityID(x))
                       [] objects[x].identity = "None" -> newCloudProviderConfig(read.config)]>>

\* The group, the kind and the name, not the UID.
referSameObject(a, b) == a.kind = b.kind /\ a.name = b.name

----------------------------------------------------------------------------
\* Users and the garbage collector

WriteSecret(n, s) ==
    /\ secrets' = [secrets EXCEPT ![n] = s]
    /\ stale' = {x \in Objects : pc'[x] = "update" /\ (x \in stale \/ SecretOf[x] = n)}

\* A user's secret has the label of the cluster with another value, or none.  A
\* user who takes over what a controller has created leaves the references there.
ProvideSecret(n, label) ==
    /\ Event({}) /\ UNCHANGED <<owners, ids, copies, bindings, pc, scope, work, objects>>
    /\ \E refs \in {{}} \cup {secrets[n][i].refs : i \in DOMAIN secrets[n]} :
           WriteSecret(n, <<[label |-> label, refs |-> refs,
                             data |-> [newCloudProviderConfig(0) EXCEPT !.aad = FALSE]]>>)

DeleteSecret(n) ==
    /\ secrets[n] # <<>>
    /\ Event({}) /\ UNCHANGED <<owners, ids, copies, bindings, pc, scope, work, objects>>
    /\ WriteSecret(n, <<>>)

DeleteObject(x) ==
    /\ objects[x].live
    /\ Event({})
    /\ objects' = [objects EXCEPT ![x].live = FALSE, ![x].uid = @ + 1]
    /\ UNCHANGED <<owners, ids, copies, bindings, pc, scope, work, secrets, stale>>

\* Under the same name, with another UID.
RecreateObject(x) ==
    /\ objects[x].live
    /\ Event({})
    /\ objects' = [objects EXCEPT ![x].uid = @ + 1]
    /\ UNCHANGED <<owners, ids, copies, bindings, pc, scope, work, secrets, stale>>

\* A secret with references, and none of them to an object that is there.
Orphaned(n) ==
    /\ secrets[n] # <<>> /\ secrets[n][1].refs # {}
    /\ ~\E x \in Objects : objects[x].live /\ Reference(x, objects[x].uid) \in secrets[n][1].refs

CollectSecret(n) ==
    /\ Orphaned(n)
    /\ UNCHANGED <<identityVars, objects>>
    /\ WriteSecret(n, <<>>)

----------------------------------------------------------------------------
\* The three reconcilers

\* Machines cloned from a template use the secret of the template.
filterUnclonedMachines(x) == KindOf[x] = "AzureMachine" => ~objects[x].cloned

StartSecret(x) ==
    /\ pc[x] = "idle" /\ objects[x].live
    /\ filterUnclonedMachines(x)
    /\ OwnerKind[OwnerOf[x]] = "AzureCluster"
    /\ Authorize(x, objects[x].uid)
    /\ UNCHANGED secretVars

\* Slip: data that differ are kept if the secret has its owner.
ReadSecretOwned(x) ==
    /\ pc[x] = "scope"
    /\ LET new == GetCloudProviderSecret(x, scope[x])
           old == secrets[SecretOf[x]]
       IN CASE new = <<>> -> Return(x)
            [] new # <<>> /\ old = <<>> -> Goto(x, "create")
            [] OTHER -> IF \/ old[1].label = "user"
                           \/ \E r \in old[1].refs : referSameObject(r, Reference(x, scope[x].uid))
                        THEN Return(x) ELSE Goto(x, "update")
    /\ UNCHANGED <<owners, ids, copies, bindings, pending, work, events, secretVars>>

\* reconcileAzureSecret, up to its write: an error or nothing to do end it.
ReadSecret(x) ==
    /\ pc[x] = "scope"
    /\ LET new == GetCloudProviderSecret(x, scope[x])
           old == secrets[SecretOf[x]]
       IN CASE new = <<>> -> Return(x)
            [] new # <<>> /\ old = <<>> -> Goto(x, "create")
            [] OTHER -> IF \/ old[1].label = "user"
                           \/ /\ \E r \in old[1].refs : referSameObject(r, Reference(x, scope[x].uid))
                              /\ old[1].data = new[1].data
                        THEN Return(x) ELSE Goto(x, "update")
    /\ UNCHANGED <<owners, ids, copies, bindings, pending, work, events, secretVars>>

\* A secret that exists by now is left as it is.
CreateSecret(x) ==
    /\ pc[x] = "create" /\ Return(x)
    /\ IF secrets[SecretOf[x]] = <<>>
       THEN WriteSecret(SecretOf[x], GetCloudProviderSecret(x, scope[x]))
       ELSE UNCHANGED <<secrets, stale>>
    /\ UNCHANGED <<owners, ids, copies, bindings, pending, work, events, objects>>

\* Slip: the secret is replaced, whatever it is by now.
UpdateSecretForced(x) ==
    /\ pc[x] = "update" /\ Return(x)
    /\ WriteSecret(SecretOf[x], GetCloudProviderSecret(x, scope[x]))
    /\ UNCHANGED <<owners, ids, copies, bindings, pending, work, events, objects>>

\* An update of a stale copy is a conflict, and an error.
UpdateSecret(x) ==
    /\ pc[x] = "update" /\ Return(x)
    /\ IF x \in stale THEN secrets' = secrets /\ stale' = stale \ {x}
       ELSE LET old == secrets[SecretOf[x]][1]
                hasOwner == \E r \in old.refs : referSameObject(r, Reference(x, scope[x].uid))
            IN WriteSecret(SecretOf[x],
                   <<[old EXCEPT !.refs = IF hasOwner THEN @ ELSE @ \cup {Reference(x, scope[x].uid)},
                                 !.data = GetCloudProviderSecret(x, scope[x])[1].data]>>)
    /\ UNCHANGED <<owners, ids, copies, bindings, pending, work, events, objects>>

----------------------------------------------------------------------------

\* The manager is about to start, with the objects that users have created.
Init ==
    /\ owners \in [Owners -> [live : BOOLEAN, ref : Ids \cup {None}, config : {0}]]
    /\ objects \in [Objects -> [live : BOOLEAN, uid : {0},
                               identity : {"None", "SystemAssigned", "UserAssigned"},
                               userIdentities : Seq(UserIdentities), cloned : BOOLEAN]]
    /\ ids = [id \in Ids |-> [live |-> TRUE, refs |-> {}]]
    /\ copies = {} /\ bindings = {}
    /\ pc = [p \in Callers |-> "idle"] /\ scope = [p \in Callers |-> NoScope]
    /\ pending \subseteq Owners
    /\ work = [o \in Owners |-> NoWork]
    /\ secrets = [n \in Secrets |-> <<>>] /\ stale = {}
    /\ events \in 0..MaxEvents

Secret(x) ==
    \/ StartSecret(x) \/ ReadSecret(x) \/ CreateSecret(x) \/ UpdateSecret(x)
    \/ CreateBinding(x) /\ UNCHANGED secretVars

Identity(o) == (Clean(o) \/ Scope(o)) /\ UNCHANGED secretVars

UserSecrets ==
    \/ \E n \in Secrets : DeleteSecret(n) \/ \E label \in {"user", "unlabelled"} : ProvideSecret(n, label)
    \/ \E x \in Objects : DeleteObject(x) \/ RecreateObject(x)

Next ==
    \/ (\E o \in Owners : Users(o) \/ Resync(o)) /\ UNCHANGED secretVars
    \/ Restart /\ stale' = {} /\ UNCHANGED <<objects, secrets>>
    \/ UserSecrets
    \/ \E id \in Ids : CollectIdentity(id) /\ UNCHANGED secretVars
    \/ \E n \in Secrets : CollectSecret(n)
    \/ \E o \in Owners : Identity(o)
    \/ \E x \in Objects : Secret(x)

\* Each controller gets to work on each of its objects, again and again: the
\* resynchronisation of the manager is a request for every one of them.
Fairness ==
    /\ \A o \in Owners : WF_vars(Scope(o) /\ UNCHANGED secretVars)
                         /\ WF_vars(Clean(o) /\ UNCHANGED secretVars)
    /\ \A x \in Objects : WF_vars(Secret(x))
    /\ \A n \in Secrets : WF_vars(CollectSecret(n))

Spec == Init /\ [][Next]_vars /\ Fairness

\* Fields, and that a secret with a managed identity of the user names it.
TypeOK ==
    /\ IdentityTypeOK
    /\ pc \in [Callers -> {"idle", "authorize", "bind", "scope", "create", "update"}]
    /\ stale \subseteq Objects
    /\ \A x \in Objects : objects[x].uid \in 0..MaxEvents
    /\ \A n \in Secrets : \A i \in DOMAIN secrets[n] :
          LET s == secrets[n][i]
          IN /\ s.refs \subseteq {Reference(x, uid) : x \in {y \in Objects : SecretOf[y] = n}, uid \in 0..MaxEvents}
             /\ s.data.useManagedIdentityExtension /\ s.data.userAssignedIdentityID = <<>>
                   => \E x \in Objects : SecretOf[x] = n /\ objects[x].identity = "SystemAssigned"

\* A secret with the label of the cluster and a value that is not "owned" is
\* changed by the user only, even if it appears or is labelled while a
\* reconciler is between its read and its write (helpers.go, reconcileAzureSecret).
\* One that was a controller's and still refers to its object goes with that.
LabelledSecretKept ==
    [][\A n \in Secrets : secrets[n] # <<>> /\ secrets'[n] # secrets[n] /\ secrets[n][1].label = "user"
           => events' # events \/ (secrets'[n] = <<>> /\ Orphaned(n))]_vars

\* The secret of an object of a cluster with credentials is, in the end, the
\* user's or has the configuration the cluster asks for: no order of creations,
\* conflicts, collections and identities loses it for good.  The exception is
\* the pool with a user-assigned identity, which has no secret.
SecretsServed ==
    LET Served(x) ==
            LET o == OwnerOf[x]
            IN /\ objects[x].live /\ filterUnclonedMachines(x)
               /\ owners[o].live /\ OwnerKind[o] = "AzureCluster"
               /\ owners[o].ref = None \/ HasProvider(o)
               /\ GetCloudProviderSecret(x, scope[x]) # <<>>
    IN <>[](\A x \in Objects : Served(x) =>
               /\ secrets[SecretOf[x]] # <<>>
               /\ \/ secrets[SecretOf[x]][1].label = "user"
                  \/ secrets[SecretOf[x]][1].data = GetCloudProviderSecret(x, [config |-> owners[OwnerOf[x]].config, uid |-> 0])[1].data)

\* Every secret is well formed, and those of users are theirs.
SecretsKept == []TypeOK /\ LabelledSecretKept
====
