---- MODULE Identities ----
(***************************************************************************)
(* The identities of clusters.  A reconciliation with a scope of an        *)
(* AzureCluster or an AzureManagedControlPlane that has an IdentityRef     *)
(* copies the AzureClusterIdentity into an AzureIdentity and an            *)
(* AzureIdentityBinding in the manager's namespace, unless they exist.     *)
(* The AzureIdentity controller deletes the bindings it does not expect,   *)
(* each with the AzureIdentity it names.                                   *)
(***************************************************************************)
EXTENDS Integers, Sequences, FiniteSets

CONSTANTS
    Owners,      \* AzureClusters and AzureManagedControlPlanes
    NameOf,      \* their names, as the sequence of the parts between dashes
    NamespaceOf, \* their namespaces, likewise
    Ids,         \* AzureClusterIdentities in the namespace of the owners
    Allowed,     \* the AllowedNamespaces of each, <<>> if nil
    TypeOf,      \* and its type
    Callers,     \* the reconciliations that make a scope: Owners and others
    OwnerOf,     \* the owner that a caller makes a scope of
    MaxEvents    \* bound on what users do, and on restarts

ASSUME CallersAssumption == Owners \subseteq Callers /\ OwnerOf \in [Callers -> Owners]
ASSUME EventsAssumption == MaxEvents \in Nat

VARIABLES
    owners,   \* the owners in the API server
    ids,      \* the AzureClusterIdentities there, with their owner references
    copies,   \* names of the AzureIdentities
    bindings, \* names of the AzureIdentities that AzureIdentityBindings bind
    pc,       \* where each caller is
    scope,    \* what its scope has read: the identity's name, the
              \* configuration, and the UID of the object reconciled
    pending,  \* requests queued for the AzureIdentity controller
    work,     \* the bindings a request still has to delete, and an identity
    events

identityVars == <<owners, ids, copies, bindings, pc, scope, pending, work, events>>

None == "none"

\* A selector is the set of the namespaces that its labels select.
IsClusterNamespaceAllowed(allowed, namespace) ==
    /\ allowed # <<>>
    /\ \/ allowed[1] = [list |-> {}, selector |-> <<>>]
       \/ namespace \in allowed[1].list
       \/ allowed[1].selector # <<>> /\ namespace \in allowed[1].selector[1]

\* Joined by dashes: names with other parts in other places are the same name.
GetAzureIdentityName(name, namespace, id) == name \o namespace \o <<id>>

IdentityName(o) == GetAzureIdentityName(NameOf[o], NamespaceOf[o], owners[o].ref)

GetClusterIdentityFromRef(o) == owners[o].ref \in Ids /\ ids[owners[o].ref].live

\* NewAzureClusterCredentialsProvider, and the same for a managed control plane.
HasProvider(o) == GetClusterIdentityFromRef(o) /\ TypeOf[owners[o].ref] = "ServicePrincipal"

NoWork == [todo |-> {}, doomed |-> <<>>]

----------------------------------------------------------------------------
\* Users.  A change of an owner is a request to the AzureIdentity controller.

Event(requests) ==
    /\ events < MaxEvents
    /\ events' = events + 1
    /\ pending' = pending \cup requests

SetIdentityRef(o, id) ==
    /\ owners[o].live /\ owners[o].ref # id
    /\ owners' = [owners EXCEPT ![o].ref = id]
    /\ Event({o})
    /\ UNCHANGED <<ids, copies, bindings, pc, scope, work>>

\* The spec that the configuration of nodes is derived from.
EditOwner(o) ==
    /\ owners[o].live
    /\ owners' = [owners EXCEPT ![o].config = 1 - @]
    /\ Event({o})
    /\ UNCHANGED <<ids, copies, bindings, pc, scope, work>>

DeleteOwner(o) ==
    /\ owners[o].live
    /\ owners' = [owners EXCEPT ![o].live = FALSE]
    /\ Event({o})
    /\ UNCHANGED <<ids, copies, bindings, pc, scope, work>>

\* The resynchronisation of the manager every ten minutes, and a patch by the
\* owner's own controller, are requests too: there is no end to them.
Resync(o) ==
    /\ owners[o].live /\ o \notin pending
    /\ pending' = pending \cup {o}
    /\ UNCHANGED <<owners, ids, copies, bindings, pc, scope, work, events>>

\* The garbage collector removes what has owner references to deleted objects only.
CollectIdentity(id) ==
    /\ ids[id].live /\ ids[id].refs # {}
    /\ \A o \in ids[id].refs : ~owners[o].live
    /\ ids' = [ids EXCEPT ![id].live = FALSE]
    /\ UNCHANGED <<owners, copies, bindings, pc, scope, pending, work, events>>

----------------------------------------------------------------------------
\* A scope

NoScope == [name |-> <<>>, config |-> 0, uid |-> 0]

Goto(p, step) == pc' = [pc EXCEPT ![p] = step] /\ UNCHANGED scope

Return(p) == pc' = [pc EXCEPT ![p] = "idle"] /\ scope' = [scope EXCEPT ![p] = NoScope]

\* The controllers of owners take the identity over from its last owner.
StartOwner(o) ==
    /\ pc[o] = "idle" /\ owners[o].live /\ owners[o].ref # None
    /\ GetClusterIdentityFromRef(o)
    /\ IsClusterNamespaceAllowed(Allowed[owners[o].ref], NamespaceOf[o])
    /\ ids' = [ids EXCEPT ![owners[o].ref].refs = {o}]
    /\ Goto(o, "authorize")
    /\ UNCHANGED <<owners, copies, bindings, pending, work, events>>

\* NewClusterScope, for an object with this UID: the owner is read, with the
\* credentials of the environment or those of GetAuthorizer, up to the creation
\* of the identity.
Authorize(p, uid) ==
    LET o == OwnerOf[p]
        read(name) == [name |-> name, config |-> owners[o].config, uid |-> uid]
        Enter(step, name) == pc' = [pc EXCEPT ![p] = step] /\ scope' = [scope EXCEPT ![p] = read(name)]
    IN /\ IF owners[o].live /\ HasProvider(o)
          THEN copies' = copies \cup {IdentityName(o)} /\ Enter("bind", IdentityName(o))
          ELSE /\ IF owners[o].live /\ owners[o].ref = None /\ p \notin Owners
                  THEN Enter("scope", <<>>) ELSE Return(p)
               /\ UNCHANGED copies
       /\ UNCHANGED <<owners, ids, bindings, pending, work, events>>

CreateIdentity(o) == pc[o] = "authorize" /\ Authorize(o, 0)

\* Slip: a binding is created with a new identity only.
CreateBindingOnce(p) ==
    /\ pc[p] = "bind"
    /\ bindings' = IF scope[p].name \in copies THEN bindings ELSE bindings \cup {scope[p].name}
    /\ IF p \in Owners THEN Return(p) ELSE Goto(p, "scope")
    /\ UNCHANGED <<owners, ids, copies, pending, work, events>>

\* A binding that exists is as good as a new one.
CreateBinding(p) ==
    /\ pc[p] = "bind"
    /\ bindings' = bindings \cup {scope[p].name}
    /\ IF p \in Owners THEN Return(p) ELSE Goto(p, "scope")
    /\ UNCHANGED <<owners, ids, copies, pending, work, events>>

----------------------------------------------------------------------------
\* The AzureIdentity controller

\* identityOwner is a pointer, and the cases of the type switch are the types
\* it points to: none of them assigns expectedIdentityName.
ExpectedIdentityName(binding) == <<>>

Request(o, w) == work' = [work EXCEPT ![o] = w]

\* What another request has deleted is an error, and the request is tried again.
Failed(o) == Request(o, NoWork) /\ pending' = pending \cup {o}

ListBindings(o) ==
    /\ o \in pending /\ work[o] = NoWork
    /\ Request(o, IF owners[o].live
                  THEN [NoWork EXCEPT !.todo = {b \in bindings : b # ExpectedIdentityName(b)}]
                  ELSE NoWork)
    /\ pending' = pending \ {o}
    /\ UNCHANGED <<owners, ids, copies, bindings, pc, scope, events>>

DeleteBinding(o, b) ==
    /\ work[o].doomed = <<>> /\ b \in work[o].todo
    /\ IF b \in bindings
       THEN /\ Request(o, [work[o] EXCEPT !.todo = @ \ {b}, !.doomed = <<b>>])
            /\ UNCHANGED pending
       ELSE Failed(o)
    /\ bindings' = bindings \ {b}
    /\ UNCHANGED <<owners, ids, copies, pc, scope, events>>

DeleteIdentity(o) ==
    /\ work[o].doomed # <<>>
    /\ IF work[o].doomed[1] \in copies
       THEN Request(o, [work[o] EXCEPT !.doomed = <<>>]) /\ UNCHANGED pending
       ELSE Failed(o)
    /\ copies' = copies \ {work[o].doomed[1]}
    /\ UNCHANGED <<owners, ids, bindings, pc, scope, events>>

\* The manager restarts: every owner it lists is a request.
Restart ==
    /\ Event({o \in Owners : owners[o].live})
    /\ pc' = [p \in Callers |-> "idle"] /\ scope' = [p \in Callers |-> NoScope]
    /\ work' = [o \in Owners |-> NoWork]
    /\ UNCHANGED <<owners, ids, copies, bindings>>

----------------------------------------------------------------------------

Users(o) == (\E id \in Ids \cup {None} : SetIdentityRef(o, id)) \/ EditOwner(o) \/ DeleteOwner(o)

Clean(o) == ListBindings(o) \/ (\E b \in bindings \cup work[o].todo : DeleteBinding(o, b)) \/ DeleteIdentity(o)

Scope(o) == StartOwner(o) \/ CreateIdentity(o) \/ CreateBinding(o)

IdentityTypeOK ==
    LET Names == {GetAzureIdentityName(NameOf[o], NamespaceOf[o], id) : o \in Owners, id \in Ids}
    IN /\ owners \in [Owners -> [live : BOOLEAN, ref : Ids \cup {None}, config : 0..1]]
       /\ ids \in [Ids -> [live : BOOLEAN, refs : SUBSET Owners]]
       /\ copies \subseteq Names /\ bindings \subseteq Names
       /\ \A p \in Callers : scope[p].name \in Names \cup {<<>>} /\ scope[p].config \in 0..1
       /\ pending \subseteq Owners
       /\ \A o \in Owners : work[o].todo \subseteq Names
       /\ events \in 0..MaxEvents

\* Whatever the AzureIdentity controller deletes in its endless requests, and
\* wherever a restart leaves an identity without its binding, an owner that can
\* have credentials gets the identity, and the binding, back again and again
\* (scope/identity.go, GetAuthorizer).  It need not have both at once: a request
\* that ends late may delete the identity that was just created.
CredentialsRestored ==
    \A o \in Owners :
        LET served == /\ owners[o].live /\ HasProvider(o)
                      /\ IsClusterNamespaceAllowed(Allowed[owners[o].ref], NamespaceOf[o])
        IN  /\ []<>(served => IdentityName(o) \in copies)
            /\ []<>(served => IdentityName(o) \in bindings)

\* "only delete bindings when the identity owner type is not found.": the
\* binding that a live owner works with is not deleted.
BindingsKept ==
    [][\A o \in Owners : owners[o].live /\ HasProvider(o) /\ IdentityName(o) \in bindings
           => IdentityName(o) \in bindings']_identityVars
====
