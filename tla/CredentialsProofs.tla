-------------------------- MODULE CredentialsProofs --------------------------
(***************************************************************************)
(* Safety of what machines get from the management cluster, for any        *)
(* clusters, identities, machines, templates and pools, any sharing of     *)
(* secrets between them and any number of edits and restarts: the secrets  *)
(* of users are never overwritten, those that are written are well formed, *)
(* and the tags of others stay on a VM.                                    *)
(***************************************************************************)
EXTENDS AzureJSON, Tags, TLAPS

-----------------------------------------------------------------------------
(* The inductive invariant *)

\* Every name an AzureIdentity can have.
IdentityNames == {GetAzureIdentityName(NameOf[o], NamespaceOf[o], id) : o \in Owners, id \in Ids}

OwnerRecords == [live : BOOLEAN, ref : Ids \cup {None}, config : 0..1]
WorkRecords == [todo : SUBSET IdentityNames, doomed : {<<>>} \cup {<<b>> : b \in IdentityNames}]

\* The API server, and the requests of the AzureIdentity controller.
OwnersOK ==
    /\ owners \in [Owners -> OwnerRecords]
    /\ ids \in [Ids -> [live : BOOLEAN, refs : SUBSET Owners]]
    /\ copies \subseteq IdentityNames /\ bindings \subseteq IdentityNames
    /\ pending \subseteq Owners
    /\ work \in [Owners -> WorkRecords]
    /\ events \in 0..MaxEvents

\* Where the callers are; one that is about to create a binding has a name.
ScopeRecords == [name : IdentityNames \cup {<<>>}, config : 0..1, uid : 0..MaxEvents]

CallersOK ==
    /\ pc \in [Callers -> {"idle", "authorize", "bind", "scope", "create", "update"}]
    /\ scope \in [Callers -> ScopeRecords]
    /\ \A p \in Callers : pc[p] = "bind" => scope[p].name \in IdentityNames

\* An object has been created anew by users only.
ObjectRecords == [live : BOOLEAN, uid : 0..MaxEvents,
                  identity : {"None", "SystemAssigned", "UserAssigned"},
                  userIdentities : Seq(UserIdentities), cloned : BOOLEAN]

ObjectsOK ==
    /\ objects \in [Objects -> ObjectRecords]
    /\ \A x \in Objects : objects[x].uid <= events

References(n) == {Reference(x, uid) : x \in {y \in Objects : SecretOf[y] = n}, uid \in 0..MaxEvents}

Data == [aad : BOOLEAN, useManagedIdentityExtension : BOOLEAN,
         userAssignedIdentityID : {<<>>} \cup {<<u>> : u \in UserIdentities}, config : 0..1]

\* Data that name no identity although one is to be used are for an object
\* with a system-assigned identity.
Identified(n, data) ==
    data.useManagedIdentityExtension /\ data.userAssignedIdentityID = <<>>
        => \E x \in Objects : SecretOf[x] = n /\ objects[x].identity = "SystemAssigned"

WellFormed(n, s) ==
    /\ s \in [label : {"owned", "user", "unlabelled"}, refs : SUBSET References(n), data : Data]
    /\ Identified(n, s.data)

Stored(n, v) == v = <<>> \/ \E s \in {v[1]} : v = <<s>> /\ WellFormed(n, s)

SecretsOK ==
    /\ secrets = [n \in Secrets |-> secrets[n]]
    /\ \A n \in Secrets : Stored(n, secrets[n])

\* GetCloudProviderSecret has an answer for the object.
Configurable(x) == ~(objects[x].identity = "UserAssigned" /\ UserIdentityID(x) = <<>>)

\* A reconciler about to write has what to write; and if its copy is up to date
\* the secret it updates is there and not the user's.
WritersOK ==
    /\ stale \subseteq Objects
    /\ \A x \in Objects :
          /\ pc[x] \in {"create", "update"} => Configurable(x)
          /\ pc[x] = "update" /\ x \notin stale =>
                secrets[SecretOf[x]] # <<>> /\ secrets[SecretOf[x]][1].label # "user"

CredentialsInv == OwnersOK /\ CallersOK /\ ObjectsOK /\ SecretsOK /\ WritersOK

\* The invariant is stronger than the type invariant the runs check.
LEMMA InvTypeOK == CredentialsInv => TypeOK
<1> SUFFICES ASSUME CredentialsInv PROVE TypeOK
  OBVIOUS
<1> USE DEF CredentialsInv
<1>1. IdentityTypeOK
  <2>1. \A p \in Callers : scope[p].name \in IdentityNames \cup {<<>>} /\ scope[p].config \in 0..1
    BY DEF CallersOK, ScopeRecords
  <2>2. \A o \in Owners : work[o].todo \subseteq IdentityNames
    BY DEF OwnersOK, WorkRecords
  <2> QED BY <2>1, <2>2 DEF OwnersOK, OwnerRecords, IdentityTypeOK, IdentityNames
<1>2. \A x \in Objects : objects[x].uid \in 0..MaxEvents
  BY DEF ObjectsOK, ObjectRecords
<1>3. ASSUME NEW n \in Secrets, NEW i \in DOMAIN secrets[n]
      PROVE  /\ secrets[n][i].refs \subseteq References(n)
             /\ Identified(n, secrets[n][i].data)
  <2>1. secrets[n] # <<>>
    BY <1>3
  <2>2. secrets[n] = <<secrets[n][1]>> /\ WellFormed(n, secrets[n][1])
    BY <2>1 DEF SecretsOK, Stored
  <2>3. i = 1
    BY <1>3, <2>2
  <2> QED BY <2>2, <2>3 DEF WellFormed
<1> QED BY <1>1, <1>2, <1>3 DEF TypeOK, CallersOK, WritersOK, References, Identified

LEMMA CredentialsInit == Init => CredentialsInv
<1> SUFFICES ASSUME Init PROVE CredentialsInv
  OBVIOUS
<1> USE DEF Init
<1>1. OwnersOK
  BY EventsAssumption DEF OwnersOK, OwnerRecords, WorkRecords, NoWork
<1>2. CallersOK
  BY EventsAssumption DEF CallersOK, ScopeRecords, NoScope
<1>3. ObjectsOK
  BY EventsAssumption DEF ObjectsOK, ObjectRecords
<1>4. SecretsOK
  BY DEF SecretsOK, Stored
<1>5. WritersOK
  BY ObjectsAssumption DEF WritersOK
<1> QED BY <1>1, <1>2, <1>3, <1>4, <1>5 DEF CredentialsInv

-----------------------------------------------------------------------------
(* What a reconciler writes *)

\* The secret of an object has its reference, and data of its identity.
LEMMA SecretOfObject ==
    ASSUME CredentialsInv, NEW x \in Objects, Configurable(x)
    PROVE  /\ GetCloudProviderSecret(x, scope[x]) = <<GetCloudProviderSecret(x, scope[x])[1]>>
           /\ WellFormed(SecretOf[x], GetCloudProviderSecret(x, scope[x])[1])
           /\ GetCloudProviderSecret(x, scope[x])[1].label = "owned"
           /\ Reference(x, scope[x].uid) \in References(SecretOf[x])
<1> DEFINE config == scope[x].config
           uid == scope[x].uid
           id == UserIdentityID(x)
           data == CASE objects[x].identity = "SystemAssigned" -> systemAssignedIdentityCloudProviderConfig(config)
                     [] objects[x].identity = "UserAssigned" -> userAssignedIdentityCloudProviderConfig(config, id)
                     [] objects[x].identity = "None" -> newCloudProviderConfig(config)
           s == [label |-> "owned", refs |-> {Reference(x, uid)}, data |-> data]
<1>1. config \in 0..1 /\ uid \in 0..MaxEvents
  BY ObjectsAssumption DEF CredentialsInv, CallersOK, ScopeRecords
<1>2. objects[x].identity \in {"None", "SystemAssigned", "UserAssigned"}
  BY DEF CredentialsInv, ObjectsOK, ObjectRecords
<1>3. id \in {<<>>} \cup {<<u>> : u \in UserIdentities}
  <2>1. objects[x].userIdentities \in Seq(UserIdentities)
    BY DEF CredentialsInv, ObjectsOK, ObjectRecords
  <2> QED BY <2>1 DEF UserIdentityID
<1>4. GetCloudProviderSecret(x, scope[x]) = <<s>>
  BY DEF GetCloudProviderSecret, Configurable
<1>5. Reference(x, uid) \in References(SecretOf[x])
  BY <1>1 DEF References
<1>6. newCloudProviderConfig(config) \in Data /\ ~newCloudProviderConfig(config).useManagedIdentityExtension
  BY <1>1 DEF newCloudProviderConfig, Data
<1>7. systemAssignedIdentityCloudProviderConfig(config) \in Data
  BY <1>6 DEF systemAssignedIdentityCloudProviderConfig, Data
<1>8. /\ userAssignedIdentityCloudProviderConfig(config, id) \in Data
      /\ userAssignedIdentityCloudProviderConfig(config, id).userAssignedIdentityID = id
  BY <1>3, <1>7 DEF userAssignedIdentityCloudProviderConfig, Data
<1>9. data \in Data /\ Identified(SecretOf[x], data)
  <2>1. CASE objects[x].identity = "SystemAssigned"
    <3>1. data = systemAssignedIdentityCloudProviderConfig(config)
      BY <2>1
    <3> HIDE DEF data
    <3> QED BY <2>1, <3>1, <1>7 DEF Identified
  <2>2. CASE objects[x].identity = "UserAssigned"
    <3>1. data = userAssignedIdentityCloudProviderConfig(config, id)
      BY <2>2
    <3>2. id # <<>>
      BY <2>2 DEF Configurable
    <3> HIDE DEF data, id
    <3> QED BY <3>1, <3>2, <1>8 DEF Identified
  <2>3. CASE objects[x].identity = "None"
    <3>1. data = newCloudProviderConfig(config)
      BY <2>3
    <3> HIDE DEF data
    <3> QED BY <3>1, <1>6 DEF Identified
  <2> QED BY <2>1, <2>2, <2>3, <1>2
<1> HIDE DEF data
<1>10. WellFormed(SecretOf[x], s)
  BY <1>5, <1>9 DEF WellFormed
<1> QED BY <1>4, <1>5, <1>10

\* A write of a well-formed secret leaves all secrets so, and makes every copy
\* of it stale.
LEMMA SecretWritten ==
    ASSUME CredentialsInv, NEW n \in Secrets, NEW v, WriteSecret(n, v), Stored(n, v),
           UNCHANGED objects,
           \A x \in Objects : pc'[x] \in {"create", "update"} => pc'[x] = pc[x]
    PROVE  SecretsOK' /\ WritersOK'
<1>1. secrets' = [secrets EXCEPT ![n] = v]
  BY DEF WriteSecret
<1>2. \A k \in Secrets : secrets'[k] = IF k = n THEN v ELSE secrets[k]
  BY <1>1 DEF CredentialsInv, SecretsOK
<1>3. secrets' = [k \in Secrets |-> secrets'[k]]
  BY <1>1 DEF CredentialsInv, SecretsOK
<1>4. \A k \in Secrets : Stored(k, secrets'[k])
  BY <1>2 DEF CredentialsInv, SecretsOK
<1>5. ASSUME NEW k, NEW w, Stored(k, w) PROVE Stored(k, w)'
  BY <1>5 DEF Stored, WellFormed, Identified, References, Reference, Data
<1>6. SecretsOK'
  BY <1>3, <1>4, <1>5 DEF SecretsOK
<1>7. stale' = {x \in Objects : pc'[x] = "update" /\ (x \in stale \/ SecretOf[x] = n)}
  BY DEF WriteSecret
<1>8. ASSUME NEW x \in Objects
      PROVE  /\ pc'[x] \in {"create", "update"} => Configurable(x)'
             /\ pc'[x] = "update" /\ x \notin stale' =>
                   secrets'[SecretOf[x]] # <<>> /\ secrets'[SecretOf[x]][1].label # "user"
  <2>1. SecretOf[x] \in Secrets
    BY DEF Secrets
  <2>2. pc'[x] \in {"create", "update"} => pc[x] = pc'[x]
    OBVIOUS
  <2>3. Configurable(x)' = Configurable(x)
    BY DEF Configurable, UserIdentityID
  <2> QED BY <1>2, <1>7, <2>1, <2>2, <2>3 DEF CredentialsInv, WritersOK
<1> QED BY <1>6, <1>7, <1>8 DEF WritersOK

\* A step that writes no secret keeps them, if those that go on to write have
\* seen what they should.
LEMMA SecretsUnwritten ==
    ASSUME CredentialsInv, UNCHANGED secrets, DOMAIN objects' = DOMAIN objects,
           \A x \in Objects : /\ objects'[x].identity = objects[x].identity
                              /\ objects'[x].userIdentities = objects[x].userIdentities
    PROVE  /\ SecretsOK'
           /\ \A x \in Objects : Configurable(x)' = Configurable(x)
<1>1. ASSUME NEW k, NEW w, Stored(k, w) PROVE Stored(k, w)'
  BY <1>1 DEF Stored, WellFormed, Identified, References, Reference, Data
<1>2. SecretsOK'
  BY <1>1 DEF SecretsOK, CredentialsInv
<1> QED BY <1>2 DEF Configurable, UserIdentityID

\* A step that does nothing with secrets.
LEMMA SecretsLeft ==
    ASSUME CredentialsInv, UNCHANGED secretVars, events' \in Nat, events' >= events,
           \A x \in Objects : pc'[x] \in {"create", "update"} => pc'[x] = pc[x]
    PROVE  ObjectsOK' /\ SecretsOK' /\ WritersOK'
<1>1. UNCHANGED <<objects, secrets, stale>>
  BY DEF secretVars
<1>2. SecretsOK' /\ \A x \in Objects : Configurable(x)' = Configurable(x)
  BY <1>1, SecretsUnwritten
<1>3. ObjectsOK'
  <2>1. events \in Nat
    BY EventsAssumption DEF CredentialsInv, OwnersOK
  <2>2. \A x \in Objects : objects[x].uid \in Nat /\ objects[x].uid <= events
    BY EventsAssumption DEF CredentialsInv, ObjectsOK, ObjectRecords
  <2> QED BY <1>1, <2>1, <2>2 DEF CredentialsInv, ObjectsOK
<1>4. WritersOK'
  BY <1>1, <1>2 DEF CredentialsInv, WritersOK
<1> QED BY <1>2, <1>3, <1>4

-----------------------------------------------------------------------------
(* Identities *)

LEMMA EventCounted ==
    ASSUME CredentialsInv, NEW R, Event(R), R \subseteq Owners
    PROVE  /\ events' \in 0..MaxEvents /\ events' \in Nat /\ events' = events + 1 /\ events' > events
           /\ pending' \subseteq Owners
BY EventsAssumption DEF CredentialsInv, OwnersOK, Event

LEMMA NameOfIdentity ==
    ASSUME CredentialsInv, NEW o \in Owners, owners[o].ref \in Ids
    PROVE  IdentityName(o) \in IdentityNames
BY DEF IdentityName, IdentityNames

\* What a scope does, up to the binding.
LEMMA AuthorizeStep ==
    ASSUME CredentialsInv, NEW p \in Callers, NEW uid \in 0..MaxEvents, Authorize(p, uid)
    PROVE  /\ OwnersOK' /\ CallersOK' /\ events' = events
           /\ \A x \in Objects : pc'[x] \in {"create", "update"} => pc'[x] = pc[x]
<1> DEFINE o == OwnerOf[p]
           got(name) == [name |-> name, config |-> owners[o].config, uid |-> uid]
<1>1. o \in Owners /\ owners[o] \in OwnerRecords
  BY CallersAssumption DEF CredentialsInv, OwnersOK
<1>2. UNCHANGED <<owners, ids, bindings, pending, work, events>>
  BY DEF Authorize
<1>3. NoScope \in ScopeRecords
  BY EventsAssumption DEF NoScope, ScopeRecords
<1>4. \A name \in IdentityNames \cup {<<>>} : got(name) \in ScopeRecords /\ got(name).name = name
  BY <1>1 DEF ScopeRecords, OwnerRecords
<1>5. CASE owners[o].live /\ HasProvider(o)
  <2>1. IdentityName(o) \in IdentityNames
    BY <1>1, <1>5, NameOfIdentity DEF HasProvider, GetClusterIdentityFromRef
  <2>2. /\ copies' = copies \cup {IdentityName(o)}
        /\ pc' = [pc EXCEPT ![p] = "bind"]
        /\ scope' = [scope EXCEPT ![p] = got(IdentityName(o))]
    BY <1>5 DEF Authorize
  <2> HIDE DEF got, o
  <2> QED BY <1>2, <1>4, <2>1, <2>2, ObjectsAssumption DEF CredentialsInv, OwnersOK, CallersOK
<1>6. CASE ~(owners[o].live /\ HasProvider(o))
  <2>1. /\ UNCHANGED copies
        /\ \/ pc' = [pc EXCEPT ![p] = "scope"] /\ scope' = [scope EXCEPT ![p] = got(<<>>)]
           \/ pc' = [pc EXCEPT ![p] = "idle"] /\ scope' = [scope EXCEPT ![p] = NoScope]
    BY <1>6 DEF Authorize, Return
  <2>2. OwnersOK'
    BY <1>2, <2>1 DEF CredentialsInv, OwnersOK
  <2>3. got(<<>>) \in ScopeRecords
    BY <1>4
  <2> HIDE DEF got, o
  <2> QED BY <1>2, <1>3, <2>1, <2>2, <2>3, ObjectsAssumption DEF CredentialsInv, CallersOK
<1> QED BY <1>5, <1>6

LEMMA BindingStep ==
    ASSUME CredentialsInv, NEW p \in Callers, CreateBinding(p)
    PROVE  /\ OwnersOK' /\ CallersOK' /\ events' = events
           /\ \A x \in Objects : pc'[x] \in {"create", "update"} => pc'[x] = pc[x]
<1>1. NoScope \in ScopeRecords
  BY EventsAssumption DEF NoScope, ScopeRecords
<1>2. scope[p].name \in IdentityNames
  BY DEF CredentialsInv, CallersOK, CreateBinding
<1>3. OwnersOK'
  BY <1>2 DEF CredentialsInv, OwnersOK, CreateBinding
<1> QED BY <1>1, <1>3, ObjectsAssumption DEF CredentialsInv, CallersOK, CreateBinding, Goto, Return

\* A step of users, of the AzureIdentity controller, of the controllers of the
\* owners or of the garbage collector.
LEMMA IdentityStep ==
    ASSUME CredentialsInv, UNCHANGED secretVars,
           \/ \E o \in Owners : Users(o) \/ Resync(o) \/ Clean(o) \/ Scope(o)
           \/ \E id \in Ids : CollectIdentity(id)
    PROVE  CredentialsInv'
<1> DEFINE Goal == OwnersOK' /\ CallersOK' /\ events' \in Nat /\ events' >= events
                   /\ \A x \in Objects : pc'[x] \in {"create", "update"} => pc'[x] = pc[x]
<1> SUFFICES Goal
  BY SecretsLeft DEF CredentialsInv
<1>0. events \in Nat /\ NoScope \in ScopeRecords /\ NoWork \in WorkRecords
  BY EventsAssumption DEF CredentialsInv, OwnersOK, NoScope, ScopeRecords, NoWork, WorkRecords
<1>1. ASSUME NEW o \in Owners, Users(o) PROVE Goal
  <2>1. UNCHANGED <<ids, copies, bindings, pc, scope, work>> /\ Event({o})
    BY <1>1 DEF Users, SetIdentityRef, EditOwner, DeleteOwner
  <2>2. owners' \in [Owners -> OwnerRecords]
    <3>1. owners \in [Owners -> OwnerRecords] /\ owners[o] \in OwnerRecords
      BY DEF CredentialsInv, OwnersOK
    <3>2. CASE \E id \in Ids \cup {None} : SetIdentityRef(o, id)
      BY <3>1, <3>2 DEF SetIdentityRef, OwnerRecords
    <3>3. CASE EditOwner(o)
      <4>1. 1 - owners[o].config \in 0..1
        BY <3>1 DEF OwnerRecords
      <4>2. [owners[o] EXCEPT !.config = 1 - @] \in OwnerRecords
        BY <3>1, <4>1 DEF OwnerRecords
      <4>3. owners' = [owners EXCEPT ![o] = [owners[o] EXCEPT !.config = 1 - @]]
        BY <3>3 DEF EditOwner
      <4> QED BY <3>1, <4>2, <4>3
    <3>4. CASE DeleteOwner(o)
      BY <3>1, <3>4 DEF DeleteOwner, OwnerRecords
    <3> QED BY <1>1, <3>2, <3>3, <3>4 DEF Users
  <2>3. events' \in 0..MaxEvents /\ events' \in Nat /\ events' >= events /\ pending' \subseteq Owners
    BY <1>0, <2>1, EventCounted
  <2> QED BY <2>1, <2>2, <2>3 DEF CredentialsInv, OwnersOK, CallersOK
<1>2. ASSUME NEW id \in Ids, CollectIdentity(id) PROVE Goal
  <2>1. UNCHANGED <<owners, copies, bindings, pc, scope, pending, work, events>>
    BY <1>2 DEF CollectIdentity
  <2>2. ids' \in [Ids -> [live : BOOLEAN, refs : SUBSET Owners]]
    BY <1>2 DEF CollectIdentity, CredentialsInv, OwnersOK
  <2> QED BY <1>0, <2>1, <2>2 DEF CredentialsInv, OwnersOK, CallersOK
<1>3. ASSUME NEW o \in Owners, Clean(o) PROVE Goal
  <2>1. UNCHANGED <<owners, ids, pc, scope, events>>
    BY <1>3 DEF Clean, ListBindings, DeleteBinding, DeleteIdentity
  <2>2. /\ copies' \subseteq copies /\ bindings' \subseteq bindings /\ pending' \subseteq pending \cup {o}
    BY <1>3 DEF Clean, ListBindings, DeleteBinding, DeleteIdentity, Failed
  <2>3. work' \in [Owners -> WorkRecords]
    <3>1. CASE ListBindings(o)
      BY <1>0, <3>1 DEF ListBindings, Request, CredentialsInv, OwnersOK, NoWork, WorkRecords
    <3>2. ASSUME NEW b, DeleteBinding(o, b)
          PROVE  work' \in [Owners -> WorkRecords]
      <4>1. work \in [Owners -> WorkRecords] /\ work[o] \in WorkRecords
        BY DEF CredentialsInv, OwnersOK
      <4>2. b \in IdentityNames
        BY <3>2, <4>1 DEF DeleteBinding, WorkRecords
      <4>3. [work[o] EXCEPT !.todo = @ \ {b}, !.doomed = <<b>>] \in WorkRecords
        BY <4>1, <4>2 DEF WorkRecords
      <4>4. \/ work' = [work EXCEPT ![o] = [work[o] EXCEPT !.todo = @ \ {b}, !.doomed = <<b>>]]
            \/ work' = [work EXCEPT ![o] = NoWork]
        BY <3>2 DEF DeleteBinding, Request, Failed
      <4> QED BY <1>0, <4>1, <4>3, <4>4
    <3>3. CASE DeleteIdentity(o)
      <4>1. work \in [Owners -> WorkRecords] /\ work[o] \in WorkRecords
        BY DEF CredentialsInv, OwnersOK
      <4>2. [work[o] EXCEPT !.doomed = <<>>] \in WorkRecords
        BY <4>1 DEF WorkRecords
      <4> QED BY <1>0, <3>3, <4>1, <4>2 DEF DeleteIdentity, Request, Failed
    <3> QED BY <1>3, <3>1, <3>2, <3>3 DEF Clean
  <2> QED BY <1>0, <2>1, <2>2, <2>3 DEF CredentialsInv, OwnersOK, CallersOK
<1>4. ASSUME NEW o \in Owners, Scope(o) PROVE Goal
  <2>0. o \in Callers
    BY CallersAssumption
  <2>1. CASE StartOwner(o)
    <3>1. ids' \in [Ids -> [live : BOOLEAN, refs : SUBSET Owners]]
      BY <2>1 DEF StartOwner, GetClusterIdentityFromRef, CredentialsInv, OwnersOK
    <3> QED BY <1>0, <2>0, <2>1, <3>1, ObjectsAssumption DEF StartOwner, Goto, CredentialsInv, OwnersOK, CallersOK
  <2>2. CASE CreateIdentity(o)
    <3>1. 0 \in 0..MaxEvents /\ Authorize(o, 0)
      BY <2>2, EventsAssumption DEF CreateIdentity
    <3> QED BY <1>0, <2>0, <3>1, AuthorizeStep
  <2>3. CASE CreateBinding(o)
    BY <1>0, <2>0, <2>3, BindingStep
  <2> QED BY <1>4, <2>1, <2>2, <2>3 DEF Scope
<1>5. ASSUME NEW o \in Owners, Resync(o) PROVE Goal
  <2>1. pending' \subseteq Owners /\ UNCHANGED <<owners, ids, copies, bindings, pc, scope, work, events>>
    BY <1>5 DEF Resync, CredentialsInv, OwnersOK
  <2> QED BY <1>0, <2>1 DEF CredentialsInv, OwnersOK, CallersOK
<1> QED BY <1>1, <1>2, <1>3, <1>4, <1>5

-----------------------------------------------------------------------------
(* Secrets *)

\* What users do with secrets and objects.
LEMMA UserSecretsStep ==
    ASSUME CredentialsInv, UserSecrets
    PROVE  CredentialsInv' /\ events' # events
<1>1. Event({}) /\ UNCHANGED <<owners, ids, copies, bindings, pc, scope, work>>
  BY DEF UserSecrets, DeleteSecret, ProvideSecret, DeleteObject, RecreateObject
<1>2. events \in Nat /\ events' \in 0..MaxEvents /\ events' \in Nat /\ events' = events + 1 /\ pending' \subseteq Owners
  BY <1>1, EventCounted, EventsAssumption DEF CredentialsInv, OwnersOK
<1>3. OwnersOK' /\ CallersOK'
  BY <1>1, <1>2 DEF CredentialsInv, OwnersOK, CallersOK
<1>4. \A x \in Objects : objects[x].uid \in 0..events
  BY <1>2, EventsAssumption DEF CredentialsInv, ObjectsOK, ObjectRecords
<1>5. ASSUME NEW n \in Secrets, DeleteSecret(n) \/ \E label \in {"user", "unlabelled"} : ProvideSecret(n, label)
      PROVE  ObjectsOK' /\ SecretsOK' /\ WritersOK'
  <2>1. UNCHANGED objects
    BY <1>5 DEF DeleteSecret, ProvideSecret
  <2>2. ObjectsOK'
    BY <1>2, <1>4, <2>1 DEF CredentialsInv, ObjectsOK
  <2>3. CASE DeleteSecret(n)
    <3>1. WriteSecret(n, <<>>) /\ Stored(n, <<>>)
      BY <2>3 DEF DeleteSecret, Stored
    <3> QED BY <1>1, <2>1, <2>2, <3>1, SecretWritten
  <2>4. ASSUME NEW label \in {"user", "unlabelled"}, ProvideSecret(n, label)
        PROVE  SecretsOK' /\ WritersOK'
    <3> DEFINE d == [newCloudProviderConfig(0) EXCEPT !.aad = FALSE]
    <3>0. PICK refs \in {{}} \cup {secrets[n][i].refs : i \in DOMAIN secrets[n]} :
               WriteSecret(n, <<[label |-> label, refs |-> refs, data |-> d]>>)
      BY <2>4 DEF ProvideSecret
    <3> DEFINE new == [label |-> label, refs |-> refs, data |-> d]
    <3>a. refs \subseteq References(n)
      <4>1. ASSUME NEW i \in DOMAIN secrets[n], refs = secrets[n][i].refs
            PROVE  refs \subseteq References(n)
        <5>1. secrets[n] = <<secrets[n][1]>> /\ WellFormed(n, secrets[n][1])
          BY <4>1 DEF CredentialsInv, SecretsOK, Stored
        <5>2. i = 1
          BY <4>1, <5>1
        <5> QED BY <4>1, <5>1, <5>2 DEF WellFormed
      <4> QED BY <3>0, <4>1
    <3>1. newCloudProviderConfig(0) \in Data /\ ~newCloudProviderConfig(0).useManagedIdentityExtension
      BY DEF newCloudProviderConfig, Data
    <3>2. d \in Data /\ ~d.useManagedIdentityExtension
      BY <3>1 DEF Data
    <3>3. WriteSecret(n, <<new>>)
      BY <3>0
    <3> HIDE DEF d
    <3>4. WellFormed(n, new)
      BY <3>2, <3>a DEF WellFormed, Identified
    <3>5. Stored(n, <<new>>)
      BY <3>4 DEF Stored
    <3> HIDE DEF new
    <3> QED BY <1>1, <2>1, <3>3, <3>5, SecretWritten
  <2> QED BY <1>5, <2>2, <2>3, <2>4
<1>6. ASSUME NEW x \in Objects, DeleteObject(x) \/ RecreateObject(x)
      PROVE  ObjectsOK' /\ SecretsOK' /\ WritersOK'
  <2>1. UNCHANGED <<secrets, stale>>
    BY <1>6 DEF DeleteObject, RecreateObject
  <2>2. objects[x].uid + 1 \in 0..events'
    BY <1>2, <1>4
  <2>3. 0..events' \subseteq 0..MaxEvents
    BY <1>2, EventsAssumption
  <2>4. objects \in [Objects -> ObjectRecords] /\ objects[x] \in ObjectRecords
    BY DEF CredentialsInv, ObjectsOK
  <2>5. PICK r \in ObjectRecords : /\ objects' = [objects EXCEPT ![x] = r]
                                   /\ r.uid = objects[x].uid + 1
                                   /\ r.identity = objects[x].identity
                                   /\ r.userIdentities = objects[x].userIdentities
    <3>1. objects[x].uid + 1 \in 0..MaxEvents
      BY <2>2, <2>3
    <3>2. CASE DeleteObject(x)
      <4> DEFINE r == [objects[x] EXCEPT !.live = FALSE, !.uid = @ + 1]
      <4>1. objects' = [objects EXCEPT ![x] = r]
        BY <3>2 DEF DeleteObject
      <4>2. /\ r \in ObjectRecords /\ r.uid = objects[x].uid + 1
            /\ r.identity = objects[x].identity /\ r.userIdentities = objects[x].userIdentities
        BY <2>4, <3>1 DEF ObjectRecords
      <4> HIDE DEF r
      <4> QED BY <4>1, <4>2
    <3>3. CASE RecreateObject(x)
      <4> DEFINE r == [objects[x] EXCEPT !.uid = @ + 1]
      <4>1. objects' = [objects EXCEPT ![x] = r]
        BY <3>3 DEF RecreateObject
      <4>2. /\ r \in ObjectRecords /\ r.uid = objects[x].uid + 1
            /\ r.identity = objects[x].identity /\ r.userIdentities = objects[x].userIdentities
        BY <2>4, <3>1 DEF ObjectRecords
      <4> HIDE DEF r
      <4> QED BY <4>1, <4>2
    <3> QED BY <1>6, <3>2, <3>3
  <2>6. /\ DOMAIN objects' = DOMAIN objects
        /\ \A y \in Objects : /\ objects'[y].identity = objects[y].identity
                              /\ objects'[y].userIdentities = objects[y].userIdentities
    BY <2>4, <2>5
  <2>7. ObjectsOK'
    BY <1>2, <1>4, <2>2, <2>4, <2>5 DEF ObjectsOK
  <2>8. SecretsOK' /\ \A y \in Objects : Configurable(y)' = Configurable(y)
    BY <2>1, <2>6, SecretsUnwritten
  <2> QED BY <1>1, <2>1, <2>7, <2>8 DEF CredentialsInv, WritersOK
<1>7. ObjectsOK' /\ SecretsOK' /\ WritersOK'
  BY <1>5, <1>6 DEF UserSecrets
<1> QED BY <1>2, <1>3, <1>7 DEF CredentialsInv

\* The manager restarts, and every reconciliation is lost.
LEMMA RestartStep ==
    ASSUME CredentialsInv, Restart, stale' = {}, UNCHANGED <<objects, secrets>>
    PROVE  CredentialsInv' /\ UNCHANGED secrets
<1>1. /\ pc' = [p \in Callers |-> "idle"] /\ scope' = [p \in Callers |-> NoScope]
      /\ work' = [o \in Owners |-> NoWork] /\ UNCHANGED <<owners, ids, copies, bindings>>
      /\ Event({o \in Owners : owners[o].live})
  BY DEF Restart
<1>2. events \in Nat /\ events' \in 0..MaxEvents /\ events' \in Nat /\ events' > events /\ pending' \subseteq Owners
  BY <1>1, EventCounted, EventsAssumption DEF CredentialsInv, OwnersOK
<1>3. OwnersOK'
  BY <1>1, <1>2 DEF CredentialsInv, OwnersOK, NoWork, WorkRecords
<1>4. CallersOK'
  BY <1>1, EventsAssumption DEF CallersOK, NoScope, ScopeRecords
<1>5. ObjectsOK'
  BY <1>2, EventsAssumption DEF CredentialsInv, ObjectsOK, ObjectRecords
<1>6. SecretsOK'
  BY SecretsUnwritten
<1>7. WritersOK'
  BY <1>1, ObjectsAssumption DEF WritersOK
<1> QED BY <1>3, <1>4, <1>5, <1>6, <1>7 DEF CredentialsInv

\* Only a secret with references, and none to an object there is, is collected.
LEMMA CollectStep ==
    ASSUME CredentialsInv, NEW n \in Secrets, CollectSecret(n)
    PROVE  /\ CredentialsInv'
           /\ Orphaned(n) /\ secrets'[n] = <<>>
           /\ \A k \in Secrets : k # n => secrets'[k] = secrets[k]
<1>1. UNCHANGED <<owners, ids, copies, bindings, pc, scope, pending, work, events, objects>>
  BY DEF CollectSecret, identityVars
<1>2. WriteSecret(n, <<>>) /\ Stored(n, <<>>)
  BY DEF CollectSecret, Stored
<1>3. SecretsOK' /\ WritersOK'
  BY <1>1, <1>2, SecretWritten
<1>4. OwnersOK' /\ CallersOK' /\ ObjectsOK'
  BY <1>1 DEF CredentialsInv, OwnersOK, CallersOK, ObjectsOK
<1>5. Orphaned(n) /\ secrets'[n] = <<>>
  BY <1>2 DEF CollectSecret, WriteSecret, CredentialsInv, SecretsOK
<1>6. \A k \in Secrets : k # n => secrets'[k] = secrets[k]
  BY <1>2 DEF WriteSecret, CredentialsInv, SecretsOK
<1> QED BY <1>3, <1>4, <1>5, <1>6 DEF CredentialsInv

\* The three reconcilers: none of them writes a secret of the user.
LEMMA SecretStep ==
    ASSUME CredentialsInv, NEW x \in Objects, Secret(x)
    PROVE  /\ CredentialsInv'
           /\ \A n \in Secrets : secrets[n] # <<>> /\ secrets[n][1].label = "user" => secrets'[n] = secrets[n]
<1>0. /\ x \in Callers /\ events \in Nat /\ NoScope \in ScopeRecords /\ scope[x] \in ScopeRecords
      /\ SecretOf[x] \in Secrets
  BY ObjectsAssumption, EventsAssumption DEF CredentialsInv, OwnersOK, CallersOK, NoScope, ScopeRecords, Secrets
<1>1. CASE StartSecret(x)
  <2>1. objects[x].uid \in 0..MaxEvents /\ Authorize(x, objects[x].uid) /\ UNCHANGED secretVars
    BY <1>1 DEF StartSecret, CredentialsInv, ObjectsOK, ObjectRecords
  <2> QED BY <1>0, <2>1, AuthorizeStep, SecretsLeft DEF CredentialsInv, secretVars
<1>2. CASE CreateBinding(x) /\ UNCHANGED secretVars
  BY <1>0, <1>2, BindingStep, SecretsLeft DEF CredentialsInv, secretVars
<1>3. CASE ReadSecret(x)
  <2>1. UNCHANGED <<owners, ids, copies, bindings, pending, work, events, objects, secrets, stale>>
    BY <1>3 DEF ReadSecret, secretVars
  <2>2. \/ pc' = [pc EXCEPT ![x] = "idle"] /\ scope' = [scope EXCEPT ![x] = NoScope]
        \/ /\ GetCloudProviderSecret(x, scope[x]) # <<>>
           /\ pc' = [pc EXCEPT ![x] = "create"] /\ scope' = scope
        \/ /\ GetCloudProviderSecret(x, scope[x]) # <<>>
           /\ secrets[SecretOf[x]] # <<>> /\ secrets[SecretOf[x]][1].label # "user"
           /\ pc' = [pc EXCEPT ![x] = "update"] /\ scope' = scope
    BY <1>3 DEF ReadSecret, Return, Goto
  <2>3. GetCloudProviderSecret(x, scope[x]) # <<>> => Configurable(x)
    BY DEF GetCloudProviderSecret, Configurable
  <2>4. OwnersOK' /\ ObjectsOK'
    BY <2>1 DEF CredentialsInv, OwnersOK, ObjectsOK
  <2>5. CallersOK'
    BY <1>0, <2>2 DEF CredentialsInv, CallersOK
  <2>6. SecretsOK' /\ \A y \in Objects : Configurable(y)' = Configurable(y)
    BY <2>1, SecretsUnwritten
  <2>7. \A y \in Objects : y # x => pc'[y] = pc[y]
    BY <1>0, <2>2, ObjectsAssumption DEF CredentialsInv, CallersOK
  <2>8. /\ pc'[x] \in {"create", "update"} => Configurable(x)
        /\ pc'[x] = "update" => secrets[SecretOf[x]] # <<>> /\ secrets[SecretOf[x]][1].label # "user"
    BY <1>0, <2>2, <2>3 DEF CredentialsInv, CallersOK
  <2>9. WritersOK'
    BY <2>1, <2>6, <2>7, <2>8 DEF CredentialsInv, WritersOK
  <2> QED BY <2>1, <2>4, <2>5, <2>6, <2>9 DEF CredentialsInv
<1>4. ASSUME CreateSecret(x) \/ UpdateSecret(x)
      PROVE  /\ OwnersOK' /\ CallersOK' /\ ObjectsOK' /\ UNCHANGED objects /\ pc'[x] = "idle"
             /\ \A y \in Objects : pc'[y] \in {"create", "update"} => pc'[y] = pc[y]
  <2>1. UNCHANGED <<owners, ids, copies, bindings, pending, work, events, objects>> /\ Return(x)
    BY <1>4 DEF CreateSecret, UpdateSecret
  <2>2. OwnersOK' /\ ObjectsOK'
    BY <2>1 DEF CredentialsInv, OwnersOK, ObjectsOK
  <2> QED BY <1>0, <2>1, <2>2, ObjectsAssumption DEF CredentialsInv, CallersOK, Return
<1>5. CASE CreateSecret(x)
  <2>1. Configurable(x)
    BY <1>5 DEF CreateSecret, CredentialsInv, WritersOK
  <2>2. CASE secrets[SecretOf[x]] = <<>>
    <3>1. WriteSecret(SecretOf[x], GetCloudProviderSecret(x, scope[x]))
      BY <1>5, <2>2 DEF CreateSecret
    <3>2. Stored(SecretOf[x], GetCloudProviderSecret(x, scope[x]))
      BY <2>1, SecretOfObject DEF Stored
    <3>3. SecretsOK' /\ WritersOK'
      BY <1>0, <1>4, <1>5, <3>1, <3>2, SecretWritten
    <3>4. \A n \in Secrets : secrets[n] # <<>> => secrets'[n] = secrets[n]
      BY <2>2, <3>1 DEF WriteSecret, CredentialsInv, SecretsOK
    <3> QED BY <1>4, <1>5, <3>3, <3>4 DEF CredentialsInv
  <2>3. CASE secrets[SecretOf[x]] # <<>>
    <3>1. UNCHANGED <<secrets, stale>>
      BY <1>5, <2>3 DEF CreateSecret
    <3>2. SecretsOK' /\ \A y \in Objects : Configurable(y)' = Configurable(y)
      BY <1>4, <1>5, <3>1, SecretsUnwritten
    <3> QED BY <1>4, <1>5, <3>1, <3>2 DEF CredentialsInv, WritersOK
  <2> QED BY <2>2, <2>3
<1>6. CASE UpdateSecret(x)
  <2>1. Configurable(x)
    BY <1>6 DEF UpdateSecret, CredentialsInv, WritersOK
  <2>2. CASE x \in stale
    <3>1. secrets' = secrets /\ stale' = stale \ {x}
      BY <1>6, <2>2 DEF UpdateSecret
    <3>2. SecretsOK' /\ \A y \in Objects : Configurable(y)' = Configurable(y)
      BY <1>4, <1>6, <3>1, SecretsUnwritten
    <3> QED BY <1>4, <1>6, <3>1, <3>2 DEF CredentialsInv, WritersOK
  <2>3. CASE x \notin stale
    <3> DEFINE old == secrets[SecretOf[x]][1]
               ref == Reference(x, scope[x].uid)
               hasOwner == \E r \in old.refs : referSameObject(r, ref)
               data == GetCloudProviderSecret(x, scope[x])[1].data
               refs == IF hasOwner THEN old.refs ELSE old.refs \cup {ref}
               new == [old EXCEPT !.refs = refs, !.data = data]
    <3>1. secrets[SecretOf[x]] # <<>> /\ old.label # "user"
      BY <1>6, <2>3 DEF UpdateSecret, CredentialsInv, WritersOK
    <3>2. WellFormed(SecretOf[x], old)
      BY <1>0, <3>1 DEF CredentialsInv, SecretsOK, Stored
    <3>3. data \in Data /\ Identified(SecretOf[x], data) /\ ref \in References(SecretOf[x])
      BY <2>1, SecretOfObject DEF WellFormed
    <3>4. WriteSecret(SecretOf[x], <<new>>)
      BY <1>6, <2>3 DEF UpdateSecret
    <3>5. refs \subseteq References(SecretOf[x])
      BY <3>2, <3>3 DEF WellFormed
    <3> HIDE DEF old, refs, data
    <3>6. WellFormed(SecretOf[x], new)
      BY <3>1, <3>2, <3>3, <3>5 DEF WellFormed
    <3>7. Stored(SecretOf[x], <<new>>)
      BY <3>6 DEF Stored
    <3> HIDE DEF new
    <3>8. SecretsOK' /\ WritersOK'
      BY <1>0, <1>4, <1>6, <3>4, <3>7, SecretWritten
    <3>9. \A n \in Secrets : n # SecretOf[x] => secrets'[n] = secrets[n]
      BY <3>4 DEF WriteSecret, CredentialsInv, SecretsOK
    <3> QED BY <1>4, <1>6, <3>1, <3>8, <3>9 DEF CredentialsInv, old
  <2> QED BY <2>2, <2>3
<1> QED BY <1>1, <1>2, <1>3, <1>5, <1>6 DEF Secret

-----------------------------------------------------------------------------
(* Theorems *)

\* Every step keeps the invariant, and a secret that is the user's is changed
\* by the user only, or collected with the objects it refers to.
LEMMA CredentialsStep ==
    ASSUME CredentialsInv, [Next]_vars
    PROVE  /\ CredentialsInv'
           /\ \A n \in Secrets : secrets[n] # <<>> /\ secrets'[n] # secrets[n] /\ secrets[n][1].label = "user"
                  => events' # events \/ (secrets'[n] = <<>> /\ Orphaned(n))
<1> DEFINE Goal == /\ CredentialsInv'
                   /\ \A n \in Secrets : secrets[n] # <<>> /\ secrets'[n] # secrets[n] /\ secrets[n][1].label = "user"
                          => events' # events \/ (secrets'[n] = <<>> /\ Orphaned(n))
<1> SUFFICES Goal
  OBVIOUS
<1>1. CASE UNCHANGED secretVars /\ \/ \E o \in Owners : Users(o) \/ Resync(o) \/ Clean(o) \/ Scope(o)
                                   \/ \E id \in Ids : CollectIdentity(id)
  BY <1>1, IdentityStep DEF secretVars
<1>2. CASE Restart /\ stale' = {} /\ UNCHANGED <<objects, secrets>>
  BY <1>2, RestartStep
<1>3. CASE UserSecrets
  BY <1>3, UserSecretsStep
<1>4. CASE \E n \in Secrets : CollectSecret(n)
  BY <1>4, CollectStep
<1>5. CASE \E x \in Objects : Secret(x)
  BY <1>5, SecretStep
<1>6. CASE UNCHANGED vars
  <2>1. UNCHANGED <<owners, ids, copies, bindings, pc, scope, pending, work, events, objects, secrets, stale>>
    BY <1>6 DEF vars, identityVars
  <2>2. OwnersOK' /\ CallersOK' /\ UNCHANGED secretVars /\ events' \in Nat /\ events' >= events
    BY <2>1, EventsAssumption DEF CredentialsInv, OwnersOK, CallersOK, secretVars
  <2> QED BY <2>1, <2>2, SecretsLeft DEF CredentialsInv
<1> QED BY <1>1, <1>2, <1>3, <1>4, <1>5, <1>6 DEF Next, Identity

\* The secrets that the azure.json reconcilers write are well formed, and none
\* of them writes or removes a secret of the user, in whatever order their reads
\* and writes, those of the user and the garbage collector happen; the garbage
\* collector takes one only if the user left references to objects that are gone
\* (helpers.go, reconcileAzureSecret).
THEOREM UserSecretsSurvive == Spec => SecretsKept
<1> DEFINE Kept == \A n \in Secrets : secrets[n] # <<>> /\ secrets'[n] # secrets[n] /\ secrets[n][1].label = "user"
                       => events' # events \/ (secrets'[n] = <<>> /\ Orphaned(n))
<1>1. Init => CredentialsInv
  BY CredentialsInit
<1>2. CredentialsInv /\ [Next]_vars => CredentialsInv'
  BY CredentialsStep
<1>3. CredentialsInv => TypeOK
  BY InvTypeOK
<1>4. CredentialsInv /\ [Next]_vars => [Kept]_vars
  BY CredentialsStep
<1> QED BY <1>1, <1>2, <1>3, <1>4, PTL DEF Spec, SecretsKept, LabelledSecretKept

-----------------------------------------------------------------------------
(* Tags *)

\* The annotation names tags of the machine only, as the machine does.
TagsInv == additional \in TagMaps /\ DOMAIN annotation \subseteq TagNames /\ edits \in Nat

LEMMA TagMapNames ==
    ASSUME NEW tags \in TagMaps
    PROVE  DOMAIN tags \subseteq TagNames
BY DEF TagMaps

\* What a reconciliation puts and deletes are tags of the machine.
LEMMA ChangedNames ==
    ASSUME TagsInv
    PROVE  /\ DOMAIN tagsChanged(annotation, additional).created \subseteq TagNames
           /\ tagsChanged(annotation, additional).deleted \subseteq TagNames
           /\ tagsChanged(annotation, additional).newAnnotation = additional
<1>1. DOMAIN additional \subseteq TagNames /\ DOMAIN annotation \subseteq TagNames
  BY TagMapNames DEF TagsInv
<1> QED BY <1>1 DEF tagsChanged, Restrict

LEMMA TagsInitially == (\E tags \in TagMaps : TagsInit(tags)) => TagsInv
BY TagsAssumption DEF TagsInit, TagsInv

LEMMA TagsStep == TagsInv /\ [TagsNext]_tagVars => TagsInv'
<1> SUFFICES ASSUME TagsInv, [TagsNext]_tagVars PROVE TagsInv'
  OBVIOUS
<1>0. edits' \in Nat
  <2>1. edits' = edits + 1 \/ edits' = edits
    BY Zenon DEF TagsNext, ReconcileTags, GetAtScope, CreateOrUpdateAtScope, UpdateAnnotationJSON,
                 TagsInterrupted, EditTags, ForeignTag, Edit, tagVars
  <2> QED BY <2>1 DEF TagsInv
<1>1. CASE \E tags \in TagMaps : tags # additional /\ EditTags(tags)
  BY <1>0, <1>1 DEF EditTags, TagsInv
<1>2. CASE UpdateAnnotationJSON
  <2>1. annotation' = additional /\ additional' = additional
    BY <1>2, ChangedNames DEF UpdateAnnotationJSON
  <2> QED BY <1>0, <2>1, TagMapNames DEF TagsInv
<1>3. CASE UNCHANGED <<additional, annotation>>
  BY <1>0, <1>3 DEF TagsInv
<1> QED BY <1>1, <1>2, <1>3 DEF TagsNext, ReconcileTags, GetAtScope, CreateOrUpdateAtScope,
                                TagsInterrupted, ForeignTag, tagVars

\* The PUT of a reconciliation writes a tag of others as it was read.
LEMMA PutForeignTags ==
    ASSUME TagsInv, CreateOrUpdateAtScope, NEW t \in ForeignTags, t \in DOMAIN read
    PROVE  t \in DOMAIN vm' /\ vm'[t] = read[t]
<1> DEFINE created == tagsChanged(annotation, additional).created
           deleted == tagsChanged(annotation, additional).deleted
           tags == Over(created, read)
<1>1. t \notin DOMAIN created /\ t \notin deleted
  BY ChangedNames, TagsAssumption
<1>2. vm' = Restrict(tags, DOMAIN tags \ deleted)
  BY DEF CreateOrUpdateAtScope
<1> HIDE DEF created, deleted
<1>3. t \in DOMAIN tags /\ tags[t] = read[t]
  BY <1>1 DEF Over
<1> HIDE DEF tags
<1> QED BY <1>1, <1>2, <1>3 DEF Restrict

\* The tags service never removes or changes a tag that others have put on the
\* VM, if its reconciliation has read it (tags.go, Reconcile).
THEOREM ForeignTagsSurvive == TagsSpec => ForeignTagsKept
<1> DEFINE Kept == \A t \in ForeignTags \cap DOMAIN vm :
                      (t \notin DOMAIN vm' \/ vm'[t] # vm[t]) => \/ edits' # edits
                                                                 \/ t \notin DOMAIN read \/ read[t] # vm[t]
<1>1. TagsInv /\ [TagsNext]_tagVars => [Kept]_tagVars
  <2> SUFFICES ASSUME TagsInv, TagsNext PROVE Kept
    OBVIOUS
  <2>1. CASE CreateOrUpdateAtScope
    BY <2>1, PutForeignTags
  <2>2. CASE vm' = vm
    BY <2>2
  <2>3. ASSUME NEW t \in ForeignTags, NEW v \in TagValues, ForeignTag(t, v) PROVE Kept
    BY <2>3 DEF ForeignTag, Edit, TagsInv
  <2> QED BY <2>1, <2>2, <2>3 DEF TagsNext, ReconcileTags, GetAtScope, UpdateAnnotationJSON,
                                  TagsInterrupted, EditTags
<1> QED BY <1>1, TagsInitially, TagsStep, PTL DEF TagsSpec, ForeignTagsKept
=============================================================================
