# A TLA+ model of Cluster API Provider Azure

The provider is a set of Kubernetes controllers that make Azure resources agree
with Cluster API objects, together with the webhooks that default, validate and convert
these objects. This project models its controllers, the services they call, the
scopes between them, and the API in both versions. `PROJECT.json` maps each definition
to the lines it models, and lists the runs, mutants, findings, hazards and theorems.

## 1. The system

| Component | State | Operations | Interaction | Correct if |
|---|---|---|---|---|
| AzureMachinePool controller, scale set service (`exp/controllers`, `azure/services/scalesets`, `azure/scope/machinepool.go`) | finalizer, recorded future and state of the object; the scale set | reconcile, PUT, PATCH, poll, DELETE, save | API server through a lagging cache; Azure through asynchronous operations | the scale set is never orphaned, overwritten or resurrected; pools converge |
| Rolling update strategy (`azure/scope/strategies`) | none | surge, select machines to delete | called when the pool's scope is closed | the budget and the policy are kept, a selection makes progress |
| AzureMachinePoolMachine controller (`exp/controllers`, `azure/services/scalesetvms`) | readiness, model flag, state, recorded DELETE | report and delete an instance | shares the scale set with the pool controller | old instances go first, deleted machines go, rollouts complete |
| Coalescing reconciler (`pkg/coalescing`, `util/cache/ttllru`) | LRU cache of last successes | put off, pass on, record | between work queue and reconcilers | no event is lost or delayed too long |
| AzureCluster controller, network services, resource groups (`controllers/azurecluster_*`, `azure/services/...`, `azure/scope/cluster.go`) | finalizer, recorded network and IDs; Azure resources | ordered reconcile and delete | users and the cloud provider share resources | owned resources go before the finalizer, those of others stay |
| AzureMachine controller, VM services (`controllers/azuremachine_*`, `azure/scope/machine.go`) | finalizer, provider ID, failure | create, update, delete a VM and its parts | machines share ports and availability sets | nothing leaks, lost VMs are final, all machines get ready |
| AKS controllers (`exp/controllers/azuremanaged*`, `azure/services/managedclusters`, `agentpools`) | finalizers, endpoint, kubeconfig, provider IDs | reconcile, delete | three controllers on one managed cluster | endpoints and pools converge, deletion completes |
| Identities, azure.json, tags (`azure/scope/identity.go`, `controllers/azureidentity_*`, `azurejson_*`, `azure/services/tags`) | identities, bindings, secrets, annotation | copy, clean up, write, merge | users, garbage collector, several reconcilers | credentials are restored, what users own is kept |
| Resource SKUs | a cache | look up capabilities and zones | called by machine services | (part of the machine model) |
| API types, defaults, validation, conversion (`api`, `exp/api`) | the stored object | create, read, update in two versions | webhooks of the API server | accepted objects stay acceptable, no write loses data |
| Watches, predicates, owner look-up; deep copies; telemetry and set-up | | | | not modelled, see 5 |

What is hard:

* **asynchronous operations**: a request is accepted in one reconciliation and found
  finished, or failed, in a later one, and goes on in Azure when its caller gives up;
* **stale data**: objects come from a cache; statuses are written by other
  controllers; load balancers, tags and secrets are read, changed and written back;
* **failure between steps**: a restart, a failed call or a lost response may follow
  any step, and the object is saved at the end of a reconciliation, if at all;
* **several controllers on one resource**: pool and machines on a scale set, machines on
  ports and availability sets, AKS controllers on a managed cluster;
* **two versions of an object**: old clients write back what they cannot express;
* **time**: requests are put off, retried and requeued.

## 2. Modules

| Module | Models | Run by |
|---|---|---|
| `AzureMachinePool` | pool controller and scale set service, one action per call | `MCAzureMachinePool` |
| `DeploymentStrategy`, `DeploymentSelection` | surge, budget, order and selection; one call on every input | `MCDeploymentSelection` |
| `MachineRollout` | pool controller, machine controllers and scale set during rollouts; composes `DeploymentStrategy` | `MCMachineRollout` |
| `Coalescing` | coalescing reconciler, cache and work queue | `MCCoalescing` |
| `ProtectedResources` | abstract: what a finalizer promises | implemented by the next three |
| `AzureCluster` (on `ClusterScope`, `Clients`) | controller, network services and groups | `MCAzureCluster` |
| `AzureMachine` (on `MachineScope`, `ResourceSKUs`, `Clients`) | controller and services of several machines | `MCAzureMachine` |
| `AzureManagedCluster` | the three AKS controllers and Azure | `MCAzureManagedCluster` |
| `Identities`, `AzureJSON`, `Tags` (on `Clients`) | identities and bindings; secrets, on top of the identities; tags | `MCCredentials` composes them |
| `V1alpha3`, `V1alpha4` | the structures of both API versions, as sets of records | used by the next ones |
| `Conversion`, `ClusterAPI`, `MachineAPI`, `ExpAPI` | conversions, defaults and validations: shared ones, and those of each kind | used by the next one |
| `APIServer` | one object, written by clients of both versions | `MCAPIServer` |
| `AzureMachinePoolProofs`, `CoalescingProofs`, `AzureClusterProofs`, `AzureMachineProofs`, `AzureManagedClusterProofs`, `APIServerProofs` | theorems about the module of the same name | TLAPS |
| `MachineRolloutProofs` | theorems about `DeploymentSelection` and `MachineRollout`, which share the lemmas on `DeploymentStrategy` | TLAPS |
| `CredentialsProofs` | theorems about `AzureJSON` and `Tags` | TLAPS |

Definitions whose comment begins with "Slip" are faulty variants of the definition
that follows them. No specification uses them; a mutant of `PROJECT.json` puts one in the
place of the original to show that a property notices.

### AzureMachinePool

`pool` is the object in the API server, `cache` the copy the controller's client
reads, `obj` the copy a reconciliation works on; `vmss` and `ops` are Azure's. A
reconciliation is a walk of `pc` through the steps between which something else can
happen: register the finalizer, validate, get, patch or create, poll, the deferred
refresh, the other services, close. `Restart` ends it anywhere, `CallFails` and
`CloseFails` fail a call, and `Started` has the outcome in which Azure accepted a
request whose response was lost. A scale set is abstracted to its image (`model`),
capacity and state; all fields `HasModelChanges` compares are the model.

### DeploymentStrategy and DeploymentSelection

Machines come out of Go maps and unstable sorts, so one input has several results:
`SelectMachinesToDelete` is the set of them. A machine that is outdated and ready is
in two slices and may be taken twice, which makes the selection smaller; the model
keeps that by taking the union of the two choices.

### MachineRollout

`spec` is what the user wants, `vmss` and `inst` are Azure's, `node` is the workload
cluster's and `ampm` holds the AzureMachinePoolMachines. A pool reconciliation is two
steps, `PoolReconcile` (patch, fetch instances) and `PoolApply` (`Close`: create and
delete machines), between which machine controllers, Azure and nodes move. Polling is
abstracted to an operation that is running or done, since `AzureMachinePool` has the
details.

### Coalescing

Time is relative: ages of cache entries and remaining delays count seconds up to one
more than the window, so there is no bound on the clock and liveness can be checked.
The work queue of client-go is external and modelled with its sets `dirty` and
`processing`, its order, the one delay it keeps per key, and the rate limiter, whose
`backoff` doubles with every failure of a key up to a limit and starts over when the
request is handled or put off. Its first delay, 5ms, is a second in the model.

### Clients, ClusterScope and AzureCluster

`Clients` says of each Azure client whether a write is one request, an operation the
client waits for, or one that is only started, and whether it carries If-Match.
`ClusterScope` derives the resources of each service from the part of an AzureCluster the
services tell apart. In `AzureCluster`, `cfg` is that part, `obj` the object in the API
server, `cached` what the manager's cache has of it; a reconciliation reads the cache
into `base` and works on `mem`. A patch writes the fields in which `mem` differs from `base`,
so an old copy does not undo what it did not know. `pc` and `pos` are the place in the
walk through the resources; `seen` is what was read of a load balancer or security
group before it is written; `az` says who created each resource and `entries` what is in
the merged ones. A load balancer is written without the inbound NAT rules it had, which
`loadbalancers.go` does not carry over. Azure refuses to create what refers to nothing and
to delete what is referred to, so the orders of `azurecluster_reconciler.go` matter. The
deletion of a group (`going`) is Azure's own: it takes away what nothing refers to, part by
part, while the call that started it waits, has failed or is forgotten, and ends with the
group gone or, if something outside refers to the rest, with the group half gone. Faults: a failed call,
a lost response of any write, a lost patch of the object, a restart, at any step.

### ResourceSKUs, MachineScope and AzureMachine

`ResourceSKUs` is the catalogue of a location and what the services ask of it;
`MachineScope` derives the parts of a machine and whether its VM can be described.
In `AzureMachine` all machines of a cluster are reconciled concurrently: `obj`, `mem`, `pc`
as above for each machine, `seen` the ports it found in use, `az`, `vm`, `ext`, `port` its
parts in Azure and their provisioning states, `sets` the availability sets, `skus`
whether the catalogue is cached; `given` and `closing` are what the Cluster and the Machine
provide. Port and set are read and written in separate steps.

### AzureManagedCluster

`cp`, `pool` and `infra` are the objects of the three controllers, `want` what users specify,
`kubeconfig` the secret; `mc`, `ap` and `net` are Azure's. `pc` and `mem` are per controller. A
managed cluster that is deleted and created anew gets another `fqdn`, which is how a
stale endpoint shows. The network is one step, its services being those of `AzureCluster`.

### Identities, AzureJSON and Tags

`owners` are the AzureClusters and AzureManagedControlPlanes, `ids` the
AzureClusterIdentities, `copies` and `bindings` what the scopes create of them; `scope` is
what a reconciliation has read, `pending` and `work` are the requests of the
AzureIdentity controller, which come with every event and, from the resync and the patches
of the owners' controllers, without end (`Resync`). Names are sequences of the parts between dashes, since the
code splits them. `AzureJSON` adds `objects`, `secrets` and, in `stale`, those that hold a copy of
their secret that was written since. `Tags` has the machine's `additional` tags, the
`annotation`, the tags of the `vm` and what was `read` of them; `unsaved` records which changes
never got into the annotation. `Init` of `AzureJSON` leaves objects, identities and references
open; `MCCredentials` picks the set-ups that are checked.

### The API

`V1alpha3` and `V1alpha4` list the fields of each structure: a pointer is a sequence of at most
one element, and a text nobody looks into is any string. The conversions are
translated field by field, generated ones included, and the hub copy in the annotation is
the field `data`. `APIServer` has one object: `stored` with its `version`, the copy `held` by a
v1alpha3 client with the version it read, whether it was `upgraded` from a release that
stored v1alpha3, and the `last` request. A request crosses the conversions on the way to each
webhook and to the store, and an update based on an old version is refused. A request has to
fit the schema of its version. `Generated` is what the generators of SSH keys and GUIDs
return. A client of v1alpha3 creates objects without the annotation that carries the hub copy and
leaves it alone when it updates one.

## 3. Runs

| Run | Shows |
|---|---|
| `pool` | the finalizer protects an existing scale set; nothing is created for an object that is gone; an existing scale set is not overwritten by a PUT, and its capacity is lowered only together with the model (`ScaleSetPreserved`); pools left alone are provisioned, deleted ones go away |
| `deployment_selection` | one selection keeps the budget and the policy, prefers outdated machines, makes progress |
| `rollout` | surges do not add up; an instance with the wanted image is never picked while one of another image stays, as far as the two machines report what they run; machines that are to be deleted all go, also when a response is lost or a node holds up the rollout; rollouts and scaling complete |
| `coalescing` | no event is lost, or put off beyond the window and the back-off of its failures; each one is processed in the end; no call within the window unless a full cache gave up the entry; the cache keeps its size |
| `cluster` | the cluster implements `ProtectedResources`; users' groups, networks that the deletion has a record of, and foreign entries stay; it becomes ready, and only when complete; deletion completes |
| `machine` | each machine implements `ProtectedResources`; an availability set goes with the last machine; a lost VM is noticed, final and never recreated; machines competing for ports and sets all get ready; deletion completes |
| `aks` | the control plane implements `ProtectedResources` and a pool outlives its agent pool; endpoint, kubeconfig and version are those of the managed cluster that exists; replicas reach Azure and come back; deletion completes |
| `credentials` | a user's labelled secret is never overwritten; every object ends with its secret; identities and bindings come back again and again while clean-ups go on without end; tags converge and foreign ones are kept |
| `api` | what was accepted can be written back through either version and changes nothing; v1alpha3 creations and updates take effect and keep what only v1alpha4 knows; an accepted update changes only the fields that its client changed |

Three runs end in a violation, and document where the code does not do what a comment
or a document says:

| Run | What happens |
|---|---|
| `pool_release` | a pool that is deleted while a PUT or PATCH is recorded is released when that operation is done: it is taken for the DELETE, which is never sent |
| `cluster_custom_vnet` | a cluster in a user's network that is deleted before the network's ID is recorded, or from a cached copy without it, takes the network for its own and deletes it |
| `identity_bindings` | the clean-up deletes the bindings of a live cluster too, because its type switch expects values and is given a pointer |

Properties leave out what the code is known not to do, and say so in their comments:

* `DeletionCompletes` of the cluster: a bastion in a user's group (the services delete
  addresses before the bastion that uses one), and an own network in another group than an
  owned one (its subnets keep the group's security groups in use);
* `EventuallyReady` of the cluster: a bastion whose network is in another group;
* `WriteBackAccepted`: AzureClusters of an earlier release (the default of
  `azureEnvironment` meets its immutability), pools with a rolling update (the surge is not restored,
  and validation dereferences it), identities that allow by a selector only;
* `EditsTakeEffect`: the namespaces of an AzureClusterIdentity that v1alpha3 creates
  (`azureclusteridentity_conversion.go:35` returns before it copies them), and the fields that v1alpha4 has no
  counterpart of: `CidrBlock` and `InternalLBIPAddress` of networks, `Location` and `AvailabilityZone` of machines;
* `HubDataKept`: the selector of an AzureClusterIdentity, which a v1alpha3 write with an empty list of
  namespaces destroys (`azureclusteridentity_conversion.go:39`);
* `UntouchedKept`: v1alpha3 updates of objects whose round trip is lossy (the pools and identities of
  `WriteBackAccepted`). It does not say that a resource never moves: the name and the group of a
  virtual network may be edited, and a pool whose SSH key a client blanks gets another one;
* `OthersKept`: inbound NAT rules on a load balancer to which the service has to restore an entry
  of its own, and a network that the deletion's copy has no record of;
* pools: once an operation has failed, it stays recorded and is polled for ever
  (`scalesets.go:169`), and once the result of a DELETE is converted like a scale set
  (`converters/vmss.go:31`), the reconciliation panics;
* `OutdatedInstancesFirst`: a machine that has not been reconciled since an edit still reports on
  the image before it. If the replicas are lowered in between, the selection believes it and
  takes the new instance, whose machine reports nothing yet, for the outdated one;
* `Debounced`: a key whose entry a full cache evicted is passed on at once;
* `RolloutCompletes`: an outdated machine whose node is lost blocks the rollout;
* `CredentialsRestored`: identity and binding each come back, but need not be there at the same time, since
  nothing ends the requests that delete them;
* `SecretsKept`: a secret that a controller created and a user labelled later keeps its owner references,
  and is collected with these owners;
* `TagsConverge`: tags put on or removed from the VM while the annotation was not saved.

`LoweredOnlyWithModel` is as much as holds of the comment that decreases are left to the
deletion of machines (`scalesets.go:253`): a PATCH for a model change carries the smaller
count, and Azure then chooses the instances, outside the strategy.

One disagreement has no run, being a single comparison: `validateCloudProviderConfigOverrides`
(`azurecluster_validation.go:439`) compares with nil at the creation and with the stored nil later, so
the overrides that `cloud-provider-config.md` documents are always refused. The model refuses them too.

### Bounds

Bounds are constants, or conjuncts of the MC modules.

* `pool`: two models, capacities 1 and 3, three operations, one fault or failure, one
  edit; a pool is edited or deleted. Three operations let a DELETE follow a PUT and a PATCH.
* `deployment_selection`: three machines with all statuses the code tells apart, desired
  counts 0 to 3, strategies with none, 1, 4 and 50% unavailable.
* `rollout`: five instance numbers, one or two replicas, one edit of image, replicas or
  both, one fault, in pools of one replica. With a sixth number the run reaches the same
  states, so numbers never run out.
* `coalescing`: a window of two seconds, a requeue delay of five and a back-off of up to four, so
  that either can be longer than the window, and the one longer than the other; two keys and a cache of one, so that entries are evicted; two workers.
* `cluster`: public and private, with and without bastion, user's group, user's network and
  network elsewhere; one fault; two writes of others to one load balancer and one
  security group, enough for one between read and write and one after. Three reductions: a group
  shrinks by all that nothing refers to at once, the cache follows only where the next
  step could read it (under strong fairness, since it is then enabled on and off), and others write only
  while there is no reconciliation or between a read and its PUT. The theorems need none of them.
* `machine`: two control planes that compete for two ports and one set, and one
  machine of each of thirteen other kinds; one fault, the loss of a VM being one.
* `aks`: two pools, four set-ups, one edit or fault; deletions at any time.
* `credentials`: five set-ups with up to two events of users and restarts, four of tags.
  Two owners share an identity, a template and a pool share a secret.
* `api`: eight kinds with manifests that use every branch of the conversions and an
  invalid one for most validations, two writes after the creation, which is what
  it takes to write back a stale copy over another's edit.

Deadlock is checked in `rollout` and `coalescing`; elsewhere the system may come to rest when users, faults
and edits are used up and the object is gone.

### Fairness

* Controllers: controller-runtime retries failed requests, requeues unfinished ones after
  15 to 30 seconds and resyncs all objects (sync period, `main.go:212`), so a
  reconciliation that stays possible goes on. Each reconciler is one action with weak
  fairness; steps of different machines, pools and objects have their own.
* The cache follows the API server; the garbage collector collects.
* Azure finishes what it accepted (`Settle`), with failure where the run allows it;
  instances start and nodes join unless a fault strikes.
* AKS: Cluster API deletes the pools and then the control plane of a deleted Cluster.
* Coalescing: time passes, timers fire, workers take the head of the queue and every
  reconciliation ends, because it runs under a timeout.

No fairness is assumed of users, other programs, faults or restarts.

## 4. Proofs

All are checked by TLAPS for every value of the constants: any number of machines,
keys, pools, edits and faults, every configuration and strategy. Each module has an inductive
invariant and one lemma per action or group of actions that keeps it; the theorems
below follow from it. Most of the properties are not inductive, and what has to be added says
why the code is right:

* `AzureMachinePoolProofs`: `TypeCorrect`; `Guarded` and `NothingResurrected` from `Inductive`. A reconciliation that works on a copy of the object may be past the check of
  the finalizer, so the invariant adds what each step of `pc` knows: beyond registration the copy
  and the object have the finalizer unless the object is gone or being released, and an
  accepted PUT presupposes that. `ScaleSetIsPreserved` needs `RequestInv`: a PUT is prepared
  only while there is no scale set, and a PATCH from a read that still holds, because nobody
  else sends requests between the two.
* `MachineRolloutProofs`: `DisruptionIsBounded`, `SelectionKeepsOrder`, `SelectionMakesProgress` of one selection, from
  lemmas on what `FirstOf` and `OverProvisioned` return: how many machines, and that ready ones
  fill up only when all outdated ones are taken. They hold for every answer that the
  orders of maps and sorts allow. Of whole rollouts, `SurgeIsBounded` adds that the capacity
  stays within the surge, which is what running operations scale out to. `OutdatedGoFirst` adds two facts about stale data: a machine that is not among the
  instances fetched earlier has none (`FetchedInv`), and a machine that reports a failed or going
  instance does so for good (`ReportedInv`).
* `CoalescingProofs`: `NothingLost`, `NothingDelayed`, `UpstreamIsSpared`. The delay is
  computed from the age of a cache entry, so the invariant adds that this is the time since
  the last success, and that the queue has every dirty key once; that entries go early only from a full cache needs that the
  cache's list and its ages name the same keys.
* `AzureClusterProofs`: `ClusterProtected` (the refinement of `ProtectedResources`), `ClusterSparesOthers`,
  `ReadyIsComplete`. The invariant says what a walk has left behind at each place (`WalkInv`),
  how the object and the cache are related however far the cache lags (`ObjectInv`: a cached copy that is live
  and has the finalizer means that the object has it), what a reconciliation knows of the object from the copy it
  has read, with patches lost and others' in between (`CopyInv`), and who owns what, also while a group
  is going (`AzureInv`).
* `AzureMachineProofs`: `MachineProtected` (the refinement, for each machine), `SetsAreRemoved`,
  `FailuresAreFinal`, `LostForGood`. `SetsRemoved` is about states in which everything is over; the
  invariant `SetInv` is what holds before: every availability set has a machine whose finalizer is
  not on its way out and which will look at the set once more. It is true because a
  machine checks the members after its own VM is gone.
* `AzureManagedClusterProofs`: `ObjectsAgree`, `AzureGoesFirst` (the refinement for the control plane, and the pools). The
  invariant relates each step to what it has read: a pool deletes without its agent pool
  only when the Cluster is being deleted, and the control plane reaches `release` with
  nothing left.
* `CredentialsProofs`: `UserSecretsSurvive` and `ForeignTagsSurvive`. A reconciler reads a secret, decides, and
  writes later, so the property does not follow from the check of the label. `WritersOK` adds
  that a reconciler about to update either saw a secret that still exists and is not a user's, or holds a
  copy that is stale, which the API server refuses. The garbage collector is the one exception: it takes
  a user's secret that still refers to objects that are gone. For tags, the annotation names tags of the machine
  only, so neither what is put on the VM nor what is taken off it is a tag of others; one that
  was put there after the read is lost to the PUT, which `ForeignTagsKept` says.
* `APIServerProofs`: `ManagedUntouchedKept`, `HubDataIsKept`, `ManagedEditsTakeEffect`, for objects and edits of any
  content. All three rest on `Tracks`: a copy that is not stale is the stored object, converted. For `ManagedUntouchedKept`,
  which is `KeepsUntouched` for the AKS kinds, `StoredSettled` adds that the defaults have nothing left to do to a
  stored object, whichever version it was written in: the key is drawn and every field complete since
  the creation. `HubDataIsKept` is `KeepsHubData` for every kind but AzureCluster; `HubInv` adds that a stored
  pool names the type of its strategy: the surge is lost on the way through v1alpha3, but
  then the write is refused. `ManagedEditsTakeEffect` is `EditsTakeEffect` for the AKS kinds: which fields the
  defaults complete does not depend on the key that is drawn, and the conversions undo each other on
  what v1alpha3 can say.

The assumptions are those of the modules, all evaluated by TLC: finite sets of machines, numbered from 1
where Azure numbers them; replica counts, windows and bounds are natural numbers; strategies are well typed; `Nil` is no
delay; no agent pool is called `controlPlane` (`ControllersAssumption`, which only keeps the
names of the model's controllers apart); tags of others have names the machine does not use
(`TagsAssumption`, the meaning of "foreign"); a generated key is not empty (`GeneratedAssumption`).

Only model-checked:

* liveness (`DeletionCompletes`, `EventuallyProvisioned`, `DeletedMachinesGo`, `RolloutCompletes`, `EventuallyProcessed`, `EndpointsAgree`,
  `PoolsConverge`, `SecretsServed`, `CredentialsRestored`, and the parts of `BecomesReady`, `LossHandled` and
  `TagsMerged` that are about the end), which is out of TLAPS's reach;
* of the API, `ObjectInv`, `HubDataKept` of AzureClusters, and `EditsTakeEffect` and `UntouchedKept` of the kinds that are not AKS's. Whether
  an object can be written back depends on what the conversions and defaults compute from sequences:
  the filter for inbound rules (`SelectSeq`) and the search for the subnet that a rule is restored
  to are induction over data, and `@@`, with which the larger structures are put together, is not
  known to the provers.

## 5. Not modelled

* Watches, predicates and the look-up of owners and clusters
  (`exp/controllers/helpers.go`, `controllers/helpers.go` in part): they decide when a reconciliation
  runs. In the models it may run at any time, and the fairness assumes the resync.
* Deep copies: values are not shared in TLA+, a copy is the identity.
* Telemetry, logging, feature gates and manager set-up.
* Early returns for paused and ownerless objects, conditions and events.
* The content of requests to Azure beyond the choices that can be refused; conversions
  of lists and of Cluster API's own types; regular expressions, which are sets of
  accepted names.
* A lagging cache in `AzureMachine` and `AzureManagedCluster`, whose reconciliations read the object as it is;
  `AzureMachinePool` and `AzureCluster` have it.
* In `MachineRollout`: a DELETE of an instance that fails, a lagging cache of machines,
  deletion of the pool, draining (a TODO in the code). The Newest and Random policies
  are covered by `deployment_selection` and by the theorems, not by the `rollout` run: with a stale model flag they may replace
  an instance with the new image, and the rollout then takes any number of instances.
* Availability over several selections: a machine marked for deletion still counts as
  ready (`machinepool_deployment_strategy.go:249`), so two reconciliations of a pool between two of a
  machine may go below the budget; `DisruptionBounded` is about one selection.

## 6. What could come next

1. The conversions of AzureMachine and AzureMachinePool written without `@@`, and
   `ManagedEditsTakeEffect` and `ManagedUntouchedKept` for them, one structure at a time.
2. `EndpointsAgree` without its liveness: an endpoint that is recorded is the one of the
   managed cluster that exists, unless that was created anew since.
3. The lagging cache in `AzureMachine` and `AzureManagedCluster`.
4. The early returns for paused objects, and the look-up of owners.
