# Formal model of consul-api-gateway

TLA+ modules that model the control plane of consul-api-gateway, TLC
configurations that check them on small instances, and proofs checked by TLAPS
for every instance. Source paths are relative to the repository's `internal/`
unless they say otherwise.

- [The system](#the-system)
- [Modules](#modules)
- [Runs](#runs)
- [Where code and documentation disagree](#where-code-and-documentation-disagree)
- [Proofs](#proofs)
- [Not modelled](#not-modelled)
- [Plan](#plan)

`PROJECT.json` lists components, runs, mutants, the lines each definition
stands for, findings, hazards and theorems.

## The system

consul-api-gateway is a Kubernetes controller (`consul-api-gateway server`) with
an agent in every gateway pod (`consul-api-gateway exec`).

```
 Kubernetes API                                         Consul
   | watch events                                         ^ config entries
   v                                                      | intentions
 controllers --> GatewayReconcileManager --> store --> sync adapter --> intentions
  (queues)        (namespaceMap, classes)     |  binder                 reconciler
                                              v
                     SDS server <---- getGateway (authorisation)
                       ^   | secrets
                       |   v
                      Envoy  <-- exec: registration, cert manager, Envoy process
```

| Component | State | Operations | What is hard | What makes it correct |
|---|---|---|---|---|
| SDS handler and secret manager (`envoy/handler.go`, `secrets.go`) | `nodeMap`; watchers by node, registry with references by secret; `LinearCache` | stream open, request, close; watch, unwatch, refresh loop | requests and the refresh loop share a read lock while they fetch and write, streams close at any time, a fetch fails half-way through a list, two timers | references are exact, no key outlives its watchers, a served node keeps its secrets, expiring secrets are refreshed |
| Sync adapter (`adapters/consul/sync.go`, `http.go`) | `a.sync`: entries written by the last successful Sync, and the intentions reconciler, by gateway | Sync, Clear | many entries, no transaction, errors and crashes between any two calls | never an ingress entry without what it needs; success means published; entries that are left behind have a known cause |
| Binder (`k8s/reconciler/binder.go`, `state/`, `status/route.go`) | routes held by listeners, parent statuses | Bind, Unbind | nested loops that undo each other's work | a route is held where, and only where, it is admitted |
| Store (`store/`) | gateways, routes | upsert and delete of both, SyncAllAtInterval | copies of routes in listeners, old versions, syncs of "modified" gateways only | no stale copy, nothing unpublished that is taken to be published |
| Controllers and manager (`k8s/controllers/`, `k8s/reconciler/manager.go`, `statuses.go`) | work queues, `namespaceMap`, Deployments | reconcile gateways and routes, annotate, deploy, restart | read first and apply later, swallowed errors, requeues, restarts, routes before gateways | no update is forgotten; the system converges |
| Gateway classes, configs (`k8s/reconciler/gatewayclass.go`, `k8s/controllers/gateway_class*.go`) | class cache, finalizers, the snapshot in a gateway's annotation | upsert, validate, evict, look up, finalize | three controllers over three objects that refer to each other; a cache that one fills and another empties | a new gateway takes the current configuration; deletions complete |
| Validation, resolution, conversion (`reconciler/validator`, `service/`, `reconciler/converter`) | none of their own | several reads of the cluster and of Consul, one after the other | what was read first changes before what is read last; which error wins; retries | a route or certificate is used only while it is permitted |
| Statuses (`reconciler/status`, `statuses.go`) | error fields, conditions in the API server | compute, compare, write | every write is an event that starts the next one; other controllers write the same object | the status becomes true, and writing it ends |
| Deployer (`reconciler/deployer.go`, `k8s/builder`) | objects of a gateway | create or repair, one call after the other | others scale, edit and delete them; a gateway comes back under its old name | in the end the objects are what the configuration asks for |
| Intentions reconciler (`consul/intentions.go`, `disco_chain_watcher.go`) | watchers by service, references by target, tombstones | SetServices, watch events, reconcile, Stop | compare-and-set with retries, delete race, channels | every target has the gateway as a source, no other loses one |
| Certificate manager (`consul/certmanager.go`) | CA, certificate, key, signal | root and leaf watches, files, WaitForWrite | three files, no atomic replacement | Envoy starts with a matching set |
| Registration and exec (`consul/registration.go`, `commands/exec/`, `envoy/manager.go`) | registered service, goroutines, the Envoy process | register, re-register, renew, deregister, start, stop | retries against shutdown, two contexts, a loop that nobody waits for | registered while it runs, gone when it returns, and it does return |
| Commands, connections, clients, logging | configuration | I/O | | |

The controllers call the manager behind its lock; the manager validates and
calls the store; the store holds its own lock from start to end of an operation
while it binds, updates statuses, deploys and calls the adapter; the adapter
holds its mutex during Sync and Clear and calls the intentions reconciler at
the end. The SDS server shares nothing with them but the store's `GetGateway`.

## Modules

| Module | Models | Remarks |
|---|---|---|
| `SecretManager` | `envoy/handler.go`, `secrets.go`, `middleware.go` | one action per callback and per step between two accesses of the shared maps; the refresh loop, the environment |
| `DiscoveryChain` | `discoveryChain` in `sync.go`, `http.go`, `consul/config_entries.go` | pure: which entries a resolved gateway becomes |
| `SyncAdapter` (extends it) | Sync and Clear of `sync.go` | one action per call of the Consul API |
| `SyncContract` | what a caller of the adapter may rely on | abstract: entries, what is known, a call and its outcome; `SyncAdapter` implements it |
| `Binder` | `binder.go`, `utils.go`, `state/`, `K8sGateway.Resolve` | pure: what Bind, Unbind and canBind leave behind |
| `Store` (extends it) | `store/store.go`, `memory_backend.go` | one action per operation |
| `Controllers` (extends `Store`) | controllers, `manager.go`, `statuses.go`, `gatewayclient/middleware.go` | composes API server, queues, manager, store, background sync and restarts |
| `Intentions` | `consul/intentions.go`, `disco_chain_watcher.go`, `common/service_names.go` | watchers, reconcile loop, adapter and others who edit Consul, step by step |
| `GatewayClasses` | `gatewayclass.go`, the three controllers around it, lookups and finalizers of `gatewayclient.go` | one class, its configuration and a gateway |
| `Status` | `status/zz_generated_status.go`, `generator.go` | pure: error fields, conditions, the JSON copy |
| `GatewayValidator` (extends it) | `validator/gateway.go`, `validator/utils.go`, `common/tls.go` | pure: one operator per check |
| `GatewayStatus` (extends it) | the validation, storing and status writing of a gateway, `state/gateway.go`, `statuses.go`, `status/equality.go`, watches of `gateway_controller.go` | one action per read or write of the cluster |
| `RouteValidator` (extends `GatewayValidator`) | `validator/route.go`, `service/resolver.go`, `converter/http.go`, `tcp.go` | pure: which backends resolve to what, and which error wins |
| `Routes` (extends it) | the validation, binding and status writing of a route, `status/route.go`, `http_route_controller.go`, `tcp_route_controller.go` | one action per read or write |
| `Deployer` | `deployer.go`, `builder/gateway.go`, `pkg/apis/v1alpha1/types.go`, writes of `gatewayclient.go` | one action per object |
| `CertManager` | `consul/certmanager.go` | one action per step on a file |
| `Registration` | `consul/registration.go` | the call and its two loops |
| `Exec` (extends both) | `commands/exec/exec.go`, `envoy/manager.go` | composes RunExec, certificates, registration, Envoy and Consul |
| `MC...`, ten of them | | instances for TLC |
| `...Proofs`, eight of them | | lemmas and theorems; `StoreProofs` has those of `Controllers` too |

### SecretManager

`watchers`, `refs`, `registered` and `cache` are the maps of `secretManager` and
the linear cache; `tracked` separates a node without names from an unknown one;
`stream`, `asked` and `nodeMap` are the handler's side. A certificate is
reduced to one fact: its copy here is inside the expiry window (`due`).

`SetResourcesForNode` (`secrets.go:157`) and `manage` (`:325`) hold the mutex for reading
only, although they write the maps and fetch over the network. A request is therefore a
record (`request`) that goes step by step: for each name `watch` finds an entry
(`watchFinds`) or sets out to fetch it (`watchFetches`, then `watchFetched` or
`watchFails`), pushes what it has fetched into the cache (`updateCertificates`), and
`unwatch` drops a reference, looks whether one is left, deletes the entry and takes the
secret out of the cache in steps of their own. `refresh` is the secret that `manage` is
fetching. Requests of all streams and the refresh interleave at every such step;
`UnwatchAll` takes the lock for writing and is one step (`Unlocked`). `live` says whether
the entry that a request or the refresh has in hand is still the registry's, `orphan`
that its watcher was deleted under its feet by another stream of the node.
`ConcurrentMapAccess` is Go's runtime, which may end the process whenever two holders of
the read lock are at work. Two history variables record what the read lock lets happen:
`lost` has the nodes whose reference on a name went with an entry that was replaced
(`:229`) or deleted, `leaked` the names that were put into the cache after their entry had
been deleted. `OnStreamRequest` itself is denied, handed to the manager, or panics on a
gateway that is gone. `Forces` says which of the two timers of `Manage` can fire: both are
created in every iteration, so that only the shorter one ever does.

#### What the secret manager model takes for granted

- A map that is written by two goroutines either ends the process or behaves as if the
  accesses came one after the other; a torn map is not modelled.
- A node has one stream for `RefsAreWatched` and `LiveStreamHoldsItsSecrets`. `NodeOf` is
  arbitrary in the module, but with two streams of one node the close of either releases
  what the other was given, in the model as in the code; the other properties hold for
  any `NodeOf`, and are proved so.
- go-control-plane calls `OnStreamClosed` after a callback has returned an error
  (external).
- `getGateway` answers nil for a gateway that was deleted after its stream was
  opened, and `handler.go:97` dereferences the answer: the process dies. The model
  restarts it with empty state.
- A fetched certificate carries the name under which it was asked for. A Vault KV
  secret does not set it (`vault/certificates.go:132-147`).

### DiscoveryChain and SyncAdapter

A resolved gateway is a function from listeners to rules by hostname and TCP
backends. `<<h, 0>>` is the consolidated service of hostname `h`, `<<h, n>>` the
virtual service that splits its `n`-th rule. `Computed` is the set of entries
that `discoveryChain` makes, `Body` what a router or splitter says;
`ConfigEntryIndex` is keyed by name, hence `Winner`. `filterTCPRoutes` keeps one
TCP route of those that a Go map yields in any order, hence `Choices`.

`SyncStages` and `ClearStages` are the order of calls in `Sync` and `Clear`; within
a stage the calls come in any order, and each of them may be applied or not and
may report an error whether it was applied or not (`Call`). `StageFailed` is the
early return, after which `a.sync` is what it was. `suspect` is a history variable
with the entries that a failed Sync may have written or a crash forgotten. One
gateway is followed: the mutex admits one call at a time and the entries of two
gateways have different names.

`SyncContract` says the same without stages: an entry is a name with what it says;
a Sync has a goal, writes only entries of it, removes only names that an earlier Sync
published and that the goal does without, and ends well only when the goal is there
and the rest of what was known is gone; a call that fails forgets nothing. The
refinement mapping at the end of `SyncAdapter` takes `a.sync` for what is known, the
entries computed from the snapshot for the goal, and forgets stages and pending
calls. Each stage's progress is a stuttering step or a write of the contract.

### Binder and Store

A gateway value is a version of a Gateway with its validated listeners, a route
value a version of a route with its references. `canBind` has the code's order of
checks. The loops of `Bind` are given by their result: a listener holds the route
if the last reference could bind there (`BindsTo`), because each earlier reference
is overruled; a status is what the last listener to touch it said.

Every store operation is an action that includes its statuses and syncs. A sync
ends in one of three ways: nothing written, written but not recorded, or written
and recorded (`SyncResults`); `SyncAdapter` is where this is refined. An upsert with an
older version than the stored one is a no-op in the code, and a disabled action
here (`Accepts`). Label selectors of namespaces are answered by a lookup that may
fail. Go's map order decides which gateway's status a route ends with (`Orders`).

### Controllers

Users write and remove gateways and routes, each with a new revision. `Read` takes
an object from the queue with its value; the rest of `Reconcile` is a later step with
that value, which may be outdated by then. A new gateway is only annotated, which
fails on a conflict, and comes back through the watch. `ReconcileFails` is any
error before the store is called. `Deploys` stands for `UpdateGatewayStatusOnSync`:
deployment comes before the sync and its failure prevents it. A failed Sync
becomes a condition in the status (`statuses.go:45`) and is repaired by the
background sync every 60 seconds. `Managed` is `deleteUnmanagedRoute`. `Restart` loses
store, adapter, manager and queues and lists all objects again; gateways are then
published without routes until the routes have been reconciled.

`configured` says whether a configuration is found for the gateways' class; `ClassChanges`
turns it on and off. A gateway without annotation that is reconciled while there is none
is taken for somebody else's and left alone, without an error or a requeue
(`IgnoreGateway`, `manager.go:157-166`), and the controller of gateways does not watch
classes. `ignored` is history: the gateways that were left alone with the value they still
have. A gateway leaves it when it is written again or the controller restarts.

### Intentions

One reconciler from its creation to `Stop`. The adapter's side of `SetIngressServices`
followed by `Reconcile` is `adapter`: it offers itself to the loop, waits for the answer
and holds the adapter's mutex until then, which is why `Stop` cannot come in between. A
watcher asks Consul, holds an answer and hands it over; a watcher that is cancelled
while it holds an answer may still hand it over, since `select` may choose either case.
Answers without news are left out: they wake the loop as the ticker does.

The loop works through the referenced targets and then through the tombstones. Each
target is read (`Get`), and written (`CAS`) or deleted (`Delete`), each call failing
before or after it took effect, with `MaxRetries` retries. `fresh` stands for the modify
index: the entry is as it was read. Operators and other gateways edit chains and entries
up to `MaxEdits` times. Left out: the canonical form of namespaces, and the overlap of a
stopped loop that is still writing with the reconciler that follows it.

A service that is dropped from the ingress entry and named again gets a second watcher.
The last result of the first one may then be taken after the second one's, and undo a
reference which the second one will not report again. `ReportsAreReferenced` and
`TargetsAreAllowed` therefore speak of services that have had one watcher.

### GatewayClasses

One configuration, one class and one gateway in the API server, three work queues and a
reconciliation under way in each controller, cut at every call. A copy that a controller
has read says whether it is still fresh: an update from an old copy is refused.
`Validated` is what `Validate` makes of a class; the class is cached by `UpsertClass`, then
its status is written. `evict` is what the configuration's controller does to the cache
when a configuration changes; it works from a listing, which may fail. `GetConfig`,
`LookUpClass` and `LookUpConfig` are the ways in which a new gateway gets its configuration, and
`Annotate` makes it final. `escaped` is history, kept in the copies of the class: the copy
missed an eviction (`UpsertClass` after it, `ListingFails`), or its configuration was found
gone (`Escape`), for which the code has nothing to do.

### Status, GatewayValidator and GatewayStatus

`Status` has for every condition its errors in the order in which they are looked at; a
condition shows the first that is set. Errors of type `string` and of type `error` go
through JSON alike (`Marshaled`, `Copied`). `GatewayValidator` has the checks as operators over
a specification and the part of the cluster that they read.

`GatewayStatus` makes the reads separate steps: the gateway, its pods, its service or the
pods' addresses, and then grants and secrets listener by listener. The store takes the
result and binds the routes that are there (`routes` counts them by listener). A sync
deploys, calls Consul and writes the status unless it equals that which came with the
copy; it is begun by an upsert, a route or the background loop. `Accepts` takes equal
versions: a gateway whose version is the same is validated again because of what it
refers to. A condition's message is compared too (`status/equality.go:21`), and some
messages are put together from Go maps: the protocols of a port in a conflict (`setToCSV`)
and the errors of a sync. `reworded` says whether such a message came out different from that
in the status which the gateway was read with; it is drawn where the message is made, and
makes the statuses differ. The message of a hostname conflict lists the protocols too
(`validator/gateway.go:137`), so that it varies only where the protocols do. All other
messages are taken to be functions of what the condition says; those of pods are of one
Deployment and are taken to be alike. `saw` is history: the Secrets as each listener's validation found them, since
Secrets are not watched and a status can only be as true as what was seen.

### RouteValidator and Routes

A route's backends are worked through in order: the grant, the object, then Consul, which
is asked again up to `MaxRetries` times while it does not have the service
(`AskAgain`). A route with an error is stored with all its errors and bound to nothing.
`Wordings` has the texts that one set of errors can be given: errors of several types are
listed in the order of a Go map (`resolver.go:102`), and so are the names under which Consul
has a Service that is ambiguous (`resolver.go:281-293`, `shuffled`). `mergedStatus` keeps the entries of other controllers, and the
write is refused if the copy is not fresh. Users edit a route but do not change its kind:
a route of the other kind is another object.

### Deployer

A gateway has a unique id, which stands for its UID and for the time of its creation, a
label of its pods. Objects are created or merged one after the other. `SetControllerReference`
compares the group, kind and name of the owner and not the UID: an object of an earlier
gateway of the same name is taken over, one of anybody else's is an error (`OwnedByOther`).
The service account alone is compared by UID (`gatewayclient.go:467`) and refused until it
has been collected. A Deployment that is taken over keeps its selector, and its template
unless ports or replicas differ; then the new template has other labels than the selector,
and the API server refuses it (`Admitted`). A Service that is taken over keeps its selector. `readReplicas`
and `ensureDeployment` are two steps: a scaling in between is overwritten. The Deployment is
compared by its ports and replicas only, as in `compareDeployments`. `asked` is history: the
last count that a user set while no sync was about to overwrite it.

### CertManager, Registration and Exec

The three files are written one after the other, each truncated first (`OpenFile`) and then
filled, and either may fail (`WriteFails`), which ends `persist` without the signal. The
handlers run under one lock, `writing`. `written` is history: files that have been written to
the end at least once. Results that a handler refuses are `IgnoreResult`, and `FetchLeafUnusable` in the first fetch.

`Registration` separates a registration that the loop has sent from its arrival
(`underWay`, `Applied`, `Lost`): it may arrive after the loop was cancelled. `atCancel` is
history.

`Exec` is `RunExec` with its deferred calls, which begin when `main` leaves its sequence
(`BeginReturn`). `cancelled` is the context of the interrupt handler and of Envoy, `groupDone`
that of the certificate manager. Envoy may fail, exit with 0 or be killed. When `RunExec`
returns, the process ends, and with it the other goroutines.

## Runs

| Run | Instance | States | Shows |
|---|---|---|---|
| `SecretManager` | 2 streams of 2 nodes, 3 secrets, 4 lists of names, 30 s and 30 min | 593,454 | references agree and only the named races lose one or leak a secret; teardown is complete; expiring secrets are refreshed |
| `SyncAdapter` | 1 listener, 2 hostnames, up to 2 rules, splits, 1 TCP backend | 285,104 | ingress always backed, exposed only when complete, only failures leak, the contract is implemented |
| `SyncAdapterSharedHost` | 2 listeners, 1 hostname | violation | `EveryRuleIsRouted` |
| `Store` | 2 gateways with 2 listeners, 2 routes, 2 versions | 50,220 | no stale, unadmitted or unreported binding; synced gateways are as stored |
| `StoreTwoRefs` | 1 gateway, 1 route with 2 references | violation | `EveryParentBinds` |
| `Controllers` | 1 gateway, 1 route, a class that comes and goes, 4 user writes, 1 restart | 47,336 | nothing outdated is forgotten but gateways taken for those of others; convergence |
| `Intentions` | 2 services, 1 shared target, 2 watchers, 2 edits, 1 retry | 74,108 | exact references, no source lost that should stay, Reconcile returns, targets are allowed in the end |
| `GatewayClasses` | 2 contents of a configuration, 2 changes or faults | 301,644 | the cache is current or about to be, three cases aside; deletions complete |
| `GatewayStatus` | 2 specifications of 2 listeners, 2 sets of grants, 2 of pods, a LoadBalancer, 2 changes or faults | 377,959 | revoked certificates go, bound is published, the status becomes true, the loop ends |
| `Routes` | 5 specifications, 2 sets of grants, 2 catalogs, mesh services, a peer, 1 retry, 2 changes or faults | 352,986 | bound is permitted, others' statuses stay, the status becomes true, the loop ends |
| `Deployer` | 2 configurations, 2 lists of ports, 5 changes or faults | 301,559 | in the end the gateway runs as its configuration asks, an inherited Deployment aside |
| `Exec` | 2 versions of each certificate, 2 tries, 1 expiry | 576,404 | Envoy starts with its files, files match, the registration goes and comes as it should, the agent returns |

What the properties say:

- `RefsAreWatched`: at every step of interleaved requests the two sides of the reference
  count agree, through failed fetches, closes, panics and map races.
- `SecretsAreReferenced`: a secret in the registry or the cache has a node that references
  it, or a request is just removing it. Excepted, by name: `leaked`, what a push or a refresh
  whose fetch was under way put back into the cache.
- `LiveStreamHoldsItsSecrets`: whatever other streams do, a served stream holds references
  on all it was given. Excepted, by name: `lost`, a reference that went with its entry when
  another request replaced or deleted it. Without either exception TLC shows the race.
- `ClosedNodesAreForgotten`: a node without streams is not tracked.
- `ExpiringIsRefreshed`: a secret in its expiry window is fetched again, or nobody
  watches it any more.
- `IngressIsBacked`: at every moment an HTTP service named by the ingress entry has
  router and defaults.
- `ExposedWhenComplete`: the step that makes the ingress entry name a service finds its
  router, splitters and defaults in place and in agreement.
- `OnlyFailuresLeak`: what is live and not tracked comes from a failure or crash.
- `ImplementsContract`: the adapter implements `SyncContract`, so that, among other
  things, Consul agrees with the gateway after a Sync that reports success.
- `BoundRouteIsCurrent`, `BoundWhereAdmitted`: what a listener holds is the stored
  route, and the listener admits it as both are now.
- `HeldIsReported`: a route with one reference that a listener holds has a stored status
  that says so, whichever of route and gateway came first. The one refusal that may stand
  beside a binding is that of a namespace lookup that failed for a listener.
- `PublishedIsStored`: a gateway whose last sync succeeded is in Consul as it is
  stored, although operations sync only what they take to be modified.
- `OutdatedIsPending`: an object whose stored value is not that of the API server is in
  the queue or being reconciled with its present value. Excepted, by name
  (`TakenForOthers`): a gateway without annotation that was reconciled while its class had
  no configuration, also if that arrives later.
- `Converges`: once users stop, store and Consul agree with the API server, with the same
  exception.
- `ReportsAreReferenced`: a service is counted for exactly the targets its watcher has
  reported, whatever order results of several watchers are taken in.
- `RemovedOnlyUnreferenced`: the loop takes the gateway's source only from a target that
  is unreferenced at that very moment, although it decided so earlier.
- `OthersKeepTheirSources`: edits between the loop's read and write are not lost, except
  by the deletion of an entry, a race the code documents.
- `ReconcileReturns`: Sync, which waits for the loop with the mutex held, goes on.
- `TargetsAreAllowed`: once nothing is edited, the gateway is a source of every target.
- `CachedIsCurrent`: a valid class in the cache has the configuration that the class
  refers to now, or an event is on its way. Three cases are excepted (`escaped`), in which
  the code leaves the old copy there: a class validated before the change and stored after
  the eviction, a listing that failed, and a configuration that has gone.
- `DeletionsComplete`: a configuration or class that is being deleted goes once nothing
  uses it.
- `RevokedIsPending`, `BoundIsPermitted`: a certificate or backend of another namespace
  whose grant was taken back may still be in the store, but then a request is queued or a
  reconciliation under way has not looked at it yet or has left it out.
- `BoundIsPublished`: a listener that routes are bound to is one that `Resolve` publishes,
  although the two look at different error fields.
- `StatusBecomesTrue`, `RouteBecomesTrue`: once the world rests, the published status says
  what is the case. Exceptions are named in the definitions: events that were lost because
  a listing failed, secrets and MeshServices (which are not watched), and a Consul that
  stays down.
- `LoopEnds`, `RoutesSettle`: the controllers do not answer their own status writes for
  ever. Both except a Consul that stays down, and what has a message that a Go map puts into
  random order, which the code rewrites again and again: for `LoopEnds` a gateway with
  listeners of several protocols on one port, for `RoutesSettle` a route with errors of
  several types or with a Service that Consul has under several names. Without these
  exceptions TLC shows the endless loop.
- `OthersKeepTheirStatuses`: no write of a route's status changes an entry of another
  controller.
- `DeployedAsWanted`: see the definition; it includes limits on instances, a user's
  scaling, a predecessor's service account that is in the way until it is collected, and that
  a deleted gateway leaves nothing it owned. Excepted, by name: objects of somebody else's
  (`Taken`), a count set between a sync's read and its write (`asked`), and a Deployment taken
  over from an earlier gateway of that name (`Inherited`).
- `SignalledIsWritten`, `EnvoyWithinItsMeans`: the signal, and so Envoy, waits for all three
  files, whatever failed before; Envoy never outlives the wait of `RunExec`.
- `PairOnDisk`: between writes, if none failed, certificate and key on disk are the pair in
  the cache.
- `OnlyUnderWayReturns`: a service that is registered after a successful deregistration was
  already under way when the loop was cancelled.
- `AgentReturns`: after an interrupt, a failure of Envoy or of the certificate manager,
  `RunExec` returns.
- `RunningIsRegistered`: a running agent that Consul has lost is registered again.

**Bounds.** Two nodes and the lists `{}`, `{a}`, `{a, b}` and `{c}`, of which `c` is not
permitted, are enough for a shared and an exclusive secret, for a list that fails in the
middle, for two fetches of one name, for an unwatch against a watch or a refresh, and for a
close that must not touch the other node. In `SyncAdapter`, hostnames and splits come and go between two
snapshots, which is what the deletion stages see; a second gateway would not share
any entry. In `Store`, two gateways are needed for references to several parents
and two routes for the TCP listener that admits one; versions 1 and 2 give old,
equal and new. In `Controllers`, `MaxRevision` = 4 user writes allow creation of both
objects and an edit or deletion of each, with annotation on top; `MaxRestarts` = 1;
the class changes without a bound. In `Intentions`, two watchers are either those of two services that share a target or two
of one service; the initial chains lead to the target, so that two edits suffice for a
removal and an edit that races with it; `MaxRetries` = 1 instead of 3 has both outcomes
of a failed attempt. `MaxChanges` counts what users, the cluster and
faults do: two are enough for a change in the middle of a reconciliation and a failure or a
second change on top, and for the deployer five, so that a gateway can be created, deleted
and created again with something happening to its objects in between. The specifications of
`MCGatewayStatus` and `MCRoutes` are those that differ in which check refuses them. `GatewayStatus` is run with a LoadBalancer;
the other service types differ in where the addresses are read from, and with two types the
run takes too long. `MaxVersion` = 2 gives every file an old and a new content. The proofs below have no such bounds.

**Deadlock** is checked except in `Controllers`, `GatewayClasses` and `Deployer`, where users
stop at a bound and everything may have been done, in `Intentions`, where `Stop` is the end,
and in `Exec`, where `RunExec` returns.

**Fairness.**
`SecretManager`: strong fairness of taking up an expiring name and of a successful
fetch of it by the refresh loop, because the loop runs as long as the server and a
source that is asked again and again answers in the end. Clients and operators
owe nothing. `Controllers`: weak fairness of taking an object from its queue and of
Kubernetes' garbage collection; strong fairness of the successful outcome of
annotating (or leaving alone), reconciling and deleting, and of a background sync that succeeds for all
gateways, because each is retried (work queue, delayed requeue in
`gatewayclient/middleware.go`, 60 s interval) and the services behind them are not
down for ever. Users, the class and crashes owe nothing. `Intentions`: weak fairness of the loop and of
answers to the queries, strong fairness of taking a call of `Reconcile` and a watcher's
result, because Go's `select` picks at random among what is ready, and of reads and
compare-and-sets that succeed, because they are made again every minute. `GatewayStatus`,
`Routes`, `GatewayClasses` and `Deployer`: weak fairness of the controllers' workers, of a sync
under way, of the background loop and of the garbage collector; strong fairness of what waits
for a lock, because `sync.Mutex` does not let a waiter starve. Faults are bounded by
`MaxChanges` and owe nothing. `Exec`: weak fairness of the goroutines, strong fairness of
the arrival of a registration, because it is sent again every 30 seconds; users, Envoy and
Consul's rotations owe nothing. `SyncAdapter` and `Store` have no fairness and no liveness
property.

## Where code and documentation disagree

Each of these is a run that ends in a counterexample; `PROJECT.json` quotes the lines.

- `EveryRuleIsRouted`: two listeners with a common hostname share one router name; the
  later one replaces the earlier one's rules.
- `EveryParentBinds`: a route with references to two listeners of a gateway is bound to
  the last one only.

Also noticed while modelling, without a run; the models do as the code does:

- Secrets: a request that fails half-way leaves secrets registered that are not in the cache
  (`envoy/secrets.go:215`, comment at 32); the forced re-fetch of `Manage` never happens, as its
  timer is created anew in every iteration (`:314`, comment at 306). The read lock, against the
  comments at 196 and 275, lets two nodes that fetch one name at the same time end with one
  reference between them, so that the close of either takes the secret from the other (`:229`);
  an unwatch delete an entry that has got a reference since it looked (`:288`); and a push or a
  refresh put a secret back into the cache that nobody references any more (`:232`, `:339`).
- Store and manager: a gateway update that stops admitting a route leaves the route's status
  accepted (`store/store.go:94`); a route reconciled before its gateway is dropped and nothing
  queues it when the gateway arrives (`manager.go:285`); a gateway reconciled before its class
  or its configuration is left alone, and nothing queues it when they arrive
  (`manager.go:157-166`; classes are not watched, `gateway_controller.go:94-113`); `k8s/README.md:27` describes a delayed
  requeue for failed syncs, which `statuses.go:45` turns into a status.
- Adapter and intentions: `Clear` after a first Sync that failed does nothing (`sync.go:262`);
  targets of a service that leaves the ingress entry stay in `targetIndex` (`intentions.go:206`,
  comment at 78).
- Statuses: `GatewayStatusEqual` does not compare addresses; a listener with two TCP routes is
  Ready although `Resolve` leaves it out; messages that are compared are put together from Go maps, so that the status is rewritten
  at random, each time starting the next reconciliation: protocols in a listener conflict
  (`validator/gateway.go:487`), errors of a sync, errors of several types
  (`resolver.go:102`) and names of an ambiguous Service (`resolver.go:281`); the message of
  a hostname conflict lists protocols (`validator/gateway.go:137`); the JSON copy of `ResolutionErrors`
  loses texts.
- Watches: Secrets, MeshServices and Consul's catalog have none; a listing that fails in
  `get...AffectedBy...` drops the event.
- Classes: a class validated before its configuration changed and stored after the eviction
  stays cached with the old one; a configuration that goes leaves its class cached
  (`gateway_class_config_controller.go:45`), and a new gateway takes it; a gateway created between `GatewayClassInUse` and the removal
  of the finalizer loses its class.
- Deployer: a scaling between the read of the replicas and the write is overwritten; a gateway
  that is created again before the objects of its predecessor are collected takes over its
  Deployment and Service with the old template, labels and selectors, and a later change of
  ports or replicas is refused by the API server for good; a change
  of the pod template alone is not applied (`compareDeployments`); with `maxInstances` below
  `minInstances` the minimum wins; role and binding have no owner and outlive the gateway.
- Exec: Envoy exiting with 0 leaves `RunExec` waiting for the certificate manager
  (`exec.go:195`); files are truncated in place while Envoy may read them (`certmanager.go:291`).

## Proofs

The theorems hold for all values of the constants that satisfy the named
assumptions of the modules: `NodeOf` maps streams to nodes and `NoNode` is not one;
timeouts and numbers of listeners and rules are natural numbers; split rules are rules;
no backend has a made-up name; snapshots respect `MaxRules`; gateway and route values
have the fields the binder reads, and a ready listener is valid; gateways are finitely
many; `Absent` is not a value; in `Controllers`, gateways and routes are disjoint;
in `Intentions`, the gateway is not one of the others, the special values are not sets of
sources or targets, and at least one watcher may be started; in `Exec`, there is at least
one version of the certificates and one try; in `GatewayClasses`, there is a configuration;
the gateways of `GatewayStatus` and the routes of `Routes` have the shape of the Gateway API's
types, with at least one listener, and grants that of a ReferenceGrant; Consul's nodes and
namespaces are searched in some order.

| Theorem | Property |
|---|---|
| `SecretManagerProofs!TypeCorrect` | `TypeOK` |
| `SecretManagerProofs!ReferencesAreSound` | `RefsAreWatched`, assuming `OneStreamPerNode` |
| `SecretManagerProofs!NoSecretOutlivesItsWatchers` | `SecretsAreReferenced` |
| `SecretManagerProofs!CloseForgetsTheNode` | `ClosedNodesAreForgotten` |
| `SecretManagerProofs!ServedStreamsHoldTheirSecrets` | `LiveStreamHoldsItsSecrets`, assuming `OneStreamPerNode` |
| `SyncAdapterProofs!IngressStaysBacked` | `IngressIsBacked` |
| `SyncAdapterProofs!AdapterImplementsContract` | `ImplementsContract` |
| `SyncAdapterProofs!SuccessMeansPublished` | `SuccessIsPublished` (a corollary) |
| `SyncAdapterProofs!OnlyFailuresLeakEntries` | `OnlyFailuresLeak` |
| `SyncAdapterProofs!ServicesAreCompleteWhenExposed` | `ExposedWhenComplete` |
| `StoreProofs!NoStaleRoute` | `BoundRouteIsCurrent` |
| `StoreProofs!HeldOnlyWhereAdmitted` | `BoundWhereAdmitted` |
| `StoreProofs!WhatIsHeldIsReported` | `HeldIsReported` |
| `StoreProofs!SyncedIsStored` | `PublishedIsStored` |
| `StoreProofs!NothingOutdatedIsForgotten` | `OutdatedIsPending` |
| `IntentionsProofs!TypeCorrect` | `TypeOK` |
| `IntentionsProofs!ReferencesAreExact` | `ReportsAreReferenced` |
| `IntentionsProofs!ReferencedTargetsKeepTheGateway` | `RemovedOnlyUnreferenced` |
| `IntentionsProofs!OthersAreKept` | `OthersKeepTheirSources` |
| `ExecProofs!SignalIsEarned` | `SignalledIsWritten` |
| `ExecProofs!FilesMatchTheCache` | `PairOnDisk` |
| `ExecProofs!EnvoyHasItsMeans` | `EnvoyWithinItsMeans` |
| `ExecProofs!OnlyLateRegistrationsReturn` | `OnlyUnderWayReturns` |
| `GatewayClassesProofs!CacheIsCurrent` | `CachedIsCurrent` |
| `GatewayStatusProofs!ReadyMeansServable` | about `validateListener`: no Ready error exactly when `Servable` |
| `GatewayStatusProofs!RevokedCertificatesArePending` | `RevokedIsPending` |
| `GatewayStatusProofs!WhatBindsIsPublished` | `BoundIsPublished` |
| `RoutesProofs!ServicesAreOfTheirBackend` | about `findGlobalCatalogService`: the search finds an instance of the very Service, if there is one |
| `RoutesProofs!BackendsArePermitted` | `BoundIsPermitted` |
| `RoutesProofs!OthersStatusesAreKept` | `OthersKeepTheirStatuses` |
| `RoutesProofs!RoutesAreBoundWhole` | `EveryBackendIsResolved`: a bound route has all backends of all its rules |

The inductive invariants:

- **Secret manager.** `Counting` says that a registered name has a reference or a request
  that is about to collect it (`Registered`, `Releasing`), and that a cached one is registered,
  leaked or being removed (`Cached`); it needs no assumption on `NodeOf`. `Mapping` says that a
  tracked node is in `nodeMap` for a stream that is not closed. `Holding`
  ties the node's one request to its watch list and references (`Books`, `Held`): a name
  that was answered is watched, what is watched is referenced, lost, being fetched or being
  dropped, and a reference is on a watched name. It is broken between two streams of one
  node, hence the assumption.
- **Sync adapter.** `Publishing` says, stage by stage, what has been settled:
  everything of the earlier "set" stages is live with its computed body (`SetIsSettled`),
  a Clear past its first stage has hidden the ingress entry (`ClearHidesFirst`), the
  deletion stages work only on what is not computed (`TodoIsWork`), and whatever is live
  is tracked, suspect or being written (`LiveIsKnown`). `IngressIsBacked` alone does not
  survive a step: that the deletion of a router is harmless follows from the stage before
  it. `ExposedWhenComplete` follows from the same invariant, as an action property.
  TLC has checked `Publishing` on the instance of the run as well. The refinement is proved
  action by action from it: a call of the API is a `Write`, a `Remove` or a stuttering step
  because what is written is part of the goal (`TodoIsWork`) and nothing else of the gateway
  changes; the end of a Sync is `Synced` because of `SetIsSettled` and of what the deletion
  stages have finished.
- **Store.** `Binding` joins types, `BoundRouteIsCurrent`, `BoundWhereAdmitted` and
  `PublishedIsStored`. The last needs the first: a gateway that `Bind` or `Unbind` does not
  report is unchanged, because whatever it holds is the stored route. `HeldIsReported` is
  inductive beside it: of the listeners that answer a reference the last one decides the
  status, and beside one that binds only a failed lookup refuses (`RefusedBeside`).
- **Controllers.** `Tracking` adds to `OutdatedIsPending` that a reconciliation under way
  with an outdated value has its object in the queue again (`OutdatedReadIsQueued`);
  otherwise its end would drop the object. A gateway enters `ignored` only with the value that
  the API server has, and leaves it when it is written, so that the exception covers no other
  way of forgetting one.
- **Intentions.** `Updating` says that the loop is at work on a target of its list, that
  what it read is current while `fresh`, and that tombstones, of which the list is made in
  the second half, are unreferenced; a write of the loop is then one to a target whose
  entry it knows. `Reporting` counts a service for what its first watcher reported, whether
  the service is still named or not: only so does it survive the late result of a
  cancelled watcher.
- **Exec.** `ExecInv` joins types, `CertInv`, `EnvoyWithinItsMeans` and `Leaving`. The
  signal is given after the last file of a pass only, so `CertInv` says what the pass has
  written before the file it is at (`PassOrder`) and what the files hold then (`Disk`).
  `Leaving` says that from the cancellation of the loop on, nothing is under way that
  was not under way at that moment; Envoy's part needs that what has been written is
  never taken back.

- **Gateway classes.** `Caching` follows a value from the API server into the cache: a copy
  of the class that is read is current or the class is queued (`ReadIsCurrent`), the
  configuration it was validated with is current, about to be evicted or escaped
  (`ValidatedIsCurrent`), and while its status is written the mutex keeps it in the cache as
  it was validated (`CachedAsValidated`). `Dying` says that what the configurations'
  controller found being deleted is still there, and `Owned` that a cached class is ours:
  without them, an eviction could pass a class by.
- **Gateway status.** `Publishing` adds to the two properties the shapes of what is under
  way, that a listener which is not valid is not ready either (`ListenersAreJudged`, which
  makes the two views of a listener's errors agree), and that the certificates which a
  reconciliation has let pass so far are still permitted or it will be done again
  (`PassedIsPermitted`). That the JSON copy keeps an error of each condition is a lemma about
  `Status`. TLC has checked `Publishing` on the run's instance.
- **Routes.** `Binding` says of the backend at hand, of those resolved so far and of those
  stored that each is permitted or the route is queued (`CheckedIsPermitted`, `RecPermitted`,
  `StoredPermitted`); that without an error all backends so far have been resolved
  (`RecComplete`, `StoredComplete`), and that a route of the wrong shape, whose backends are
  not looked at, has an error (`WrongShapeFails`); and that a fresh copy has the statuses of
  the others (`FreshCopies`). The walk over rules and backends is over their concatenation;
  that this is a sequence with every backend in it is shown by looking at the least rule for
  which it would not be so, since the provers cannot use induction theorems. TLC has checked
  `Binding` on the run's instance.

**Only model-checked**: the liveness properties (`ExpiringIsRefreshed`, `Converges`,
`ReconcileReturns`, `TargetsAreAllowed`, `DeletionsComplete`, `StatusBecomesTrue`, `LoopEnds`,
`RouteBecomesTrue`, `RoutesSettle`, `DeployedAsWanted`, `AgentReturns`, `RunningIsRegistered`),
because fairness and ENABLED are out of the prover's reach, and with them all of `Deployer`;
and the counterexamples. What a recursive definition computes in general would need induction
over data, which the provers cannot instantiate. Every invariant and every action property
without liveness that a run checks is stated by a theorem.

## Not modelled

- Translation of matches, filters, header modifiers and split weights; the hashes in
  names and their collisions; the order of rules that comes from Go maps; a rule all of
  whose weights are zero.
- Torn maps after a data race of the secret manager; two intentions reconcilers that
  overlap after a Clear.
- A gateway deleted while the controller is down: its entries stay in Consul.
- The informers' resync after hours, which would repair what has no event.
- Namespaces and partitions of Consul, client set-up, login, Vault: I/O.
- Formatting, logging, flag parsing, templates, generated deep copies, metrics and
  profiling: no state that the others depend on.

## Plan

1. Theorems on `Deployer`: what each call leaves behind, and that no object of another owner
   is touched.
2. Two intentions reconcilers that overlap after a Clear.
3. A property of the composed system on entries without a gateway, and the store over
   `SyncContract` instead of its own outcomes of a sync.
