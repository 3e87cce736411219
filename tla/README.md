# Verification of wire-connector

wire-connector builds network topologies between Kubernetes pods. A `Link` names two
endpoints (a pod and an interface each); the *wirer* finds the hosts the pods run on and
tells the wire daemons of those hosts to connect the interfaces, directly when the pods
share a host and through a VXLAN tunnel otherwise. Other controllers create the pods and the
namespaces, claim endpoints for Links, give out tunnel ids and watch the workload clusters.
This directory holds TLA+ models of these controllers and of the daemon, TLC configurations
that check them on small instances and TLAPS proofs that hold for every instance.

## 1. Inventory

### Components, their state and operations

| component | source | state | operations | module |
|---|---|---|---|---|
| endpoint state machine | `pkg/wirer/state/state.go` | the state of one endpoint: Deleted, Creating, Created, Deleting, Failed, ResolutionFailed | `HandleEvent` of each state for create, delete, resolution failure, and the worker's created, deleted, failed | `EndpointState` |
| wire controller | `pkg/wirer/wirecontroller` (`controller_wire.go`, `wire.go`, `wire_cache.go`, `controller_resolve.go`) | the wire cache: per wire the desired action, the state and status of both endpoints and what they resolved to | `WireGet`, `WireUpSert`, `WireDelete`, resolve and unresolve, event handling and its settlement | `WireController` |
| workers and dispatcher | `worker.go`, `dispatcher.go` | per daemon address one goroutine with a channel of 10 events | `Write` (blocks when full), the loop that calls the daemon and reports the answer, `Stop` | `WireController`, `NodeEndpoint` |
| cache callbacks | `controller_callback.go`, `pkg/wirer/cache.go` | caches of pods, nodes, daemons, services, topologies, clusters | upsert and delete of an entry, each of which starts goroutines on the wires or node endpoints it concerns | `WireController`, `NodeEndpoint`, `ClusterWatch` |
| Link reconciler | `controllers/wire-controller` | the finalizer and the wiring condition of a Link | `Reconcile`: get, create, delete, poll again | `LinkController` |
| VXLAN index | `pkg/wirer/backend/vxlan`, `pkg/wirer/vxlan/client`, `controllers/vxlanindex-controller` | the ids given out, in memory and in a ConfigMap | claim, release, save, restore, create and delete the index | `VxlanIndex`, `IdAllocator` |
| endpoint claims and leases | `controllers/link-controller2`, `pkg/endpoint`, `pkg/lease` | the claim in each Endpoint, a lease per cluster | claim the endpoints of a Link, undo, set its Ready condition | `EndpointClaims` |
| logical interconnect controller | `controllers/logicalinterconnect-controller` | none of its own | select endpoints for a bundle of Links, claim them, create the Links | `EndpointClaims` |
| node endpoint controller | `controllers/node-ep-controller`, `nodeep.go`, `nodeep_cache.go`, `controller_ep.go` | one endpoint state per Node, the EPReady condition | create, delete and get of the interfaces of a Node, its Endpoint resources | `NodeEndpoint` |
| wire daemon | `pkg/wirer/wiredaemon` | the veth pairs, tunnels and XDP programs of one host | `WireUpSert`, `WireDelete`, `EndpointUpSert`, `EndpointDelete` and their gets | `WireDaemon` |
| gRPC server, clients, proxies | `pkg/grpcserver`, `pkg/wirer/client`, `pkg/wirer/proxy` | a semaphore, the registered watches | unary calls, watches, start and stop of a client | `GrpcServer` |
| cluster controller and cache controllers | `controllers/cluster-controller`, `pkg/cluster`, `controllers/{pod,node,service,topology}-cache-controller` | the cluster cache, sets of watchers, the shared caches | reconcile a kubeconfig secret, reconcile a watched object | `ClusterWatch` |
| topology and node pool controllers | `controllers/topology-controller`, `controllers/node-nodepool-controller` | none of their own | namespaces and ConfigMap copies of Topologies, Nodes of NodePools | `Inventory` |
| node deployer and drivers | `controllers/node-deployer`, `pkg/node` | none of their own | pods of Nodes, their initial configuration, the Ready condition | `NodeDeployer`, `Inventory` |
| others | section 7 | | | |

### How they interact

1. The topology controller makes the namespaces, the node pool controller the Nodes of
   servers, the node deployer the pods of network nodes. The node endpoint controller asks
   the wirer for the interfaces of a Node and creates its Endpoint resources.
2. The link controller claims the two endpoints of a Link and sets it Ready; the logical
   interconnect controller claims a bundle of endpoints and creates the Links over them.
3. The Link reconciler polls `WireGet`, and calls `WireUpSert` or `WireDelete` until the
   answer is the one it wants; a finalizer keeps the Link until the wire is `NotFound`.
4. `WireUpSert` claims a VXLAN id, puts the wire in the cache, resolves both endpoints
   through the topology, pod and daemon caches and sends a create event to each endpoint's
   state machine. A transition to Creating or Deleting generates an event for the worker of
   the endpoint's host. The second endpoint of a co-located wire generates none: the first
   one's daemon call serves both.
5. The worker calls the daemon over gRPC and sends created, deleted or failed back into the
   state machine. When a wire to be deleted has status OK its id is released and it leaves
   the cache.
6. The cache controllers call back on every change: an upsert reconciles every wire and node
   endpoint, a delete unresolves those it concerns and reports a resolution failure. The
   failure of a pod also deletes the other end; that of a daemon is *held* (most likely it
   restarts). With several clusters, the cluster controller starts one set of these
   controllers per kubeconfig secret, and all of them write the same caches.

### What is hard

All of these run in goroutines of their own. The caches lock each single call, but a handler
is a sequence of calls, and `wcache.HandleEvent` itself reads a wire, changes the shared object
and puts it back without a lock; neither the VXLAN index nor the daemon locks anything across
the steps of a call. So the hard behaviours are interleavings of gRPC handlers, callbacks and
workers over one wire; resolutions that change between the state change and the write of its
event; answers that arrive after the state has moved on; replaced workers that keep executing
what is in their channel; full channels and exhausted permits; updates made from stale copies;
leases that end while their holder works; restarts of the controller and of the daemon between
two steps; calls that fail after they had their effect; watchers of one cluster started twice;
and the polling of the reconcilers, which must end well in spite of all of them.
`PROJECT.json` lists the main ones by line.

What makes the parts correct:

* state machine and wire controller: an ongoing state has a daemon call under way; status OK
  means deployed; a wire nobody asked to delete keeps its entry and its id; a restarting
  daemon does not tear down the other end; every call ends;
* Link reconciler: a ready Link ends up wired; a deleted Link goes and leaves nothing behind;
  a wire in the cache is held by its Link's finalizer;
* VXLAN index: no id in use is given twice, an owner has one id, a claim outlives a restart, a
  Link is not starved while an id is left for it;
* claims: no owner loses its endpoint to another, what a resource that is there uses is claimed,
  what is gone is released, a Link whose endpoints are free becomes Ready;
* node endpoints: the controller stops polling only when done; a Node that is EPReady has its
  interfaces; deletion ends;
* daemon: OK means connected in both directions, deletion leaves nothing, a pair is whole
  unless the code left it so, repeating a call until its OK is enough;
* gRPC: permits are neither lost nor doubled, every unary call ends, a stopped client frees
  what it held;
* clusters: caches follow secrets and objects, workers the services; inventory: at rest, what is there is what the
  resources ask for.

## 2. Order of work

Models: `EndpointState`, `WireController`, `LinkController`; then `VxlanIndex` with its abstract
`IdAllocator`, `EndpointClaims`, `NodeEndpoint`, `WireDaemon`, `GrpcServer`, `ClusterWatch`,
`NodeDeployer` and `Inventory`.

Proofs: `WireControllerProofs`, `VxlanIndexProofs`, `GrpcServerProofs`, `EndpointClaimsProofs`,
`WireDaemonProofs`, `NodeEndpointProofs`, `InventoryProofs` (which covers `NodeDeployer`) and
`ClusterWatchProofs`. Every safety property of the passing runs is proved; the Link reconciler's
came last, since they need both the invariants of the wire controller and the place of the
reconciler.

## 3. Modules and how they correspond to the code

Conventions. A variable `todo`, `call`, `pc`, `job`, `turn`, `dep`, `tp` or `kp` is what a
goroutine still has to do; an action executes its next call, so two actions of different
goroutines interleave exactly where the code makes a call that others can see. What only reads
is part of the step after it. `spent`, `used` and `faults` count against the named bounds.
Operators marked *Faulty* next to a definition are plausible mistakes in it; each makes TLC find
a violation of the property it is listed with in `PROJECT.json`. `MC*` modules name the hosts,
endpoints and calls for TLC. A module `XProofs` extends module `X` with its theorems (section 6).

**`EndpointState`** has one operator per `HandleEvent` method of `state.go`. Each returns the
state the method passes to `Transition`, or `Ignored` when it returns without a transition;
`GeneratedAction` and `PropagatesFailure` are the two other things the methods do. Messages
are left out: they only come with NOK states.

**`WireController`** models one wire name, in the in-cluster mode.

* `wires` are the `Wire` objects ever allocated and `cached` the one the cache holds: the code
  shares pointers, so an object that left the cache can still be changed and put back.
* Goroutines are the gRPC handler (`Api`), two per cache controller (a delete callback may start
  one per endpoint) and one per worker ever started. Pod and daemon callbacks share one
  controller, "pod".
* The cuts are those between two cache calls and, in `HandleEvent`, after the state changes
  (`HandleEvent`), at the write to the worker (`WriteEvent`, `Send` when the channel is full),
  and at the final `Settle` and `Forget`.
* `resolveWire` reads the topology, pod and daemon caches in one step. Both endpoints in this
  cluster share one topology entry. `Peer` stands for an endpoint in another cluster, for
  which this cluster has no worker.
* `deployed` is the effect of daemon calls. `WorkerEvent.Req` points to the live request:
  when the request no longer places the endpoint on the worker's host, the daemon takes it
  for a remote endpoint and says OK, and whether the host then carries the wire is left open.
* A failing call may have had its effect: a daemon call, a claim (the id is taken before the
  index is stored) and a release.

**`LinkController`** extends it with the Link and its reconciler, which replaces the free gRPC
clients. `ReconcileGet` is the first half of `Reconcile` up to the answer of `WireGet`, the
other actions are its branches; the Link may change in between, and a write of a stale Link is
refused. The Ready condition is set by another controller (`FlipReady`), the deletion comes
from the user (`DeleteLink`). When the request cannot be made or `WireGet` fails, the read of
the Link and the write of its condition are one step.

**`VxlanIndex`** has several owners. A claim looks for the owner's entry or a free one
(`ApplyHandler`), sets it (`SetEntry`), copies the table (`GetData`) and writes the copy to the
ConfigMap (`SaveAll`); a release deletes the entries and saves likewise. The wire reconciler
claims for one Link at a time, releases run beside it. `Crash` loses the table and every
running call, `Reconcile` restores what belongs to Links that still exist. `overlapped` records
that a call took its copy while another was writing its own. `Unused` is an assumption on the
users: the VXLANIndex is deleted while no wire uses it, which the code does not check.
**`IdAllocator`** is the promise: an id is given to one owner at a time; `Allocates` instantiates
it with the ids of the wires in use.

**`EndpointClaims`** has two processes, one per controller, each reconciling one resource at a
time from a cache that may be behind. Versions are modelled as the set of copies that still are
the stored version; an update from any other copy is a conflict. Leases are per cluster and run
out at any time. Each call of a reconcile may fail: reading the claims and adding the finalizer at
its start, the claims and releases themselves, `APIDelete` of the Links when the interconnect
gives up (the stage "unapply"), and the removal of the finalizer. The finalizer of an interconnect
goes with its claims only; its Links stay, and use their endpoints, until `CollectLinks`, the
garbage collector. `SelectEndpoints` is the selector of the interconnect as an operator; all that
the claims depend on is that it picks known endpoints that are not taken (`SelectionAssumption`,
which TLC evaluates for every selection of the instance). `missed` records a release made from a
cache that had not seen the claim.

**`NodeEndpoint`** follows one Node from its resource to the veth pairs in its pod: the
reconciler with the gRPC handler it waits for, the callbacks of the pod, daemon and node caches,
and the workers share the node endpoint's state. `nodeep` are the node endpoints in memory and
`entry` is the cached one: `Resolve` and `HandleEvent` change the object they got in place, and
store it, or drop it if it is Deleted, in a step of its own (`Cache`), without a lock, so that a
deleted node endpoint may be put back. A server's node endpoint lives on the host, which the node
cache controller enters in the pod cache: it needs no container and its pairs do not go with a
pod. The worker's delete calls the daemon's `EndpointCreate`, as the code does. A pod that goes
takes its pairs with it (`lost`), a deployment that fails can leave a pair that never left the
host namespace (`half`).

**`WireDaemon`** is one host. A call is the sequence of netlink steps it has left and what it
holds: whether the links it looked up and the namespace path are still the ones that are there.
`Placements` gives the two links of the wire (two veths, or a veth and the tunnel) and which
calls can run at the same time. Both ends of the pair of a server (`Servers`) stay on the host.
`xmap` is the device map of this process, `xold` that of a former
process whose program is still attached: an XDP program outlives the daemon, its map does not
grow any more. The controller repeats the wire call only until its OK (`StartWire`); it asks
again when the pod is back or the daemon has restarted, since both resolve the wire anew. `mixed`
records that a create and a delete overlapped. `hung` are the pairs that the code leaves as they
are: the lookup after `LinkAdd` fails, `LinkDel` fails, which is only logged, a step after the
move of the pod's end fails, or the daemon restarts in between.

**`GrpcServer`** has calls that wait for a permit (first come, first served, until their
deadline), hold it while they run and give it back; watches hold theirs as long as their stream
lives. `clients` is the proxies' map from address to stream; a second watch of one client
replaces the first.

**`ClusterWatch`** has one *instance* per set of watchers ever started; the cluster cache knows
the last one of each cluster. The reconcile of a secret is at step `turn.at`, and `Following` says
which step comes next for what it read; that of an object is a `job`: look the entry up, then the
unlocked writes (a node is stored in the pod cache too, under `HostKeyOf`). Kubeconfigs appear,
turn good or bad and are deleted. `Start` may fail after some of the reconcilers were started
(`Prefixes`), and a running set may end on an error (`Crash`); both are only logged, and `broken`
records them. `missed` are the objects that changed while nobody watched them, or whose watcher
ended in the middle of a reconcile. `worker` is the entry the worker of a cluster was made from:
`serviceCallback` looks at the entry and not at the action, so the delete of a ready service makes
the worker anew. `Scenarios` choose which objects exist in a behaviour, so that one run covers
each kind in turn with several watchers. Namespaces, pods and endpoints are cached without their
cluster, so those of two clusters may share a key; `KeyAssumption` only says that the node cache is
not the pod cache and that a cluster has one service, stored under the cluster's name.

**`NodeDeployer`** and **`Inventory`** model three object-building controllers call by call,
with lagging caches, refused updates and failing calls. `Inventory` extends `NodeDeployer`,
since the deployer reports on the Nodes that the node pool controller creates; `scene` says
which of the three controllers the users' changes of a behaviour are aimed at. What a driver
builds is abstracted to its hash and to whether it can be built. A pod's configuration (`conf`) is
unsent, refused or taken: the driver prints what the device refused and reports success.
Namespace and ConfigMap copies are applied and deleted one after the other, and a failure may come
between. The event handlers list from the client's cache, which is taken not to fail; if it did,
they would drop the event. `silent` and `lost` record changes that nobody is told of.

## 4. Runs

Runs that hold (distinct states in brackets):

| run | checks | instance |
|---|---|---|
| `LinkLife` (411,268) | `OngoingIsUnderway`, `ReportedIsDeployed`, `DestroyedIsUndeployed`, `HeldByFinalizer`, `ReadyLinkIsWired`, `ColocatedLinkGoes` | two hosts, every placement, resolvable or not; a deletion or a change of readiness, topology changes, two failures of any call |
| `WireChurn` (1,036,228) | `TypeOK`, `WorkersNeverWrite`, `ClaimKept`, `KeptUntilAsked` | any one change of pods, daemons, nodes or topology concurrent with two gRPC calls, deletion included |
| `WireCallsEnd` (128,710) | `HeldEndKept`, `CallsEnd` | create, delete and create again over a channel of one while the daemon goes away |
| `VxlanIndex` (256,629) | `OneIdPerOwner`, `IdIsStored`, `Allocates`, `LinkIsServed` | three Links, two ids, a restart, a failing store, two Links created or deleted |
| `EndpointClaims` (538,458) | `UsedIsClaimed`, `GoneHasNoClaim`, `OwnerKeepsClaim`, `LinkBecomesReady` | a Link and an interconnect over three endpoints in two clusters, one failure, restart or deletion |
| `NodeEp` (1,027,446) | `StopsOnlyWhenReady`, `ReadyHasInterfaces`, `NodeDeletionEnds` | one interface, a pod or a server, two events out of pods, daemons, the host's entry, deletion, a Node of the same name, a missing model, failures |
| `Clusters` (1,331,439) | `ClusterFollowsSecret`, `CacheIsCurrent`, `WorkerFollowsService` | two clusters, three sets of watchers, two changes or failures, one scenario per kind of object, namespaces and pods of the same name in both clusters |
| `Inventory` (960,260) | `ReadyIsDeployed`, `RestsWhenDeployed`, `TopologyFollows`, `NothingLeft`, `PoolFollows`, `DeletionEnds` | one Topology, Node or Kubernetes node, two changes and one failure at any moment |
| `Grpc` (30,216) | `PermitsBalance`, `LiveWatchIsRegistered`, `UnaryEnds`, `StoppedClientIsDropped` | five calls of two clients, two permits |
| `Daemon` (393,245) | `PairIsWhole`, `OkIsConnected`, `DeletedLeavesNothing`, `WantedIsReached` | both placements, a pod and a server, two overlapping calls of a kind, two failures, restarts, pod deletions or changes of mind |

In words: with pods, daemons and nodes that stay, the state machine of a wire that was not asked
to go never waits for a call that is not coming, and it never says OK of a wire that is not there;
whatever happens in the cluster, no worker
writes to a channel, and a wire nobody deletes keeps its entry and its id; a restarting daemon
never causes a delete; no call hangs; Links over resolvable endpoints get wired, and a co-located
Link deleted at rest goes and leaves nothing. Ids, claims and permits are each held by one owner
through restarts, stale copies and broken connections. A Node is EPReady only after its interfaces
were made. The daemon's answers are true as long as a create and a delete do not overlap, and
repeating a call until its OK connects a wire whatever failed or was cut off before.

Runs that show where the code departs from what it says (the `findings` of `PROJECT.json`):

| run | property violated | what happens |
|---|---|---|
| `LinkStuckDelete` | `DeletedLinkGoes` | endpoints on two hosts, no failure: the later worker's `HandleEvent` puts the wire back in the cache after the earlier one's completed deletion; a further delete can then stay in Deleting without a call |
| `ClusterLeak` | `GoneIsUnwatched` | the reconcile that adds the finalizer and the one its update causes each start a set of watchers; the deletion stops only the last |

Further departures, met while modelling, which are why some properties are limited as they are:

* a daemon that goes away between the change to Creating and the write of the event drops the
  event, and every retry is ignored (`wire.go:95`); hence `OngoingIsUnderway` (which speaks only
  of wires not yet asked to go) and `ReportedIsDeployed` are checked with pods and daemons that
  stay (a moving pod breaks the
  second too: the endpoint stays Created, now resolved to the new host). The node endpoint has
  the same gap (`nodeep.go:80`): `StopsOnlyWhenReady` says that the polling goes on, not that it
  succeeds;
* the endpoint of another cluster is meant to "resolve to success" (`wire.go:199`), but the
  response is made before the resolution (`wire.go:202`), so such a wire stays NOK;
* a deletion that overtakes the creation is complete while the create call is still in the
  channel (`wire_cache.go:122`); hence `DestroyedIsUndeployed` and `ColocatedLinkGoes` are about
  Links deleted at rest with both endpoints on one host, and so is `HeldByFinalizer`, which two
  hosts break in the way of `LinkStuckDelete`;
* a Link ready again during the deletion of its wire reads the OK of the deletion as deployed
  (`controllers/wire-controller/reconciler.go:227`); hence `ReadyLinkIsWired` is about Links
  whose readiness and topology do not change;
* a topology that changes twice can let an old answer of the daemon count for a new request;
  hence `ReportedIsDeployed` is proved, and checked, for one change;
* two saves of the VXLAN index may be written in the wrong order (`IdIsStored` excepts
  `overlapped`); a release from a cache that is behind leaves its claim (`GoneHasNoClaim` excepts
  `missed`); the Links of an interconnect that is gone go on using their endpoints, now without
  claim, until they are collected (`UsedIsClaimed` is about resources that are there);
* a pair that an error or a restart left half done is taken for whole later
  (`wire_ep2node.go:95`; `PairIsWhole` excepts `hung`); a create and a delete that overlap in the
  daemon may leave either result (`mixed`), and after the OK of the last nothing asks again; nor
  does anything after an OK for links that were replaced before it was given
  (`WantedIsReached` excepts both);
* interfaces that go with a pod while its node endpoint is not resolved leave it Created: the Node
  stays EPReady without them (`ReadyHasInterfaces` excepts `lost`), and the interfaces of a deleted
  Node stay in its pod, since the delete calls `EndpointCreate` (`worker.go:212`);
* a set of watchers that does not start, or ends on an error, leaves its cluster in the cache
  unwatched (`controller_callback.go:64`; `ClusterFollowsSecret` excepts `broken`,
  `CacheIsCurrent` is about watched objects that were not `missed`). Where two clusters share a
  key, the entry is that of one of the objects as it is; that the clean-up of one cluster may
  delete the entry of the other (`controllers/topology-cache-controller/reconciler.go:126`) is not
  caught. Two instances may call back in the opposite order of their writes
  (`WorkerFollowsService` is about clusters with one instance), and the worker of a service that
  is gone stays;
* a Node is reported Ready although the device refused its configuration (`srlinux.go:336`):
  `ReadyIsDeployed` says that the configuration was sent;
* NodeConfigs, variants and the resources a controller made are not watched (`silent`, `lost`).

### Bounds, and why they are enough

`QCap` is the channel capacity (10 in the code; 1 or 2 here so that channels fill up);
`MaxWorkers` 2 is a replacement of a worker; `MaxWires` 2 is a wire created again after its
deletion while goroutines still hold the old object. Two hosts cover both placements, shared and
apart. Three owners over two ids exhaust the table, and the id of one that goes is taken by
another. Three endpoints in two clusters let a Link and an interconnect need one endpoint in
common and one each. Three instances are the two that the first reconciles of a cluster start and one of
another cluster or of a change. Two permits with five calls leave unary calls and watches waiting
behind watches. Two node endpoints in memory (`MaxObjects`) are one that is put back beside a new
one. Two overlapping calls of each kind are a replaced worker's and its successor's.
`MaxEnv`, `MaxEvents`, `MaxFail`, `MaxFaults`, `MaxCrash` of 1 or 2 put one change or failure at
every point of the program, and a second behind it where the recovery itself is exposed.
`FailOps`, `EnvOps`, `ApiOps` and `LinkOps` say which calls and changes a run has. `WireChurn`
uses the symmetry of the hosts; the runs with liveness use none. `CHECK_DEADLOCK FALSE`: once
the bounds are spent and all work is done the system rests, as the real one does.

## 5. Fairness

* `FairSpec` and `LinkSpec`: weak fairness of every goroutine's next call, every worker's turn
  and the end of each cache deletion. The Go scheduler runs goroutines that can run, and daemon
  calls return: the daemon's handlers are straight-line code, and a call over a connection that
  breaks ends with an error. The code sets no deadline on these calls
  (`pkg/wirer/client/client.go:135`), so a daemon that hangs with its connection open is outside
  the liveness results. `LinkSpec` adds the reconciler's work queue, which controller-runtime
  serves. Failures are bounded by `MaxFail`: a daemon that always fails never deploys a wire.
* `VxSpec`: calls run to their end, the work queue of the index is served; strong fairness of a
  Link's `Claim`, because the wire reconciler requeues a Link whose create failed and serves one
  Link at a time, so that the claim of each is enabled again and again but not continuously.
* `ClaimsSpec`: each process takes its steps, caches follow the API server, and the work queues
  are served. `LinkBecomesReady` asks for endpoints and leases that stay free.
* `NSpec`: the reconciler and the gRPC handler it waits for run. Nothing is asked of callbacks,
  workers and daemons: a deleted Node goes without them.
* `DaemonSpec`: calls run to their end, and the controller repeats the wire call it wants until
  its OK. Endpoint calls need not be repeated: `WantedIsReached` asks for pairs that stay.
* `GSpec`: time passes (deadlines) and the goroutine of every call runs; clients owe nothing.
* `Inventory!Spec`: the workers of the topology and node pool controllers serve their queues. The
  deployer's properties are about its states of rest and need none.
* `CWSpec` has no fairness: all its properties are about states of rest.

## 6. Proofs

TLAPS checks 35 listed theorems in eight modules. They hold for every value of the constants that
satisfies the assumptions named in the modules (`ConstantsAssumption`, `VxlanAssumption`, ...):
any hosts, owners, ids, calls, clusters, workers and capacities, any number of changes and
failures. Apart from those explained below, the assumptions only say that numbers are numbers and
that special values differ from ordinary ones.

Each module has one inductive invariant `IInv`, a theorem `Invariance` (`Spec => []IInv`) or its
equivalent, one lemma per action that the action keeps it, and the theorems that follow. No
property is inductive by itself: each says what holds when a goroutine is done, so `IInv` has to
say what is true at every place where the goroutine can be.

### `WireControllerProofs`

* `TypeCorrect`, `NoWorkerWrites` (no cycle of workers that wait for each other's channels),
  `ClaimIsKept` and `WireIsKept` hold in any environment. `IInv` has four parts. `TypeOK`.
  `JobInv`: every pending call refers to a Wire object that exists, a worker holds only answers
  and settlements, only the gRPC handler claims and inserts, and before the first `WireDelete`
  nobody deletes or forgets. `ClaimFirst`: only the first pending call of the gRPC handler
  allocates. `UnaskedInv`: before the first `WireDelete` there is at most one Wire object, it is
  the cached one, it is wanted and owns its id. `NoWorkerWrites` rests on
  `AnswerGeneratesNothing`: no state answers created, deleted or failed with a transition to
  Creating or Deleting. `CallStep` and `SpawnStep` carry what the actions share.
* `HeldEndsAreKept` assumes `NoDeletions`: no cache deletes a pod or a node, which by design do
  tear down the other end. Daemons come and go and workers are replaced. `HeldInv` adds that no
  pending event or task is a delete, that every pending resolution failure is held, and that no
  endpoint is Deleting.
* `OngoingAreUnderway` assumes `Steady`: the topology is all that changes. A daemon that goes away
  at the wrong moment does break the property (section 4). `StableInv` says where `WireUpSert` is
  (`ApiInv`: what it still has to do fits the resolution it has stored or is about to store, so
  that the write of an event finds a host) and that an endpoint in Creating has its call under
  way.
* `ReportedAreDeployed` assumes `Steady` and is about states with at most one change of the
  topology. `PlaceInv` compares every resolution with the one that the pod and daemon caches give
  (`ReadyData`): the wire has it, or has none and no worker was used, or has lost it for good;
  tasks are at the worker of that host; and what is Created, or was answered so, is deployed.

The same module holds the theorems about `LinkController`. The reconciler replaces the free
clients: it calls without the bound `MaxApi`, and each call follows the answer to an earlier one.
Both specifications take the steps of `WireStep` (a gRPC call, a step of the system or of the
environment, or nothing but a spent bound), so the lemmas about steps serve both
(`NextIsWireStep`, `LinkIsWireStep`), and `LinkTypeCorrect`, `LinkClaimIsKept`,
`LinkOngoingAreUnderway` and `LinkReportedAreDeployed` follow as they do for free clients.

* `LinksAreHeld` assumes `Steady`, too. The hazard is a wire that enters the cache, or comes back
  to it, after the reconciler has read NotFound: the finalizer would go and the wire stay.
  `HoldInv` rules it out in three parts. `ServingInv`: where the gRPC handler is; it allocates only
  while no wire is cached, and forgets only a finished one. `NearInv`: with both endpoints on one
  host a single worker (`NearWorker`) has tasks and answers, at most one call at a time, and the
  settlement it is about to make puts back the object that is cached or drops it, since a finished
  wire stays finished (`FinishedStays`: in Created and Deleted every answer is ignored).
  `FinalizerInv`: what is cached or being called for is under the finalizer, and a NotFound the
  reconciler still acts on is true. With two hosts the answers race, `NearInv` fails and so does
  the property (section 4).
* `DestroyedAreUndeployed` has no assumption on the environment: the property itself is about
  states in which nothing but the Link has changed (`Calm`), and changes are counted
  (`CalmBefore`). `CalmInv` follows the Link through its life. While it is present, `PresentInv`:
  nobody asked for a deletion, a wire that a daemon carries is resolved to what the caches say
  (`ReadyData`), and a Link that is Wired has a cached wire. From the deletion at rest on,
  `GoingInv`: the handler and the worker have only deletes ahead of them, for the last Wire object
  and the host of its endpoints (`DropInv`); as long as a daemon carries the wire or the id is
  claimed, the wire is cached, nobody is about to forget it, the reconciler has not read NotFound
  and the Link is there. The step that could go wrong is the settlement that gives the id back: it
  needs both statuses OK. `CarriedInv` says why that cannot be while a daemon carries the wire: the
  first endpoint is OK only as long as the `WireDelete` has not reached it and no worker was used
  (`Untouched`); its `DeleteEvent` takes it to Deleting, and only the daemon's success takes it
  on to Deleted, which a failed call does not.

### `VxlanIndexProofs`

`TypeCorrect`, `OwnersHaveOneId`, `IdsAreStored`, and the refinement `IndexAllocates`: every step
of the index is a step of `IdAllocator` or changes nothing it sees. `IInv` says that the reconciler
claims for one Link at a time; that the entry a call is about to set is free and its owner has none
(so the gap between looking and setting does no harm); that what a call has set is still there when
it copies the table; that copies and the ConfigMap have one entry per owner, since a restart
reads them back; that a wire in use has the id the table says; and that the copy being written has
every wire in use unless saves overlapped.

### `GrpcServerProofs`

`TypeCorrect`, `PermitsAreBalanced`, `LiveWatchesAreRegistered`. The balance needs the queue: a
permit that is released goes to the first waiting call, so the queue must hold exactly the calls
that wait, each once, or a permit would be lost or given to a call that timed out.

### `EndpointClaimsProofs`

`OwnersKeepClaims` (an action property), `UsedAreClaimed`, `GoneHaveNoClaim`. `IInv` says that a
copy that counts as the stored version shows the stored claim (`CopyInv`), which is what makes an
accepted update safe; whose reconcile each process runs (`RunInv`) and how far it has got
(`StageInv`: what comes before the endpoints left is claimed, a Ready to be reported is backed by
claims, a deletion to be finished has seen the claims it released); and what follows for each owner
that is there when its reconcile is over, and for one that is gone (`OwnerInv`). The proof takes
`SelectionAssumption` for what `SelectEndpoints` returns: it is a fold over data, whose induction
the prover cannot do.

### `WireDaemonProofs`

`PairsAreWhole`, `OkMeansConnected`, `DeletionsLeaveNothing`. `IInv` says that a call follows its
program and holds only links that are there (`CallInv`); that the pair a call has made is no other
call's (`OneOwner`); that a pair that is not whole is being made or was left by an error or a
restart (`WholeInv`); and, place by
place, which programs and map entries a deployment has put (`CreateInv`) or a deletion has removed
(`DeleteInv`) that no other call of its kind undoes.

### `NodeEndpointProofs`

`TypeCorrect`, `PollsUntilReady`, `ReadyNodesHaveInterfaces`. Besides types, `IInv` says that only
the reconciler makes its own calls (`SharedInv`), and that with no reconcile due the running one is
past its reads and nothing it has read changed without a request (`RecInv`).
`ReadyNodesHaveInterfaces` needs a second invariant, `DeployInv`: until the interfaces are there,
the good news is nowhere on its way, neither as an event of a worker, nor in any node endpoint in
memory that may be put back, nor in a call of the reconciler, nor in the Node.

### `InventoryProofs`

`ReadyAreDeployed` and `DeployerRestsWhenDone` of the node deployer, `TopologiesAreServed`,
`TopologiesLeaveNothing` and `PoolsAreServed`. `IInv` has one part per controller that says, for
every place of a reconcile that nothing disturbed, what it has established; whatever disturbs it
must leave a request or news of the pod behind, or be one of the changes nobody is told of.
`ReadyAreDeployed` is about a ready pod that was sent its configuration, not about the hash of the
pod, which `DeployerRestsWhenDone` adds. `DeployerRestsWhenDone` is about states in which at most one call has failed: a failed call is
retried only because it changes the condition of the Node, and a second failure in a row changes
nothing (`controllers/node-deployer`), so the deployer can then rest with the work undone.

### `ClusterWatchProofs`

`ClustersFollowSecrets`, `CachesAreCurrent`, `WorkersFollowServices`. `IInv` says what a reconcile
of a secret has left to do, by what it read (`TurnInv`); that a cluster is in the cache only under
its secret's finalizer, that its instance runs or is broken, and that a secret to be deleted has a
request or a reconcile (`ClusterInv`); that only running reconcilers get requests, and one that has
read an object before it changed runs and will read it again, unless the object is missed
(`WatchInv`); that an entry is under a key of its object (`OwnerInv`) and is current, or some
instance still has to read or write it (`OwnInv`, and `HostInv` for the second entry of a node);
and, for a cluster with one instance, that worker and entry agree or the callback is on its way
(`WorkerInv`, `CallInv`). Objects that share a key may take each other's entries but never make
them wrong.

### Only model-checked

* Liveness under fairness, which is out of the prover's reach: `CallsEnd`, `ReadyLinkIsWired`,
  `ColocatedLinkGoes`, `LinkIsServed`, `LinkBecomesReady`, `NodeDeletionEnds`, `DeletionEnds`,
  `UnaryEnds`, `StoppedClientIsDropped`, `WantedIsReached`.
* `SelectionAssumption`, by evaluation over every selection of the instance.

## 7. Not modelled

* The wires of the mgmt mode (`WIRER_INTERCLUSTER=true`): they run the code that `WireController`
  models, with services for daemons. Clusters, services and their workers are in `ClusterWatch`.
* Several wires at a time: a callback treats every wire independently; they share the worker's
  channel, where a smaller `QCap` stands for the room others take, and the VXLAN index, which
  has a module of its own.
* A restart of the wire controller together with its wires: the wire cache is not stored, so a
  restart is `Init`; what outlives it is in `VxlanIndex` and `WireDaemon`.
* `controllers/link-controller` and `controllers/lease-controller`: no program imports them.
* The legacy distributed daemon (`cmd/ddaemon`, `controllers/{link,pod,node}`, `pkg/link`), which
  the coordinated controller replaces.
* Container runtime, network namespaces, network attachments and the eBPF program:
  I/O and object construction. Generated protocol code.
* Data: interface names are four bytes of a hash and may collide, and every tunnel is made with
  VXLAN id 200 whatever id was claimed (`netlink_ns.go:116`); the model has distinct names and
  one tunnel. Node diversity of the interconnect shows only with more than one link per
  interconnect.
