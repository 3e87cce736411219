---------------------------- MODULE NodeEndpoint ----------------------------
(***************************************************************************)
(* The interfaces of one network node: from the Node resource, through the *)
(* node endpoint controller and the wire controller's node endpoint, to    *)
(* the veth pairs that the wire daemon creates in the node's pod.          *)
(*                                                                         *)
(* Three kinds of goroutine share the node endpoint: Rec, the reconciler   *)
(* (with the gRPC handler it waits for), the callbacks of the pod, daemon  *)
(* and node caches, and the workers.  todo[p] is the sequence of calls     *)
(* goroutine p still has to make; a step executes its head.  One daemon    *)
(* and one pod name are enough: a node endpoint lives in one pod.  That of *)
(* a server lives on its host, which the node cache controller enters in   *)
(* the pod cache: pod is then that host.                                   *)
(*                                                                         *)
(* The node endpoint cache hands out pointers: a call changes the node     *)
(* endpoint it got in place and stores it afterwards, without a lock, so   *)
(* that it may put back one that was deleted meanwhile.                    *)
(***************************************************************************)
EXTENDS EndpointState, Integers, Sequences

CONSTANTS
    Interfaces,  \* the interfaces of the node model
    EnvOps,      \* what happens around the controller, see Environment
    Server,      \* the kinds of node, of BOOLEAN: whether it is a server
    FailOps,     \* what may fail: "call" (gRPC), "deploy" (netlink), "crash" (daemon)
    MaxEvents,   \* bound: environment changes and failures together
    MaxWorkers,  \* bound: workers ever started
    MaxObjects   \* bound: node endpoints in memory at a time

ASSUME NodeEndpointAssumption ==
    /\ Server \subseteq BOOLEAN /\ MaxEvents \in Nat /\ MaxWorkers \in Nat \ {0} /\ MaxObjects \in Nat \ {0}

Workers == 1 .. MaxWorkers
Rec      == <<"rec", 0>>
PodCB    == <<"pod", 0>>
DaemonCB == <<"daemon", 0>>
HostCB   == <<"host", 0>>
Goroutine(k) == <<"worker", k>>
Procs == {Rec, PodCB, DaemonCB, HostCB} \cup {Goroutine(k) : k \in Workers}

\* What a cache entry says.
Entries == {"absent", "notReady", "ready"}

\* Node endpoints in memory: the cached one and those that a call still holds.
NodeEps == [state : EpStates, ok : BOOLEAN, resolved : BOOLEAN]
Fresh   == [state |-> "Deleted", ok |-> FALSE, resolved |-> FALSE]
Objects == 1 .. MaxObjects

Jobs ==
    [op : {"upsert", "delete", "get", "apply"}] \cup
    [op : {"create"}, origin : {"api", "callback"}] \cup
    [op : {"resolve"}, success : BOOLEAN] \cup
    [op : {"event"}, ev : Events] \cup
    [op : {"list"}, act : {"upsert", "delete"}] \cup
    [op : {"uncache"}] \cup
    [op : {"store"}, o : Objects, drop : BOOLEAN] \cup
    [op : {"update"}, ep : {"unknown", "notReady", "failed", "ready"}, again : BOOLEAN]

VARIABLES
    server,    \* the node is a server
    pod,       \* the pod: absent, notReady or ready
    daemon,    \* the daemon's pod
    podSeen,   \* pod cache
    daemonSeen,\* daemon cache
    pair,      \* interfaces whose veth pair reaches into the pod
    half,      \* interfaces whose veth pair never left the host namespace
    lost,      \* history: interfaces went with a pod
    worker,    \* the worker the dispatcher finds, 0 if none
    started,   \* workers ever started
    queue,     \* channel of each worker
    nodeep,    \* the node endpoints in memory
    entry,     \* the one in the wire controller's cache, 0 if none
    node,      \* the Node resource
    model,     \* the node model can be found
    stale,     \* the Node changed after the running reconcile read it
    due,       \* a reconcile is requested
    todo,      \* the calls each goroutine still has to make
    used       \* events so far

vars == <<server, pod, daemon, podSeen, daemonSeen, pair, half, lost, worker, started, queue,
          nodeep, entry, node, model, stale, due, todo, used>>
world   == <<server, pod, daemon, pair, half, lost>>
caches  == <<podSeen, daemonSeen>>
workers == <<worker, started, queue>>
cached  == <<nodeep, entry>>
krm     == <<node, model, stale, due>>

\* st: absent, present or deleting; fin: the finalizer; ready: the condition
\* the deployer sets; ep: the EPReady condition; eps: the Endpoint resources exist.
Nodes == [st : {"absent", "present", "deleting"}, fin : BOOLEAN, ready : BOOLEAN,
          ep : {"unknown", "notReady", "failed", "ready"}, eps : BOOLEAN]

At(p, op) == todo[p] # <<>> /\ Head(todo[p]).op = op
Continue(p, js) == todo' = [todo EXCEPT ![p] = js \o Tail(@)]
Spend == used < MaxEvents /\ used' = used + 1
Fails(c) == c \in FailOps /\ Spend
Event(ev) == [op |-> "event", ev |-> ev]
Store(o, drop) == [op |-> "store", o |-> o, drop |-> drop]

\* The controller has synced: the pod is known, the daemon runs and has its worker.
NInit ==
    /\ pod = "ready" /\ daemon = "ready"
    /\ podSeen = "ready" /\ daemonSeen = "ready"
    /\ pair = {} /\ half = {} /\ lost = FALSE
    /\ worker = 1 /\ started = 1 /\ queue = [k \in Workers |-> <<>>]
    /\ server \in Server /\ nodeep = [o \in Objects |-> Fresh] /\ entry = 0
    /\ node = [st |-> "present", fin |-> FALSE, ready |-> TRUE, ep |-> "unknown", eps |-> FALSE]
    /\ model = TRUE /\ stale = FALSE /\ due = TRUE
    /\ todo = [p \in Procs |-> <<>>]
    /\ used = 0

----------------------------------------------------------------------------
(* The pod cache controller: it watches network pods and daemon pods. *)

\* Cache.Upsert stores first and calls back when the entry changed.
PodUpsert ==
    /\ todo[PodCB] = <<>>
    /\ pod # "absent" /\ podSeen # pod
    /\ podSeen' = pod
    /\ todo' = [todo EXCEPT ![PodCB] = <<[op |-> "list", act |-> "upsert"]>>]
    /\ UNCHANGED <<world, daemonSeen, workers, cached, krm, used>>

\* Cache.Delete calls back first, with the entry still there.
PodDelete ==
    /\ todo[PodCB] = <<>>
    /\ pod = "absent" /\ podSeen # "absent"
    /\ todo' = [todo EXCEPT ![PodCB] = <<[op |-> "list", act |-> "delete"], [op |-> "uncache"]>>]
    /\ UNCHANGED <<world, caches, workers, cached, krm, used>>

\* daemonCallback of an upsert: a ready daemon gets a new worker, in place of
\* the old one, which goes on with what its channel holds; a daemon that is not
\* ready loses its worker.
DaemonUpsert ==
    /\ todo[DaemonCB] = <<>>
    /\ daemon # "absent" /\ daemonSeen # daemon
    /\ daemonSeen' = daemon
    /\ IF daemon = "ready"
       THEN started < MaxWorkers /\ started' = started + 1 /\ worker' = started + 1
       ELSE worker' = 0 /\ UNCHANGED started
    /\ todo' = [todo EXCEPT ![DaemonCB] = <<[op |-> "list", act |-> "upsert"]>>]
    /\ UNCHANGED <<world, podSeen, queue, cached, krm, used>>

DaemonDelete ==
    /\ todo[DaemonCB] = <<>>
    /\ daemon = "absent" /\ daemonSeen # "absent"
    /\ worker' = 0
    /\ todo' = [todo EXCEPT ![DaemonCB] = <<[op |-> "list", act |-> "delete"], [op |-> "uncache"]>>]
    /\ UNCHANGED <<world, caches, started, queue, cached, krm, used>>

Uncache(p) ==
    /\ At(p, "uncache")
    /\ podSeen' = IF p = PodCB THEN "absent" ELSE podSeen
    /\ daemonSeen' = IF p = DaemonCB THEN "absent" ELSE daemonSeen
    /\ Continue(p, <<>>)
    /\ UNCHANGED <<world, workers, cached, krm, used>>

\* A resolved node endpoint compares equal to its host, and to a pod of its name in
\* whatever namespace.
CompareName == nodeep[entry].resolved

\* commonCallback for the node endpoints it lists.
commonCallback(act) ==
    IF entry = 0 THEN <<>>
    ELSE IF act = "upsert" THEN <<[op |-> "create", origin |-> "callback"]>>
    ELSE IF CompareName
    THEN <<[op |-> "resolve", success |-> FALSE], Event("resolutionFailed")>>
    ELSE <<>>

List(p) ==
    /\ At(p, "list")
    /\ Continue(p, commonCallback(Head(todo[p]).act))
    /\ UNCHANGED <<world, caches, workers, cached, krm, used>>

----------------------------------------------------------------------------
(* The node endpoint in the wire controller *)

\* resolveEndpoint for a topology that is ready.
Resolvable == podSeen = "ready" /\ daemonSeen = "ready"

\* Those in the cache or held by a call.
Held == {entry} \cup {Head(todo[p]).o : p \in {q \in Procs : At(q, "store")}}

\* EndpointUpSert: an unknown node endpoint is made and enters the cache first.
NewNodeEndpoint(p) ==
    /\ At(p, "upsert")
    /\ IF entry # 0 THEN Continue(p, <<[op |-> "create", origin |-> "api"]>>)
       ELSE \E o \in Objects \ Held :
                /\ \A q \in Objects \ Held : o <= q
                /\ Continue(p, <<Store(o, FALSE), [op |-> "create", origin |-> "api"]>>)
    /\ UNCHANGED <<world, caches, workers, cached, krm, used>>

\* nodeepCreate reads the caches; what it read is applied by the calls after it.
nodeepCreate(p) ==
    LET j == Head(todo[p]) IN
    /\ At(p, "create")
    /\ Continue(p, <<[op |-> "resolve", success |-> Resolvable]>> \o
                   IF Resolvable THEN <<Event("create")>>
                   ELSE IF j.origin # "callback" THEN <<Event("resolutionFailed")>>
                   ELSE <<>>)
    /\ UNCHANGED <<world, caches, workers, cached, krm, used>>

\* EndpointDelete: a delete that cannot resolve does nothing.
nodeepDelete(p) ==
    /\ At(p, "delete")
    /\ Continue(p, IF entry = 0 THEN <<>>
                   ELSE <<[op |-> "resolve", success |-> Resolvable]>> \o
                        IF Resolvable THEN <<Event("delete")>> ELSE <<>>)
    /\ UNCHANGED <<world, caches, workers, cached, krm, used>>

\* NodeEpReq.Resolve and Unresolve.
SetResolved(o, success) == [o EXCEPT !.resolved = success]

\* nodeepCache.Resolve and UnResolve, up to the store.
Resolve(p) ==
    /\ At(p, "resolve")
    /\ IF entry = 0 THEN Continue(p, <<>>) /\ UNCHANGED nodeep
       ELSE /\ nodeep' = [nodeep EXCEPT ![entry] = SetResolved(@, Head(todo[p]).success)]
            /\ Continue(p, <<Store(entry, FALSE)>>)
    /\ UNCHANGED <<world, caches, workers, entry, krm, used>>

\* UpdateStatus: OK in the two final states.  Messages come with failures only.
Transition(o, t) ==
    IF t = Ignored THEN o
    ELSE [o EXCEPT !.state = t, !.ok = t \in {"Created", "Deleted"}]

\* The generated action is written to the worker when the endpoint is resolved and
\* is dropped otherwise.
Dispatches(o, t) == GeneratedAction(t) # Ignored /\ o.resolved

\* The node endpoint after an event: without a worker it fails.
Handled(o, ev) ==
    LET t == Target(o.state, ev, FALSE) IN
    IF Dispatches(o, t) /\ worker = 0
    THEN Transition(Transition(o, t), Target(t, "failed", FALSE)) ELSE Transition(o, t)

\* nodeepCache.HandleEvent, up to the store.
HandleEvent(p) ==
    LET ev == Head(todo[p]).ev
        o == nodeep[entry]
        t == Target(o.state, ev, FALSE) IN
    /\ At(p, "event")
    /\ IF entry = 0 THEN Continue(p, <<>>) /\ UNCHANGED <<nodeep, queue>>
       ELSE /\ nodeep' = [nodeep EXCEPT ![entry] = Handled(o, ev)]
            /\ queue' = IF Dispatches(o, t) /\ worker # 0
                        THEN [queue EXCEPT ![worker] = Append(@, GeneratedAction(t))] ELSE queue
            /\ Continue(p, <<Store(entry, TRUE)>>)
    /\ UNCHANGED <<world, caches, worker, started, entry, krm, used>>

\* The node endpoint a call holds is stored, or leaves the cache if an event finds it
\* Deleted.  What nobody holds any more is memory to use again.
Cache(p) ==
    LET j == Head(todo[p]) IN
    /\ At(p, "store")
    /\ entry' = IF j.drop /\ nodeep[j.o].state = "Deleted" THEN 0 ELSE j.o
    /\ Continue(p, <<>>)
    /\ nodeep' = [o \in Objects |-> IF o \in Held' THEN nodeep[o] ELSE Fresh]
    /\ UNCHANGED <<world, caches, workers, krm, used>>

----------------------------------------------------------------------------
(* The worker and the daemon *)

\* wep2node.Deploy: an interface of which either end exists is left alone.
Deploy == Interfaces \ (pair \cup half)

\* getContainerNsPath finds the container; a server has none.
Container == server \/ pod # "absent"

\* The daemon's EndpointUpSert without a fault; both worker actions call it.
EndpointCreate(k) ==
    /\ Container /\ daemon # "absent"
    /\ todo' = [todo EXCEPT ![Goroutine(k)] =
                  <<Event(IF Head(queue[k]) = "create" THEN "created" ELSE "deleted")>>]
    /\ pair' = pair \cup Deploy
    /\ UNCHANGED <<half, used>>

\* Faulty: the worker takes a NOK answer for success.
EndpointCreateNOK(k) ==
    /\ todo' = [todo EXCEPT ![Goroutine(k)] = <<Event("created")>>]
    /\ \/ /\ ~Container \/ daemon # "ready"
          /\ UNCHANGED <<pair, half, used>>
       \/ /\ Container /\ Fails("deploy")
          /\ \E done \in SUBSET Deploy : done # Deploy /\ pair' = pair \cup done
          /\ UNCHANGED half
       \/ /\ Container /\ Fails("call")
          /\ pair' \in {pair, pair \cup Deploy}
          /\ UNCHANGED half
       \/ /\ Container /\ Fails("crash")
          /\ \E i \in Deploy : half' = half \cup {i}
          /\ UNCHANGED pair

\* getContainerNsPath finds no container, a netlink call fails on one interface
\* after others were done, the call itself fails before or after it took
\* effect, or the daemon stops between creating a pair and moving its end.
EndpointCreateFails(k) ==
    /\ todo' = [todo EXCEPT ![Goroutine(k)] = <<Event("failed")>>]
    /\ \/ /\ ~Container \/ daemon # "ready"
          /\ UNCHANGED <<pair, half, used>>
       \/ /\ Container /\ Fails("deploy")
          /\ \E done \in SUBSET Deploy : done # Deploy /\ pair' = pair \cup done
          /\ UNCHANGED half
       \/ /\ Container /\ Fails("call")
          /\ pair' \in {pair, pair \cup Deploy}
          /\ UNCHANGED half
       \/ /\ Container /\ Fails("crash")
          /\ \E i \in Deploy : half' = half \cup {i}
          /\ UNCHANGED pair

\* One turn of the worker's loop; the answer is an event of its own.
Work(k) ==
    /\ todo[Goroutine(k)] = <<>> /\ queue[k] # <<>>
    /\ EndpointCreate(k) \/ EndpointCreateFails(k)
    /\ queue' = [queue EXCEPT ![k] = Tail(@)]
    /\ UNCHANGED <<server, pod, daemon, lost, caches, worker, started, cached, krm>>

----------------------------------------------------------------------------
(* The node endpoint controller *)

\* The status update that ends a reconcile: it is refused, and the reconcile
\* repeated, when the Node changed after it was read.
Update(ep, again) == [op |-> "update", ep |-> ep, again |-> again]

StatusUpdate(p) ==
    LET j == Head(todo[p]) IN
    /\ At(p, "update")
    /\ node' = IF stale THEN node ELSE [node EXCEPT !.ep = j.ep]
    /\ due' = (due \/ j.again \/ stale \/ node' # node)
    /\ stale' = FALSE
    /\ Continue(p, <<>>)
    /\ UNCHANGED <<world, caches, workers, cached, model, used>>

\* Without its finalizer a Node that is being deleted goes.
Remaining(n) == IF n.st = "deleting" /\ ~n.fin THEN [n EXCEPT !.st = "absent", !.eps = FALSE] ELSE n

\* Faulty: the condition is left alone after the EndpointDelete call.
ReconcileDeletedAgain ==
    /\ node.st = "deleting" /\ node.ep = "ready"
    /\ todo' = [todo EXCEPT ![Rec] = <<[op |-> "delete"], Update("ready", TRUE)>>]
    /\ UNCHANGED <<node, due, used>>

\* A Node being deleted: EndpointDelete once, if the endpoints were ready.
ReconcileDeleted ==
    /\ node.st = "deleting" /\ node.ep = "ready"
    /\ todo' = [todo EXCEPT ![Rec] = <<[op |-> "delete"], Update("unknown", TRUE)>>]
    /\ UNCHANGED <<node, due, used>>

\* Otherwise the finalizer goes, whatever the wire controller still holds.
RemoveFinalizer ==
    /\ node.st = "deleting" /\ node.ep # "ready"
    /\ node' = Remaining([node EXCEPT !.fin = FALSE])
    /\ due' = FALSE
    /\ UNCHANGED <<todo, used>>

ReconcileNotReady ==
    /\ node.st = "present" /\ ~node.ready
    /\ node' = [node EXCEPT !.ep = "notReady"]
    /\ due' = (node' # node)
    /\ UNCHANGED <<todo, used>>

\* The driver of the provider finds no NodeModel.
GetNodeModelFails == ~model

\* getNodeModel fails: the Endpoints are removed.
ReconcileNoModel ==
    /\ node.st = "present" /\ node.ready /\ GetNodeModelFails
    /\ node' = [node EXCEPT !.eps = FALSE, !.ep = "failed"]
    /\ UNCHANGED <<todo, due, used>>

ReconcileReady ==
    /\ node.st = "present" /\ node.ready /\ model
    /\ todo' = [todo EXCEPT ![Rec] = <<[op |-> "get"]>>]
    /\ due' = FALSE
    /\ UNCHANGED <<node, used>>

\* The call to the wire controller fails: EPFailed, and again.
CallFails ==
    /\ \/ node.st = "deleting" /\ node.ep = "ready"
       \/ node.st = "present" /\ node.ready /\ model
    /\ Fails("call")
    /\ node' = [node EXCEPT !.ep = "failed"]
    /\ UNCHANGED <<todo, due>>

Reconcile ==
    /\ due /\ todo[Rec] = <<>>
    /\ \/ ReconcileDeleted \/ RemoveFinalizer \/ ReconcileNotReady
       \/ ReconcileNoModel \/ ReconcileReady \/ CallFails
       \/ node.st = "absent" /\ due' = FALSE /\ UNCHANGED <<node, todo, used>>
    /\ stale' = FALSE
    /\ UNCHANGED <<world, caches, workers, cached, model>>

\* Faulty: nobody asks again after EndpointCreate.
EndpointGetOnce ==
    /\ At(Rec, "get")
    /\ node' = [node EXCEPT !.fin = TRUE]
    /\ todo' = [todo EXCEPT ![Rec] = <<IF entry # 0 /\ nodeep[entry].ok THEN [op |-> "apply"] ELSE [op |-> "upsert"]>>]
    /\ UNCHANGED <<world, caches, workers, cached, model, stale, due, used>>

\* EndpointGet and AddFinalizer.  The update of a Node that changed is refused;
\* a finalizer that is there already needs none.
EndpointGet ==
    LET refused == ~node.fin /\ stale IN
    /\ At(Rec, "get")
    /\ node' = IF refused THEN node ELSE [node EXCEPT !.fin = TRUE]
    /\ IF refused
       THEN todo' = [todo EXCEPT ![Rec] = <<Update("failed", TRUE)>>] /\ UNCHANGED due
       ELSE IF entry # 0 /\ nodeep[entry].ok
       THEN todo' = [todo EXCEPT ![Rec] = <<[op |-> "apply"]>>] /\ due' = (due \/ ~node.fin)
       ELSE todo' = [todo EXCEPT ![Rec] = <<[op |-> "upsert"]>>] /\ due' = TRUE
    /\ UNCHANGED <<world, caches, workers, cached, model, stale, used>>

\* EndpointCreate does not reach the wire controller.
EndpointUpSertFails ==
    /\ At(Rec, "upsert") /\ Fails("call")
    /\ Continue(Rec, <<Update("failed", TRUE)>>)
    /\ UNCHANGED <<world, caches, workers, cached, krm>>

\* APIApply of the Endpoint resources; they go again if it fails.
APIApply ==
    /\ At(Rec, "apply")
    /\ \/ /\ node' = IF node.st = "absent" THEN node ELSE [node EXCEPT !.eps = TRUE]
          /\ Continue(Rec, <<Update("ready", FALSE)>>)
          /\ UNCHANGED used
       \/ /\ Fails("call")
          /\ node' = [node EXCEPT !.eps = FALSE]
          /\ Continue(Rec, <<Update("failed", TRUE)>>)
    /\ UNCHANGED <<world, caches, workers, cached, model, stale, due>>

----------------------------------------------------------------------------
(* A NodeModel, the NodeConfig that names it (the Node's own, the one of its   *)
(* name or the default one) or its variant comes or goes.                      *)
GetNodeConfigChanges == model' = ~model

(* The world around: pods and daemons come and go or turn not ready (the       *)
(* flips), Nodes are deleted, models disappear, a pod of the same name in      *)
(* another topology is deleted, the entry of the host in the node cache        *)
(* changes or is deleted (nodeCallback).                                       *)
Environment(c) ==
    \/ /\ c = "pod"
       /\ pod' \in {"absent", "ready"} \ {pod}
       /\ pair' = IF pod' = "absent" /\ ~server THEN {} ELSE pair
       /\ UNCHANGED <<daemon, node, model, todo>>
    \/ /\ c = "podFlip" /\ ~server /\ pod # "absent" /\ pod' \in {"ready", "notReady"} \ {pod}
       /\ UNCHANGED <<pair, daemon, node, model, todo>>
    \/ /\ c = "daemon" /\ daemon' \in {"absent", "ready"} \ {daemon}
       /\ UNCHANGED <<pair, pod, node, model, todo>>
    \/ /\ c = "daemonFlip" /\ daemon # "absent" /\ daemon' \in {"ready", "notReady"} \ {daemon}
       /\ UNCHANGED <<pair, pod, node, model, todo>>
    \/ /\ c = "delete" /\ node.st = "present"
       /\ node' = Remaining([node EXCEPT !.st = "deleting"])
       /\ UNCHANGED <<pair, pod, daemon, model, todo>>
    \/ /\ c = "model" /\ GetNodeConfigChanges
       /\ UNCHANGED <<pair, pod, daemon, node, todo>>
    \/ /\ c = "namesake" /\ todo[PodCB] = <<>> /\ commonCallback("delete") # <<>>
       /\ todo' = [todo EXCEPT ![PodCB] = <<[op |-> "list", act |-> "delete"]>>]
       /\ UNCHANGED <<pair, pod, daemon, node, model>>
    \/ /\ c = "host" /\ todo[HostCB] = <<>>
       /\ \E act \in {"upsert", "delete"} :
              /\ commonCallback(act) # <<>>
              /\ todo' = [todo EXCEPT ![HostCB] = <<[op |-> "list", act |-> act]>>]
       /\ UNCHANGED <<pair, pod, daemon, node, model>>

Env ==
    /\ Spend
    /\ \E c \in EnvOps : Environment(c)
    /\ due' = (due \/ node' # node \/ model' # model)
    /\ stale' = (stale \/ (node' # node /\ todo[Rec] # <<>>))
    /\ lost' = (lost \/ ~(pair \subseteq pair'))
    /\ UNCHANGED <<server, half, caches, workers, cached>>

\* The deployer keeps the Ready condition of the Node in step with its pod.
NodeReady ==
    /\ node.st # "absent" /\ node.ready # (pod = "ready")
    /\ node' = [node EXCEPT !.ready = (pod = "ready")]
    /\ due' = TRUE
    /\ stale' = (todo[Rec] # <<>>)
    /\ UNCHANGED <<world, caches, workers, cached, model, todo, used>>

Call(p) ==
    \/ Uncache(p) \/ List(p) \/ NewNodeEndpoint(p) \/ nodeepCreate(p) \/ nodeepDelete(p)
    \/ Resolve(p) \/ HandleEvent(p) \/ Cache(p) \/ StatusUpdate(p)

NNext ==
    \/ PodUpsert \/ PodDelete \/ DaemonUpsert \/ DaemonDelete
    \/ \E p \in Procs : Call(p)
    \/ \E k \in Workers : Work(k)
    \/ Reconcile \/ EndpointGet \/ EndpointUpSertFails \/ APIApply
    \/ Env \/ NodeReady

\* The reconciler and the gRPC handler it waits for run when they can; what is
\* promised needs nothing of callbacks, workers and daemons.
NFairness == WF_vars(Reconcile \/ EndpointGet \/ APIApply \/ Call(Rec))

NSpec == NInit /\ [][NNext]_vars /\ NFairness

----------------------------------------------------------------------------
(* Properties *)

\* Types of the state of the node endpoint, its goroutines and the Node.
NTypeOK ==
    /\ pod \in Entries /\ daemon \in Entries /\ podSeen \in Entries /\ daemonSeen \in Entries
    /\ pair \subseteq Interfaces /\ half \subseteq Interfaces /\ pair \cap half = {}
    /\ worker \in 0 .. started /\ started \in 0 .. MaxWorkers
    /\ queue \in [Workers -> Seq(WorkerActions)]
    /\ server \in BOOLEAN /\ lost \in BOOLEAN /\ nodeep \in [Objects -> NodeEps] /\ entry \in Objects \cup {0}
    /\ node \in Nodes /\ stale \in BOOLEAN /\ model \in BOOLEAN /\ due \in BOOLEAN
    /\ todo \in [Procs -> Seq(Jobs)]

\* The reconciler polls, so it may stop only when there is nothing left to do:
\* with no reconcile due or running, a deployed Node whose model is known is
\* EPReady and has its Endpoint resources.  Refused updates, failed calls,
\* removed models and readiness flips in between included.
StopsOnlyWhenReady ==
    todo[Rec] = <<>> /\ ~due /\ node.st = "present" /\ node.ready /\ model
        => node.ep = "ready" /\ node.eps

\* What others rely on is there: a Node that is EPReady, or has its Endpoint
\* resources, has its interfaces (at least their end on the host), unless they went
\* with its pod.  The answer of the daemon, the event, the node endpoint that may be
\* put back, the poll, the apply and the update that lead there are steps of their
\* own, and calls fail half way.
ReadyHasInterfaces ==
    (node.ep = "ready" \/ node.eps) /\ ~lost => Interfaces \subseteq pair \cup half

\* The finalizer does not keep a deleted Node for ever.
NodeDeletionEnds == node.st = "deleting" ~> node.st = "absent"
============================================================================
