--------------------------- MODULE WireController ---------------------------
(***************************************************************************)
(* The wire controller of pkg/wirer/wirecontroller for one wire (one       *)
(* namespaced name), seen by the goroutines that share its cache entry:    *)
(*                                                                         *)
(*  - the gRPC handler goroutine of WireUpSert and WireDelete;             *)
(*  - the goroutines that the pod, daemon and node cache callbacks start;  *)
(*  - one goroutine per worker, which executes the daemon calls and feeds  *)
(*    the answers back into the state machine.                             *)
(*                                                                         *)
(* No lock is held across two wire cache calls, nor across the body of     *)
(* wcache.HandleEvent.  A goroutine is therefore the sequence of calls it  *)
(* still has to make, todo[p]; each step executes its head.                *)
(***************************************************************************)
EXTENDS EndpointState, Integers, Sequences

CONSTANTS
    Hosts,       \* cluster nodes; each runs a wire daemon and has one worker name
    Peer,        \* where an endpoint of a remote cluster resolves to
    NoHost,      \* an endpoint without a resolution
    Remote,      \* endpoints whose topology lies in another cluster: the wire is
                 \* an inter-cluster wire when there are any
    Sources,     \* the cache controllers whose callbacks run concurrently
    InitPods,    \* what the pod cache may hold for an endpoint initially
    InitDaemons, \* what the daemon cache may hold for a host initially
    ApiOps,      \* the gRPC calls that are made: "create", "delete" and "recreate"
                 \* (a create after a delete)
    EnvOps,      \* the cache changes that happen
    FailOps,     \* the calls that may fail: "claim" and "release" (the VXLAN
                 \* store), "daemon", "worker" (its start) and "call" (gRPC)
    QCap,        \* capacity of a worker's channel (10 in the code)
    MaxWorkers,  \* bound: workers ever started per host
    MaxWires,    \* bound: Wire objects ever allocated
    MaxApi,      \* bound: gRPC calls
    MaxEnv,      \* bound: cache changes
    MaxFail      \* bound: failing external calls

Ep == {0, 1}

ASSUME ConstantsAssumption ==
    /\ Peer \notin Hosts /\ NoHost \notin Hosts /\ Peer # NoHost
    /\ Remote \subseteq Ep
    /\ Sources \subseteq {"pod", "node"}
    /\ {"api", "pod", "node"} \cap Hosts = {}
    /\ {"NotReady", "Absent"} \cap Hosts = {}
    /\ InitPods \subseteq Hosts \cup {"NotReady", "Absent"}
    /\ InitDaemons \subseteq {"ready", "notReady", "absent"}
    /\ QCap \in Nat \ {0}
    /\ MaxWorkers \in Nat \ {0}
    /\ MaxWires \in Nat \ {0}
    /\ MaxApi \in Nat /\ MaxEnv \in Nat /\ MaxFail \in Nat

----------------------------------------------------------------------------
(* The goroutines. *)
Api       == <<"api", 0>>
Callbacks == Sources \X Ep
Workers   == Hosts \X (1 .. MaxWorkers)
Procs     == {Api} \cup Callbacks \cup Workers

(* What resolveEndpoint returns: a host is Success, Peer is Success with
   NoAction, NoHost is a failure. *)
Data == Hosts \cup {Peer, NoHost}

Wires == 1 .. MaxWires
NoWire == 0

(* A worker event: the action, the endpoint it is for and the Wire object
   whose request it points to. *)
Tasks == [act : WorkerActions, ep : Ep, w : Wires]

(* The calls a goroutine has ahead of it. *)
Jobs ==
    [op : {"setDesired"}, to : {"create", "delete"}] \cup
    [op : {"claim", "insert"}] \cup
    [op : {"wireCreate", "wireDelete"}, origin : {"api", "callback"}] \cup
    [op : {"startWorker"}, host : Hosts] \cup
    [op : {"reconcile"}, w : Wires] \cup
    [op : {"resolve"}, data : [Ep -> Data]] \cup
    [op : {"unresolve"}, ep : Ep] \cup
    [op : {"event"}, ev : Events, ep : Ep, same : BOOLEAN, hold : BOOLEAN] \cup
    [op : {"write"}, task : Tasks] \cup
    [op : {"send"}, worker : Workers, task : Tasks] \cup
    [op : {"settle"}, w : Wires] \cup
    [op : {"forget"}]

(* A Wire object: DesiredAction, EndpointsState, the OK flag of each entry
   of EndpointsStatus and what each endpoint of the request resolved to. *)
WireObjects ==
    [desired : {"create", "delete"}, state : [Ep -> EpStates],
     ok : [Ep -> BOOLEAN], host : [Ep -> Data]]

VARIABLES
    pod,       \* pod cache entry of each endpoint: a host, NotReady or Absent
    daemon,    \* daemon cache entry of each host
    topology,  \* topology cache entry of the endpoints of this cluster
    worker,    \* worker cache: the worker number registered for a host, or 0
    started,   \* number of workers started per host
    queue,     \* channel of every worker, replaced workers included
    wires,     \* the Wire objects, in order of allocation
    cached,    \* the one the wire cache holds, or NoWire
    claimed,   \* the wire owns a VXLAN id
    deployed,  \* hosts whose daemon carries the wire
    todo,      \* the calls each goroutine still has to make
    removing,  \* the pod or daemon entry a Delete callback is running for
    asked,     \* history: WireDelete was called
    used       \* spent bounds

cacheVars  == <<pod, daemon, topology, removing>>
workerVars == <<worker, started, queue>>
wireVars   == <<wires, cached, claimed>>
vars == <<pod, daemon, topology, worker, started, queue, wires, cached,
          claimed, deployed, todo, removing, asked, used>>

TypeOK ==
    /\ pod \in [Ep -> Hosts \cup {"NotReady", "Absent"}]
    /\ daemon \in [Hosts -> {"ready", "notReady", "absent"}]
    /\ topology \in {"ready", "notReady", "absent"}
    /\ worker \in [Hosts -> 0 .. MaxWorkers]
    /\ started \in [Hosts -> 0 .. MaxWorkers]
    /\ queue \in [Workers -> Seq(Tasks)]
    /\ wires \in Seq(WireObjects) /\ Len(wires) <= MaxWires
    /\ cached \in 0 .. Len(wires)
    /\ claimed \in BOOLEAN
    /\ deployed \subseteq Hosts
    /\ todo \in [Procs -> Seq(Jobs)]
    /\ removing \in ({"daemon"} \X Hosts) \cup ({"pod"} \X Ep) \cup {<<>>}
    /\ asked \in BOOLEAN
    /\ used \in [{"api", "env", "fail"} -> Nat]
    /\ used["api"] <= MaxApi /\ used["env"] <= MaxEnv /\ used["fail"] <= MaxFail

----------------------------------------------------------------------------
(* Jobs *)
Event(ev, e, same, hold) ==
    [op |-> "event", ev |-> ev, ep |-> e, same |-> same, hold |-> hold]

At(p, op) == todo[p] # <<>> /\ Head(todo[p]).op = op

\* p has done its first call; js come before the calls that were behind it.
Continue(p, js) == todo' = [todo EXCEPT ![p] = js \o Tail(@)]

Spend(b) == used' = [used EXCEPT ![b] = @ + 1]
MayFail(c) == c \in FailOps /\ used["fail"] < MaxFail

----------------------------------------------------------------------------
(* The Wire object *)

\* NewWire.  The request reaches it unresolved, so newWireResp sees no
\* NoAction endpoint and starts both statuses at NOK.
NewWire == [desired |-> "create", state |-> [e \in Ep |-> "Deleted"],
            ok |-> [e \in Ep |-> FALSE], host |-> [e \in Ep |-> NoHost]]

\* WireResp.StatusCode: OK exactly when every endpoint status is OK.
StatusOK(o) == \A e \in Ep : o.ok[e]

\* Faulty: an event that the state ignores is stored as its outcome.
TransitionAlways(o, e, t) ==
    [o EXCEPT !.state[e] = t, !.ok[e] = t \in {"Created", "Deleted"}]

\* Faulty: an endpoint that is being created counts as done.
TransitionEarly(o, e, t) ==
    IF t = Ignored THEN o
    ELSE [o EXCEPT !.state[e] = t, !.ok[e] = t \notin {"Failed", "ResolutionFailed"}]

\* Transition up to the generated events: the new state and UpdateStatus.
\* A message comes only with Failed and ResolutionFailed, which are NOK anyway.
Transition(o, e, t) ==
    IF t = Ignored THEN o
    ELSE [o EXCEPT !.state[e] = t, !.ok[e] = t \in {"Created", "Deleted"}]

\* The generated event of a transition, still to be written to the worker.
Generated(w, e, t) ==
    IF GeneratedAction(t) = Ignored THEN <<>>
    ELSE <<[op |-> "write", task |-> [act |-> GeneratedAction(t), ep |-> e, w |-> w]]>>

\* HandleEvent of the endpoint's state reaches the other endpoint (GetAdditionalState).
Propagates(o, j) ==
    j.ev = "resolutionFailed" /\ ~j.hold /\ PropagatesFailure(o.state[j.ep])

\* The target of the event's own endpoint and of the propagated DeleteEvent,
\* whose context carries neither Hold nor SameHost.
OwnTarget(o, j) == Target(o.state[j.ep], j.ev, j.same)
PeerTarget(o, j) ==
    IF Propagates(o, j) THEN Target(o.state[1 - j.ep], "delete", FALSE) ELSE Ignored

----------------------------------------------------------------------------
(* Resolution *)

\* An unknown topology is a remote cluster's business if the wire is an
\* inter-cluster wire, and a failure otherwise.
resolveEndpoint(e) ==
    IF e \in Remote \/ (Remote # {} /\ topology = "absent") THEN Peer
    ELSE IF topology = "ready" /\ pod[e] \in Hosts /\ daemon[pod[e]] = "ready" THEN pod[e]
    ELSE NoHost

\* A wire whose endpoints are both in a remote cluster does not resolve.
resolveWire ==
    IF \A e \in Ep : resolveEndpoint(e) = Peer THEN [e \in Ep |-> NoHost]
    ELSE [e \in Ep |-> resolveEndpoint(e)]

\* wireCreate after the resolution.
CreateCalls(d, origin) ==
    IF \A e \in Ep : d[e] # NoHost
    THEN (IF d[0] # Peer THEN <<Event("create", 0, FALSE, FALSE)>> ELSE <<>>) \o
         (IF d[1] # Peer THEN <<Event("create", 1, d[0] = d[1], FALSE)>> ELSE <<>>)
    ELSE IF origin # "callback"
    THEN <<Event("resolutionFailed", 0, FALSE, TRUE), Event("resolutionFailed", 1, FALSE, TRUE)>>
    ELSE <<>>

\* Faulty: both endpoints of a co-located wire rely on the other one's call.
DeleteCallsSame(d) ==
    (IF d[0] \in Hosts THEN <<Event("delete", 0, d[0] = d[1], FALSE)>> ELSE <<>>) \o
    (IF d[1] \in Hosts THEN <<Event("delete", 1, d[0] = d[1], FALSE)>> ELSE <<>>)

\* wireDelete after the resolution.
DeleteCalls(d) ==
    (IF d[0] \in Hosts THEN <<Event("delete", 0, FALSE, FALSE)>> ELSE <<>>) \o
    (IF d[1] \in Hosts THEN <<Event("delete", 1, d[0] = d[1], FALSE)>> ELSE <<>>)

----------------------------------------------------------------------------
(* Initially the controller has synced its caches and holds no wire: every *)
(* ready daemon has a worker.                                              *)
Init ==
    /\ pod \in [Ep -> InitPods]
    /\ daemon \in [Hosts -> InitDaemons]
    /\ topology = "ready"
    /\ started = [h \in Hosts |-> IF daemon[h] = "ready" THEN 1 ELSE 0]
    /\ worker = started
    /\ queue = [k \in Workers |-> <<>>]
    /\ wires = <<>>
    /\ cached = NoWire
    /\ claimed = FALSE
    /\ deployed = {}
    /\ todo = [p \in Procs |-> <<>>]
    /\ removing = <<>>
    /\ asked = FALSE
    /\ used = [b \in {"api", "env", "fail"} |-> 0]

----------------------------------------------------------------------------
(* gRPC handlers *)

\* Faulty: every upsert allocates, whether the wire exists or not.
WireUpSertAlwaysNew ==
    /\ todo[Api] = <<>>
    /\ Len(wires) < MaxWires
    /\ todo' = [todo EXCEPT ![Api] = <<[op |-> "claim"], [op |-> "wireCreate", origin |-> "api"]>>]
    /\ UNCHANGED <<cacheVars, workerVars, wireVars, deployed, asked>>

WireUpSert ==
    /\ todo[Api] = <<>>
    /\ cached # NoWire \/ Len(wires) < MaxWires
    /\ todo' = [todo EXCEPT ![Api] =
         <<IF cached = NoWire THEN [op |-> "claim"] ELSE [op |-> "setDesired", to |-> "create"],
           [op |-> "wireCreate", origin |-> "api"]>>]
    /\ UNCHANGED <<cacheVars, workerVars, wireVars, deployed, asked>>

WireDelete ==
    /\ todo[Api] = <<>>
    /\ cached # NoWire
    /\ todo' = [todo EXCEPT ![Api] =
         <<[op |-> "setDesired", to |-> "delete"], [op |-> "wireDelete", origin |-> "api"]>>]
    /\ asked' = TRUE
    /\ UNCHANGED <<cacheVars, workerVars, wireVars, deployed>>

\* The VXLAN claim: an id is taken, then the index is stored.  A failure ends the
\* call, and the id stays taken if it was the store that failed.
Claim(p) ==
    /\ At(p, "claim")
    /\ \/ /\ claimed' = TRUE
          /\ Continue(p, <<[op |-> "insert"]>>)
          /\ UNCHANGED used
       \/ /\ MayFail("claim") /\ Spend("fail")
          /\ claimed' \in {claimed, TRUE}
          /\ todo' = [todo EXCEPT ![p] = <<>>]
    /\ UNCHANGED <<cacheVars, workerVars, wires, cached, deployed, asked>>

\* The new wire enters the cache, in place of whatever entered it since the Get.
Insert(p) ==
    /\ At(p, "insert")
    /\ Len(wires) < MaxWires
    /\ wires' = Append(wires, NewWire)
    /\ cached' = Len(wires) + 1
    /\ Continue(p, <<>>)
    /\ UNCHANGED <<cacheVars, workerVars, claimed, deployed, asked, used>>

SetDesiredAction(p) ==
    /\ At(p, "setDesired")
    /\ wires' = IF cached = NoWire THEN wires
                ELSE [wires EXCEPT ![cached].desired = Head(todo[p]).to]
    /\ Continue(p, <<>>)
    /\ UNCHANGED <<cacheVars, workerVars, cached, claimed, deployed, asked, used>>

----------------------------------------------------------------------------
(* wireCreate and wireDelete, one wire cache call at a time *)

\* The caches are read; the data is used by the calls that follow.
ResolveForCreate(p) ==
    /\ At(p, "wireCreate")
    /\ Continue(p, <<[op |-> "resolve", data |-> resolveWire]>>
                     \o CreateCalls(resolveWire, Head(todo[p]).origin))
    /\ UNCHANGED <<cacheVars, workerVars, wireVars, deployed, asked, used>>

ResolveForDelete(p) ==
    /\ At(p, "wireDelete")
    /\ Continue(p, <<[op |-> "resolve", data |-> resolveWire]>> \o DeleteCalls(resolveWire))
    /\ UNCHANGED <<cacheVars, workerVars, wireVars, deployed, asked, used>>

Resolve(p) ==
    /\ At(p, "resolve")
    /\ wires' = IF cached = NoWire THEN wires
                ELSE [wires EXCEPT ![cached].host = Head(todo[p]).data]
    /\ Continue(p, <<>>)
    /\ UNCHANGED <<cacheVars, workerVars, cached, claimed, deployed, asked, used>>

UnResolve(p) ==
    /\ At(p, "unresolve")
    /\ wires' = IF cached = NoWire THEN wires
                ELSE [wires EXCEPT ![cached].host[Head(todo[p]).ep] = NoHost]
    /\ Continue(p, <<>>)
    /\ UNCHANGED <<cacheVars, workerVars, cached, claimed, deployed, asked, used>>

\* wcache.HandleEvent up to and including the state changes.  What follows in
\* the same call: the write of a generated event, then the settlement.
HandleEvent(p) ==
    LET j == Head(todo[p])
        o == wires[cached]
    IN
    /\ At(p, "event")
    /\ IF cached = NoWire
       THEN Continue(p, <<>>) /\ UNCHANGED wires
       ELSE /\ wires' = [wires EXCEPT ![cached] =
                           Transition(Transition(o, j.ep, OwnTarget(o, j)),
                                      1 - j.ep, PeerTarget(o, j))]
            /\ Continue(p, Generated(cached, j.ep, OwnTarget(o, j))
                             \o Generated(cached, 1 - j.ep, PeerTarget(o, j))
                             \o <<[op |-> "settle", w |-> cached]>>)
    /\ UNCHANGED <<cacheVars, workerVars, cached, claimed, deployed, asked, used>>

\* The worker registered for what an endpoint resolved to, 0 if there is none.
WorkerOf(h) == IF h \in Hosts THEN worker[h] ELSE 0

\* The loop over generated events in Transition: nothing is written for an
\* unresolved endpoint, and a missing worker is a FailedEvent.  A full channel
\* holds the goroutine on the worker it picked.
WriteEvent(p) ==
    LET t == Head(todo[p]).task
        h == wires[t.w].host[t.ep]
        k == <<h, WorkerOf(h)>>
    IN
    /\ At(p, "write")
    /\ IF h = NoHost
       THEN Continue(p, <<>>) /\ UNCHANGED <<wires, queue>>
       ELSE IF WorkerOf(h) = 0
       THEN /\ wires' = [wires EXCEPT ![t.w] =
                           Transition(@, t.ep, Target(@.state[t.ep], "failed", FALSE))]
            /\ Continue(p, <<>>)
            /\ UNCHANGED queue
       ELSE IF Len(queue[k]) < QCap
       THEN /\ queue' = [queue EXCEPT ![k] = Append(@, t)]
            /\ Continue(p, <<>>)
            /\ UNCHANGED wires
       ELSE /\ Continue(p, <<[op |-> "send", worker |-> k, task |-> t]>>)
            /\ UNCHANGED <<wires, queue>>
    /\ UNCHANGED <<cacheVars, worker, started, cached, claimed, deployed, asked, used>>

Send(p) ==
    LET j == Head(todo[p]) IN
    /\ At(p, "send")
    /\ Len(queue[j.worker]) < QCap
    /\ queue' = [queue EXCEPT ![j.worker] = Append(@, j.task)]
    /\ Continue(p, <<>>)
    /\ UNCHANGED <<cacheVars, worker, started, wireVars, deployed, asked, used>>

\* Faulty: the desired action is not consulted.
FinishedWhenOK(o) == StatusOK(o)

\* The wire is complete and somebody asked for its deletion.
Finished(o) == o.desired = "delete" /\ StatusOK(o)

\* The end of wcache.HandleEvent: a wire to be deleted whose status is OK gives
\* its claim back (a call to the store) and then leaves the cache; any other
\* wire is put back in the cache.  A failing DeleteClaim ends the call,
\* with the id given back or not.
Settle(p) ==
    LET w == Head(todo[p]).w IN
    /\ At(p, "settle")
    /\ IF Finished(wires[w])
       THEN /\ \/ /\ claimed' = FALSE
                  /\ Continue(p, <<[op |-> "forget"]>>)
                  /\ UNCHANGED used
               \/ /\ MayFail("release") /\ Spend("fail")
                  /\ claimed' \in {claimed, FALSE}
                  /\ Continue(p, <<>>)
            /\ UNCHANGED cached
       ELSE /\ cached' = w
            /\ Continue(p, <<>>)
            /\ UNCHANGED <<claimed, used>>
    /\ UNCHANGED <<cacheVars, workerVars, wires, deployed, asked>>

\* The cache deletes by name, whichever object it holds by then.
Forget(p) ==
    /\ At(p, "forget")
    /\ cached' = NoWire
    /\ Continue(p, <<>>)
    /\ UNCHANGED <<cacheVars, workerVars, wires, claimed, deployed, asked, used>>

----------------------------------------------------------------------------
(* Workers *)

Answer(act) == IF act = "create" THEN "created" ELSE "deleted"

\* The daemon call: a create puts the wire on the host, a delete removes it.
Effect(h, act) == IF act = "create" THEN deployed \cup {h} ELSE deployed \ {h}

\* The request is the one the wire holds now.  If it no longer places the
\* endpoint on host h, the daemon takes the endpoint for a remote one, reports
\* success and works on other interfaces: whether the wire is then on h is open.
Outcomes(h, t) ==
    IF wires[t.w].host[t.ep] = h THEN {Effect(h, t.act)} ELSE {deployed, Effect(h, t.act)}

\* Faulty: a worker that was stopped or replaced leaves its loop.
ReceivesWhileRegistered(k) == todo[k] = <<>> /\ queue[k] # <<>> /\ worker[k[1]] = k[2]

\* The worker is back at the receive of its loop.  Stop cancels a context that
\* the loop does not look at: a stopped worker keeps receiving.
Receives(k) == todo[k] = <<>> /\ queue[k] # <<>>

\* One turn of the worker's loop: receive, call the daemon, report.  A call
\* that fails may or may not have had its effect.
WorkerTurn(k) ==
    LET t == Head(queue[k]) IN
    /\ Receives(k)
    /\ queue' = [queue EXCEPT ![k] = Tail(@)]
    /\ \/ /\ deployed' \in Outcomes(k[1], t)
          /\ todo' = [todo EXCEPT ![k] = <<Event(Answer(t.act), t.ep, FALSE, FALSE)>>]
          /\ UNCHANGED used
       \/ /\ MayFail("daemon") /\ Spend("fail")
          /\ deployed' \in {deployed, Effect(k[1], t.act)}
          /\ todo' = [todo EXCEPT ![k] = <<Event("failed", t.ep, FALSE, FALSE)>>]
    /\ UNCHANGED <<cacheVars, worker, started, wireVars, asked>>

----------------------------------------------------------------------------
(* Cache callbacks *)

CallbackIdle(src) ==
    /\ \A e \in Ep : todo[<<src, e>>] = <<>>
    /\ src = "pod" => removing = <<>>

\* commonCallback for an upsert: one goroutine per cached wire.
UpsertCalls == IF cached = NoWire THEN <<>> ELSE <<[op |-> "reconcile", w |-> cached]>>

\* commonCallback for a delete: a goroutine for each resolved endpoint that
\* matches and that this cluster acts on.
DeleteGoroutines(src, M, hold) ==
    todo' = [todo EXCEPT
        ![<<src, 0>>] = IF 0 \in M THEN <<[op |-> "unresolve", ep |-> 0],
                          Event("resolutionFailed", 0, FALSE, hold)>> ELSE <<>>,
        ![<<src, 1>>] = IF 1 \in M THEN <<[op |-> "unresolve", ep |-> 1],
                          Event("resolutionFailed", 1, FALSE, hold)>> ELSE <<>>]

\* The endpoints of the cached wire that are acted on and resolved to a host in H.
ResolvedTo(H) ==
    IF cached = NoWire THEN {} ELSE {e \in Ep : wires[cached].host[e] \in H}

\* The goroutine of the upsert callback reads the desired action first.
Reconcile(p) ==
    /\ At(p, "reconcile")
    /\ Continue(p, <<[op |-> IF wires[Head(todo[p]).w].desired = "create"
                             THEN "wireCreate" ELSE "wireDelete",
                      origin |-> "callback"]>>)
    /\ UNCHANGED <<cacheVars, workerVars, wireVars, deployed, asked, used>>

EnvStep(src, op) ==
    /\ src \in Sources /\ op \in EnvOps
    /\ CallbackIdle(src)
    /\ used["env"] < MaxEnv /\ Spend("env")

PodUpsert(e, v) ==
    /\ EnvStep("pod", "podUpsert")
    /\ pod[e] # v
    /\ pod' = [pod EXCEPT ![e] = v]
    /\ todo' = [todo EXCEPT ![<<"pod", 0>>] = UpsertCalls]
    /\ UNCHANGED <<daemon, topology, removing, workerVars, wireVars, deployed, asked>>

\* The entry stays visible until the callback has returned (CallbackDone).
PodDelete(e) ==
    /\ EnvStep("pod", "podDelete")
    /\ pod[e] # "Absent"
    /\ removing' = <<"pod", e>>
    /\ DeleteGoroutines("pod", ResolvedTo(Hosts) \cap {e}, FALSE)
    /\ UNCHANGED <<pod, daemon, topology, workerVars, wireVars, deployed, asked>>

\* The daemon entry is updated and an existing worker dropped; a ready daemon
\* then gets a new worker, even when it was ready before (its address changed).
DaemonUpsert(h, v) ==
    /\ EnvStep("pod", "daemonUpsert")
    /\ daemon[h] # v \/ v = "ready"
    /\ v = "ready" => started[h] < MaxWorkers
    /\ daemon' = [daemon EXCEPT ![h] = v]
    /\ worker' = [worker EXCEPT ![h] = 0]
    /\ todo' = [todo EXCEPT ![<<"pod", 0>>] =
                  IF v = "ready" THEN <<[op |-> "startWorker", host |-> h]>> ELSE UpsertCalls]
    /\ UNCHANGED <<pod, topology, removing, started, queue, wireVars, deployed, asked>>

\* A worker that cannot be started ends the callback.
StartWorker(p) ==
    LET h == Head(todo[p]).host IN
    /\ At(p, "startWorker")
    /\ \/ /\ started[h] < MaxWorkers
          /\ started' = [started EXCEPT ![h] = @ + 1]
          /\ worker' = [worker EXCEPT ![h] = started[h] + 1]
          /\ Continue(p, UpsertCalls)
          /\ UNCHANGED used
       \/ /\ MayFail("worker") /\ Spend("fail")
          /\ Continue(p, <<>>)
          /\ UNCHANGED <<started, worker>>
    /\ UNCHANGED <<cacheVars, queue, wireVars, deployed, asked>>

\* Faulty: the other end hears of the failure.
DaemonDeleteNoHold(h) ==
    /\ EnvStep("pod", "daemonDelete")
    /\ daemon[h] # "absent"
    /\ worker' = [worker EXCEPT ![h] = 0]
    /\ removing' = <<"daemon", h>>
    /\ DeleteGoroutines("pod", ResolvedTo({h}), FALSE)
    /\ UNCHANGED <<pod, daemon, topology, started, queue, wireVars, deployed, asked>>

DaemonDelete(h) ==
    /\ EnvStep("pod", "daemonDelete")
    /\ daemon[h] # "absent"
    /\ worker' = [worker EXCEPT ![h] = 0]
    /\ removing' = <<"daemon", h>>
    /\ DeleteGoroutines("pod", ResolvedTo({h}), TRUE)
    /\ UNCHANGED <<pod, daemon, topology, started, queue, wireVars, deployed, asked>>

\* cache.Delete drops the entry once its callbacks have returned.
CallbackDone ==
    /\ removing # <<>>
    /\ \A e \in Ep : todo[<<"pod", e>>] = <<>>
    /\ pod' = IF removing[1] = "pod" THEN [pod EXCEPT ![removing[2]] = "Absent"] ELSE pod
    /\ daemon' = IF removing[1] = "daemon" THEN [daemon EXCEPT ![removing[2]] = "absent"] ELSE daemon
    /\ removing' = <<>>
    /\ UNCHANGED <<topology, workerVars, wireVars, deployed, todo, asked, used>>

NodeUpsert ==
    /\ EnvStep("node", "nodeUpsert")
    /\ todo' = [todo EXCEPT ![<<"node", 0>>] = UpsertCalls]
    /\ UNCHANGED <<cacheVars, workerVars, wireVars, deployed, asked>>

NodeDelete(h) ==
    /\ EnvStep("node", "nodeDelete")
    /\ DeleteGoroutines("node", ResolvedTo({h}), FALSE)
    /\ UNCHANGED <<cacheVars, workerVars, wireVars, deployed, asked>>

\* No callback watches the topology cache.
TopologyChange(v) ==
    /\ "topology" \in EnvOps
    /\ used["env"] < MaxEnv /\ Spend("env")
    /\ topology # v
    /\ topology' = v
    /\ UNCHANGED <<pod, daemon, removing, workerVars, wireVars, deployed, todo, asked>>

----------------------------------------------------------------------------
\* Every goroutine has returned and every channel is empty.
Quiet ==
    /\ \A p \in Procs : todo[p] = <<>>
    /\ \A k \in Workers : queue[k] = <<>>

ApiCall ==
    /\ used["api"] < MaxApi /\ Spend("api")
    /\ \/ "create" \in ApiOps /\ (asked => "recreate" \in ApiOps) /\ WireUpSert
       \/ "delete" \in ApiOps /\ WireDelete

\* One call of goroutine p.
Step(p) ==
    \/ Claim(p) \/ Insert(p) \/ SetDesiredAction(p)
    \/ ResolveForCreate(p) \/ ResolveForDelete(p)
    \/ Resolve(p) \/ UnResolve(p)
    \/ HandleEvent(p) \/ WriteEvent(p) \/ Send(p) \/ Settle(p) \/ Forget(p)
    \/ Reconcile(p) \/ StartWorker(p)

Environment ==
    \/ \E e \in Ep : PodDelete(e) \/ \E v \in Hosts \cup {"NotReady"} : PodUpsert(e, v)
    \/ \E h \in Hosts : \/ DaemonDelete(h) \/ NodeDelete(h)
                        \/ \E v \in {"ready", "notReady"} : DaemonUpsert(h, v)
    \/ NodeUpsert
    \/ \E v \in {"ready", "notReady", "absent"} : TopologyChange(v)

System ==
    \/ \E p \in Procs : Step(p)
    \/ \E k \in Workers : WorkerTurn(k)
    \/ CallbackDone

Next == ApiCall \/ System \/ Environment

Spec == Init /\ [][Next]_vars

\* Goroutines are scheduled and daemon calls return; clients and the cluster
\* owe nothing.
Fairness ==
    /\ \A p \in Procs : WF_vars(Step(p))
    /\ \A k \in Workers : WF_vars(WorkerTurn(k))
    /\ WF_vars(CallbackDone)

FairSpec == Spec /\ Fairness

----------------------------------------------------------------------------
(* Properties *)

JobsOf(p) == {todo[p][i] : i \in DOMAIN todo[p]}
TasksOf(k) == {queue[k][i] : i \in DOMAIN queue[k]}

\* The daemon action act for endpoint e is about to be written or in a channel ...
Sent(act, e) ==
    \/ \E k \in Workers : \E t \in TasksOf(k) : t.act = act /\ t.ep = e
    \/ \E p \in Procs : \E j \in JobsOf(p) :
          j.op \in {"write", "send"} /\ j.task.act = act /\ j.task.ep = e

\* ... or its answer has not been reported yet.
Underway(act, e) ==
    \/ Sent(act, e)
    \/ \E k \in Workers : \E j \in JobsOf(k) :
          j.op = "event" /\ j.ep = e /\ j.ev \in {Answer(act), "failed"}

\* state.go answers CreateEvent in Creating and DeleteEvent in Deleting with
\* "do nothing", on the ground that the daemon call is ongoing.  That call is
\* then still on its way: without it no event would ever leave the state.
OngoingIsUnderway ==
    cached # NoWire /\ ~asked => \A e \in Ep :
        /\ wires[cached].state[e] = "Creating" => Underway("create", e)
        /\ wires[cached].state[e] = "Deleting" => Underway("delete", e)

\* The wire reconciler does not deploy a wire whose status is OK: the daemons
\* of the hosts its endpoints are on then carry it.
ReportedIsDeployed ==
    cached # NoWire /\ ~asked /\ StatusOK(wires[cached]) =>
        \A e \in Ep : wires[cached].host[e] \in Hosts => wires[cached].host[e] \in deployed

\* daemonCallback holds the failure of a daemon: it "most likely mean[s] a daemon
\* upgrade or restart", so the other end of the wire is not deleted.  Until a
\* client asks, no delete goes to any worker.
HeldEndKept == ~asked => \A e \in Ep : ~Sent("delete", e)

\* A worker's own HandleEvent never writes to a channel: workers drain their
\* channels whatever the others do, so a blocked writer is always released.
WorkersNeverWrite ==
    \A k \in Workers : \A j \in JobsOf(k) : j.op \notin {"write", "send"}

\* A wire that nobody asked to delete stays in the cache as the same object,
\* whatever pods, daemons and nodes do.
KeptUntilAsked == [][cached # NoWire /\ ~asked => cached' = cached]_vars

\* ... and it keeps its VXLAN id.
ClaimKept == cached # NoWire /\ ~asked => claimed

\* Every call ends: no goroutine waits for ever on a worker's channel.
CallsEnd == \A p \in Procs : (todo[p] # <<>>) ~> (todo[p] = <<>>)

============================================================================
