---------------------------- MODULE ClusterWatch ----------------------------
(***************************************************************************)
(* The intercluster controller: secrets with a kubeconfig become clusters, *)
(* each cluster gets watchers, and the watchers fill the shared caches     *)
(* from the objects of their cluster.                                      *)
(*                                                                         *)
(* Three kinds of goroutine: the cluster controller, which handles one     *)
(* secret at a time, and for every started set of watchers ("instance")    *)
(* one reconciler per kind of object.  Every reconcile with a usable       *)
(* kubeconfig builds a new instance and starts it; only the instance in    *)
(* the cluster cache is ever stopped.  Informers sync and remote calls     *)
(* that fail are repeated.                                                 *)
(***************************************************************************)
EXTENDS Integers

CONSTANTS
    Clusters,      \* clusters, one kubeconfig secret each
    Objects,       \* watched objects of the clusters
    KindOf,        \* ns (topology), svc, pod, daemon, node or ep
    ClusterOf,     \* the cluster an object lives in
    KeyOf,         \* the cache key of an object; that of a topology, a pod and an ep has no cluster
    HostKeyOf,     \* the key under which a node is in the pod cache too
    SecretsOf,     \* the initial secrets, one of these
    Scenarios,     \* the initial objects; one that is "never" there stays out of the behaviour
    None,          \* no entry
    MaxInstances,  \* bound: instances ever started
    MaxEvents      \* bound: changes of secrets and objects, failed calls

Instances == 1 .. MaxInstances
Keys == {KeyOf[o] : o \in Objects} \cup {HostKeyOf[o] : o \in Objects}

\* In the order in which the reconcilers are started; that of the pods fills two caches.
Kinds == {"ns", "svc", "pod", "daemon", "node", "ep"}
Prefixes == {{}, {"ns"}, {"ns", "svc"}, {"ns", "svc", "pod", "daemon"},
             {"ns", "svc", "pod", "daemon", "node"}}

\* ready1 and ready2 differ in what the entry holds (an address); notReady is a
\* namespace without the label, a service without ingress, a pod not ready, a
\* node without address.
ObjStates == {"absent", "notReady", "ready1", "ready2", "deleting"}
Ready == {"ready1", "ready2"}
Secrets == [st : {"absent", "bad", "good", "deleting"}, fin : BOOLEAN]
NoSecret == [st |-> "absent", fin |-> FALSE]

ASSUME ClusterWatchAssumption ==
    /\ KindOf \in [Objects -> Kinds] /\ ClusterOf \in [Objects -> Clusters]
    /\ SecretsOf \subseteq [Clusters -> Secrets]
    /\ \A f \in SecretsOf, c \in Clusters : f[c].fin => f[c].st # "absent"
    /\ Scenarios \subseteq [Objects -> ObjStates \cup {"never"}]
    /\ MaxInstances \in Nat /\ MaxEvents \in Nat
    /\ None \notin Clusters

\* The node cache is not the pod cache.  A cluster has one service that counts, known by
\* its name and stored under the name of the cluster.
ASSUME KeyAssumption ==
    /\ DOMAIN KeyOf = Objects /\ DOMAIN HostKeyOf = Objects
    /\ \A o \in Objects : KindOf[o] = "node" => HostKeyOf[o] # KeyOf[o]
    /\ \A o, p \in Objects : KindOf[o] = "svc" /\ o # p =>
         /\ KeyOf[p] # KeyOf[o] /\ HostKeyOf[p] # KeyOf[o]
         /\ KindOf[p] = "svc" => ClusterOf[p] # ClusterOf[o]

\* An entry remembers its object, of which the code keeps at most the cluster.
Entries == [of : Objects, value : Ready \cup {"notReady", "noAddress"}]

ASSUME NoEntryAssumption == None \notin Entries

Idle == [op |-> "idle"]
Jobs == [op : {"lookup", "first", "second", "host"}, seen : ObjStates, old : Entries \cup {None}]
Steps == {"finalizer", "apply", "upsert", "start", "stop", "service", "topologies",
          "entry", "release", "done"}

VARIABLES
    secret,   \* the secrets
    due,      \* clusters whose secret is to be reconciled
    turn,     \* the secret being reconciled: cluster, what was read, the next step
    cluster,  \* cluster cache: the instance of each cluster, 0 if none
    ofInst,   \* the cluster of each instance
    running,  \* <<instance, kind>> of the reconcilers that run
    obj,      \* the objects
    pending,  \* <<instance, object>> whose reconcile is requested
    job,      \* what the reconciler of an instance does for an object
    cache,    \* the shared caches
    worker,   \* the worker of each cluster: the entry it was made from
    broken,   \* history: instances whose start failed or that ended on an error
    missed,   \* history: objects with a change that was not told, or an end in the middle
    used

vars == <<secret, due, turn, cluster, ofInst, running, obj, pending, job, cache, worker,
          broken, missed, used>>
ctl  == <<secret, due, turn, cluster, ofInst, running, broken, missed>>
seen == <<pending, job, cache, worker, broken, missed>>

NoTurn == [of |-> None, read |-> NoSecret, at |-> "done"]
Pairs == {p \in Instances \X Objects : ofInst[p[1]] = ClusterOf[p[2]]}

\* Who is told of a change of the object.
Watchers(o) == {i \in Instances : ofInst[i] = ClusterOf[o] /\ <<i, KindOf[o]>> \in running}

CWInit ==
    /\ secret \in SecretsOf
    /\ due = {c \in Clusters : secret[c].st # "absent"} /\ turn = NoTurn
    /\ cluster = [c \in Clusters |-> 0]
    /\ ofInst = [i \in Instances |-> None] /\ running = {}
    /\ obj \in Scenarios /\ pending = {}
    /\ job = [p \in Instances \X Objects |-> Idle]
    /\ cache = [k \in Keys |-> None]
    /\ worker = [c \in Clusters |-> None]
    /\ broken = {} /\ missed = {}
    /\ used = 0

----------------------------------------------------------------------------
(* Cluster controller *)

\* Faulty: the finalizer comes last.
FollowingLate(st, at) ==
    CASE at = "read"       -> CASE st = "good" -> "apply" [] st = "bad" -> "finalizer"
                                [] st = "deleting" -> "stop" [] OTHER -> "done"
      [] at = "finalizer"  -> IF st = "good" THEN "done" ELSE "stop"
      [] at = "apply"      -> "upsert"
      [] at = "upsert"     -> "start"
      [] at = "start"      -> "finalizer"
      [] at = "stop"       -> "service"
      [] at = "service"    -> "topologies"
      [] at = "topologies" -> "entry"
      [] at = "entry"      -> IF st = "deleting" THEN "release" ELSE "done"
      [] OTHER             -> "done"

\* Reconcile, by what it reads.  The delete for a secret that is gone uses the
\* key of the secret, under which there is no entry.
Following(st, at) ==
    CASE at = "read"       -> CASE st \in {"good", "bad"} -> "finalizer"
                                [] st = "deleting" -> "stop" [] OTHER -> "done"
      [] at = "finalizer"  -> IF st = "good" THEN "apply" ELSE "stop"
      [] at = "apply"      -> "upsert"
      [] at = "upsert"     -> "start"
      [] at = "stop"       -> "service"
      [] at = "service"    -> "topologies"
      [] at = "topologies" -> "entry"
      [] at = "entry"      -> IF st = "deleting" THEN "release" ELSE "done"
      [] OTHER             -> "done"

Reconcile(c) ==
    /\ turn.at = "done" /\ c \in due
    /\ due' = due \ {c}
    /\ turn' = [of |-> c, read |-> secret[c], at |-> Following(secret[c].st, "read")]
    /\ UNCHANGED <<secret, cluster, ofInst, running, obj, seen, used>>

Advance == turn' = [turn EXCEPT !.at = Following(turn.read.st, turn.at)]

\* A call of the reconcile fails, and it is repeated.
Fails ==
    /\ used < MaxEvents /\ used' = used + 1
    /\ turn' = NoTurn /\ due' = due \cup {turn.of}

\* AddFinalizer; the update of a secret that has changed since is refused and the
\* reconcile repeated.  The update is an event of its own.
AddFinalizer ==
    LET c == turn.of IN
    /\ turn.at = "finalizer"
    /\ \/ turn.read.fin /\ Advance /\ UNCHANGED <<secret, due, used>>
       \/ ~turn.read.fin /\ Fails /\ UNCHANGED secret
       \/ /\ ~turn.read.fin /\ c \in due
          /\ turn' = NoTurn /\ UNCHANGED <<secret, due, used>>
       \/ /\ ~turn.read.fin /\ c \notin due
          /\ secret' = [secret EXCEPT ![c].fin = TRUE]
          /\ due' = due \cup {c}
          /\ Advance /\ UNCHANGED used
    /\ UNCHANGED <<cluster, ofInst, running, obj, seen>>

\* The ConfigMap with the cluster's name is applied in the cluster.
Apply ==
    /\ turn.at = "apply"
    /\ (Advance /\ UNCHANGED <<due, used>>) \/ Fails
    /\ UNCHANGED <<secret, cluster, ofInst, running, obj, seen>>

\* clusterCache.Upsert: a new controller object, never equal to the one before.
Upsert ==
    /\ turn.at = "upsert"
    /\ \E i \in Instances :
        /\ ofInst[i] = None /\ \A j \in 1 .. i - 1 : ofInst[j] # None
        /\ ofInst' = [ofInst EXCEPT ![i] = turn.of]
        /\ cluster' = [cluster EXCEPT ![turn.of] = i]
    /\ Advance
    /\ UNCHANGED <<secret, due, running, obj, seen, used>>

\* The reconcilers of these kinds start: their informers list everything.
StartKinds(i, ks) ==
    /\ running' = running \cup {<<i, k>> : k \in ks}
    /\ pending' = pending \cup {p \in Pairs : p[1] = i /\ KindOf[p[2]] \in ks
                                           /\ obj[p[2]] \notin {"absent", "never"}}

\* clusterCallback of an upsert starts the instance.  A failure is only logged: the
\* reconcilers started until then run, the cluster stays in the cache as ready.
Start ==
    LET i == cluster[turn.of] IN
    /\ turn.at = "start"
    /\ \/ StartKinds(i, Kinds) /\ UNCHANGED <<broken, used>>
       \/ /\ used < MaxEvents /\ used' = used + 1
          /\ \E ks \in Prefixes : StartKinds(i, ks)
          /\ broken' = broken \cup {i}
    /\ Advance
    /\ UNCHANGED <<secret, due, cluster, ofInst, obj, job, cache, worker, missed>>

\* The context of the instance is cancelled: what it was told and has not read is
\* lost, what it has read it writes.
Cancel(i) ==
    /\ running' = {r \in running : r[1] # i}
    /\ pending' = {p \in pending : p[1] # i}
    /\ missed' = missed \cup {o \in Objects : <<i, o>> \in pending \/ job[<<i, o>>] # Idle}

\* A cache or a controller of the instance ends with an error: all of it is
\* cancelled, and nothing starts it again.
Crash(i) ==
    /\ used < MaxEvents /\ used' = used + 1
    /\ \E r \in running : r[1] = i
    /\ Cancel(i)
    /\ broken' = broken \cup {i}
    /\ UNCHANGED <<secret, due, turn, cluster, ofInst, obj, job, cache, worker>>

\* clusterCallback of a delete, of an entry that is there: the instance is stopped ...
\* Without entry there is no callback, and only the finalizer is left to remove.
Stop ==
    LET i == cluster[turn.of] IN
    /\ turn.at = "stop"
    /\ \/ i # 0 /\ Cancel(i) /\ Advance
       \/ /\ i = 0
          /\ turn' = [turn EXCEPT !.at = Following(turn.read.st, "entry")]
          /\ UNCHANGED <<running, pending, missed>>
    /\ UNCHANGED <<secret, due, cluster, ofInst, obj, job, cache, worker, broken, used>>

\* ... the service of the cluster is dropped, which makes its worker anew (see Callback) ...
DeleteService ==
    LET ks == {KeyOf[o] : o \in {x \in Objects : KindOf[x] = "svc" /\ ClusterOf[x] = turn.of}} IN
    /\ turn.at = "service"
    /\ \/ \E k \in ks : cache[k] # None /\ worker' = [worker EXCEPT ![turn.of] = cache[k]]
       \/ (\A k \in ks : cache[k] = None) /\ UNCHANGED worker
    /\ cache' = [k \in Keys |-> IF k \in ks THEN None ELSE cache[k]]
    /\ Advance
    /\ UNCHANGED <<secret, due, cluster, ofInst, running, obj, pending, job, broken, missed, used>>

\* ... and the topologies it owns.
DeleteTopologies ==
    LET ks == {KeyOf[o] : o \in {x \in Objects : KindOf[x] = "ns"}} IN
    /\ turn.at = "topologies"
    /\ cache' = [k \in Keys |->
                    IF k \in ks /\ cache[k] # None /\ ClusterOf[cache[k].of] = turn.of
                    THEN None ELSE cache[k]]
    /\ Advance
    /\ UNCHANGED <<secret, due, cluster, ofInst, running, obj, pending, job, worker, broken,
                   missed, used>>

DeleteEntry ==
    /\ turn.at = "entry"
    /\ cluster' = [cluster EXCEPT ![turn.of] = 0]
    /\ Advance
    /\ UNCHANGED <<secret, due, ofInst, running, obj, seen, used>>

RemoveFinalizer ==
    /\ turn.at = "release"
    /\ \/ Fails /\ UNCHANGED secret
       \/ /\ secret' = [secret EXCEPT ![turn.of] = NoSecret]
          /\ due' = due \cup {turn.of}
          /\ Advance /\ UNCHANGED used
    /\ UNCHANGED <<cluster, ofInst, running, obj, seen>>

Control == \/ \E c \in Clusters : Reconcile(c)
           \/ AddFinalizer \/ Apply \/ Upsert \/ Start
           \/ Stop \/ DeleteService \/ DeleteTopologies \/ DeleteEntry \/ RemoveFinalizer

----------------------------------------------------------------------------
(* The reconcilers of an instance *)

\* Faulty: a pod that is gone is looked up by the name it no longer has.
UncachesPresent(kind, s) ==
    \/ s = "absent"   /\ kind \in {"ns", "ep"}
    \/ s = "deleting" /\ kind \in {"ns", "pod", "ep", "node", "daemon"}
    \/ s = "notReady" /\ kind \in {"ns", "svc"}

\* Which reads remove the entry.  For a node, a daemon or a service that is
\* gone, and for a service being deleted, the key is not the one of the entry.
Uncaches(kind, s) ==
    \/ s = "absent"   /\ kind \in {"ns", "pod", "ep"}
    \/ s = "deleting" /\ kind \in {"ns", "pod", "ep", "node", "daemon"}
    \/ s = "notReady" /\ kind \in {"ns", "svc"}

\* The others that write: pods, endpoints, nodes and daemons are stored ready or not.
Caches(kind, s) == s \in Ready \/ (s = "notReady" /\ kind \notin {"ns", "svc"})

EntryOf(o, s) == [of |-> o, value |-> s]

\* A node is in the pod cache as a pod that is ready, whether it has an address or not.
HostEntryOf(o, s) == [of |-> o, value |-> IF s = "notReady" THEN "noAddress" ELSE s]

\* The reconciler reads the object; a stopped instance cannot.  A service
\* without ingress is looked at again.
Read(i, o) ==
    /\ <<i, o>> \in pending /\ job[<<i, o>>] = Idle
    /\ pending' = IF KindOf[o] = "svc" /\ obj[o] = "notReady" THEN pending
                  ELSE pending \ {<<i, o>>}
    /\ job' = [job EXCEPT ![<<i, o>>] =
                 IF Uncaches(KindOf[o], obj[o]) \/ Caches(KindOf[o], obj[o])
                 THEN [op |-> "lookup", seen |-> obj[o], old |-> None] ELSE Idle]
    /\ UNCHANGED <<ctl, obj, cache, worker, used>>

\* The entry that is there.  A topology of another cluster is left alone, but
\* only when the namespace carries the label.
Lookup(i, o) ==
    LET j == job[<<i, o>>]
        old == cache[KeyOf[o]]
        overlapping == Caches(KindOf[o], j.seen) /\ KindOf[o] = "ns"
                       /\ old # None /\ ClusterOf[old.of] # ClusterOf[o]
    IN
    /\ j.op = "lookup"
    /\ job' = [job EXCEPT ![<<i, o>>] =
                 IF overlapping THEN Idle ELSE [j EXCEPT !.op = "first", !.old = old]]
    /\ UNCHANGED <<ctl, obj, pending, cache, worker, used>>

\* Faulty: a worker that is there is kept.
CallbackOnce(o, entry) ==
    worker' = IF KindOf[o] = "svc" /\ worker[ClusterOf[o]] = None
              THEN [worker EXCEPT ![ClusterOf[o]] = entry] ELSE worker

\* serviceCallback replaces the worker of the cluster by one for the address of the
\* entry.  It asks whether the entry is ready, which every service in the cache is, and not
\* whether it is deleted: its branch that drops the worker is never taken.
\* The new worker always starts: its client dials without waiting for the connection.
Callback(o, entry) ==
    worker' = IF KindOf[o] = "svc" THEN [worker EXCEPT ![ClusterOf[o]] = entry] ELSE worker

\* Cache.Upsert stores, then calls back if the entry is new or has changed;
\* Cache.Delete calls back with the entry if there was one, then removes it.
First(i, o) ==
    LET j == job[<<i, o>>] IN
    /\ j.op = "first"
    /\ IF Caches(KindOf[o], j.seen)
       THEN cache' = [cache EXCEPT ![KeyOf[o]] = EntryOf(o, j.seen)] /\ UNCHANGED worker
       ELSE /\ IF j.old # None THEN Callback(o, j.old) ELSE UNCHANGED worker
            /\ UNCHANGED cache
    /\ job' = [job EXCEPT ![<<i, o>>].op = "second"]
    /\ UNCHANGED <<ctl, obj, pending, used>>

Second(i, o) ==
    LET j == job[<<i, o>>] IN
    /\ j.op = "second"
    /\ IF Caches(KindOf[o], j.seen)
       THEN /\ IF j.old # EntryOf(o, j.seen) THEN Callback(o, EntryOf(o, j.seen))
               ELSE UNCHANGED worker
            /\ UNCHANGED cache
       ELSE cache' = [cache EXCEPT ![KeyOf[o]] = None] /\ UNCHANGED worker
    /\ job' = [job EXCEPT ![<<i, o>>] =
                 IF KindOf[o] = "node" THEN [j EXCEPT !.op = "host"] ELSE Idle]
    /\ UNCHANGED <<ctl, obj, pending, used>>

\* The same for the node as a pod.
Host(i, o) ==
    LET j == job[<<i, o>>] IN
    /\ j.op = "host"
    /\ cache' = [cache EXCEPT ![HostKeyOf[o]] =
                   IF Caches(KindOf[o], j.seen) THEN HostEntryOf(o, j.seen) ELSE None]
    /\ job' = [job EXCEPT ![<<i, o>>] = Idle]
    /\ UNCHANGED <<ctl, obj, pending, worker, used>>

Watch(i, o) == Read(i, o) \/ Lookup(i, o) \/ First(i, o) \/ Second(i, o) \/ Host(i, o)

----------------------------------------------------------------------------
(* The clusters and their secrets *)

\* A secret is created, its kubeconfig becomes usable or unusable, it is deleted.
SecretChange(c) ==
    /\ used < MaxEvents /\ used' = used + 1
    /\ \/ /\ secret[c].st # "deleting"
          /\ \E st \in {"bad", "good"} \ {secret[c].st} : secret' = [secret EXCEPT ![c].st = st]
       \/ /\ secret[c].st \in {"bad", "good"}
          /\ secret' = [secret EXCEPT ![c] = IF secret[c].fin THEN [@ EXCEPT !.st = "deleting"]
                                             ELSE NoSecret]
    /\ due' = due \cup {c}
    /\ UNCHANGED <<turn, cluster, ofInst, running, obj, seen>>

Held(o) == \E k \in Keys : cache[k] # None /\ cache[k].of = o

\* An object changes and every reconciler that watches it is told.  Pods and daemons
\* that are deleted stay for their grace period.
ObjectChange(o) ==
    /\ used < MaxEvents /\ used' = used + 1
    /\ obj[o] # "never"
    /\ \E s \in ObjStates \ {obj[o]} :
        /\ s = "deleting" => obj[o] # "absent"
        /\ obj[o] = "deleting" => s = "absent"
        /\ obj' = [obj EXCEPT ![o] = s]
    /\ pending' = pending \cup {<<i, o>> : i \in Watchers(o)}
    /\ missed' = IF Watchers(o) = {} /\ Held(o) THEN missed \cup {o} ELSE missed
    /\ UNCHANGED <<secret, due, turn, cluster, ofInst, running, job, cache, worker, broken>>

CWNext ==
    \/ Control
    \/ \E i \in Instances : Crash(i)
    \/ \E i \in Instances, o \in Objects : Watch(i, o)
    \/ \E c \in Clusters : SecretChange(c)
    \/ \E o \in Objects : ObjectChange(o)

CWSpec == CWInit /\ [][CWNext]_vars

----------------------------------------------------------------------------
(* Properties *)

\* Types of the state of the cluster controller, its instances and the caches.
CWTypeOK ==
    /\ secret \in [Clusters -> Secrets] /\ due \subseteq Clusters
    /\ turn \in [of : Clusters \cup {None}, read : Secrets, at : Steps]
    /\ cluster \in [Clusters -> 0 .. MaxInstances]
    /\ ofInst \in [Instances -> Clusters \cup {None}]
    /\ running \subseteq Instances \X Kinds /\ \A r \in running : ofInst[r[1]] # None
    /\ obj \in [Objects -> ObjStates \cup {"never"}] /\ pending \subseteq Pairs
    /\ job \in [Instances \X Objects -> Jobs \cup {Idle}]
    /\ cache \in [Keys -> Entries \cup {None}]
    /\ worker \in [Clusters -> Entries \cup {None}]
    /\ broken \subseteq Instances /\ missed \subseteq Objects

\* The cluster controller is done with cluster c.
Settled(c) == c \notin due /\ (turn.of = c => turn.at = "done")

\* Nothing is left to do for object o, other than looking again at a service
\* without ingress.
Quiet(o) == \A i \in Instances : job[<<i, o>>] = Idle /\ <<i, o>> \notin pending

\* Once the cluster controller has dealt with the events of a secret, the cluster
\* cache has the cluster exactly if the kubeconfig is usable, and all reconcilers of
\* the instance in it run, unless its start failed or it ended on an error, which the
\* code only logs.  No cluster survives its secret, whenever the secret was deleted: the
\* finalizer is what makes it so, the delete for a secret that is gone finds nothing.
ClusterFollowsSecret ==
    \A c \in Clusters : Settled(c) =>
        IF secret[c].st = "good"
        THEN /\ cluster[c] # 0
             /\ cluster[c] \in broken \/ \A k \in Kinds : <<cluster[c], k>> \in running
        ELSE cluster[c] = 0

\* No other object has the key.
Alone(o, k) ==
    \A p \in Objects : p # o => KeyOf[p] # k /\ ~(KindOf[p] = "node" /\ HostKeyOf[p] = k)

\* Whether the object asks for an entry, or for none.
There(o) == obj[o] \in Ready \/ (obj[o] = "notReady" /\ KindOf[o] \notin {"ns", "svc"})
Gone(o) ==
    \/ KindOf[o] \in {"ns", "pod", "ep"} /\ obj[o] \in {"absent", "deleting"}
    \/ KindOf[o] \in {"node", "daemon"} /\ obj[o] = "deleting"
    \/ KindOf[o] = "ns" /\ obj[o] = "notReady"

\* The entry under key k is the one of o as it is.
Current(o, k, new) ==
    /\ Gone(o) => cache[k] = None \/ cache[k].of # o
    /\ There(o) /\ cache[k] # None /\ cache[k].of = o => cache[k] = new
    /\ There(o) /\ Alone(o, k) => cache[k] = new

\* Once the watchers of an object are at rest, and its cluster's instance watches it, the
\* caches have it as it is: a pod, an endpoint or a topology that is gone, a namespace
\* that lost its label, is not there; what is there is there with its last address, a
\* node also as a pod, unless an object of another cluster has its key.  Although
\* several instances write the same entry and may have read the object before it changed.
\* Excepted is an object that changed while nobody watched it, and one whose watcher was
\* stopped or failed in the middle: what such a watcher leaves nothing cleans up.
CacheIsCurrent ==
    \A o \in Objects :
        /\ Quiet(o) /\ o \notin missed
        /\ <<cluster[ClusterOf[o]], KindOf[o]>> \in running
        => /\ Current(o, KeyOf[o], EntryOf(o, obj[o]))
           /\ KindOf[o] = "node" => Current(o, HostKeyOf[o], HostEntryOf(o, obj[o]))

\* While a cluster has had one instance only and its service is not being handled, a
\* service in the cache has its worker, made from the address it has, through changes of
\* the address, the end of the instance and the delete of the cluster.  Two instances
\* may call back in the opposite order of their writes; and a service that leaves the
\* cache leaves its worker.
WorkerFollowsService ==
    \A o \in Objects :
        /\ KindOf[o] = "svc" /\ \A i \in Instances : job[<<i, o>>] = Idle
        /\ \A i, j \in Instances : ofInst[i] = ClusterOf[o] /\ ofInst[j] = ClusterOf[o] => i = j
        /\ cache[KeyOf[o]] # None
        => worker[ClusterOf[o]] = cache[KeyOf[o]]

\* "delete the cluster controller watches": nobody watches a cluster that is gone.
GoneIsUnwatched ==
    \A c \in Clusters :
        Settled(c) /\ cluster[c] = 0 => \A r \in running : ofInst[r[1]] # c
============================================================================
