---------------------------- MODULE NodeDeployer ----------------------------
(***************************************************************************)
(* The node deployer: it turns a Node resource into a pod, according to    *)
(* the driver of the Node's provider, and reports in the Node's condition. *)
(*                                                                         *)
(* The reconciler reads pods from an informer that may lag behind, writes  *)
(* to the API server, and is called again for every change of the Node     *)
(* (its own status updates included) and of its pod.  It does not watch    *)
(* what the driver reads: the NodeConfig and the variants ConfigMap.       *)
(***************************************************************************)
EXTENDS Integers, Sequences

CONSTANTS
    None,       \* no pod
    MaxEvents,  \* bound: changes made by users and the cluster
    MaxFaults   \* bound: calls that fail

Providers == {"srlinux", "server", "unsupported"}

\* The hash of containers, affinity and volumes: who compares two pods compares these.
Hashes == {1, 2}

\* ready: the readiness probe of its container.  conf: whether its initial
\* configuration was sent, and how the device answered.
Pods == [hash : Hashes, ready : BOOLEAN, dying : BOOLEAN, conf : {"unsent", "refused", "taken"}]

ASSUME DeployerAssumption ==
    /\ MaxEvents \in Nat /\ MaxFaults \in Nat
    /\ None \notin Pods

\* The condition with its message: what failed.
Conditions == {"unknown", "ready", "notReady", "provider", "config", "exists",
               "notFound", "call", "device"}
Nodes == [st : {"absent", "present", "deleting"}, cond : Conditions]
Phases == [at : {"idle", "nads", "update", "delete", "create", "get", "config", "target", "status"},
           want : Hashes, cond : Conditions, again : BOOLEAN]
Idle == [at |-> "idle", want |-> 1, cond |-> "unknown", again |-> FALSE]

VARIABLES
    prov,     \* provider of the Node
    node,     \* the Node
    want,     \* hash of the pod that Node, NodeConfig and driver ask for
    cfg,      \* GetNodeConfig finds the NodeConfig and its variant
    silent,   \* NodeConfig or variants changed, which nobody is told
    pod,      \* the pod
    podSeen,  \* the pod in the informer's cache
    news,     \* changes of the pod that the informer has not handed out
    dep,      \* where the reconcile is
    due,      \* a reconcile is requested
    stale,    \* the Node changed after the running reconcile read it
    used,     \* events so far
    faults    \* failed calls so far

wanted == <<prov, want, cfg, silent>>
pods == <<pod, podSeen, news>>
dvars == <<wanted, node, pods, dep, due, stale>>
bounds == <<used, faults>>

DInit(p, st) ==
    /\ prov = p
    /\ node = [st |-> st, cond |-> "unknown"]
    /\ want = 1 /\ cfg = TRUE /\ silent = FALSE
    /\ pod = None /\ podSeen = None /\ news = FALSE
    /\ dep = Idle /\ due = (st = "present") /\ stale = FALSE
    /\ used = 0 /\ faults = 0

Seen(p) == IF p = None THEN None ELSE [p EXCEPT !.conf = "unsent"]
Goto(at) == dep' = [dep EXCEPT !.at = at]
Ends(c, again) == dep' = [dep EXCEPT !.at = "status", !.cond = c, !.again = again]
Fails == faults < MaxFaults /\ faults' = faults + 1
PodBecomes(p) == pod' = p /\ news' = TRUE

----------------------------------------------------------------------------
(* The reconciler *)

\* A server is part of the cluster, only network nodes are deployed.
ToBeDeployed == prov = "srlinux"

\* GetNodeConfig fails if the NodeConfig that the Node names, or the variant of the
\* model, is missing.
GetNodeConfigFails == ~cfg

GetPodSpec(h) == [hash |-> h, ready |-> FALSE, dying |-> FALSE, conf |-> "unsent"]

\* What the Node and its provider ask for.  For a Node that is deleted or gone there
\* is nothing to do: its pod is collected with it.
Reconcile ==
    /\ dep.at = "idle" /\ due
    /\ due' = FALSE /\ stale' = FALSE
    /\ LET done(c) == dep' = [at |-> "status", want |-> want, cond |-> c, again |-> FALSE] IN
       \/ node.st # "present" /\ dep' = Idle
       \/ /\ node.st = "present"
          /\ \/ prov = "unsupported" /\ done("provider")
             \/ prov # "unsupported" /\ ~ToBeDeployed /\ done("ready")
             \/ ToBeDeployed /\ GetNodeConfigFails /\ done("config")
             \/ /\ ToBeDeployed /\ ~GetNodeConfigFails
                /\ dep' = [at |-> "nads", want |-> want, cond |-> "unknown", again |-> FALSE]
    /\ UNCHANGED <<wanted, node, pods, bounds>>

\* The network attachments of the Node are applied, before its pod.
GetNetworkAttachmentDefinitions ==
    /\ dep.at = "nads"
    /\ \/ Goto("update") /\ UNCHANGED faults
       \/ Fails /\ Ends("call", FALSE)
    /\ UNCHANGED <<wanted, node, pods, due, stale, used>>

\* Faulty: a pod of the right name is taken for the right pod.
handlePodUpdateByName ==
    /\ dep.at = "update"
    /\ Goto(IF podSeen = None THEN "create" ELSE "get")
    /\ UNCHANGED <<wanted, node, pods, due, stale, bounds>>

\* handlePodUpdate looks at the cached pod: a pod with another hash is replaced.
handlePodUpdate ==
    /\ dep.at = "update"
    /\ Goto(IF podSeen = None THEN "create"
            ELSE IF podSeen.hash # dep.want THEN "delete" ELSE "get")
    /\ UNCHANGED <<wanted, node, pods, due, stale, bounds>>

\* The delete is by name: it hits the pod that is there now.
DeletePod ==
    /\ dep.at = "delete"
    /\ \/ pod # None /\ PodBecomes([pod EXCEPT !.dying = TRUE]) /\ Goto("create")
          /\ UNCHANGED faults
       \/ pod = None /\ Ends("notFound", FALSE) /\ UNCHANGED <<pod, news, faults>>
       \/ Fails /\ Ends("call", FALSE) /\ UNCHANGED <<pod, news>>
    /\ UNCHANGED <<wanted, node, podSeen, due, stale, used>>

\* The create is refused while a pod of that name is there, dying or not.
CreatePod ==
    /\ dep.at = "create"
    /\ \/ /\ pod = None
          /\ PodBecomes(GetPodSpec(dep.want))
          /\ Goto("get")
          /\ UNCHANGED faults
       \/ pod # None /\ Ends("exists", FALSE) /\ UNCHANGED <<pod, news, faults>>
       \/ Fails /\ Ends("call", FALSE) /\ UNCHANGED <<pod, news>>
    /\ UNCHANGED <<wanted, node, podSeen, due, stale, used>>

\* getPodStatus of the cached pod, which may not show what was just created.
GetPod ==
    /\ dep.at = "get"
    /\ \/ podSeen = None /\ Ends("notFound", FALSE)
       \/ podSeen # None /\ ~podSeen.ready /\ Ends("notReady", TRUE)
       \/ podSeen # None /\ podSeen.ready /\ Goto("config")
    /\ UNCHANGED <<wanted, node, pods, due, stale, bounds>>

\* SendConfigs: the device takes its configuration or refuses some of it, which is
\* printed (resp.Failed) and no error.
SendConfigs == \E c \in {"refused", "taken"} : pod' = [pod EXCEPT !.conf = c]

\* Faulty: the error of the session with the device is dropped.
SetInitialConfigBlind ==
    /\ dep.at = "config"
    /\ \/ pod # None /\ podSeen = Seen(pod) /\ SendConfigs
          /\ UNCHANGED faults
       \/ podSeen # Seen(pod) /\ UNCHANGED <<pod, faults>>
       \/ Fails /\ UNCHANGED pod
    /\ Goto("target")
    /\ UNCHANGED <<wanted, node, podSeen, news, due, stale, used>>

\* The certificate of the Node is not there, or not complete, yet.
GetCertificateDataFails == Fails /\ Ends("device", TRUE)

\* SetInitialConfig reads the secrets and talks to the pod whose address the cache
\* shows: a session with the device may fail on either side.
SetInitialConfig ==
    /\ dep.at = "config"
    /\ \/ pod # None /\ podSeen = Seen(pod) /\ SendConfigs
          /\ Goto("target") /\ UNCHANGED faults
       \/ podSeen # Seen(pod) /\ Ends("device", TRUE) /\ UNCHANGED <<pod, faults>>
       \/ (GetCertificateDataFails \/ (Fails /\ Ends("device", TRUE))) /\ UNCHANGED pod
    /\ UNCHANGED <<wanted, node, podSeen, news, due, stale, used>>

\* The Target resources are applied; there are none.
ApplyTarget ==
    /\ dep.at = "target"
    /\ \/ Ends("ready", FALSE) /\ UNCHANGED faults
       \/ Fails /\ Ends("call", TRUE)
    /\ UNCHANGED <<wanted, node, pods, due, stale, used>>

\* The status update that ends a reconcile.  It is refused, and the reconcile
\* repeated, if the Node changed meanwhile; one that changes the condition is an
\* event of the Node.
StatusUpdate ==
    /\ dep.at = "status"
    /\ node' = IF stale \/ node.st = "absent" THEN node ELSE [node EXCEPT !.cond = dep.cond]
    /\ due' = (due \/ dep.again \/ stale \/ node' # node)
    /\ dep' = Idle
    /\ UNCHANGED <<wanted, pods, stale, bounds>>

Deployer ==
    \/ Reconcile \/ GetNetworkAttachmentDefinitions \/ handlePodUpdate \/ DeletePod \/ CreatePod \/ GetPod
    \/ SetInitialConfig \/ ApplyTarget \/ StatusUpdate

----------------------------------------------------------------------------
(* The cluster *)

\* The informer hands out changes of the pod: it is the Node's, whose reconcile is
\* requested.
PodEvent ==
    /\ news
    /\ podSeen' = Seen(pod) /\ news' = FALSE
    /\ due' = TRUE
    /\ UNCHANGED <<wanted, node, pod, dep, stale, bounds>>

\* The containers run.
PodReady ==
    /\ pod # None /\ ~pod.ready /\ ~pod.dying
    /\ PodBecomes([pod EXCEPT !.ready = TRUE])
    /\ UNCHANGED <<wanted, node, podSeen, dep, due, stale, bounds>>

\* A dying pod goes; the pod of a Node that is gone is collected.
PodGone ==
    /\ pod # None
    /\ pod.dying \/ node.st = "absent"
    /\ PodBecomes(None)
    /\ UNCHANGED <<wanted, node, podSeen, dep, due, stale, bounds>>

\* The Node changes while a reconcile may be running.
NodeBecomes(st) ==
    /\ node' = [st |-> st, cond |-> IF st = "present" THEN "unknown" ELSE node.cond]
    /\ due' = TRUE /\ stale' = (dep.at # "idle")

\* getNodeConfig takes the NodeConfig that the Node names, the one of its name, the
\* default one, or none; checkVariants wants its model in the variants.  When any of
\* them comes, goes or changes, another pod is wanted, or no pod can be made.
getNodeConfigChanges ==
    /\ \/ want' = 3 - want /\ UNCHANGED cfg
       \/ cfg' = ~cfg /\ UNCHANGED want
    /\ silent' = TRUE

\* Users change the Node, the NodeConfig or the variants, delete the pod, or the pod
\* fails its readiness probe.
User ==
    /\ used < MaxEvents /\ used' = used + 1
    /\ \/ /\ node.st = "present" /\ want' = 3 - want
          /\ due' = TRUE /\ stale' = (dep.at # "idle")
          /\ UNCHANGED <<cfg, silent, pod, news>>
       \/ getNodeConfigChanges /\ UNCHANGED <<pod, news, due, stale>>
       \/ /\ pod # None
          /\ \/ ~pod.dying /\ PodBecomes([pod EXCEPT !.dying = TRUE])
             \/ pod.ready /\ PodBecomes([pod EXCEPT !.ready = FALSE])
          /\ UNCHANGED <<want, cfg, silent, due, stale>>
    /\ UNCHANGED <<prov, node, podSeen, dep, faults>>

----------------------------------------------------------------------------
(* Properties *)

\* Types of the Node, its pod and the deployer.
DTypeOK ==
    /\ prov \in Providers /\ node \in Nodes /\ want \in Hashes /\ dep \in Phases
    /\ pod \in Pods \cup {None} /\ podSeen \in {Seen(p) : p \in Pods} \cup {None}
    /\ {cfg, silent, news, due, stale} \subseteq BOOLEAN

\* Nothing is under way for the Node or its pod.
AtRest ==
    /\ dep.at = "idle" /\ ~due
    /\ ~news
    /\ pod # None => ~pod.dying

\* A Node of a provider that is deployed says ready, at rest, only if its pod is
\* ready and a session sent it its initial configuration, although the deployer works
\* from cached pods, replaces pods by name and may have configured the pod before.
\* Whether the device took the configuration is not said: the code does not look.
ReadyIsDeployed ==
    AtRest /\ node.st = "present" /\ prov = "srlinux" /\ node.cond = "ready"
        => pod # None /\ pod.ready /\ pod.conf # "unsent"

\* The deployer comes to rest only with a pod of the wanted hash that is ready,
\* although most failures are answered without a requeue: the status update or the
\* pod's next event brings it back.  What is not watched (silent) is excepted, and
\* so is a call that fails twice.
RestsWhenDeployed ==
    AtRest /\ node.st = "present" /\ prov = "srlinux" /\ ~silent
        => node.cond = "ready" /\ pod # None /\ pod.hash = want
============================================================================
