-------------------------- MODULE InventoryProofs --------------------------
(***************************************************************************)
(* Theorems about Inventory and the NodeDeployer in it, for any number of  *)
(* events and of failed calls.                                             *)
(*                                                                         *)
(* A controller at rest is the end of a reconcile that nothing disturbed.  *)
(* The inductive invariant says, for every place of an undisturbed         *)
(* reconcile, what it has established so far; whatever changes it must be  *)
(* shown to leave a request, or news of the pod, behind.                   *)
(***************************************************************************)
EXTENDS Inventory, TLAPS

----------------------------------------------------------------------------
(* The inductive invariant *)

\* The users' changes are aimed at one controller; the others' objects stay away.
SceneInv ==
    /\ scene \in {"topology", "deployer", "pool"}
    /\ scene # "pool" => knode.st = "never" /\ kp.at = "idle" /\ kdue = "no" /\ prov = "srlinux"
    /\ scene = "pool" => /\ topo.st = "never" /\ tp.at = "idle" /\ ~tdue /\ ns = "active"
                         /\ knode.st # "never" /\ prov # "srlinux"

\* The namespace as the Topology asks for it.
Served == ns = "active" /\ marked /\ copy = src

\* A reconcile copies what is still in the ConfigMap, unless it was told otherwise.
\* The namespace of a Topology without finalizer is not there, or empty.
TopoInv ==
    /\ tp.at \in {"delete", "unfinalize"} => topo.st = "deleting"
    /\ tp.at = "finalize" /\ ~tstale => topo.st = "present"
    /\ tp.at \in {"list", "apply"} => topo.fin
    /\ tp.at = "apply" /\ ~tdue => tp.data = src
    /\ tp.at = "unfinalize" => copy = 0 /\ (default \/ ns # "active")
    /\ tp.at = "idle" \/ (tp.at = "status" /\ tp.cond = "ready")
         => tdue \/ topo.st # "present" \/ lost \/ Served
    /\ topo.st # "never" /\ ~topo.fin => copy = 0 /\ (default \/ ns # "active")

\* What a reconcile of the Kubernetes node read is still so, unless it was told
\* otherwise, and without finalizer there is no Node.
PoolInv ==
    /\ kp.at \in {"finalize", "pool", "apply"} \/ (kp.at = "delete" /\ kp.then \in {"apply", "poll"})
         => kdue = "yes" \/ (knode.st = "present" /\ knode.label /\ knode.addr = kp.addr)
    /\ kp.at = "apply" \/ (kp.at = "delete" /\ kp.then = "apply")
         => knode.fin /\ kp.addr /\ (kdue = "yes" \/ pool # "absent")
    /\ kp.at = "finalize" /\ ~kstale => knode.st = "present"
    /\ kp.at = "pool" => knode.fin
    /\ kp.at = "delete" /\ kp.then = "poll" => kdue = "yes" \/ pool = "absent"
    /\ kp.at = "delete" /\ kp.then = "idle"
         => kdue = "yes" \/ (knode.st = "present" /\ ~(knode.label /\ knode.addr))
    /\ kp.at = "delete" /\ kp.then = "unfinalize" => knode.st = "deleting"
    /\ scene = "pool" /\ ~knode.fin => node.st # "present"
    /\ scene = "pool" /\ kp.at = "idle" /\ kdue # "yes" /\ knode.st # "deleting" =>
         /\ knode.st = "present" /\ knode.label /\ knode.addr /\ pool = "present"
              => lost \/ node.st = "present"
         /\ knode.st # "present" \/ ~knode.label \/ ~knode.addr \/ pool = "absent"
              => node.st # "present"

\* Nodes that are not deployed are only reported.
Report == IF prov = "server" THEN "ready" ELSE "provider"
ReportInv ==
    prov # "srlinux" =>
        /\ dep.at \in {"idle", "status"}
        /\ dep.at = "status" => dep.cond = Report
        /\ dep.at = "idle" /\ ~due => node.st # "present" \/ node.cond = Report

\* Nobody has been told of anything since the running reconcile began.
Calm == ~due /\ ~news

Configured == pod # None /\ pod.ready /\ pod.conf # "unsent"
AsWanted == pod # None /\ (silent \/ pod.hash = want)

\* What the cache shows is the pod, but for the news.  What an undisturbed reconcile
\* has found out about the pod is so.
PodInv ==
    /\ ~news => podSeen = Seen(pod)
    /\ Calm /\ dep.at \in {"config", "target"} => podSeen # None /\ podSeen.ready
    /\ Calm /\ dep.at = "target" => Configured
    /\ Calm /\ dep.at = "status" /\ dep.cond = "ready" /\ prov = "srlinux" => Configured
    /\ Calm /\ dep.at = "idle" /\ node.st = "present" /\ node.cond = "ready" /\ prov = "srlinux"
         => Configured

\* Where an undisturbed reconcile of a deployed Node can be, and how it can end.  A
\* call that fails changes the condition, once.
WantInv ==
    /\ dep.at # "idle" /\ ~due => silent \/ dep.want = want
    /\ ~silent => cfg
    /\ Calm /\ dep.at = "create" => pod = None
    /\ Calm /\ dep.at = "delete" => pod # None
    /\ Calm /\ dep.at \in {"get", "config", "target"} => pod # None /\ pod.hash = dep.want
    /\ node.cond = "call" \/ (dep.at = "status" /\ dep.cond = "call") => faults > 0
    /\ dep.at = "status" /\ prov = "srlinux" =>
         \/ dep.again \/ ~Calm
         \/ dep.cond = "ready" /\ AsWanted
         \/ dep.cond = "config" /\ silent
         \/ dep.cond = "call" /\ (node.cond # "call" \/ faults > 1)
    /\ Calm /\ dep.at = "idle" /\ node.st = "present" /\ prov = "srlinux"
         => silent \/ faults > 1 \/ (node.cond = "ready" /\ AsWanted)

IInv ==
    /\ ITypeOK /\ faults \in 0 .. MaxFaults
    /\ SceneInv /\ TopoInv /\ PoolInv /\ ReportInv /\ PodInv /\ WantInv

----------------------------------------------------------------------------
(* Frames: what a part of the invariant does not depend on *)

\* The deployer's part, when nothing of the deployer changes but calls fail.
LEMMA DeployerFrame ==
    ASSUME IInv, UNCHANGED dvars, faults' \in Nat, faults <= faults'
    PROVE  DTypeOK' /\ ReportInv' /\ PodInv' /\ WantInv'
  <1> USE DEF dvars, wanted, pods
  <1>0. faults \in Nat
    BY DeployerAssumption DEF IInv
  <1>1. DTypeOK'
    BY DEF IInv, ITypeOK, DTypeOK
  <1>2. ReportInv'
    BY DEF IInv, ReportInv, Report
  <1>3. PodInv'
    BY DEF IInv, PodInv, Calm, Configured, Seen
  <1>4. WantInv'
    BY <1>0 DEF IInv, WantInv, Calm, AsWanted
  <1> QED
    BY <1>1, <1>2, <1>3, <1>4

\* Types of the variables of the other two controllers.
OTypes ==
    /\ topo \in Topologies /\ tp \in TPhases /\ knode \in KNodes /\ kp \in KPhases
    /\ ns \in {"absent", "active", "terminating"} /\ src \in Data /\ copy \in Data
    /\ pool \in {"absent", "present", "deleting"} /\ kdue \in {"no", "poll", "yes"}
    /\ default \in BOOLEAN /\ marked \in BOOLEAN /\ tdue \in BOOLEAN /\ tstale \in BOOLEAN
    /\ kstale \in BOOLEAN /\ lost \in BOOLEAN
    /\ topo.fin => topo.st \in {"present", "deleting"}
    /\ knode.fin => knode.st \in {"present", "deleting"}

LEMMA TypesSplit ==
    /\ ITypeOK <=> DTypeOK /\ OTypes
    /\ ITypeOK' <=> DTypeOK' /\ OTypes'
  BY DEF ITypeOK, OTypes

\* The part of the other two, when only the deployer and the Node's condition change.
LEMMA OthersFrame ==
    ASSUME IInv, UNCHANGED <<tvars, kvars, lost>>, node'.st = node.st, prov' = prov
    PROVE  OTypes' /\ SceneInv' /\ TopoInv' /\ PoolInv'
  <1> USE DEF tvars, kvars
  <1>1. OTypes'
    BY TypesSplit DEF IInv, OTypes
  <1>2. SceneInv'
    BY DEF IInv, SceneInv
  <1>3. TopoInv'
    BY DEF IInv, TopoInv, Served
  <1>4. PoolInv'
    BY DEF IInv, PoolInv
  <1> QED
    BY <1>1, <1>2, <1>3, <1>4

----------------------------------------------------------------------------
(* The deployer *)

LEMMA SeenTypes ==
    ASSUME NEW p \in Pods
    PROVE  /\ p # None /\ Seen(p) # None /\ Seen(p) \in Pods
           /\ Seen(p).hash = p.hash /\ Seen(p).ready = p.ready
  BY DeployerAssumption DEF Seen, Pods

LEMMA ReconcileStep ==
    ASSUME IInv, Reconcile
    PROVE  DTypeOK' /\ ReportInv' /\ PodInv' /\ WantInv'
  <1> USE DEF Reconcile, wanted, pods, bounds
  <1>0. DTypeOK /\ dep \in Phases
    BY DEF IInv, ITypeOK, DTypeOK
  <1> DEFINE ends(c) == [at |-> "status", want |-> want, cond |-> c, again |-> FALSE]
             starts == [at |-> "nads", want |-> want, cond |-> "unknown", again |-> FALSE]
  <1>c. \/ node.st # "present" /\ dep' = Idle
        \/ prov = "unsupported" /\ dep' = ends("provider")
        \/ prov = "server" /\ dep' = ends("ready")
        \/ prov = "srlinux" /\ ~cfg /\ dep' = ends("config")
        \/ prov = "srlinux" /\ cfg /\ dep' = starts
    BY <1>0 DEF DTypeOK, Providers, ToBeDeployed, GetNodeConfigFails
  <1>d. /\ UNCHANGED <<wanted, node, pods, bounds>> /\ due' = FALSE /\ stale' = FALSE
        /\ dep.at = "idle"
    OBVIOUS
  <1>1. DTypeOK'
    <2>a. want \in Hashes /\ 1 \in Hashes
      BY <1>0 DEF DTypeOK, Hashes
    <2>b. \A c \in Conditions : ends(c) \in Phases
      BY <2>a DEF Phases
    <2>c. starts \in Phases /\ Idle \in Phases
      BY <2>a DEF Phases, Idle, Conditions
    <2>1. dep' \in Phases
      <3> HIDE DEF ends, starts, Reconcile
      <3> QED
        BY <1>c, <2>b, <2>c DEF Conditions
    <2> QED
      BY <1>0, <1>d, <2>1 DEF DTypeOK
  <1>2. ReportInv'
    BY <1>c, <1>d DEF ReportInv, Report, Idle
  <1>3. PodInv'
    BY <1>0 DEF IInv, PodInv, Calm, Configured, Seen, Idle, ToBeDeployed
  <1>4. WantInv'
    BY <1>0 DEF IInv, WantInv, Calm, AsWanted, Idle, ToBeDeployed, GetNodeConfigFails
  <1> QED
    BY <1>1, <1>2, <1>3, <1>4

Places == {"idle", "nads", "update", "delete", "create", "get", "config", "target", "status"}

LEMMA GotoLemma ==
    ASSUME dep \in Phases, NEW at \in Places, Goto(at)
    PROVE  /\ dep' \in Phases
           /\ dep'.at = at /\ dep'.want = dep.want
  BY DEF Goto, Phases, Places

LEMMA EndsLemma ==
    ASSUME dep \in Phases, NEW c \in Conditions, NEW again \in BOOLEAN, Ends(c, again)
    PROVE  /\ dep' \in Phases
           /\ dep'.at = "status" /\ dep'.want = dep.want
           /\ dep'.cond = c /\ dep'.again = again
  BY DEF Ends, Phases

LEMMA FailsLemma ==
    ASSUME IInv, Fails \/ faults' = faults
    PROVE  /\ faults \in Nat /\ faults' \in 0 .. MaxFaults
           /\ (faults' = faults + 1 \/ faults' = faults)
  BY DeployerAssumption DEF IInv, Fails

\* What the deployer's types say of the variables one by one.
LEMMA DeployerTypes ==
    ASSUME DTypeOK
    PROVE  /\ prov \in Providers /\ node \in Nodes /\ want \in Hashes /\ dep \in Phases
           /\ pod \in Pods \cup {None} /\ podSeen \in {Seen(p) : p \in Pods} \cup {None}
           /\ cfg \in BOOLEAN /\ silent \in BOOLEAN /\ news \in BOOLEAN /\ due \in BOOLEAN
           /\ stale \in BOOLEAN
  BY DEF DTypeOK

\* Steps in the middle of a reconcile, which leave the Node and the requests alone.
LEMMA NadsStep ==
    ASSUME IInv, GetNetworkAttachmentDefinitions
    PROVE  DTypeOK' /\ ReportInv' /\ PodInv' /\ WantInv'
  <1> USE DEF GetNetworkAttachmentDefinitions, wanted, pods
  <1>0. DTypeOK /\ dep \in Phases
    BY DEF IInv, ITypeOK, DTypeOK
  <1>f. faults \in Nat /\ (faults' = faults + 1 \/ faults' = faults)
    BY FailsLemma
  <1>c. \/ dep'.at = "update" /\ faults' = faults
        \/ dep'.at = "status" /\ dep'.cond = "call" /\ faults' = faults + 1
    BY <1>0, GotoLemma, EndsLemma DEF Fails, Places, Conditions
  <1>d. dep' \in Phases /\ dep'.want = dep.want
    BY <1>0, GotoLemma, EndsLemma DEF Places, Conditions
  <1>1. DTypeOK'
    BY <1>0, <1>d DEF DTypeOK
  <1> HIDE DEF GetNetworkAttachmentDefinitions
  <1>e. dep.at = "nads" /\ UNCHANGED <<wanted, node, pods, due, stale, used>>
    BY DEF GetNetworkAttachmentDefinitions
  <1>2. ReportInv'
    BY <1>e DEF IInv, ReportInv
  <1>3. PodInv'
    BY <1>c, <1>e DEF IInv, PodInv, Calm, Configured, Seen
  <1>4. WantInv'
    BY <1>c, <1>d, <1>e, <1>f DEF IInv, WantInv, Calm, AsWanted
  <1> QED
    BY <1>1, <1>2, <1>3, <1>4

LEMMA UpdateStep ==
    ASSUME IInv, handlePodUpdate
    PROVE  DTypeOK' /\ ReportInv' /\ PodInv' /\ WantInv'
  <1> DEFINE to == IF podSeen = None THEN "create"
                   ELSE IF podSeen.hash # dep.want THEN "delete" ELSE "get"
  <1>0. DTypeOK /\ dep \in Phases
    BY DEF IInv, ITypeOK, DTypeOK
  <1>e. /\ dep.at = "update" /\ UNCHANGED <<wanted, node, pods, due, stale, bounds>>
        /\ Goto(to) /\ to \in Places /\ to # "status"
    BY DEF handlePodUpdate, Places
  <1>d. dep' \in Phases /\ dep'.want = dep.want /\ dep'.at = to
    <2> HIDE DEF to
    <2> QED
      BY <1>0, <1>e, GotoLemma
  <1> USE DEF wanted, pods, bounds
  <1>1. DTypeOK'
    BY <1>0, <1>d, <1>e DEF DTypeOK
  <1>2. ReportInv'
    BY <1>e DEF IInv, ReportInv
  <1>3. PodInv'
    BY <1>d, <1>e DEF IInv, PodInv, Calm, Configured, Seen
  <1>p. Calm => podSeen = Seen(pod) /\ pod \in Pods \cup {None}
    BY <1>0 DEF IInv, PodInv, Calm, DTypeOK
  <1>4. WantInv'
    <2>1. Calm => \/ pod = None /\ to = "create"
                  \/ pod # None /\ to = "delete"
                  \/ pod # None /\ to = "get" /\ pod.hash = dep.want
      BY <1>p, SeenTypes DEF Seen
    <2> HIDE DEF to
    <2> QED
      BY <1>d, <1>e, <2>1 DEF IInv, WantInv, Calm, AsWanted, Places
  <1> QED
    BY <1>1, <1>2, <1>3, <1>4

LEMMA DeleteStep ==
    ASSUME IInv, DeletePod
    PROVE  DTypeOK' /\ ReportInv' /\ PodInv' /\ WantInv'
  <1> USE DEF wanted, pods
  <1>0. DTypeOK /\ dep \in Phases /\ pod \in Pods \cup {None}
    BY DEF IInv, ITypeOK, DTypeOK
  <1>f. faults \in Nat /\ (faults' = faults + 1 \/ faults' = faults)
    BY FailsLemma DEF DeletePod
  <1>e. dep.at = "delete" /\ UNCHANGED <<wanted, node, podSeen, due, stale, used>>
    BY DEF DeletePod
  <1>c. \/ dep'.at = "create" /\ faults' = faults /\ pod # None /\ news' = TRUE
           /\ pod' = [pod EXCEPT !.dying = TRUE]
        \/ dep'.at = "status" /\ dep'.cond = "notFound" /\ pod = None
           /\ UNCHANGED <<pod, news, faults>>
        \/ dep'.at = "status" /\ dep'.cond = "call" /\ faults' = faults + 1
           /\ UNCHANGED <<pod, news>>
    BY <1>0, GotoLemma, EndsLemma DEF DeletePod, Fails, Places, Conditions, PodBecomes
  <1>d. dep' \in Phases /\ dep'.want = dep.want
    BY <1>0, GotoLemma, EndsLemma DEF DeletePod, Places, Conditions
  <1>1. DTypeOK'
    <2>1. pod' \in Pods \cup {None} /\ news' \in BOOLEAN
      BY <1>0, <1>c DEF Pods, DTypeOK
    <2> QED
      BY <1>0, <1>d, <1>e, <2>1 DEF DTypeOK
  <1>2. ReportInv'
    BY <1>e DEF IInv, ReportInv
  <1>3. PodInv'
    BY <1>c, <1>e DEF IInv, PodInv, Calm, Configured, Seen
  <1>4. WantInv'
    BY <1>c, <1>d, <1>e, <1>f DEF IInv, WantInv, Calm, AsWanted
  <1> QED
    BY <1>1, <1>2, <1>3, <1>4

LEMMA CreateStep ==
    ASSUME IInv, CreatePod
    PROVE  DTypeOK' /\ ReportInv' /\ PodInv' /\ WantInv'
  <1> USE DEF wanted, pods
  <1>0. DTypeOK /\ dep \in Phases /\ pod \in Pods \cup {None}
    BY DEF IInv, ITypeOK, DTypeOK
  <1>f. faults \in Nat /\ (faults' = faults + 1 \/ faults' = faults)
    BY FailsLemma DEF CreatePod
  <1>e. dep.at = "create" /\ UNCHANGED <<wanted, node, podSeen, due, stale, used>>
    BY DEF CreatePod
  <1>c. \/ dep'.at = "get" /\ faults' = faults /\ news' = TRUE
           /\ pod' = GetPodSpec(dep.want)
        \/ dep'.at = "status" /\ dep'.cond = "exists" /\ pod # None
           /\ UNCHANGED <<pod, news, faults>>
        \/ dep'.at = "status" /\ dep'.cond = "call" /\ faults' = faults + 1
           /\ UNCHANGED <<pod, news>>
    BY <1>0, GotoLemma, EndsLemma DEF CreatePod, Fails, Places, Conditions, PodBecomes
  <1>d. dep' \in Phases /\ dep'.want = dep.want
    BY <1>0, GotoLemma, EndsLemma DEF CreatePod, Places, Conditions
  <1>1. DTypeOK'
    <2>1. GetPodSpec(dep.want) \in Pods
      BY <1>0 DEF GetPodSpec, Pods, Phases
    <2>2. pod' \in Pods \cup {None} /\ news' \in BOOLEAN
      BY <1>0, <1>c, <2>1 DEF DTypeOK
    <2> QED
      BY <1>0, <1>d, <1>e, <2>2 DEF DTypeOK
  <1>2. ReportInv'
    BY <1>e DEF IInv, ReportInv
  <1>3. PodInv'
    BY <1>c, <1>e DEF IInv, PodInv, Calm, Configured, Seen
  <1>4. WantInv'
    BY <1>c, <1>d, <1>e, <1>f DEF IInv, WantInv, Calm, AsWanted
  <1> QED
    BY <1>1, <1>2, <1>3, <1>4

LEMMA GetStep ==
    ASSUME IInv, GetPod
    PROVE  DTypeOK' /\ ReportInv' /\ PodInv' /\ WantInv'
  <1> USE DEF wanted, pods, bounds
  <1>0. DTypeOK /\ dep \in Phases /\ pod \in Pods \cup {None}
    BY DEF IInv, ITypeOK, DTypeOK
  <1>e. dep.at = "get" /\ UNCHANGED <<wanted, node, pods, due, stale, bounds>>
    BY DEF GetPod
  <1>c. \/ dep'.at = "status" /\ dep'.cond = "notFound" /\ podSeen = None
        \/ dep'.at = "status" /\ dep'.cond = "notReady" /\ dep'.again
        \/ dep'.at = "config" /\ podSeen # None /\ podSeen.ready
    BY <1>0, GotoLemma, EndsLemma DEF GetPod, Places, Conditions
  <1>d. dep' \in Phases /\ dep'.want = dep.want
    BY <1>0, GotoLemma, EndsLemma DEF GetPod, Places, Conditions
  <1>1. DTypeOK'
    BY <1>0, <1>d, <1>e DEF DTypeOK
  <1>2. ReportInv'
    BY <1>e DEF IInv, ReportInv
  <1>3. PodInv'
    BY <1>c, <1>e DEF IInv, PodInv, Calm, Configured, Seen
  <1>p. Calm /\ pod # None => podSeen # None
    BY <1>0, SeenTypes DEF IInv, PodInv, Calm
  <1>4. WantInv'
    BY <1>c, <1>d, <1>e, <1>p DEF IInv, WantInv, Calm, AsWanted
  <1> QED
    BY <1>1, <1>2, <1>3, <1>4

LEMMA ConfigStep ==
    ASSUME IInv, SetInitialConfig
    PROVE  DTypeOK' /\ ReportInv' /\ PodInv' /\ WantInv'
  <1> USE DEF wanted, pods
  <1>0. DTypeOK /\ dep \in Phases /\ pod \in Pods \cup {None}
    BY DEF IInv, ITypeOK, DTypeOK
  <1>f. faults \in Nat /\ (faults' = faults + 1 \/ faults' = faults)
    BY FailsLemma DEF SetInitialConfig, GetCertificateDataFails
  <1>e. dep.at = "config" /\ UNCHANGED <<wanted, node, podSeen, news, due, stale, used>>
    BY DEF SetInitialConfig
  <1>c. \/ dep'.at = "target" /\ pod # None /\ podSeen = Seen(pod)
           /\ \E c \in {"refused", "taken"} : pod' = [pod EXCEPT !.conf = c]
        \/ dep'.at = "status" /\ dep'.cond = "device" /\ dep'.again /\ pod' = pod
    BY <1>0, GotoLemma, EndsLemma
    DEF SetInitialConfig, SendConfigs, GetCertificateDataFails, Places, Conditions
  <1>d. dep' \in Phases /\ dep'.want = dep.want
    BY <1>0, GotoLemma, EndsLemma
    DEF SetInitialConfig, GetCertificateDataFails, Places, Conditions
  <1>p. pod # None /\ (\E c \in {"refused", "taken"} : pod' = [pod EXCEPT !.conf = c]) =>
           /\ pod' \in Pods /\ pod' # None /\ pod'.conf # "unsent" /\ Seen(pod') = Seen(pod)
           /\ pod'.hash = pod.hash /\ pod'.ready = Seen(pod).ready
    BY <1>0, DeployerAssumption DEF Pods, Seen
  <1>1. DTypeOK'
    <2>1. pod' \in Pods \cup {None}
      BY <1>0, <1>c, <1>p
    <2> QED
      BY <1>0, <1>d, <1>e, <2>1 DEF DTypeOK
  <1>2. ReportInv'
    BY <1>e DEF IInv, ReportInv
  <1>3. PodInv'
    BY <1>c, <1>e, <1>p DEF IInv, PodInv, Calm, Configured, Seen
  <1>4. WantInv'
    BY <1>c, <1>d, <1>e, <1>f, <1>p DEF IInv, WantInv, Calm, AsWanted
  <1> QED
    BY <1>1, <1>2, <1>3, <1>4

LEMMA TargetStep ==
    ASSUME IInv, ApplyTarget
    PROVE  DTypeOK' /\ ReportInv' /\ PodInv' /\ WantInv'
  <1> USE DEF wanted, pods
  <1>0. DTypeOK /\ dep \in Phases
    BY DEF IInv, ITypeOK, DTypeOK
  <1>f. faults \in Nat /\ (faults' = faults + 1 \/ faults' = faults)
    BY FailsLemma DEF ApplyTarget
  <1>e. dep.at = "target" /\ UNCHANGED <<wanted, node, pods, due, stale, used>>
    BY DEF ApplyTarget
  <1>c. \/ dep'.at = "status" /\ dep'.cond = "ready"
        \/ dep'.at = "status" /\ dep'.cond = "call" /\ dep'.again /\ faults' = faults + 1
    BY <1>0, GotoLemma, EndsLemma DEF ApplyTarget, Conditions, Fails
  <1>d. dep' \in Phases /\ dep'.want = dep.want
    BY <1>0, GotoLemma, EndsLemma DEF ApplyTarget, Conditions
  <1>1. DTypeOK'
    BY <1>0, <1>d, <1>e DEF DTypeOK
  <1>2. ReportInv'
    BY <1>e DEF IInv, ReportInv
  <1>3. PodInv'
    BY <1>c, <1>e DEF IInv, PodInv, Calm, Configured, Seen
  <1>4. WantInv'
    BY <1>c, <1>d, <1>e, <1>f DEF IInv, WantInv, Calm, AsWanted
  <1> QED
    BY <1>1, <1>2, <1>3, <1>4

LEMMA StatusStep ==
    ASSUME IInv, StatusUpdate
    PROVE  DTypeOK' /\ ReportInv' /\ PodInv' /\ WantInv' /\ node'.st = node.st
  <1> USE DEF wanted, pods, bounds
  <1>0. DTypeOK /\ dep \in Phases /\ node \in Nodes
    BY DEF IInv, ITypeOK, DTypeOK
  <1>e. /\ dep.at = "status" /\ UNCHANGED <<wanted, pods, stale, bounds>>
        /\ dep' = Idle /\ dep'.at = "idle"
    BY DEF StatusUpdate, Idle
  <1>n. /\ node' \in Nodes /\ node'.st = node.st
        /\ node' = node \/ node'.cond = dep.cond
    BY <1>0 DEF StatusUpdate, Nodes, Phases
  <1>u. ~due' => /\ ~due /\ ~dep.again /\ node' = node
                 /\ node.st = "present" => node.cond = dep.cond
    BY <1>0 DEF StatusUpdate, Nodes
  <1>1. DTypeOK'
    <2>1. Idle \in Phases
      BY DEF Idle, Phases, Hashes, Conditions
    <2>2. due' \in BOOLEAN
      BY DEF StatusUpdate
    <2> QED
      BY <1>0, <1>e, <1>n, <2>1, <2>2 DEF DTypeOK
  <1>2. ReportInv'
    BY <1>e, <1>u DEF IInv, ReportInv, Report
  <1>3. PodInv'
    BY <1>e, <1>u DEF IInv, PodInv, Calm, Configured, Seen
  <1>4. WantInv'
    <2>1. faults \in Nat
      BY DeployerAssumption DEF IInv
    <2> QED
      BY <1>e, <1>n, <1>u, <2>1 DEF IInv, WantInv, Calm, AsWanted
  <1> QED
    BY <1>1, <1>2, <1>3, <1>4, <1>n

----------------------------------------------------------------------------
(* The cluster and the users, as far as the deployer is told *)

LEMMA PodEventStep ==
    ASSUME IInv, PodEvent
    PROVE  DTypeOK' /\ ReportInv' /\ PodInv' /\ WantInv'
  <1> USE DEF PodEvent, wanted, bounds
  <1>0. DTypeOK /\ pod \in Pods \cup {None}
    BY DEF IInv, ITypeOK, DTypeOK
  <1>1. DTypeOK'
    <2>1. podSeen' \in {Seen(p) : p \in Pods} \cup {None}
      BY <1>0 DEF Seen
    <2> QED
      BY <1>0, <2>1 DEF DTypeOK
  <1>2. ReportInv'
    BY DEF IInv, ReportInv, Report
  <1>3. PodInv'
    BY DEF PodInv, Calm, Seen
  <1>4. WantInv'
    BY DEF IInv, WantInv, Calm
  <1> QED
    BY <1>1, <1>2, <1>3, <1>4

\* A pod that changes is news.
LEMMA NewsStep ==
    ASSUME IInv, NEW p \in Pods \cup {None}, PodBecomes(p),
           UNCHANGED <<wanted, node, podSeen, dep, due, stale, faults>>
    PROVE  DTypeOK' /\ ReportInv' /\ PodInv' /\ WantInv'
  <1> USE DEF PodBecomes, wanted
  <1>1. DTypeOK'
    BY DEF IInv, ITypeOK, DTypeOK
  <1>2. ReportInv'
    BY DEF IInv, ReportInv, Report
  <1>3. PodInv'
    BY DEF PodInv, Calm
  <1>4. WantInv'
    BY DEF IInv, WantInv, Calm
  <1> QED
    BY <1>1, <1>2, <1>3, <1>4

LEMMA PodStep ==
    ASSUME IInv, Pod
    PROVE  DTypeOK' /\ ReportInv' /\ PodInv' /\ WantInv'
  <1>0. pod \in Pods \cup {None}
    BY DEF IInv, ITypeOK, DTypeOK
  <1>1. CASE PodEvent
    BY <1>1, PodEventStep
  <1>2. CASE PodGone
    BY <1>2, NewsStep DEF PodGone, bounds
  <1>3. CASE PodReady
    <2>1. [pod EXCEPT !.ready = TRUE] \in Pods \cup {None}
      BY <1>0, <1>3 DEF PodReady, Pods
    <2> QED
      BY <1>3, <2>1, NewsStep DEF PodReady, bounds
  <1> QED
    BY <1>1, <1>2, <1>3 DEF Pod

LEMMA UserStep ==
    ASSUME IInv, User
    PROVE  DTypeOK' /\ ReportInv' /\ PodInv' /\ WantInv'
  <1>0. DTypeOK /\ pod \in Pods \cup {None} /\ want \in Hashes
    BY DEF IInv, ITypeOK, DTypeOK
  <1>a. 3 - want \in Hashes
    BY <1>0 DEF Hashes
  <1>1. CASE node.st = "present" /\ want' = 3 - want /\ due' = TRUE
             /\ stale' = (dep.at # "idle") /\ UNCHANGED <<cfg, silent, pod, news>>
    <2> USE <1>1 DEF User
    <2>0. UNCHANGED <<prov, node, podSeen, dep, faults>>
      OBVIOUS
    <2> HIDE DEF User
    <2>1. DTypeOK'
      BY <1>0, <1>a, <2>0 DEF DTypeOK
    <2>2. ReportInv'
      BY <2>0 DEF IInv, ReportInv, Report
    <2>3. PodInv'
      BY <2>0 DEF IInv, PodInv, Calm, Seen
    <2>4. WantInv'
      BY <2>0 DEF IInv, WantInv, Calm
    <2> QED
      BY <2>1, <2>2, <2>3, <2>4
  <1>2. CASE getNodeConfigChanges /\ UNCHANGED <<pod, news, due, stale>>
    <2>0. /\ UNCHANGED <<prov, node, podSeen, dep, faults, pod, news, due, stale>>
          /\ silent' = TRUE
      BY <1>2 DEF User, getNodeConfigChanges
    <2>1. DTypeOK'
      <3>1. want' \in Hashes /\ cfg' \in BOOLEAN
        BY <1>0, <1>2, <1>a DEF getNodeConfigChanges, DTypeOK
      <3> QED
        BY <1>0, <2>0, <3>1 DEF DTypeOK
    <2>2. ReportInv'
      BY <2>0 DEF IInv, ReportInv, Report
    <2>3. PodInv'
      BY <2>0 DEF IInv, PodInv, Calm, Seen, Configured
    <2>4. WantInv'
      BY <2>0 DEF IInv, WantInv, Calm, AsWanted
    <2> QED
      BY <2>1, <2>2, <2>3, <2>4
  <1>3. CASE /\ pod # None
             /\ \/ PodBecomes([pod EXCEPT !.dying = TRUE])
                \/ PodBecomes([pod EXCEPT !.ready = FALSE])
             /\ UNCHANGED <<want, cfg, silent, due, stale>>
    <2>1. [pod EXCEPT !.dying = TRUE] \in Pods /\ [pod EXCEPT !.ready = FALSE] \in Pods
      BY <1>0, <1>3 DEF Pods
    <2>2. UNCHANGED <<wanted, node, podSeen, dep, due, stale, faults>>
      BY <1>3 DEF User, wanted
    <2> QED
      BY <1>3, <2>1, <2>2, NewsStep
  <1> QED
    BY <1>1, <1>2, <1>3 DEF User

\* A Node that changes is a request.
LEMMA NodeBecomesStep ==
    ASSUME IInv, NEW st \in {"absent", "present", "deleting"}, NodeBecomes(st),
           UNCHANGED <<wanted, pods, dep>>, faults' \in Nat, faults <= faults'
    PROVE  DTypeOK' /\ ReportInv' /\ PodInv' /\ WantInv' /\ node'.st = st
  <1> USE DEF wanted, pods
  <1>0. DTypeOK /\ node \in Nodes
    BY DEF IInv, ITypeOK, DTypeOK
  <1>e. due' = TRUE /\ stale' = (dep.at # "idle") /\ node'.st = st
        /\ node'.cond \in {"unknown", node.cond}
    BY DEF NodeBecomes
  <1>1. DTypeOK'
    <2>1. node' \in Nodes
      BY <1>0 DEF NodeBecomes, Nodes, Conditions
    <2> QED
      BY <1>0, <1>e, <2>1 DEF DTypeOK
  <1>2. ReportInv'
    BY <1>e DEF IInv, ReportInv, Report
  <1>3. PodInv'
    BY <1>e DEF IInv, PodInv, Calm, Seen
  <1>4. WantInv'
    <2>1. faults \in Nat
      BY DeployerAssumption DEF IInv
    <2> QED
      BY <1>e, <2>1 DEF IInv, WantInv, Calm
  <1> QED
    BY <1>1, <1>2, <1>3, <1>4, <1>e

LEMMA DeployerSteps ==
    ASSUME IInv, Deployer \/ Pod \/ User, UNCHANGED <<tvars, kvars, lost>>
    PROVE  IInv'
  <1>1. DTypeOK' /\ ReportInv' /\ PodInv' /\ WantInv'
    BY ReconcileStep, NadsStep, UpdateStep, DeleteStep, CreateStep, GetStep, ConfigStep,
       TargetStep, StatusStep, PodStep, UserStep DEF Deployer
  <1>2. node'.st = node.st
    <2>1. CASE StatusUpdate
      BY <2>1, StatusStep
    <2> QED
      BY <2>1 DEF Deployer, Pod, User, Reconcile, GetNetworkAttachmentDefinitions,
         handlePodUpdate, DeletePod, CreatePod, GetPod, SetInitialConfig, ApplyTarget,
         PodEvent, PodReady, PodGone
  <1>3. prov' = prov
    BY DEF Deployer, Pod, User, Reconcile, GetNetworkAttachmentDefinitions, StatusUpdate,
       handlePodUpdate, DeletePod, CreatePod, GetPod, SetInitialConfig, ApplyTarget,
       PodEvent, PodReady, PodGone, wanted
  <1>4. Fails \/ faults' = faults
    BY DEF Deployer, Pod, User, Reconcile, GetNetworkAttachmentDefinitions, StatusUpdate,
       handlePodUpdate, DeletePod, CreatePod, GetPod, SetInitialConfig, ApplyTarget,
       PodEvent, PodReady, PodGone, bounds, GetCertificateDataFails
  <1>5. faults' \in 0 .. MaxFaults
    BY <1>4, FailsLemma
  <1> QED
    BY <1>1, <1>2, <1>3, <1>5, OthersFrame, TypesSplit DEF IInv

----------------------------------------------------------------------------
(* The topology controller *)

TPlaces == {"idle", "delete", "unfinalize", "finalize", "list", "apply", "status"}

LEMMA TGotoLemma ==
    ASSUME tp \in TPhases, NEW at \in TPlaces, TGoto(at)
    PROVE  tp' \in TPhases /\ tp'.at = at
  BY DEF TGoto, TPhases, TPlaces

LEMMA TEndsLemma ==
    ASSUME tp \in TPhases, NEW c \in {"ready", "failed"}, TEnds(c)
    PROVE  tp' \in TPhases /\ tp'.at = "status" /\ tp'.cond = c
  BY DEF TEnds, TPhases

\* Outside its scene, the node pool controller has nothing to do.
LEMMA TopologyScene ==
    ASSUME IInv, scene # "pool", UNCHANGED <<scene, prov, kvars>>
    PROVE  SceneInv' /\ PoolInv'
  <1> USE DEF kvars
  <1>1. SceneInv'
    BY DEF IInv, SceneInv
  <1>2. PoolInv'
    BY DEF IInv, SceneInv, PoolInv
  <1> QED
    BY <1>1, <1>2

\* Types and scene, one by one.
LEMMA TopologyTypes ==
    ASSUME IInv
    PROVE  /\ topo \in Topologies /\ tp \in TPhases
           /\ ns \in {"absent", "active", "terminating"} /\ src \in Data /\ copy \in Data
           /\ default \in BOOLEAN /\ marked \in BOOLEAN /\ tdue \in BOOLEAN
           /\ tstale \in BOOLEAN /\ lost \in BOOLEAN
           /\ topo.fin => topo.st \in {"present", "deleting"}
           /\ OTypes
  BY TypesSplit DEF IInv, OTypes

LEMMA TReconcileStep ==
    ASSUME IInv, TopologyReconcile
    PROVE  OTypes' /\ TopoInv'
  <1>0. topo \in Topologies /\ tp \in TPhases /\ OTypes
    BY TopologyTypes
  <1>e. /\ tdue' = FALSE /\ tstale' = FALSE /\ tp.at = "idle"
        /\ UNCHANGED <<topo, default, ns, marked, src, copy, scene, kvars, lost>>
    BY DEF TopologyReconcile
  <1>c. /\ tp' \in TPhases
        /\ \/ topo.st = "deleting" /\ tp'.at = "delete"
           \/ topo.st = "present" /\ tp'.at = "finalize"
           \/ topo.st \notin {"deleting", "present"} /\ tp'.at = "idle"
    BY <1>0, TGotoLemma DEF TopologyReconcile, TPlaces
  <1>1. OTypes'
    BY <1>0, <1>c, <1>e, ZenonT(60) DEF OTypes, kvars
  <1>2. TopoInv'
    BY <1>c, <1>e DEF IInv, TopoInv
  <1> QED
    BY <1>1, <1>2

LEMMA TDeleteStep ==
    ASSUME IInv, TopologyAPIDelete
    PROVE  OTypes' /\ TopoInv'
  <1>0. /\ topo \in Topologies /\ tp \in TPhases /\ OTypes
        /\ ns \in {"absent", "active", "terminating"}
    BY TopologyTypes
  <1>e. /\ tp.at = "delete"
        /\ UNCHANGED <<topo, default, marked, src, tdue, tstale, scene, kvars, lost>>
    BY DEF TopologyAPIDelete
  <1>c. /\ tp' \in TPhases
        /\ \/ /\ tp'.at = "unfinalize" /\ copy' = 0
              /\ ns' = IF default \/ ns = "absent" THEN ns ELSE "terminating"
           \/ /\ tp'.at = "status" /\ tp'.cond = "failed"
              /\ ns' \in {ns, IF default \/ ns = "absent" THEN ns ELSE "terminating"}
              /\ copy' \in {copy, 0}
    BY <1>0, TGotoLemma, TEndsLemma DEF TopologyAPIDelete, TPlaces
  <1>1. OTypes'
    BY <1>0, <1>c, <1>e DEF OTypes, kvars, Data
  <1>2. TopoInv'
    BY <1>0, <1>c, <1>e DEF IInv, TopoInv
  <1> QED
    BY <1>1, <1>2

LEMMA TUnfinalizeStep ==
    ASSUME IInv, TopologyRemoveFinalizer
    PROVE  OTypes' /\ TopoInv'
  <1>0. topo \in Topologies /\ tp \in TPhases /\ OTypes
    BY TopologyTypes
  <1>e. /\ tp.at = "unfinalize"
        /\ UNCHANGED <<default, ns, marked, src, copy, tdue, tstale, scene, kvars, lost>>
    BY DEF TopologyRemoveFinalizer
  <1>c. /\ tp' \in TPhases
        /\ \/ tp'.at = "idle" /\ topo' = [topo EXCEPT !.st = "absent", !.fin = FALSE]
           \/ tp'.at = "status" /\ tp'.cond = "failed" /\ UNCHANGED topo
    BY <1>0, TGotoLemma, TEndsLemma DEF TopologyRemoveFinalizer, TPlaces
  <1>d. /\ topo' \in Topologies /\ (topo'.fin => topo'.st \in {"present", "deleting"})
        /\ topo' = topo \/ topo'.st = "absent"
    BY <1>0, <1>c DEF Topologies, ObjStates, OTypes
  <1>1. OTypes'
    BY <1>0, <1>c, <1>d, <1>e DEF OTypes, kvars
  <1>2. TopoInv'
    BY <1>c, <1>d, <1>e DEF IInv, TopoInv
  <1> QED
    BY <1>1, <1>2

LEMMA TFinalizeStep ==
    ASSUME IInv, TopologyAddFinalizer
    PROVE  OTypes' /\ TopoInv'
  <1>0. /\ topo \in Topologies /\ tp \in TPhases /\ OTypes /\ marked \in BOOLEAN
        /\ default \in BOOLEAN /\ tdue \in BOOLEAN
    BY TopologyTypes
  <1>e. /\ tp.at = "finalize"
        /\ UNCHANGED <<default, ns, src, copy, tstale, scene, kvars, lost>>
    BY DEF TopologyAddFinalizer
  <1>c. /\ tp' \in TPhases
        /\ \/ tp'.at = "list" /\ topo' = IF topo.fin THEN topo ELSE [topo EXCEPT !.fin = TRUE]
           \/ /\ tp'.at = "status" /\ tp'.cond = "failed"
              /\ topo' \in {topo, [topo EXCEPT !.fin = TRUE]}
    BY <1>0, TGotoLemma, TEndsLemma DEF TopologyAddFinalizer, TPlaces
  <1>f. topo' # topo => ~tstale /\ ~topo.fin
    BY DEF TopologyAddFinalizer
  <1>d. /\ topo' \in Topologies /\ (topo'.fin => topo'.st \in {"present", "deleting"})
        /\ tp'.at = "list" => topo'.fin
        /\ topo.fin => topo'.fin
        /\ topo'.st = topo.st
    <2>1. topo.fin \in BOOLEAN
      BY <1>0 DEF Topologies
    <2>2. CASE topo' = topo
      BY <1>0, <1>c, <2>1, <2>2 DEF OTypes, Topologies
    <2>3. CASE topo' = [topo EXCEPT !.fin = TRUE] /\ topo' # topo
      <3>1. topo.st = "present"
        BY <1>e, <1>f, <2>3 DEF IInv, TopoInv
      <3> QED
        BY <1>0, <2>3, <3>1 DEF Topologies
    <2> QED
      BY <1>c, <2>2, <2>3
  <1>1. OTypes'
    <2>1. marked' \in BOOLEAN /\ tdue' \in BOOLEAN
      BY <1>0 DEF TopologyAddFinalizer
    <2> QED
      BY <1>0, <1>c, <1>d, <1>e, <2>1 DEF OTypes, kvars
  <1>2. TopoInv'
    BY <1>c, <1>d, <1>e DEF IInv, TopoInv
  <1> QED
    BY <1>1, <1>2

LEMMA TListStep ==
    ASSUME IInv, TopologyListConfigMaps
    PROVE  OTypes' /\ TopoInv'
  <1>0. topo \in Topologies /\ tp \in TPhases /\ OTypes /\ src \in Data
    BY TopologyTypes
  <1>e. /\ tp.at = "list"
        /\ UNCHANGED <<topo, default, ns, marked, src, copy, tdue, tstale, scene, kvars, lost>>
    BY DEF TopologyListConfigMaps
  <1>c. /\ tp' \in TPhases
        /\ \/ tp'.at = "apply" /\ tp'.data = src
           \/ tp'.at = "status" /\ tp'.cond = "failed"
    BY <1>0, TEndsLemma DEF TopologyListConfigMaps, TPhases
  <1>1. OTypes'
    BY <1>0, <1>c, <1>e DEF OTypes, kvars
  <1>2. TopoInv'
    BY <1>c, <1>e DEF IInv, TopoInv
  <1> QED
    BY <1>1, <1>2

LEMMA TApplyStep ==
    ASSUME IInv, TopologyAPIApply
    PROVE  OTypes' /\ TopoInv'
  <1>0. /\ topo \in Topologies /\ tp \in TPhases /\ OTypes
        /\ ns \in {"absent", "active", "terminating"} /\ tp.data \in Data
    BY TopologyTypes DEF TPhases
  <1>e. /\ tp.at = "apply"
        /\ UNCHANGED <<topo, default, src, tdue, tstale, scene, kvars>>
    BY DEF TopologyAPIApply
  <1>c. /\ tp' \in TPhases
        /\ \/ /\ tp'.at = "status"
              /\ ns' = IF ns = "absent" THEN "active" ELSE ns
              /\ marked' = TRUE /\ copy' = tp.data /\ lost' = (ns = "terminating")
           \/ /\ tp'.at = "status" /\ tp'.cond = "failed" /\ lost' = lost
              /\ ns' \in {ns, IF ns = "absent" THEN "active" ELSE ns}
              /\ marked' \in {marked, TRUE} /\ copy' \in {copy, tp.data}
              /\ copy' # copy => ns = "active"
    BY <1>0, TEndsLemma DEF TopologyAPIApply
  <1>1. OTypes'
    <2>1. ns' \in {"absent", "active", "terminating"} /\ copy' \in Data
      BY <1>0, <1>c DEF OTypes
    <2>2. marked' \in BOOLEAN /\ lost' \in BOOLEAN
      BY <1>0, <1>c DEF OTypes
    <2> QED
      BY <1>0, <1>c, <1>e, <2>1, <2>2 DEF OTypes, kvars
  <1>2. TopoInv'
    BY <1>0, <1>c, <1>e DEF IInv, TopoInv, Served
  <1> QED
    BY <1>1, <1>2

LEMMA TStatusStep ==
    ASSUME IInv, TopologyStatus
    PROVE  OTypes' /\ TopoInv'
  <1>0. topo \in Topologies /\ tp \in TPhases /\ OTypes
    BY TopologyTypes
  <1>e. /\ tp.at = "status" /\ tp' = TIdle /\ tp'.at = "idle"
        /\ UNCHANGED <<default, ns, marked, src, copy, tstale, scene, kvars, lost>>
    BY DEF TopologyStatus, TIdle
  <1>c. /\ topo' \in Topologies
        /\ topo'.st = topo.st /\ topo'.fin = topo.fin
    BY <1>0 DEF TopologyStatus, Topologies, TPhases
  <1>u. ~tdue' => ~tdue /\ tp.cond # "failed" /\ tp.cond \in {"ready", "failed"}
    BY <1>0 DEF TopologyStatus, TPhases
  <1>1. OTypes'
    <2>1. TIdle \in TPhases
      BY DEF TIdle, TPhases, Data
    <2>2. tdue' \in BOOLEAN
      BY DEF TopologyStatus
    <2> QED
      BY <1>0, <1>c, <1>e, <2>1, <2>2 DEF OTypes, kvars
  <1>2. TopoInv'
    BY <1>c, <1>e, <1>u DEF IInv, TopoInv, Served
  <1> QED
    BY <1>1, <1>2

LEMMA TopologySteps ==
    ASSUME IInv, TopologyController
    PROVE  IInv'
  <1>1. OTypes' /\ TopoInv'
    BY TReconcileStep, TDeleteStep, TUnfinalizeStep, TFinalizeStep, TListStep, TApplyStep,
       TStatusStep DEF TopologyController
  <1> USE DEF TopologyController, TopologyReconcile, TopologyAPIDelete, TopologyRemoveFinalizer,
      TopologyAddFinalizer, TopologyListConfigMaps, TopologyAPIApply, TopologyStatus, bounds
  <1>2. UNCHANGED <<dvars, kvars, scene>>
    OBVIOUS
  <1>3. scene # "pool"
    BY DEF IInv, SceneInv
  <1>4. Fails \/ faults' = faults
    OBVIOUS
  <1> HIDE DEF TopologyController
  <1>5. faults' \in 0 .. MaxFaults /\ faults' \in Nat /\ faults <= faults'
    BY <1>4, FailsLemma
  <1>6. DTypeOK' /\ ReportInv' /\ PodInv' /\ WantInv'
    BY <1>2, <1>5, DeployerFrame
  <1>7. SceneInv' /\ PoolInv'
    BY <1>2, <1>3, TopologyScene DEF dvars, wanted
  <1> QED
    BY <1>1, <1>5, <1>6, <1>7, TypesSplit DEF IInv

----------------------------------------------------------------------------
(* The node pool controller *)

\* In its scene there is no Topology.
LEMMA PoolScene ==
    ASSUME IInv, scene = "pool", UNCHANGED <<tvars, prov>>, knode'.st # "never"
    PROVE  SceneInv' /\ TopoInv'
  <1> USE DEF tvars
  <1>1. SceneInv'
    BY DEF IInv, SceneInv
  <1>2. TopoInv'
    BY DEF IInv, SceneInv, TopoInv
  <1> QED
    BY <1>1, <1>2

LEMMA PoolTypes ==
    ASSUME IInv
    PROVE  /\ knode \in KNodes /\ kp \in KPhases
           /\ knode.st \in ObjStates /\ knode.fin \in BOOLEAN /\ knode.label \in BOOLEAN
           /\ knode.addr \in BOOLEAN /\ kp.addr \in BOOLEAN
           /\ kp.then \in {"idle", "unfinalize", "poll", "apply"}
           /\ pool \in {"absent", "present", "deleting"} /\ kdue \in {"no", "poll", "yes"}
           /\ kstale \in BOOLEAN /\ lost \in BOOLEAN
           /\ knode.fin => knode.st \in {"present", "deleting"}
           /\ OTypes
  <1>1. OTypes
    BY TypesSplit DEF IInv
  <1>2. knode \in KNodes /\ kp \in KPhases
    BY <1>1 DEF OTypes
  <1>3. /\ knode.st \in ObjStates /\ knode.fin \in BOOLEAN /\ knode.label \in BOOLEAN
        /\ knode.addr \in BOOLEAN
    BY <1>2 DEF KNodes
  <1>4. kp.addr \in BOOLEAN /\ kp.then \in {"idle", "unfinalize", "poll", "apply"}
    BY <1>2 DEF KPhases
  <1> QED
    BY <1>1, <1>2, <1>3, <1>4 DEF OTypes

LEMMA KReconcileStep ==
    ASSUME IInv, NodeReconcile
    PROVE  OTypes' /\ PoolInv'
  <1>0. /\ knode \in KNodes /\ kp \in KPhases /\ OTypes
        /\ knode.label \in BOOLEAN /\ knode.addr \in BOOLEAN /\ knode.st \in ObjStates
    BY PoolTypes
  <1>e. /\ kp.at = "idle" /\ kdue' = "no" /\ kstale' = FALSE
        /\ UNCHANGED <<dvars, bounds, tvars, knode, pool, lost>>
    BY DEF NodeReconcile
  <1>c. \/ knode.st = "deleting" /\ kp' = [at |-> "delete", then |-> "unfinalize", addr |-> FALSE]
        \/ /\ knode.st = "present" /\ knode.label
           /\ kp' = [at |-> "finalize", then |-> "idle", addr |-> knode.addr]
        \/ /\ knode.st = "present" /\ ~knode.label
           /\ kp' = [at |-> "delete", then |-> "idle", addr |-> FALSE]
        \/ knode.st \notin {"deleting", "present"} /\ kp' = KIdle
    BY <1>0 DEF NodeReconcile
  <1>d. kp' \in KPhases
    <2> DEFINE b == knode.addr
    <2>0. b \in BOOLEAN
      BY <1>0
    <2> HIDE DEF b
    <2>1. [at |-> "finalize", then |-> "idle", addr |-> b] \in KPhases
      BY <2>0 DEF KPhases
    <2>2. /\ [at |-> "delete", then |-> "unfinalize", addr |-> FALSE] \in KPhases
          /\ [at |-> "delete", then |-> "idle", addr |-> FALSE] \in KPhases
          /\ KIdle \in KPhases
      BY DEF KPhases, KIdle
    <2> QED
      BY <1>c, <2>1, <2>2, Zenon DEF b
  <1>1. OTypes'
    BY <1>0, <1>d, <1>e, ZenonT(60) DEF OTypes, tvars
  <1>2. PoolInv'
    <2>1. node.st # "present" \/ scene # "pool" \/ knode.fin
      BY DEF IInv, PoolInv
    <2>2. knode.st \notin {"deleting", "present"} => ~knode.fin
      BY PoolTypes
    <2> QED
      BY <1>0, <1>c, <1>e, <2>1, <2>2 DEF IInv, PoolInv, KIdle, dvars, tvars
  <1> QED
    BY <1>1, <1>2

LEMMA KFinalizeStep ==
    ASSUME IInv, NodeAddFinalizer
    PROVE  OTypes' /\ PoolInv' /\ knode'.st = knode.st
  <1>0. /\ knode \in KNodes /\ kp \in KPhases /\ OTypes /\ kdue \in {"no", "poll", "yes"}
        /\ knode.fin \in BOOLEAN
        /\ knode.fin => knode.st \in {"present", "deleting"}
    BY PoolTypes
  <1>e. kp.at = "finalize" /\ UNCHANGED <<dvars, bounds, tvars, pool, kstale, lost>>
    BY DEF NodeAddFinalizer
  <1>s. knode.fin \/ ~kstale => knode.st \in {"present", "deleting"}
    BY <1>0, <1>e DEF IInv, PoolInv
  <1>1. CASE knode.fin \/ ~kstale
    <2>1. /\ knode' \in KNodes /\ knode'.st = knode.st /\ knode'.label = knode.label
          /\ knode'.addr = knode.addr /\ knode'.fin
      BY <1>0, <1>1 DEF NodeAddFinalizer, KNodes
    <2>2. /\ kp' \in KPhases /\ kp'.at = "pool" /\ kp'.addr = kp.addr
          /\ kdue' \in {kdue, "yes"}
      BY <1>0, <1>1 DEF NodeAddFinalizer, KPhases
    <2>3. OTypes'
      BY <1>0, <1>e, <1>s, <1>1, <2>1, <2>2 DEF OTypes, tvars
    <2>4. PoolInv'
      BY <1>e, <2>1, <2>2 DEF IInv, PoolInv, tvars, dvars
    <2> QED
      BY <2>1, <2>3, <2>4
  <1>2. CASE ~(knode.fin \/ ~kstale)
    <2>1. kp' = KIdle /\ kdue' = "yes" /\ knode' = knode /\ kp'.at = "idle"
      BY <1>2 DEF NodeAddFinalizer, KIdle
    <2>2. kp' \in KPhases
      BY <2>1 DEF KIdle, KPhases
    <2>3. OTypes'
      BY <1>0, <1>e, <2>1, <2>2 DEF OTypes, tvars
    <2>4. PoolInv'
      BY <1>e, <2>1 DEF IInv, PoolInv, tvars, dvars
    <2> QED
      BY <2>1, <2>3, <2>4
  <1> QED
    BY <1>1, <1>2

LEMMA KPoolStep ==
    ASSUME IInv, PoolGet
    PROVE  OTypes' /\ PoolInv'
  <1>0. /\ knode \in KNodes /\ kp \in KPhases /\ OTypes
        /\ kp.addr \in BOOLEAN /\ pool \in {"absent", "present", "deleting"}
    BY PoolTypes
  <1>e. kp.at = "pool" /\ UNCHANGED <<dvars, bounds, tvars, knode, pool, kdue, kstale, lost>>
    BY DEF PoolGet
  <1>c. /\ kp' \in KPhases /\ kp'.addr = kp.addr
        /\ \/ pool = "absent" /\ kp'.at = "delete" /\ kp'.then = "poll"
           \/ pool = "deleting" /\ kp.addr /\ kp'.at = "delete" /\ kp'.then = "apply"
           \/ ~kp.addr /\ kp'.at = "delete" /\ kp'.then = "idle"
           \/ pool = "present" /\ kp.addr /\ kp'.at = "apply"
    BY <1>0 DEF PoolGet, KDeletes, KPhases
  <1>1. OTypes'
    BY <1>0, <1>c, <1>e DEF OTypes, tvars
  <1>2. PoolInv'
    BY <1>0, <1>c, <1>e DEF IInv, PoolInv, dvars, tvars
  <1> QED
    BY <1>1, <1>2

\* The Node that is made, or is there already; one that is going is lost.
LEMMA KApplyStep ==
    ASSUME IInv, NodeAPIApply, scene = "pool"
    PROVE  OTypes' /\ PoolInv' /\ DTypeOK' /\ ReportInv' /\ PodInv' /\ WantInv'
  <1>0. /\ kp \in KPhases /\ OTypes /\ kp.addr \in BOOLEAN /\ knode.fin \in BOOLEAN
        /\ DTypeOK /\ node \in Nodes /\ node.st \in {"absent", "present", "deleting"}
    BY PoolTypes DEF IInv, ITypeOK, DTypeOK, Nodes
  <1>e. /\ kp.at = "apply" /\ kp' = KIdle /\ kp'.at = "idle"
        /\ UNCHANGED <<wanted, pods, dep, used, tvars, knode, pool, kstale>>
    BY DEF NodeAPIApply, KIdle
  <1>f. faults' \in Nat /\ faults <= faults'
    BY FailsLemma DEF NodeAPIApply
  <1>c. \/ node.st = "absent" /\ NodeBecomes("present") /\ kdue' = kdue
           /\ lost' = (node.st = "deleting")
        \/ /\ node.st # "absent" /\ UNCHANGED <<node, due, stale>> /\ kdue' = kdue
           /\ lost' = (node.st = "deleting")
        \/ kdue' = "yes" /\ UNCHANGED <<node, due, stale, lost>>
    BY DEF NodeAPIApply
  <1>1. DTypeOK' /\ ReportInv' /\ PodInv' /\ WantInv'
    <2>1. CASE NodeBecomes("present")
      BY <1>e, <1>f, <2>1, NodeBecomesStep
    <2>2. CASE UNCHANGED <<node, due, stale>>
      BY <1>e, <1>f, <2>2, DeployerFrame DEF dvars
    <2> QED
      BY <1>c, <2>1, <2>2
  <1>2. OTypes'
    <2>1. KIdle \in KPhases
      BY DEF KIdle, KPhases
    <2>2. kdue' \in {"no", "poll", "yes"} /\ lost' \in BOOLEAN
      BY <1>0, <1>c DEF OTypes
    <2> QED
      BY <1>0, <1>e, <2>1, <2>2 DEF OTypes, tvars
  <1>3. PoolInv'
    <2>1. node'.st \in {"present", node.st}
      BY <1>c DEF NodeBecomes
    <2>2. kdue' # "yes" => kdue # "yes" /\ (lost' \/ node'.st = "present")
      <3>1. NodeBecomes("present") => node'.st = "present"
        BY DEF NodeBecomes
      <3>2. node.st # "absent" /\ node' = node /\ lost' = (node.st = "deleting")
              => lost' \/ node'.st = "present"
        BY <1>0
      <3> QED
        BY <1>c, <3>1, <3>2
    <2>3. knode.fin
      BY <1>e DEF IInv, PoolInv
    <2> QED
      BY <1>e, <2>1, <2>2, <2>3 DEF IInv, PoolInv, tvars
  <1> QED
    BY <1>1, <1>2, <1>3

LEMMA KDeleteStep ==
    ASSUME IInv, NodeAPIDelete, scene = "pool"
    PROVE  /\ OTypes' /\ PoolInv' /\ DTypeOK' /\ ReportInv' /\ PodInv' /\ WantInv'
           /\ knode'.st # "never"
  <1>0. /\ kp \in KPhases /\ knode \in KNodes /\ OTypes /\ kp.addr \in BOOLEAN
        /\ knode.fin \in BOOLEAN /\ kp.then \in {"idle", "unfinalize", "poll", "apply"}
        /\ kdue \in {"no", "poll", "yes"}
        /\ DTypeOK /\ node \in Nodes /\ node.st \in {"absent", "present", "deleting"}
    BY PoolTypes DEF IInv, ITypeOK, DTypeOK, Nodes
  <1>e. /\ kp.at = "delete"
        /\ UNCHANGED <<wanted, pods, dep, used, tvars, pool, kstale, lost>>
    BY DEF NodeAPIDelete
  <1>f. faults' \in Nat /\ faults <= faults'
    BY FailsLemma DEF NodeAPIDelete
  <1>c. \/ /\ NodeBecomes("deleting") \/ (node.st # "present" /\ UNCHANGED <<node, due, stale>>)
           /\ KContinue
        \/ kp' = KIdle /\ kdue' = "yes" /\ UNCHANGED <<knode, node, due, stale>>
    BY DEF NodeAPIDelete
  <1>n. knode.st # "never"
    BY DEF IInv, SceneInv
  <1>1. DTypeOK' /\ ReportInv' /\ PodInv' /\ WantInv'
    <2>1. CASE NodeBecomes("deleting")
      BY <1>e, <1>f, <2>1, NodeBecomesStep
    <2>2. CASE UNCHANGED <<node, due, stale>>
      BY <1>e, <1>f, <2>2, DeployerFrame DEF dvars
    <2> QED
      BY <1>c, <2>1, <2>2
  <1>k. KIdle \in KPhases /\ KIdle.at = "idle"
    BY DEF KIdle, KPhases
  <1>d. ASSUME KContinue
        PROVE  \/ /\ kp.then = "apply" /\ kp' \in KPhases /\ kp'.at = "apply" /\ kp'.addr = kp.addr
                  /\ UNCHANGED <<knode, kdue>>
               \/ kp.then = "idle" /\ kp' = KIdle /\ UNCHANGED <<knode, kdue>>
               \/ /\ kp.then = "poll" /\ kp' = KIdle /\ UNCHANGED knode
                  /\ kdue' \in {kdue, "poll"} /\ (kdue = "yes" => kdue' = "yes")
               \/ /\ kp.then = "unfinalize" /\ kp' = KIdle
                  /\ \/ kdue' = "yes" /\ knode' = knode
                     \/ kdue' = kdue /\ knode' \in KNodes /\ knode'.st = "absent" /\ ~knode'.fin
    <2>1. CASE kp.then = "apply"
      BY <1>0, <1>d, <2>1 DEF KContinue, KPhases
    <2>2. CASE kp.then = "idle"
      BY <1>d, <2>2 DEF KContinue
    <2>3. CASE kp.then = "poll"
      BY <1>d, <2>3 DEF KContinue
    <2>4. CASE kp.then = "unfinalize"
      BY <1>0, <1>d, <2>4 DEF KContinue, KNodes, ObjStates
    <2> QED
      BY <1>0, <2>1, <2>2, <2>3, <2>4
  <1>2. OTypes'
    <2>1. kp' \in KPhases /\ kdue' \in {"no", "poll", "yes"}
      BY <1>0, <1>c, <1>d, <1>k
    <2>2. knode' = knode \/ (knode' \in KNodes /\ knode'.st = "absent" /\ ~knode'.fin)
      BY <1>c, <1>d
    <2> QED
      BY <1>0, <1>e, <2>1, <2>2 DEF OTypes, tvars
  <1>3. PoolInv'
    <2>1. CASE kp' = KIdle /\ kdue' = "yes" /\ UNCHANGED <<knode, node, due, stale>>
      BY <1>e, <1>k, <2>1 DEF IInv, PoolInv, tvars
    <2>2. CASE KContinue /\ node'.st # "present"
      BY <1>0, <1>d, <1>e, <1>k, <2>2 DEF IInv, PoolInv, tvars
    <2>3. NodeBecomes("deleting") => node'.st # "present"
      BY DEF NodeBecomes
    <2> QED
      BY <1>c, <2>1, <2>2, <2>3
  <1> QED
    BY <1>1, <1>2, <1>3, <1>c, <1>d, <1>n

LEMMA PoolSteps ==
    ASSUME IInv, NodePoolController
    PROVE  IInv'
  <1>1. scene = "pool"
    BY DEF IInv, SceneInv, NodePoolController, NodeReconcile, NodeAddFinalizer, PoolGet,
       NodeAPIApply, NodeAPIDelete
  <1>2. UNCHANGED <<tvars, prov>>
    BY DEF NodePoolController, NodeReconcile, NodeAddFinalizer, PoolGet, NodeAPIApply,
       NodeAPIDelete, dvars, wanted
  <1>3. Fails \/ faults' = faults
    BY DEF NodePoolController, NodeReconcile, NodeAddFinalizer, PoolGet, NodeAPIApply,
       NodeAPIDelete, bounds
  <1>4. faults' \in 0 .. MaxFaults /\ faults' \in Nat /\ faults <= faults'
    BY <1>3, FailsLemma
  <1>5. OTypes' /\ PoolInv'
    BY <1>1, KReconcileStep, KFinalizeStep, KPoolStep, KApplyStep, KDeleteStep
    DEF NodePoolController
  <1>6. DTypeOK' /\ ReportInv' /\ PodInv' /\ WantInv'
    <2>1. CASE NodeReconcile \/ NodeAddFinalizer \/ PoolGet
      BY <1>4, <2>1, DeployerFrame DEF NodeReconcile, NodeAddFinalizer, PoolGet
    <2> QED
      BY <1>1, <2>1, KApplyStep, KDeleteStep DEF NodePoolController
  <1>7. knode'.st # "never"
    <2>1. knode.st # "never"
      BY <1>1 DEF IInv, SceneInv
    <2>2. CASE NodeReconcile \/ PoolGet \/ NodeAPIApply
      BY <2>1, <2>2 DEF NodeReconcile, PoolGet, NodeAPIApply
    <2> QED
      BY <1>1, <2>1, <2>2, KFinalizeStep, KDeleteStep DEF NodePoolController
  <1> QED
    BY <1>1, <1>2, <1>4, <1>5, <1>6, <1>7, PoolScene, TypesSplit DEF IInv

----------------------------------------------------------------------------
(* The cluster and the users *)

\* A Node that goes, or is not the node pool controller's.
LEMMA NodeSteps ==
    ASSUME IInv, NodeGoes \/ NamespaceDrains \/ NodeEvent
    PROVE  IInv'
  <1>1. \E st \in {"absent", "present", "deleting"} :
            NodeBecomes(st) /\ (scene = "pool" => node.st = "deleting" /\ st = "absent")
    <2>1. ns = "terminating" => scene # "pool"
      BY DEF IInv, SceneInv
    <2> QED
      BY <2>1 DEF NodeGoes, NamespaceDrains, NodeEvent
  <1>2. UNCHANGED <<wanted, pods, dep, faults, tvars, kvars, lost>>
    BY DEF NodeGoes, NamespaceDrains, NodeEvent, bounds
  <1>3. PICK st \in {"absent", "present", "deleting"} :
            NodeBecomes(st) /\ (scene = "pool" => node.st = "deleting" /\ st = "absent")
    BY <1>1
  <1>4. faults \in 0 .. MaxFaults /\ faults \in Nat
    BY DeployerAssumption DEF IInv
  <1>5. DTypeOK' /\ ReportInv' /\ PodInv' /\ WantInv' /\ node'.st = st
    BY <1>2, <1>3, <1>4, NodeBecomesStep
  <1>6. OTypes' /\ SceneInv' /\ TopoInv'
    <2> USE <1>2 DEF tvars, kvars, wanted
    <2>1. OTypes'
      BY TypesSplit DEF IInv, OTypes
    <2>2. SceneInv'
      BY DEF IInv, SceneInv
    <2>3. TopoInv'
      BY DEF IInv, TopoInv, Served
    <2> QED
      BY <2>1, <2>2, <2>3
  <1>7. PoolInv'
    <2>1. CASE scene = "pool"
      BY <1>2, <1>3, <1>5, <2>1 DEF IInv, PoolInv, tvars, kvars
    <2>2. CASE scene # "pool"
      BY <1>2, <2>2, TopologyScene DEF tvars, wanted
    <2> QED
      BY <2>1, <2>2
  <1> QED
    BY <1>2, <1>4, <1>5, <1>6, <1>7, TypesSplit DEF IInv

LEMMA NamespaceStep ==
    ASSUME IInv, NamespaceGoes
    PROVE  IInv'
  <1>0. OTypes
    BY TopologyTypes
  <1>e. /\ ns = "terminating" /\ ns' = "absent" /\ marked' = FALSE /\ copy' = 0
        /\ UNCHANGED <<dvars, bounds, topo, default, src, tp, tdue, tstale, scene, kvars, lost>>
    BY DEF NamespaceGoes
  <1>1. scene # "pool"
    BY <1>e DEF IInv, SceneInv
  <1>2. faults' \in 0 .. MaxFaults /\ faults' \in Nat /\ faults <= faults'
    BY <1>e, DeployerAssumption DEF IInv, bounds
  <1>3. DTypeOK' /\ ReportInv' /\ PodInv' /\ WantInv'
    BY <1>e, <1>2, DeployerFrame
  <1>4. OTypes'
    <2>1. copy' \in Data
      BY <1>e DEF Data
    <2>2. marked' \in BOOLEAN
      BY <1>e
    <2> QED
      BY <1>0, <1>e, <2>1, <2>2 DEF OTypes, kvars
  <1>5. TopoInv'
    BY <1>e DEF IInv, TopoInv, Served
  <1>6. SceneInv' /\ PoolInv'
    BY <1>1, <1>e, TopologyScene DEF dvars, wanted
  <1> QED
    BY <1>2, <1>3, <1>4, <1>5, <1>6, TypesSplit DEF IInv

LEMMA TopologyEventStep ==
    ASSUME IInv, TopologyEvent
    PROVE  IInv'
  <1>0. /\ OTypes /\ topo \in Topologies /\ topo.fin \in BOOLEAN /\ src \in Data
        /\ tdue \in BOOLEAN
    BY TopologyTypes DEF Topologies
  <1>e. /\ scene # "pool"
        /\ UNCHANGED <<dvars, faults, default, ns, marked, copy, tp, scene, kvars, lost>>
    BY DEF TopologyEvent
  <1>2. faults' \in 0 .. MaxFaults /\ faults' \in Nat /\ faults <= faults'
    BY <1>e, DeployerAssumption DEF IInv
  <1>3. DTypeOK' /\ ReportInv' /\ PodInv' /\ WantInv'
    BY <1>e, <1>2, DeployerFrame
  <1>6. SceneInv' /\ PoolInv'
    BY <1>e, TopologyScene DEF dvars, wanted
  <1>4. CASE topo.st \in {"absent", "present"} /\ tdue' = TRUE /\ src' = src
             /\ tstale' = (tp.at # "idle")
             /\ topo' = IF topo.st = "absent"
                        THEN [st |-> "present", fin |-> FALSE, cond |-> "unknown"]
                        ELSE [topo EXCEPT !.st = IF topo.fin THEN "deleting" ELSE "absent"]
    <2>1. /\ topo' \in Topologies /\ topo'.fin = topo.fin
          /\ topo'.fin => topo'.st = "deleting"
          /\ topo'.st # "never"
      <3>1. topo.st = "absent" => topo.fin = FALSE
        BY <1>0 DEF OTypes
      <3>2. CASE topo.st = "absent"
        BY <1>4, <3>1, <3>2 DEF Topologies, ObjStates
      <3>3. CASE topo.st = "present"
        BY <1>0, <1>4, <3>3 DEF Topologies, ObjStates
      <3> QED
        BY <1>4, <3>2, <3>3
    <2>2. OTypes'
      BY <1>0, <1>e, <1>4, <2>1 DEF OTypes, kvars
    <2>3. TopoInv'
      BY <1>e, <1>4, <2>1 DEF IInv, TopoInv
    <2> QED
      BY <1>2, <1>3, <1>6, <2>2, <2>3, TypesSplit DEF IInv
  <1>5. CASE src' \in Data \ {src} /\ tdue' = (tdue \/ add(src, src'))
             /\ UNCHANGED <<topo, tstale>>
    <2>1. tdue' = TRUE
      BY <1>0, <1>5 DEF add, Data
    <2>2. OTypes'
      BY <1>0, <1>e, <1>5, <2>1 DEF OTypes, kvars
    <2>3. TopoInv'
      BY <1>e, <1>5, <2>1 DEF IInv, TopoInv
    <2> QED
      BY <1>2, <1>3, <1>6, <2>2, <2>3, TypesSplit DEF IInv
  <1> QED
    BY <1>4, <1>5 DEF TopologyEvent

LEMMA PoolEventStep ==
    ASSUME IInv, PoolEvent
    PROVE  IInv'
  <1>0. /\ OTypes /\ knode \in KNodes /\ knode.fin \in BOOLEAN /\ knode.label \in BOOLEAN
        /\ knode.addr \in BOOLEAN /\ pool \in {"absent", "present", "deleting"}
        /\ knode.st \in ObjStates
        /\ kdue \in {"no", "poll", "yes"} /\ kp \in KPhases
        /\ knode.fin => knode.st \in {"present", "deleting"}
    BY PoolTypes
  <1>e. /\ scene = "pool" /\ UNCHANGED <<dvars, faults, tvars, kp, lost>>
    BY DEF PoolEvent
  <1>2. faults' \in 0 .. MaxFaults /\ faults' \in Nat /\ faults <= faults'
    BY <1>e, DeployerAssumption DEF IInv
  <1>3. DTypeOK' /\ ReportInv' /\ PodInv' /\ WantInv'
    BY <1>e, <1>2, DeployerFrame
  <1>n. knode.st # "never"
    BY <1>e DEF IInv, SceneInv
  <1>4. CASE /\ knode.st = "present"
             /\ \/ knode' = [knode EXCEPT !.label = ~@]
                \/ knode' = [knode EXCEPT !.addr = ~@]
                \/ knode' = [knode EXCEPT !.st = IF knode.fin THEN "deleting" ELSE "absent"]
             /\ kdue' = "yes" /\ kstale' = (kp.at # "idle")
             /\ UNCHANGED pool
    <2>1. knode' \in KNodes
      <3>1. \A b \in BOOLEAN : /\ [knode EXCEPT !.label = b] \in KNodes
                               /\ [knode EXCEPT !.addr = b] \in KNodes
        BY <1>0 DEF KNodes
      <3>2. \A s \in ObjStates : [knode EXCEPT !.st = s] \in KNodes
        BY <1>0 DEF KNodes
      <3> QED
        BY <1>4, <3>1, <3>2 DEF ObjStates
    <2>2. /\ knode'.fin = knode.fin /\ knode'.st \in {"present", "deleting", "absent"}
          /\ knode'.fin => knode'.st \in {"present", "deleting"}
      BY <1>0, <1>4 DEF KNodes
    <2>3. OTypes'
      BY <1>0, <1>e, <1>4, <2>1, <2>2 DEF OTypes, tvars
    <2>4. PoolInv'
      BY <1>e, <1>4, <2>2 DEF IInv, PoolInv, tvars, dvars
    <2> QED
      BY <1>2, <1>3, <1>e, <2>2, <2>3, <2>4, PoolScene, TypesSplit DEF IInv, dvars, wanted
  <1>5. CASE /\ pool' \in CASE pool = "absent" -> {"present"}
                            [] pool = "present" -> {"deleting", "absent"}
                            [] OTHER -> {"absent"}
             /\ kdue' = IF knode.label /\ knode.st # "absent" THEN "yes" ELSE kdue
             /\ UNCHANGED <<knode, kstale>>
    <2>1. pool' \in {"absent", "present", "deleting"}
      BY <1>0, <1>5
    <2>3. OTypes'
      BY <1>0, <1>e, <1>5, <2>1 DEF OTypes, tvars
    <2>4. PoolInv'
      BY <1>0, <1>e, <1>n, <1>5 DEF IInv, PoolInv, tvars, dvars, ObjStates
    <2> QED
      BY <1>2, <1>3, <1>e, <1>n, <1>5, <2>3, <2>4, PoolScene, TypesSplit DEF IInv, dvars, wanted
  <1> QED
    BY <1>4, <1>5 DEF PoolEvent

----------------------------------------------------------------------------
(* The theorems *)

LEMMA IInvInit ==
    ASSUME Init
    PROVE  IInv
  <1>0. faults = 0 /\ faults \in 0 .. MaxFaults
    BY DeployerAssumption DEF Init, TopologyInit, DeployerInit, PoolInit, DInit
  <1>1. PICK p \in Providers, st \in {"absent", "present"} : DInit(p, st)
    BY DEF Init, TopologyInit, DeployerInit, PoolInit, Providers
  <1>2. DTypeOK
    <2>1. Idle \in Phases
      BY DEF Idle, Phases, Hashes, Conditions
    <2>2. node \in Nodes /\ want \in Hashes /\ due \in BOOLEAN
      BY <1>1 DEF DInit, Nodes, Conditions, Hashes
    <2> QED
      BY <1>1, <2>1, <2>2 DEF DInit, DTypeOK
  <1>3. OTypes
    <2>1. TIdle \in TPhases /\ KIdle \in KPhases
      BY DEF TIdle, TPhases, Data, KIdle, KPhases
    <2>2. topo \in Topologies /\ knode \in KNodes
      <3>1. /\ [st |-> "present", fin |-> FALSE, cond |-> "unknown"] \in Topologies
            /\ [st |-> "present", fin |-> TRUE, cond |-> "ready"] \in Topologies
            /\ [st |-> "never", fin |-> FALSE, cond |-> "unknown"] \in Topologies
        BY DEF Topologies, ObjStates
      <3>2. /\ [st |-> "never", fin |-> FALSE, label |-> FALSE, addr |-> FALSE] \in KNodes
            /\ [st |-> "present", fin |-> FALSE, label |-> TRUE, addr |-> TRUE] \in KNodes
        BY DEF KNodes, ObjStates
      <3> QED
        BY <3>1, <3>2, Zenon DEF Init, TopologyInit, DeployerInit, PoolInit
    <2>3. topo.fin => topo.st \in {"present", "deleting"}
      BY DEF Init, TopologyInit, DeployerInit, PoolInit
    <2>4. knode.fin => knode.st \in {"present", "deleting"}
      BY DEF Init, TopologyInit, DeployerInit, PoolInit
    <2>5. /\ src \in Data /\ copy \in Data
          /\ ns \in {"absent", "active", "terminating"}
          /\ pool \in {"absent", "present", "deleting"} /\ kdue \in {"no", "poll", "yes"}
      BY DEF Init, TopologyInit, DeployerInit, PoolInit, Data
    <2>6. /\ default \in BOOLEAN /\ marked \in BOOLEAN /\ tdue \in BOOLEAN
          /\ tstale \in BOOLEAN /\ kstale \in BOOLEAN /\ lost \in BOOLEAN
      BY DEF Init, TopologyInit, DeployerInit, PoolInit
    <2>7. tp = TIdle /\ kp = KIdle
      BY DEF Init
    <2> QED
      BY <2>1, <2>2, <2>3, <2>4, <2>5, <2>6, <2>7 DEF OTypes
  <1>4. tp.at = "idle" /\ kp.at = "idle"
    BY DEF Init, TIdle, KIdle
  <1>5. SceneInv
    BY <1>4 DEF SceneInv, Init, TopologyInit, DeployerInit, PoolInit, DInit
  <1>6. TopoInv
    BY <1>4 DEF TopoInv, Served, Init, TopologyInit, DeployerInit, PoolInit
  <1>7. PoolInv
    <2>1. scene = "pool" => node.st = "absent" /\ kdue = "yes"
      BY DEF Init, TopologyInit, DeployerInit, PoolInit, DInit
    <2> QED
      BY <1>4, <2>1 DEF PoolInv
  <1>8. /\ dep.at = "idle" /\ node.st = st /\ due = (st = "present") /\ node.cond = "unknown"
        /\ pod = None /\ podSeen = None /\ cfg = TRUE
    BY <1>1 DEF DInit, Idle
  <1>9. ReportInv /\ PodInv /\ WantInv
    BY <1>8 DEF ReportInv, PodInv, WantInv, Calm, Seen
  <1> QED
    BY <1>0, <1>2, <1>3, <1>5, <1>6, <1>7, <1>9, TypesSplit DEF IInv

LEMMA IInvNext ==
    ASSUME IInv, [Next]_vars
    PROVE  IInv'
  <1>1. CASE UNCHANGED vars
    <2>1. UNCHANGED <<dvars, tvars, kvars, lost, faults>>
      BY <1>1 DEF vars, bounds
    <2>2. faults' \in 0 .. MaxFaults /\ faults' \in Nat /\ faults <= faults'
      BY <2>1, DeployerAssumption DEF IInv
    <2>3. DTypeOK' /\ ReportInv' /\ PodInv' /\ WantInv'
      BY <2>1, <2>2, DeployerFrame
    <2>4. OTypes' /\ SceneInv' /\ TopoInv' /\ PoolInv'
      BY <2>1, OthersFrame DEF dvars, wanted
    <2> QED
      BY <2>2, <2>3, <2>4, TypesSplit DEF IInv
  <1>2. CASE Next
    BY <1>2, DeployerSteps, TopologySteps, PoolSteps, NodeSteps, NamespaceStep,
       TopologyEventStep, PoolEventStep DEF Next
  <1> QED
    BY <1>1, <1>2

\* The inductive invariant holds, with the types of the three controllers.
THEOREM Invariance == Spec => []IInv
  <1>1. Init => IInv
    BY IInvInit
  <1>2. IInv /\ [Next]_vars => IInv'
    BY IInvNext
  <1> QED
    BY <1>1, <1>2, PTL DEF Spec

\* Whatever fails and whenever the pod, the Node and its configuration change, the
\* deployer at rest reports ready only for a pod that is ready and configured.
THEOREM ReadyAreDeployed == Spec => []ReadyIsDeployed
  <1>1. IInv => ReadyIsDeployed
    BY DEF IInv, PodInv, Calm, Configured, ReadyIsDeployed, AtRest
  <1> QED
    BY <1>1, Invariance, PTL

\* Unless calls fail twice, the deployer comes to rest only with the wanted pod: every
\* other end of a reconcile leaves a request or news of the pod behind.
THEOREM DeployerRestsWhenDone == Spec => [](faults <= 1 => RestsWhenDeployed)
  <1>1. IInv => (faults <= 1 => RestsWhenDeployed)
    <2>1. IInv => faults \in Nat
      BY DeployerAssumption DEF IInv
    <2> QED
      BY <2>1 DEF IInv, WantInv, Calm, AsWanted, RestsWhenDeployed, AtRest
  <1> QED
    BY <1>1, Invariance, PTL

\* The topology controller at rest has given the Topology its labelled namespace with
\* the current ConfigMap, however the ConfigMap changes while it is copied.
THEOREM TopologiesAreServed == Spec => []TopologyFollows
  <1>1. IInv => TopologyFollows
    BY DEF IInv, TopoInv, Served, TopologyFollows, TopologyAtRest
  <1> QED
    BY <1>1, Invariance, PTL

\* Without Topology nothing of it is left: the finalizer is there before anything is
\* made, and is removed only after everything was deleted.
THEOREM TopologiesLeaveNothing == Spec => []NothingLeft
  <1>1. IInv => NothingLeft
    <2> SUFFICES ASSUME IInv, TopologyAtRest, topo.st = "absent"
                 PROVE  copy = 0 /\ (default \/ ns = "absent")
      BY DEF NothingLeft
    <2>1. ~topo.fin /\ ns \in {"absent", "active", "terminating"} /\ OTypes
      BY TopologyTypes
    <2> QED
      BY <2>1 DEF IInv, TopoInv, TopologyAtRest
  <1> QED
    BY <1>1, Invariance, PTL

\* The node pool controller at rest has made a Node exactly where label, address and
\* NodePool ask for one, and the deployer has reported it.
THEOREM PoolsAreServed == Spec => []PoolFollows
  <1>1. IInv => PoolFollows
    <2> SUFFICES ASSUME IInv, knode.st # "never", kp.at = "idle", kdue # "yes", AtRest,
                        node.st # "deleting", knode.st # "deleting", pool # "deleting", ~lost
                 PROVE  LET wants == /\ knode.st = "present" /\ knode.label /\ knode.addr
                                     /\ pool = "present"
                        IN /\ (node.st = "present") <=> wants
                           /\ wants => node.cond = Report
      BY DEF PoolFollows, Report
    <2> DEFINE wants == /\ knode.st = "present" /\ knode.label /\ knode.addr
                        /\ pool = "present"
    <2>1. scene = "pool" /\ prov # "srlinux"
      BY DEF IInv, SceneInv
    <2>2. (node.st = "present") <=> wants
      BY <2>1, PoolTypes DEF IInv, PoolInv
    <2>3. wants => node.cond = Report
      BY <2>1, <2>2 DEF IInv, ReportInv, AtRest
    <2> QED
      BY <2>2, <2>3
  <1> QED
    BY <1>1, Invariance, PTL

============================================================================
