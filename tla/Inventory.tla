----------------------------- MODULE Inventory -----------------------------
(***************************************************************************)
(* The controllers that feed the node deployer.                            *)
(*                                                                         *)
(* The topology controller makes the namespace of a Topology and keeps a   *)
(* copy of the driver's ConfigMap in it, which the pods of its Nodes       *)
(* mount.  The node pool controller makes a Node for every Kubernetes node *)
(* that is labelled with a NodePool.  Both write one resource after the    *)
(* other to the API server, from what their caches show, and are told      *)
(* nothing of the resources they made: what is removed under them stays    *)
(* removed until something else calls them (lost).                         *)
(***************************************************************************)
EXTENDS NodeDeployer

Data == 0 .. 2                        \* contents of a ConfigMap; 0: there is none
ObjStates == {"never", "absent", "present", "deleting"}
Topologies == [st : ObjStates, fin : BOOLEAN, cond : {"unknown", "ready", "failed"}]
TPhases == [at : {"idle", "delete", "unfinalize", "finalize", "list", "apply", "status"},
            data : Data, cond : {"ready", "failed"}]
KNodes == [st : ObjStates, fin : BOOLEAN, label : BOOLEAN, addr : BOOLEAN]
KPhases == [at : {"idle", "delete", "finalize", "pool", "apply"},
            then : {"idle", "unfinalize", "poll", "apply"}, addr : BOOLEAN]
TIdle == [at |-> "idle", data |-> 0, cond |-> "failed"]
KIdle == [at |-> "idle", then |-> "idle", addr |-> FALSE]

VARIABLES
    scene,    \* who the users' changes are aimed at
    topo,     \* the Topology
    default,  \* it is the one named default
    ns,       \* the namespace of its name
    marked,   \* the namespace has the topology label
    src,      \* the driver's ConfigMap
    copy,     \* its copy in the namespace
    tp,       \* where the topology controller is
    tdue,     \* it has a request
    tstale,   \* the Topology changed after it was read
    knode,    \* the Kubernetes node
    pool,     \* the NodePool its label names
    kp,       \* where the node pool controller is
    kdue,     \* it has a request: "no", "poll" (timer) or "yes"
    kstale,   \* the Kubernetes node changed after it was read
    lost      \* the namespace or Node was last written while it terminated

tvars == <<scene, topo, default, ns, marked, src, copy, tp, tdue, tstale>>
kvars == <<knode, pool, kp, kdue, kstale>>
vars == <<dvars, bounds, tvars, kvars, lost>>

\* Scenes: which of the three controllers the users' changes are aimed at.
TopologyInit ==
    /\ scene = "topology"
    /\ DInit("srlinux", "absent")
    /\ topo = [st |-> "present", fin |-> FALSE, cond |-> "unknown"]
    /\ default \in BOOLEAN
    /\ ns = IF default THEN "active" ELSE "absent"
    /\ marked = FALSE /\ src = 1 /\ copy = 0 /\ tdue = TRUE
    /\ knode = [st |-> "never", fin |-> FALSE, label |-> FALSE, addr |-> FALSE]
    /\ pool = "absent" /\ kdue = "no"

DeployerInit ==
    /\ scene = "deployer"
    /\ DInit("srlinux", "present")
    /\ topo = [st |-> "present", fin |-> TRUE, cond |-> "ready"]
    /\ default = TRUE /\ ns = "active"
    /\ marked = TRUE /\ src = 1 /\ copy = 1 /\ tdue = FALSE
    /\ knode = [st |-> "never", fin |-> FALSE, label |-> FALSE, addr |-> FALSE]
    /\ pool = "absent" /\ kdue = "no"

PoolInit ==
    /\ scene = "pool"
    /\ \E p \in {"server", "unsupported"} : DInit(p, "absent")
    /\ topo = [st |-> "never", fin |-> FALSE, cond |-> "unknown"]
    /\ default = TRUE /\ ns = "active"
    /\ marked = FALSE /\ src = 0 /\ copy = 0 /\ tdue = FALSE
    /\ knode = [st |-> "present", fin |-> FALSE, label |-> TRUE, addr |-> TRUE]
    /\ pool \in {"absent", "present"} /\ kdue = "yes"

Init ==
    /\ TopologyInit \/ DeployerInit \/ PoolInit
    /\ tp = TIdle /\ tstale = FALSE
    /\ kp = KIdle /\ kstale = FALSE
    /\ lost = FALSE

----------------------------------------------------------------------------
(* The topology controller *)

TGoto(at) == tp' = [tp EXCEPT !.at = at]
TEnds(c) == tp' = [tp EXCEPT !.at = "status", !.cond = c]

TopologyReconcile ==
    /\ tp.at = "idle" /\ tdue
    /\ tdue' = FALSE /\ tstale' = FALSE
    /\ TGoto(CASE topo.st = "deleting" -> "delete"
               [] topo.st = "present" -> "finalize"
               [] OTHER -> "idle")
    /\ UNCHANGED <<dvars, bounds, topo, default, ns, marked, src, copy, scene, kvars, lost>>

\* APIDelete of what the Topology owns, one after the other.  The default namespace
\* is not its own, and keeps the label.
TopologyAPIDelete ==
    /\ tp.at = "delete"
    /\ LET gone == IF default \/ ns = "absent" THEN ns ELSE "terminating" IN
       \/ ns' = gone /\ copy' = 0 /\ TGoto("unfinalize") /\ UNCHANGED faults
       \/ Fails /\ TEnds("failed") /\ ns' \in {ns, gone} /\ copy' \in {copy, 0}
    /\ UNCHANGED <<dvars, used, topo, default, marked, src, tdue, tstale, scene, kvars, lost>>

TopologyRemoveFinalizer ==
    /\ tp.at = "unfinalize"
    /\ IF tstale THEN TEnds("failed") /\ UNCHANGED topo
       ELSE TGoto("idle") /\ topo' = [topo EXCEPT !.st = "absent", !.fin = FALSE]
    /\ UNCHANGED <<dvars, bounds, default, ns, marked, src, copy, tdue, tstale, scene, kvars, lost>>

\* Faulty: a finalizer that cannot be added is done without.
TopologyAddFinalizerAnyway ==
    /\ tp.at = "finalize"
    /\ topo' = IF topo.fin \/ tstale THEN topo ELSE [topo EXCEPT !.fin = TRUE]
    /\ tdue' = (tdue \/ topo' # topo)
    /\ marked' = (marked \/ default)
    /\ TGoto("list")
    /\ UNCHANGED <<dvars, bounds, default, ns, src, copy, tstale, scene, kvars, lost>>

\* AddFinalizer, and for the default topology the label of the namespace.
TopologyAddFinalizer ==
    /\ tp.at = "finalize"
    /\ \/ /\ topo.fin \/ ~tstale
          /\ topo' = IF topo.fin THEN topo ELSE [topo EXCEPT !.fin = TRUE]
          /\ tdue' = (tdue \/ ~topo.fin)
          /\ \/ marked' = (marked \/ default) /\ TGoto("list") /\ UNCHANGED faults
             \/ default /\ Fails /\ TEnds("failed") /\ UNCHANGED marked
       \/ ~topo.fin /\ tstale /\ TEnds("failed") /\ UNCHANGED <<topo, tdue, marked, faults>>
    /\ UNCHANGED <<dvars, used, default, ns, src, copy, tstale, scene, kvars, lost>>

TopologyListConfigMaps ==
    /\ tp.at = "list"
    /\ \/ tp' = [tp EXCEPT !.at = "apply", !.data = src] /\ UNCHANGED faults
       \/ Fails /\ TEnds("failed")
    /\ UNCHANGED <<dvars, used, topo, default, ns, marked, src, copy, tdue, tstale, scene, kvars, lost>>

\* APIApply of the namespace and the copy, in any order, which may fail after the
\* first: in a namespace that is not there, or terminates, nothing can be created.
TopologyAPIApply ==
    /\ tp.at = "apply"
    /\ \/ /\ ns = "terminating" => copy # 0 \/ tp.data = 0
          /\ ns' = IF ns = "absent" THEN "active" ELSE ns
          /\ marked' = TRUE
          /\ copy' = tp.data
          /\ lost' = (ns = "terminating")
          /\ TEnds("ready")
          /\ UNCHANGED faults
       \/ /\ ns # "active" /\ copy = 0 /\ tp.data # 0
          /\ TEnds("failed")
          /\ UNCHANGED <<ns, marked, copy, lost, faults>>
       \/ /\ Fails /\ TEnds("failed") /\ UNCHANGED lost
          /\ \/ UNCHANGED <<ns, marked, copy>>
             \/ ns' = (IF ns = "absent" THEN "active" ELSE ns) /\ marked' = TRUE /\ UNCHANGED copy
             \/ ns = "active" /\ copy' = tp.data /\ UNCHANGED <<ns, marked>>
    /\ UNCHANGED <<dvars, used, topo, default, src, tdue, tstale, scene, kvars>>

\* The status update is refused if the Topology changed; its own change is an event,
\* and a failure asks for a requeue.
TopologyStatus ==
    /\ tp.at = "status"
    /\ topo' = IF tstale \/ topo.st \notin {"present", "deleting"} THEN topo
               ELSE [topo EXCEPT !.cond = tp.cond]
    /\ tdue' = (tdue \/ tstale \/ tp.cond = "failed" \/ topo' # topo)
    /\ tp' = TIdle
    /\ UNCHANGED <<dvars, bounds, default, ns, marked, src, copy, tstale, scene, kvars, lost>>

TopologyController ==
    \/ TopologyReconcile \/ TopologyAPIDelete \/ TopologyRemoveFinalizer
    \/ TopologyAddFinalizer \/ TopologyListConfigMaps \/ TopologyAPIApply
    \/ TopologyStatus

----------------------------------------------------------------------------
(* The node pool controller *)

\* Removes go through "delete", which goes on with "then".
KDeletes(then) == kp' = [kp EXCEPT !.at = "delete", !.then = then]

NodeReconcile ==
    /\ kp.at = "idle" /\ kdue # "no"
    /\ kdue' = "no" /\ kstale' = FALSE
    /\ kp' = CASE knode.st = "deleting" -> [at |-> "delete", then |-> "unfinalize", addr |-> FALSE]
               [] knode.st = "present" /\ knode.label ->
                    [at |-> "finalize", then |-> "idle", addr |-> knode.addr]
               [] knode.st = "present" /\ ~knode.label ->
                    [at |-> "delete", then |-> "idle", addr |-> FALSE]
               [] OTHER -> KIdle
    /\ UNCHANGED <<dvars, bounds, tvars, knode, pool, lost>>

NodeAddFinalizer ==
    /\ kp.at = "finalize"
    /\ IF knode.fin \/ ~kstale
       THEN /\ knode' = [knode EXCEPT !.fin = TRUE]
            /\ kdue' = IF knode.fin THEN kdue ELSE "yes"
            /\ kp' = [kp EXCEPT !.at = "pool"]
       ELSE kp' = KIdle /\ kdue' = "yes" /\ UNCHANGED knode
    /\ UNCHANGED <<dvars, bounds, tvars, pool, kstale, lost>>

\* Faulty: while there is no NodePool it only waits.
PoolGetWaits ==
    /\ kp.at = "pool"
    /\ \/ pool = "absent" /\ kp' = KIdle /\ kdue' = IF kdue = "no" THEN "poll" ELSE kdue
       \/ pool = "deleting" /\ KDeletes(IF kp.addr THEN "apply" ELSE "idle") /\ UNCHANGED kdue
       \/ pool = "present" /\ UNCHANGED kdue
          /\ IF kp.addr THEN kp' = [kp EXCEPT !.at = "apply"] ELSE KDeletes("idle")
    /\ UNCHANGED <<dvars, bounds, tvars, knode, pool, kstale, lost>>

\* Without the NodePool the Node is removed and the controller waits; with one that
\* is being deleted it is removed too, but made again from the NodePool read.  A
\* node without internal address gets no Node.
PoolGet ==
    /\ kp.at = "pool"
    /\ \/ pool = "absent" /\ KDeletes("poll")
       \/ pool = "deleting" /\ KDeletes(IF kp.addr THEN "apply" ELSE "idle")
       \/ /\ pool = "present"
          /\ IF kp.addr THEN kp' = [kp EXCEPT !.at = "apply"] ELSE KDeletes("idle")
    /\ UNCHANGED <<dvars, bounds, tvars, knode, pool, kdue, kstale, lost>>

\* APIApply of the Node.
NodeAPIApply ==
    /\ kp.at = "apply"
    /\ \/ /\ IF node.st = "absent" THEN NodeBecomes("present")
             ELSE UNCHANGED <<node, due, stale>>
          /\ lost' = (node.st = "deleting")
          /\ UNCHANGED <<faults, kdue>>
       \/ Fails /\ kdue' = "yes" /\ UNCHANGED <<node, due, stale, lost>>
    /\ kp' = KIdle
    /\ UNCHANGED <<wanted, pods, dep, used, tvars, knode, pool, kstale>>

\* The rest of a reconcile after APIDelete.  RemoveFinalizer is refused if the
\* Kubernetes node changed.
KContinue ==
    CASE kp.then = "apply" -> /\ kp' = [kp EXCEPT !.at = "apply", !.then = "idle"]
                              /\ UNCHANGED <<knode, kdue>>
      [] kp.then = "idle" -> kp' = KIdle /\ UNCHANGED <<knode, kdue>>
      [] kp.then = "poll" -> /\ kp' = KIdle /\ UNCHANGED knode
                             /\ kdue' = IF kdue = "no" THEN "poll" ELSE kdue
      [] OTHER -> /\ kp' = KIdle
                  /\ IF kstale THEN kdue' = "yes" /\ UNCHANGED knode
                     ELSE /\ knode' = [knode EXCEPT !.st = "absent", !.fin = FALSE]
                          /\ UNCHANGED kdue

\* Faulty: a delete that fails for a node that is being deleted is logged only.
NodeAPIDeleteForgets ==
    /\ kp.at = "delete"
    /\ \/ /\ IF node.st = "present" THEN NodeBecomes("deleting")
             ELSE UNCHANGED <<node, due, stale>>
          /\ KContinue
          /\ UNCHANGED faults
       \/ /\ Fails /\ kp' = KIdle /\ UNCHANGED <<knode, node, due, stale>>
          /\ kdue' = IF kp.then = "unfinalize" THEN kdue ELSE "yes"
    /\ UNCHANGED <<wanted, pods, dep, used, tvars, pool, kstale, lost>>

NodeAPIDelete ==
    /\ kp.at = "delete"
    /\ \/ /\ IF node.st = "present" THEN NodeBecomes("deleting")
             ELSE UNCHANGED <<node, due, stale>>
          /\ KContinue
          /\ UNCHANGED faults
       \/ Fails /\ kp' = KIdle /\ kdue' = "yes" /\ UNCHANGED <<knode, node, due, stale>>
    /\ UNCHANGED <<wanted, pods, dep, used, tvars, pool, kstale, lost>>

NodePoolController ==
    \/ NodeReconcile \/ NodeAddFinalizer \/ PoolGet \/ NodeAPIApply \/ NodeAPIDelete

----------------------------------------------------------------------------
(* The cluster *)

\* The other finalizers of a Node that is deleted are removed.
NodeGoes ==
    /\ node.st = "deleting"
    /\ NodeBecomes("absent")
    /\ UNCHANGED <<wanted, pods, dep, bounds, tvars, kvars, lost>>

\* A terminating namespace deletes its Nodes, then goes with all it holds.
NamespaceDrains ==
    /\ ns = "terminating" /\ node.st = "present"
    /\ NodeBecomes("deleting")
    /\ UNCHANGED <<wanted, pods, dep, bounds, tvars, kvars, lost>>
NamespaceGoes ==
    /\ ns = "terminating" /\ node.st = "absent" /\ pod = None
    /\ ns' = "absent" /\ marked' = FALSE /\ copy' = 0
    /\ UNCHANGED <<dvars, bounds, topo, default, src, tp, tdue, tstale, scene, kvars, lost>>

\* Faulty: the handler of updates looks at the new object only.
addNew(old, new) == new # 0

\* The ConfigMap events: topologies are requested if the old or the new object is a
\* labelled one.  The handler finds them with a List, which the client answers from
\* its cache: its error, with which the event would be dropped, does not occur.
add(old, new) == old # 0 \/ new # 0

TopologyEvent ==
    /\ scene = "topology" /\ used < MaxEvents /\ used' = used + 1
    /\ \/ /\ topo.st \in {"absent", "present"}
          /\ topo' = IF topo.st = "absent"
                     THEN [st |-> "present", fin |-> FALSE, cond |-> "unknown"]
                     ELSE [topo EXCEPT !.st = IF topo.fin THEN "deleting" ELSE "absent"]
          /\ tdue' = TRUE /\ tstale' = (tp.at # "idle")
          /\ UNCHANGED src
       \/ /\ src' \in Data \ {src}
          /\ tdue' = (tdue \/ add(src, src'))
          /\ UNCHANGED <<topo, tstale>>
    /\ UNCHANGED <<dvars, faults, default, ns, marked, copy, tp, scene, kvars, lost>>

\* The events of NodePools request the Kubernetes nodes whose label names them, found
\* with a List of the client's cache too.
PoolEvent ==
    /\ scene = "pool" /\ used < MaxEvents /\ used' = used + 1
    /\ \/ /\ knode.st = "present"
          /\ \/ knode' = [knode EXCEPT !.label = ~@]
             \/ knode' = [knode EXCEPT !.addr = ~@]
             \/ knode' = [knode EXCEPT !.st = IF knode.fin THEN "deleting" ELSE "absent"]
          /\ kdue' = "yes" /\ kstale' = (kp.at # "idle")
          /\ UNCHANGED pool
       \/ /\ pool' \in CASE pool = "absent" -> {"present"}
                         [] pool = "present" -> {"deleting", "absent"}
                         [] OTHER -> {"absent"}
          /\ kdue' = IF knode.label /\ knode.st # "absent" THEN "yes" ELSE kdue
          /\ UNCHANGED <<knode, kstale>>
    /\ UNCHANGED <<dvars, faults, tvars, kp, lost>>

\* A user makes or deletes a Node in the topology's namespace.
NodeEvent ==
    /\ scene # "pool"
    /\ \/ /\ node.st = "absent" /\ ns = "active" /\ marked
          /\ pod = None /\ used = 0
          /\ NodeBecomes("present")
          /\ UNCHANGED used
       \/ /\ node.st = "present" /\ used < MaxEvents /\ used' = used + 1
          /\ NodeBecomes("deleting")
    /\ UNCHANGED <<wanted, pods, dep, faults, tvars, kvars, lost>>

\* The pod starts once its volumes, the copies, are there.
Pod == PodEvent \/ PodGone \/ (PodReady /\ copy # 0)

Next ==
    \/ (Deployer \/ Pod \/ (User /\ scene = "deployer")) /\ UNCHANGED <<tvars, kvars, lost>>
    \/ TopologyController \/ NodePoolController
    \/ NodeGoes \/ NamespaceDrains \/ NamespaceGoes
    \/ TopologyEvent \/ PoolEvent \/ NodeEvent

\* Every controller has its worker, and its requests are repeated.
Spec ==
    /\ Init /\ [][Next]_vars
    /\ WF_vars(TopologyController) /\ WF_vars(NodePoolController)

----------------------------------------------------------------------------
(* Properties *)

\* Types.  A finalizer is on an object that is there.
ITypeOK ==
    /\ DTypeOK
    /\ topo \in Topologies /\ tp \in TPhases /\ knode \in KNodes /\ kp \in KPhases
    /\ ns \in {"absent", "active", "terminating"} /\ {src, copy} \subseteq Data
    /\ pool \in {"absent", "present", "deleting"} /\ kdue \in {"no", "poll", "yes"}
    /\ {default, marked, tdue, tstale, kstale, lost} \subseteq BOOLEAN
    /\ topo.fin => topo.st \in {"present", "deleting"}
    /\ knode.fin => knode.st \in {"present", "deleting"}

TopologyAtRest == tp.at = "idle" /\ ~tdue /\ ns # "terminating"

\* When the topology controller rests, the namespace of the Topology is there, is
\* labelled, and holds the current contents of the driver's ConfigMap, although the
\* ConfigMap may change while it is copied and any call to the API server may fail,
\* halfway through what it applies too.  Excepted is a
\* Topology made again and served while its old namespace terminated (lost): nobody
\* watches namespaces.
TopologyFollows ==
    TopologyAtRest /\ topo.st = "present" /\ ~lost
        => ns = "active" /\ marked /\ copy = src

\* When the topology controller rests without Topology, nothing it copied is left.
NothingLeft ==
    TopologyAtRest /\ topo.st = "absent" => copy = 0 /\ (default \/ ns = "absent")

\* When the node pool controller rests, there is a Node, reported by the deployer,
\* exactly if there is a labelled Kubernetes node with an address and a NodePool,
\* although label, address and NodePool change while the controller reads one after
\* the other.  Excepted is a Node that was applied while it was going (lost): it has
\* no owner reference, so its end is no event.
PoolFollows ==
    knode.st # "never" /\ kp.at = "idle" /\ kdue # "yes" /\ AtRest
    /\ node.st # "deleting" /\ knode.st # "deleting" /\ pool # "deleting" /\ ~lost
        => LET wants == knode.st = "present" /\ knode.label /\ knode.addr /\ pool = "present"
           IN /\ (node.st = "present") <=> wants
              /\ wants => node.cond = (IF prov = "server" THEN "ready" ELSE "provider")

\* A Topology and a Kubernetes node that are deleted go, although their controllers
\* hold them with a finalizer, whose removal is refused when they change.
DeletionEnds ==
    /\ topo.st = "deleting" ~> topo.st # "deleting"
    /\ knode.st = "deleting" ~> knode.st # "deleting"
============================================================================
