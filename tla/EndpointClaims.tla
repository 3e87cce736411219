--------------------------- MODULE EndpointClaims ---------------------------
(***************************************************************************)
(* Who owns an endpoint.  Links claim their two endpoints through the      *)
(* inter-cluster link controller (controllers/link-controller2) with       *)
(* pkg/endpoint and pkg/lease; a LogicalInterconnect selects and claims    *)
(* endpoints through its own controller.  Both write the claim into the    *)
(* status of the Endpoint resource, from a cached copy of it.              *)
(*                                                                         *)
(* Each controller is one process that reconciles one resource at a time.  *)
(* A cached copy carries the resource version it was read at: what the     *)
(* model keeps of versions is the set of copies that are still the stored  *)
(* version, and an update from any other copy is a conflict.               *)
(***************************************************************************)
EXTENDS Integers, Sequences, SequencesExt, FiniteSets, FiniteSetsExt

CONSTANTS
    Links, LI,     \* the Links, and the LogicalInterconnect
    Endpoints,
    ClusterOf,     \* the cluster whose API server stores an endpoint, by its topology
    Home,          \* the cluster the interconnect controller runs in
    Req,           \* the two endpoints of each Link
    Sides,         \* the sides of the interconnect: candidates by topology, node diversity
    LinkCount,     \* its number of links
    NodeOf,        \* the node an endpoint is on
    None,          \* no owner, no node
    Missing,       \* an endpoint that is not in a cache
    MaxFaults      \* bound: failing calls, deletions, repeated reconciles and restarts

Owners == Links \cup {LI}
Procs == {"links", "interconnects"}
Copies == Procs \cup {"selection"}
Clusters == {ClusterOf[e] : e \in Endpoints}

ASSUME ClaimsAssumption ==
    /\ LI \notin Links /\ None \notin Owners /\ Missing \notin Owners \cup {None}
    /\ Req \in [Links -> Endpoints \X Endpoints] /\ Home \in Clusters
    /\ LinkCount \in Nat \ {0} /\ MaxFaults \in Nat

VARIABLES
    claim,    \* status.claimRef of each Endpoint
    cache,    \* the copies each process has of the claims
    synced,   \* the cached copies that are the stored version
    view,     \* the copies a release works on
    current,  \* the copies of a release, and of a selection, that are the stored version
    lease,    \* the holder of the lease of each cluster
    pc,       \* the reconcile each process runs
    queue,    \* the resources to be reconciled
    phase,    \* "new" (without finalizer), "live", "deleting" or "gone"
    ready,    \* the resources whose condition is Ready
    applied,  \* the endpoints of the Links the interconnect has created that are there
    missed,   \* history: released from a cache that was behind
    spent

vars == <<claim, cache, synced, view, current, lease, pc, queue, phase, ready, applied, missed, spent>>
apiVars == <<claim, synced, current, queue>>
ownVars == <<phase, ready, applied, missed>>

Idle == [at |-> "idle"]
Picks == UNION {[1 .. n -> Endpoints] : n \in 0 .. 2 * LinkCount}
Steps ==
    [at : {"idle"}] \cup
    [at : {"lease"}, o : Owners, left : UNION {[1 .. n -> Clusters] : n \in 1 .. 2}] \cup
    [at : {"select", "unapply", "undo", "finish"}, o : Owners] \cup
    [at : {"claim", "drop"}, o : Owners, left : Picks, all : Picks] \cup
    [at : {"report"}, o : Owners, result : {"Ready", "Failed", "same"}]

ClaimsTypeOK ==
    /\ claim \in [Endpoints -> Owners \cup {None}]
    /\ cache \in [Procs -> [Endpoints -> Owners \cup {None, Missing}]]
    /\ view \in [Procs -> [Endpoints -> Owners \cup {None, Missing}]]
    /\ synced \in [Procs -> SUBSET Endpoints] /\ current \in [Copies -> SUBSET Endpoints]
    /\ lease \in [Clusters -> Owners \cup {None}]
    /\ pc \in [Procs -> Steps]
    /\ queue \subseteq Owners /\ ready \subseteq Owners /\ missed \subseteq Owners
    /\ phase \in [Owners -> {"new", "live", "deleting", "gone"}]
    /\ applied \subseteq Endpoints
    /\ spent \in 0 .. MaxFaults

\* A process has copies of every endpoint; those that matter are the ones its
\* resources can claim.
Known(p) ==
    IF p = "links" THEN UNION {Range(Req[l]) : l \in Links}
    ELSE UNION {UNION {Range(t) : t \in Range(s.topologies)} : s \in Range(Sides)}

NoCopy == [e \in Endpoints |-> Missing]

ClaimsInit ==
    /\ claim = [e \in Endpoints |-> None]
    /\ cache = [p \in Procs |-> [e \in Endpoints |-> IF e \in Known(p) THEN None ELSE Missing]]
    /\ synced = [p \in Procs |-> Known(p)]
    /\ view = [p \in Procs |-> NoCopy] /\ current = [c \in Copies |-> {}]
    /\ lease = [c \in Clusters |-> None]
    /\ pc = [p \in Procs |-> Idle] /\ queue = Owners
    /\ phase = [o \in Owners |-> "new"] /\ ready = {}
    /\ applied = {} /\ missed = {}
    /\ spent = 0

Goto(p, s) == pc' = [pc EXCEPT ![p] = s]
Report(p, o, r) == Goto(p, [at |-> "report", o |-> o, result |-> r])
Fault == spent < MaxFaults /\ spent' = spent + 1
\* A call ends with an error for a reason the model has, or for any other.
Errs(reason) == (reason /\ UNCHANGED spent) \/ Fault
ProcOf(o) == IF o = LI THEN "interconnects" ELSE "links"

----------------------------------------------------------------------------
(* The API servers and the caches *)

\* The event handler of the interconnect controller: an endpoint it has claimed,
\* or any other one while it is not Ready.  That of the link controller is not
\* registered.
Watched(old, new) == LI \in {old, new} \/ (phase[LI] \in {"new", "live"} /\ LI \notin ready)

\* External: a status update makes every copy of the endpoint an old one, unless
\* it changes nothing.
Update(e, o) ==
    /\ claim' = [claim EXCEPT ![e] = o]
    /\ synced' = [p \in Procs |-> IF claim[e] = o THEN synced[p] ELSE synced[p] \ {e}]
    /\ current' = [c \in Copies |-> IF claim[e] = o THEN current[c] ELSE current[c] \ {e}]
    /\ queue' = IF claim[e] # o /\ Watched(claim[e], o) THEN queue \cup {LI} ELSE queue

\* A release writes a claim reference of nil.
NilRef == None

\* External: an update from a copy that is not the stored version is refused.
Conflicts(e, copies) == e \notin copies

\* Faulty: an endpoint is cached when it is first seen.
CacheEndpointsOnce(p) ==
    /\ synced[p] # Known(p) /\ \E e \in Known(p) : cache[p][e] = Missing
    /\ cache' = [cache EXCEPT ![p] = [e \in Endpoints |-> IF e \in Known(p) THEN claim[e] ELSE Missing]]
    /\ synced' = [synced EXCEPT ![p] = Known(p)]
    /\ UNCHANGED <<claim, view, current, lease, pc, queue, ownVars, spent>>

\* The endpoint cache controller upserts the endpoints it is told of; a cache
\* catches up with all changes or is behind.
CacheEndpoints(p) ==
    /\ synced[p] # Known(p)
    /\ cache' = [cache EXCEPT ![p] = [e \in Endpoints |-> IF e \in Known(p) THEN claim[e] ELSE Missing]]
    /\ synced' = [synced EXCEPT ![p] = Known(p)]
    /\ UNCHANGED <<claim, view, current, lease, pc, queue, ownVars, spent>>

\* GetClaimed: the copies a release works on are those of the cache.
GetClaimed(p) ==
    /\ view' = [view EXCEPT ![p] = cache[p]]
    /\ current' = [current EXCEPT ![p] = synced[p]]

\* The copies go with the reconcile that took them.
DropCopies(p) ==
    /\ view' = [view EXCEPT ![p] = NoCopy]
    /\ current' = [c \in Copies |-> IF c = p \/ (p = "interconnects" /\ c = "selection")
                                   THEN {} ELSE current[c]]

----------------------------------------------------------------------------
(* The lease: one "endpoint" lease in every cluster *)

\* A Link needs the lease for every endpoint, since its topology may belong to
\* another cluster; the interconnect that of its own cluster.
LeasesOf(o) == IF o = LI THEN <<Home>> ELSE <<ClusterOf[Req[o][1]], ClusterOf[Req[o][2]]>>

\* AcquireLease for the next cluster: an absent lease is created.  One that
\* another owner holds is refused (or, when it was taken between the read and
\* the update, the update is), unless the second since its renewal is over.
AcquireLease(p) ==
    /\ pc[p].at = "lease"
    /\ LET o == pc[p].o  c == Head(pc[p].left) IN
       \/ /\ lease' = [lease EXCEPT ![c] = o]
          /\ Goto(p, IF Len(pc[p].left) > 1 THEN [pc[p] EXCEPT !.left = Tail(@)]
                     ELSE IF o = LI THEN [at |-> "select", o |-> o]
                     ELSE [at |-> "claim", o |-> o, left |-> Req[o], all |-> Req[o]])
          /\ UNCHANGED spent
       \/ /\ Errs(lease[c] \notin {None, o})
          /\ Report(p, o, "Failed") /\ UNCHANGED lease
    /\ UNCHANGED <<apiVars, cache, view, ownVars>>

----------------------------------------------------------------------------
(* Both reconcilers *)

\* Both Reconcile functions as far as the lease: a resource that goes releases its claims
\* first; any other gets the finalizer.  GetClaimedEndpoints, which the interconnect
\* controller calls before anything else, and AddFinalizer may fail.
StartReconcile(o) ==
    LET p == ProcOf(o) IN
    /\ o \in queue /\ pc[p] = Idle
    /\ queue' = queue \ {o}
    /\ \/ /\ phase[o] = "gone" /\ UNCHANGED <<pc, phase, missed, view, current, spent>>
       \/ /\ phase[o] = "deleting" /\ GetClaimed(p) /\ Goto(p, [at |-> "finish", o |-> o])
          /\ missed' = IF \E e \in Endpoints : claim[e] = o /\ cache[p][e] # o
                       THEN missed \cup {o} ELSE missed
          /\ UNCHANGED <<phase, spent>>
       \/ /\ phase[o] \in {"new", "live"} /\ phase' = [phase EXCEPT ![o] = "live"]
          /\ IF o = LI THEN GetClaimed(p) ELSE UNCHANGED <<view, current>>
          /\ Goto(p, [at |-> "lease", o |-> o, left |-> LeasesOf(o)])
          /\ UNCHANGED <<missed, spent>>
       \/ /\ phase[o] = "new" \/ (o = LI /\ phase[o] # "gone")
          /\ Fault /\ Report(p, o, "Failed") /\ UNCHANGED <<phase, missed, view, current>>
    /\ UNCHANGED <<claim, cache, synced, lease, ready, applied>>

\* The link controller leaves the Links of interconnects alone: they are not in
\* Links.
ReconcileLink(l) == StartReconcile(l)

\* The interconnect controller lists its claims before anything else.
ReconcileInterconnect == StartReconcile(LI)

\* The reconcile failed: what the interconnect created goes (APIDelete), then the
\* claims: the link controller lists them again, the interconnect controller
\* has the list of before.
Abort(p) ==
    /\ Goto(p, [at |-> IF p = "links" THEN "undo" ELSE "unapply", o |-> pc[p].o])
    /\ IF p = "links" THEN GetClaimed(p) ELSE UNCHANGED <<view, current>>

\* APIDelete: the Links of the interconnect go, or some do before an error; then
\* the condition stays as it is and the claims stay too.
APIDelete(p) ==
    /\ pc[p].at = "unapply"
    /\ \/ /\ applied' = {} /\ Goto(p, [at |-> "undo", o |-> pc[p].o]) /\ UNCHANGED spent
       \/ /\ Fault /\ applied' \in SUBSET applied
          /\ Report(p, pc[p].o, "same")
    /\ UNCHANGED <<apiVars, cache, view, lease, phase, ready, missed>>

\* A release that fails leaves the interconnect's condition as it is.
ReleaseFails(p) ==
    Report(p, pc[p].o, IF p = "interconnects" /\ pc[p].at = "undo" THEN "same" ELSE "Failed")

\* One turn of a loop that releases the claims the copies show, all or those
\* that are not wanted any more.
Release(p, e) ==
    /\ pc[p].at \in {"undo", "finish", "drop"} /\ view[p][e] = pc[p].o
    /\ pc[p].at = "drop" => e \notin Range(pc[p].all)
    /\ \/ /\ ~Conflicts(e, current[p]) /\ Update(e, NilRef)
          /\ view' = [view EXCEPT ![p][e] = None]
          /\ UNCHANGED <<pc, spent>>
       \/ /\ Errs(Conflicts(e, current[p]))
          /\ UNCHANGED <<claim, synced, queue>>
          /\ IF pc[p].at = "drop" THEN Abort(p)
             ELSE ReleaseFails(p) /\ UNCHANGED <<view, current>>
    /\ UNCHANGED <<cache, lease, ownVars>>

Released(p) ==
    \A e \in Endpoints : view[p][e] = pc[p].o => pc[p].at = "drop" /\ e \in Range(pc[p].all)

\* Faulty: the finalizer goes at the first turn of the loop.
ReleaseDoneEarly(p) ==
    /\ pc[p].at \in {"undo", "finish"}
    /\ \/ pc[p].at = "undo" /\ Report(p, pc[p].o, "Failed") /\ UNCHANGED <<phase, ready, spent>>
       \/ /\ pc[p].at = "finish" /\ Goto(p, Idle) /\ phase' = [phase EXCEPT ![pc[p].o] = "gone"]
          /\ ready' = ready \ {pc[p].o} /\ UNCHANGED spent
       \/ /\ pc[p].at = "finish" /\ Fault /\ Report(p, pc[p].o, "Failed")
          /\ UNCHANGED <<phase, ready>>
    /\ DropCopies(p)
    /\ UNCHANGED <<claim, synced, queue, cache, lease, applied, missed>>

\* Every claim is released: the failure is reported, or the finalizer removed, which
\* may fail.  The Links of an interconnect that is gone are still there.
ReleaseDone(p) ==
    /\ pc[p].at \in {"undo", "finish"} /\ Released(p)
    /\ \/ pc[p].at = "undo" /\ Report(p, pc[p].o, "Failed") /\ UNCHANGED <<phase, ready, spent>>
       \/ /\ pc[p].at = "finish" /\ Goto(p, Idle) /\ phase' = [phase EXCEPT ![pc[p].o] = "gone"]
          /\ ready' = ready \ {pc[p].o} /\ UNCHANGED spent
       \/ /\ pc[p].at = "finish" /\ Fault /\ Report(p, pc[p].o, "Failed")
          /\ UNCHANGED <<phase, ready>>
    /\ DropCopies(p)
    /\ UNCHANGED <<claim, synced, queue, cache, lease, applied, missed>>

\* The condition is written, of a resource that is still there; a failed reconcile and
\* a failed write are retried.
UpdateStatus(p) ==
    /\ pc[p].at = "report"
    /\ Goto(p, Idle) /\ DropCopies(p)
    /\ LET o == pc[p].o  r == pc[p].result IN
       \/ /\ phase[o] # "gone"
          /\ ready' = IF r = "Ready" THEN ready \cup {o}
                      ELSE IF r = "Failed" THEN ready \ {o} ELSE ready
          /\ queue' = IF r = "Ready" THEN queue ELSE queue \cup {o}
          /\ UNCHANGED spent
       \/ Errs(phase[o] = "gone") /\ queue' = queue \cup {o} /\ UNCHANGED ready
    /\ UNCHANGED <<claim, cache, synced, lease, phase, applied, missed>>

----------------------------------------------------------------------------
(* The link controller *)

\* Faulty: an endpoint whose update is refused counts as claimed.
ClaimOneAnyway ==
    LET p == "links"  o == pc[p].o  e == Head(pc[p].left) IN
    /\ pc[p].at = "claim" /\ pc[p].left # <<>>
    /\ IF cache[p][e] \in {None, o}
       THEN /\ IF Conflicts(e, synced[p]) THEN UNCHANGED apiVars ELSE Update(e, o)
            /\ Goto(p, [pc[p] EXCEPT !.left = Tail(@)])
            /\ UNCHANGED view
       ELSE Abort(p) /\ UNCHANGED <<claim, synced, queue>>
    /\ UNCHANGED <<cache, lease, ownVars, spent>>

\* GetEndpoint: the copy of the cache, if it is there.
GetEndpoint(e) == cache["links"][e]

\* Faulty: IsAllocated is not asked.
FitsUnasked(e, o) == GetEndpoint(e) # Missing /\ ~Conflicts(e, synced["links"])

\* The copy is there, IsAllocated says that no other resource has the endpoint,
\* and the update of the status goes through.
Fits(e, o) == GetEndpoint(e) \in {None, o} /\ ~Conflicts(e, synced["links"])

\* The loops of Claim take each copy from the cache.  An endpoint that is not
\* there, that another resource has, or whose copy is old, ends the reconcile.
ClaimOne ==
    LET p == "links"  o == pc[p].o  e == Head(pc[p].left) IN
    /\ pc[p].at = "claim" /\ pc[p].left # <<>>
    /\ \/ /\ Fits(e, o) /\ Update(e, o)
          /\ Goto(p, [pc[p] EXCEPT !.left = Tail(@)])
          /\ UNCHANGED <<view, spent>>
       \/ /\ Errs(~Fits(e, o))
          /\ Abort(p) /\ UNCHANGED <<claim, synced, queue>>
    /\ UNCHANGED <<cache, lease, ownVars>>

\* "delete claims no longer needed" works on a list taken after the claims.
ClaimsDone ==
    LET p == "links" IN
    /\ pc[p].at = "claim" /\ pc[p].left = <<>>
    /\ GetClaimed(p) /\ Goto(p, [pc[p] EXCEPT !.at = "drop"])
    /\ UNCHANGED <<claim, cache, synced, queue, lease, ownVars, spent>>

LinkReady ==
    LET p == "links" IN
    /\ pc[p].at = "drop" /\ Released(p)
    /\ Report(p, pc[p].o, "Ready")
    /\ UNCHANGED <<apiVars, cache, view, lease, ownVars, spent>>

----------------------------------------------------------------------------
(* The interconnect controller *)

\* External: IsNodeDiverse.
IsNodeDiverse(e, n, nodes) == \A i \in DOMAIN nodes : i # n => nodes[i] # NodeOf[e]

\* The endpoint for link k of a side: the first candidate that fits is taken from
\* the list.  The links take the topologies in turn; with one topology they
\* alternate between two nodes.  The node of an endpoint that the interconnect
\* has already is not noted.
SelectOne(status, st, k, side) ==
    LET t == (k % Len(side.topologies)) + 1
        single == Len(side.topologies) = 1
        n == IF single THEN (k % 2) + 1 ELSE 1
        node == st.nodes[t][n]
        fits(e) ==
            \/ status[e] = "mine"
            \/ /\ status[e] = "free"
               /\ IF node # None THEN NodeOf[e] = node
                  ELSE single /\ side.diverse => IsNodeDiverse(e, n, st.nodes[t])
        hits == {i \in DOMAIN st.left[t] : fits(st.left[t][i])}
        i == Min(hits)
        e == st.left[t][i]
    IN IF ~st.ok \/ hits = {} THEN [st EXCEPT !.ok = FALSE]
       ELSE [st EXCEPT !.left[t] = RemoveAt(@, i),
                       !.picked = Append(@, e),
                       !.nodes[t][n] = IF status[e] = "mine" \/ node # None THEN node ELSE NodeOf[e]]

\* A side starts with all its candidates and no node; the result is kept.
NewSelector(result, side) ==
    [ok |-> result.ok, picked |-> result.picked, left |-> side.topologies,
     nodes |-> [t \in DOMAIN side.topologies |-> <<None, None>>]]

\* selectEndpoints: side by side, link by link.
SelectEndpoints(status) ==
    FoldLeft(LAMBDA acc, side :
                 LET st == FoldLeft(LAMBDA s, k : SelectOne(status, s, k - 1, side),
                                    NewSelector(acc, side), [k \in 1 .. LinkCount |-> k])
                 IN [ok |-> st.ok, picked |-> st.picked],
             [ok |-> TRUE, picked |-> <<>>], Sides)

\* The selection for every inventory: an endpoint is free, claimed by the
\* interconnect (WasAllocated) or by another resource (IsAllocated).
Selections ==
    {[status |-> st, result |-> SelectEndpoints(st)] :
        st \in [Known("interconnects") -> {"free", "mine", "taken"}]}

\* What IsAllocated keeps out of a selection, for every inventory; the selection is a
\* fold over the candidates, so that this is evaluated for the candidates at hand.
ASSUME SelectionAssumption ==
    /\ Known("interconnects") \subseteq Endpoints
    /\ \A s \in Selections : s.result.ok =>
        /\ s.result.picked \in Seq(Known("interconnects"))
        /\ \A k \in DOMAIN s.result.picked : s.status[s.result.picked[k]] # "taken"

Inventory == [e \in Known("interconnects") |->
    CASE cache["interconnects"][e] = LI -> "mine"
      [] cache["interconnects"][e] = None -> "free"
      [] OTHER -> "taken"]

\* populateResources up to the claims: the endpoints are listed and selected.
Select ==
    LET p == "interconnects" IN
    /\ pc[p].at = "select"
    /\ \E s \in Selections : s.status = Inventory /\ LET sel == s.result IN
       \/ /\ sel.ok
          /\ Goto(p, [at |-> "drop", o |-> LI, left |-> sel.picked, all |-> sel.picked])
          /\ current' = [current EXCEPT !["selection"] = synced[p]]
          /\ UNCHANGED <<view, spent>>
       \/ Errs(~sel.ok) /\ Abort(p)
    /\ UNCHANGED <<claim, cache, synced, queue, lease, ownVars>>

\* The claims that are not selected any more are gone; the selected ones follow.
ClaimSelected ==
    LET p == "interconnects"  e == Head(pc[p].left) IN
    /\ pc[p].at = "drop" /\ Released(p) /\ pc[p].left # <<>>
    /\ \/ /\ ~Conflicts(e, current["selection"]) /\ Update(e, LI)
          /\ Goto(p, [pc[p] EXCEPT !.left = Tail(@)])
          /\ UNCHANGED <<view, spent>>
       \/ /\ Errs(Conflicts(e, current["selection"]))
          /\ Abort(p) /\ UNCHANGED <<claim, synced, queue>>
    /\ UNCHANGED <<cache, lease, ownVars>>

\* APIApply: the Links of the selection exist and those of an earlier one do not, or
\* an error comes somewhere on the way.
APIApply ==
    LET p == "interconnects" IN
    /\ pc[p].at = "drop" /\ Released(p) /\ pc[p].left = <<>>
    /\ \/ /\ applied' = Range(pc[p].all) /\ Report(p, LI, "Ready")
          /\ UNCHANGED <<view, current, spent>>
       \/ /\ Fault /\ Abort(p)
          /\ applied' \in SUBSET (applied \cup Range(pc[p].all))
    /\ UNCHANGED <<claim, cache, synced, queue, lease, phase, ready, missed>>

----------------------------------------------------------------------------
(* The world around them *)

\* A resource is deleted or reconciled again; without the finalizer it
\* is gone at once.
Change(o) ==
    /\ Fault /\ queue' = queue \cup {o}
    /\ \E next \in CASE phase[o] = "new" -> {"gone"}
                     [] phase[o] = "live" -> {"live", "deleting"}
                     [] OTHER -> {} :
        phase' = [phase EXCEPT ![o] = next]
    /\ UNCHANGED <<claim, cache, synced, view, current, lease, pc, ready, applied, missed>>

\* External: the Links of an interconnect that is gone are garbage, and are collected
\* one after the other.
CollectLinks ==
    /\ phase[LI] = "gone" /\ applied # {}
    /\ applied' \in SUBSET applied \ {applied}
    /\ UNCHANGED <<apiVars, cache, view, lease, pc, phase, ready, missed, spent>>

\* A controller restarts: it lists every resource of its kind again.
Restart(p) ==
    /\ Fault
    /\ pc' = [pc EXCEPT ![p] = Idle]
    /\ cache' = [cache EXCEPT ![p] = NoCopy] /\ synced' = [synced EXCEPT ![p] = {}]
    /\ DropCopies(p)
    /\ queue' = queue \cup {o \in Owners : ProcOf(o) = p /\ phase[o] \in {"new", "live", "deleting"}}
    /\ UNCHANGED <<claim, lease, ownVars>>

Step(p) ==
    \/ AcquireLease(p) \/ APIDelete(p) \/ ReleaseDone(p) \/ UpdateStatus(p)
    \/ \E e \in Endpoints : Release(p, e)
    \/ p = "links" /\ (ClaimOne \/ ClaimsDone \/ LinkReady)
    \/ p = "interconnects" /\ (Select \/ ClaimSelected \/ APIApply)

ClaimsNext ==
    \/ ReconcileInterconnect \/ \E l \in Links : ReconcileLink(l)
    \/ \E o \in Owners : Change(o)
    \/ CollectLinks
    \/ \E p \in Procs : Step(p) \/ CacheEndpoints(p) \/ Restart(p)

\* Processes run, caches follow, and the work queues are served.
ClaimsSpec ==
    /\ ClaimsInit /\ [][ClaimsNext]_vars
    /\ \A p \in Procs : WF_vars(Step(p)) /\ WF_vars(CacheEndpoints(p))
    /\ WF_vars(ReconcileInterconnect) /\ WF_vars(\E l \in Links : ReconcileLink(l))

----------------------------------------------------------------------------
(* Properties *)

\* What wires may be built on: the endpoints of a Ready Link, and those of the
\* Links the interconnect has created.
Uses(o) == IF o = LI THEN applied ELSE IF o \in ready THEN Range(Req[o]) ELSE {}

\* A claim is never overwritten, and never released but by the controller that
\* reconciles its owner: the claims and releases of DeleteClaim and Claim work
\* on copies that may be old.
OwnerKeepsClaim == [][\A e \in Endpoints : LET o == claim[e] IN
    o # None /\ claim'[e] # o =>
        claim'[e] = None /\ pc[ProcOf(o)] # Idle /\ pc[ProcOf(o)].o = o]_vars

\* A resource that is there and whose reconcile is over and not to be retried has
\* claimed all it uses, and so no two of them use one endpoint, whatever failed on the
\* way.  The Links of an interconnect that is gone use theirs until they are
\* collected, claimed or not.
UsedIsClaimed == \A o \in Owners :
    phase[o] # "gone" /\ o \notin queue /\ (pc[ProcOf(o)] # Idle => pc[ProcOf(o)].o # o) =>
        \A e \in Uses(o) : claim[e] = o

\* The finalizer goes after the claims: a resource that is gone has none, unless
\* it was released from a cache that had not seen its claim yet.
GoneHasNoClaim == \A o \in Owners :
    phase[o] = "gone" /\ o \notin missed => \A e \in Endpoints : claim[e] # o

\* A Link whose endpoints and leases stay free for it becomes Ready: half-done
\* claims, old copies and failing calls all end in a retry.
BecomesReady(l) ==
    <>[](phase[l] = "live" /\ \A e \in Range(Req[l]) :
            claim[e] \in {None, l} /\ lease[ClusterOf[e]] \in {None, l})
        => <>(l \in ready)

============================================================================
