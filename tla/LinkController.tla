--------------------------- MODULE LinkController ---------------------------
(***************************************************************************)
(* The Link reconciler of controllers/wire-controller, the client of the   *)
(* wire controller, composed with it.  It polls: WireGet, then a create or *)
(* a delete call, then again a second later until the answer is right.     *)
(***************************************************************************)
EXTENDS WireController

CONSTANT
    LinkOps      \* "delete": the user deletes the Link at any time, "quietDelete":
                 \* once it is Wired and nothing is going on for its wire;
                 \* "ready": the link controller flips the Ready condition

VARIABLES
    link,        \* "present", "deleting" (held by the finalizer) or "gone"
    ready,       \* the Ready condition is not False
    finalizer,   \* the Link carries the wire finalizer
    wiring,      \* the wiring condition last written to the Link
    pending,     \* a reconcile request is queued
    view,        \* the Link as the running Reconcile read it
    seen         \* the reconciler: "idle", the status WireGet returned, "calling"
                 \* while the create or delete call is served, "refused" once
                 \* the create call has answered NOK

linkVars == <<link, ready, finalizer, wiring, pending, view, seen>>
allVars  == <<vars, linkVars>>

Views == {"ready", "notReady", "deleting", "gone"}

LinkTypeOK ==
    /\ TypeOK
    /\ link \in {"present", "deleting", "gone"}
    /\ ready \in BOOLEAN /\ finalizer \in BOOLEAN /\ pending \in BOOLEAN
    /\ wiring \in {"Unknown", "Wiring", "Failed", "Wired"}
    /\ view \in Views
    /\ seen \in {"idle", "NotFound", "OK", "NOK", "calling", "refused"}

LinkInit ==
    /\ Init
    /\ link = "present" /\ ready = TRUE /\ finalizer = FALSE
    /\ wiring = "Unknown" /\ pending = TRUE /\ view = "gone" /\ seen = "idle"

----------------------------------------------------------------------------
\* Faulty: a wire that is not OK is reported as not found.
WireStatusHidden ==
    IF cached # NoWire /\ StatusOK(wires[cached]) THEN "OK" ELSE "NotFound"

\* WireGet
WireStatus ==
    IF cached = NoWire THEN "NotFound" ELSE IF StatusOK(wires[cached]) THEN "OK" ELSE "NOK"

\* What reading the Link returns.
LinkView ==
    IF link = "present" THEN (IF ready THEN "ready" ELSE "notReady") ELSE link

\* The Link changed after it was read: the API server refuses a write of it.
Stale == view # LinkView

\* Writing a changed condition is an update of the Link, which queues it again;
\* a refused write is an error, which queues it again too.
SetCondition(c, requeue) ==
    /\ wiring' = IF Stale THEN wiring ELSE c
    /\ pending' = (pending \/ requeue \/ Stale \/ c # wiring)

\* The first half of Reconcile, up to the answer of WireGet.  A Link that is
\* gone needs nothing; without the topologies of its endpoints there is no
\* request to make, and a failed call is retried.
ReconcileGet ==
    /\ pending /\ seen = "idle"
    /\ view' = LinkView
    /\ \/ /\ link = "gone"
          /\ pending' = FALSE
          /\ UNCHANGED <<seen, wiring, used>>
       \/ /\ link # "gone" /\ topology # "absent"
          /\ seen' = WireStatus
          /\ pending' = FALSE
          /\ UNCHANGED <<wiring, used>>
       \/ /\ link # "gone"
          /\ \/ topology = "absent" /\ UNCHANGED used
             \/ topology # "absent" /\ MayFail("call") /\ Spend("fail")
          /\ wiring' = "Failed"
          /\ UNCHANGED <<seen, pending>>
    /\ UNCHANGED <<link, ready, finalizer, cacheVars, workerVars, wireVars,
                   deployed, todo, asked>>

Got == seen \in {"NotFound", "OK", "NOK"}

\* The Link is to go, or its Ready condition is False: clean up the wiring.
\* WireDelete finds nothing when the wire left the cache after the WireGet.
CallWireDelete ==
    /\ Got /\ seen # "NotFound" /\ view \in {"deleting", "notReady"}
    /\ IF cached = NoWire
       THEN UNCHANGED <<cacheVars, workerVars, wireVars, deployed, todo, asked>>
       ELSE WireDelete
    /\ seen' = "calling"
    /\ UNCHANGED <<link, ready, finalizer, wiring, pending, view, used>>

\* The last step of a deletion: without the finalizer the Link is gone.  A Link
\* that is merely not ready is requeued.
RemoveFinalizer ==
    /\ Got /\ seen = "NotFound" /\ view \in {"deleting", "notReady"}
    /\ finalizer => ~Stale
    /\ finalizer' = FALSE
    /\ link' = IF view = "deleting" THEN "gone" ELSE link
    /\ seen' = "idle"
    /\ IF view = "deleting" THEN UNCHANGED <<wiring, pending>> ELSE SetCondition("Unknown", TRUE)
    /\ UNCHANGED <<ready, view, vars>>

CallWireCreate ==
    /\ Got /\ seen # "OK" /\ view = "ready"
    /\ finalizer \/ ~Stale
    /\ WireUpSert
    /\ finalizer' = TRUE
    /\ seen' = "calling"
    /\ UNCHANGED <<link, ready, wiring, pending, view, used>>

Wired ==
    /\ Got /\ seen = "OK" /\ view = "ready"
    /\ finalizer \/ ~Stale
    /\ finalizer' = TRUE
    /\ seen' = "idle"
    /\ SetCondition("Wired", FALSE)
    /\ UNCHANGED <<link, ready, view, vars>>

\* Adding or removing the finalizer on a stale Link is refused and retried.
FinalizerRefused ==
    /\ Got /\ Stale
    /\ \/ view = "ready" /\ ~finalizer
       \/ view \in {"deleting", "notReady"} /\ seen = "NotFound" /\ finalizer
    /\ seen' = "idle" /\ pending' = TRUE
    /\ UNCHANGED <<link, ready, finalizer, wiring, view, vars>>

\* The create or delete call fails before it is served.
CallFails ==
    /\ Got /\ MayFail("call") /\ Spend("fail")
    /\ \/ view \in {"deleting", "notReady"} /\ seen # "NotFound" /\ UNCHANGED finalizer
       \/ view = "ready" /\ seen # "OK" /\ (finalizer \/ ~Stale) /\ finalizer' = TRUE
    /\ SetCondition("Failed", TRUE)
    /\ seen' = "idle"
    /\ UNCHANGED <<link, ready, view, cacheVars, workerVars, wireVars, deployed, todo, asked>>

\* The call returned; the Link is looked at again after a second.  A create that
\* is under way sets the condition without writing it.
CallReturns ==
    /\ seen \in {"calling", "refused"} /\ todo[Api] = <<>>
    /\ IF view = "ready" /\ seen = "calling"
       THEN pending' = TRUE /\ UNCHANGED wiring
       ELSE SetCondition(IF seen = "refused" THEN "Failed"
                         ELSE IF view = "deleting" THEN "Unknown" ELSE "Wiring", TRUE)
    /\ seen' = "idle"
    /\ UNCHANGED <<link, ready, finalizer, view, vars>>

\* The rest of the system goes on beside the reconciler, which only learns of
\* the claim that WireUpSert could not get.
Beside ==
    /\ seen' = IF At(Api, "claim") /\ todo'[Api] = <<>> THEN "refused" ELSE seen
    /\ UNCHANGED <<link, ready, finalizer, wiring, pending, view>>

----------------------------------------------------------------------------
(* The user and the link controller *)
DeleteLink ==
    /\ link = "present"
    /\ \/ "delete" \in LinkOps /\ used["env"] < MaxEnv /\ Spend("env")
       \/ /\ "quietDelete" \in LinkOps /\ Quiet /\ seen = "idle" /\ wiring = "Wired"
          /\ UNCHANGED used
    /\ link' = IF finalizer THEN "deleting" ELSE "gone"
    /\ pending' = TRUE
    /\ UNCHANGED <<ready, finalizer, wiring, view, seen, cacheVars, workerVars, wireVars,
                   deployed, todo, asked>>

FlipReady ==
    /\ link = "present" /\ "ready" \in LinkOps
    /\ used["env"] < MaxEnv /\ Spend("env")
    /\ ready' = ~ready
    /\ pending' = TRUE
    /\ UNCHANGED <<link, finalizer, wiring, view, seen, cacheVars, workerVars, wireVars,
                   deployed, todo, asked>>

ReconcileStep ==
    \/ ReconcileGet \/ CallWireDelete \/ RemoveFinalizer \/ CallWireCreate
    \/ Wired \/ FinalizerRefused \/ CallFails \/ CallReturns

LinkNext ==
    \/ ReconcileStep
    \/ (System \/ Environment) /\ Beside
    \/ DeleteLink
    \/ FlipReady

\* The reconciler's work queue is served, goroutines are scheduled and daemon
\* calls return.
LinkSpec ==
    /\ LinkInit /\ [][LinkNext]_allVars
    /\ WF_allVars(ReconcileStep)
    /\ \A p \in Procs : WF_allVars(Step(p) /\ Beside)
    /\ \A k \in Workers : WF_allVars(WorkerTurn(k) /\ Beside)
    /\ WF_allVars(CallbackDone /\ Beside)

----------------------------------------------------------------------------
(* Properties *)

Resolvable == \A e \in Ep : resolveEndpoint(e) # NoHost

\* Nothing changed while the reconciler or the wire controller was at work.
Calm == used["env"] = 0

\* Both endpoints are on one host, so the answers of one worker decide.  With two
\* hosts the answers race, and the deletion goes wrong (DeletedLinkGoes).
Colocated == pod[0] = pod[1]

\* A Link that nobody touches, over endpoints that resolve, ends up Wired for good
\* with the wire on the daemons of both endpoints, however often the daemon calls,
\* the VXLAN claim or WireGet fail in between.
ReadyLinkIsWired ==
    <>[](link = "present" /\ Calm /\ Resolvable) =>
        <>[](wiring = "Wired" /\ WireStatus = "OK" /\ {pod[e] : e \in Ep \ Remote} \subseteq deployed)

\* A Link marked for deletion loses its finalizer eventually.
DeletedLinkGoes == (link = "deleting") ~> (link = "gone")

\* A Link over one host that is deleted at rest goes, however calls fail: the delete
\* is repeated until WireGet finds nothing.
ColocatedLinkGoes == (link = "deleting" /\ Calm /\ Colocated) ~> (link = "gone" \/ ~Calm)

\* When the reconciler reports "wire destroyed" and lets such a Link go, no daemon
\* carries the wire and no VXLAN id is left behind: nobody would ever free it.
DestroyedIsUndeployed == link = "gone" /\ Calm /\ Colocated => deployed = {} /\ ~claimed

\* A cached wire over one host is held by the finalizer of its Link, whenever the
\* Link changes or is deleted and whatever answers arrive late: without the
\* finalizer the Link can go, and nobody deletes the wire.
HeldByFinalizer == cached # NoWire /\ Colocated => finalizer

============================================================================
