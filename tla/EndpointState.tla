--------------------------- MODULE EndpointState ---------------------------
(***************************************************************************)
(* The endpoint state machine of pkg/wirer/state/state.go.  A wire keeps   *)
(* one such state per endpoint, a node endpoint keeps one.  Every handler  *)
(* below maps an event to the state its code passes to Transition, or to   *)
(* Ignored when the handler returns without calling Transition.            *)
(*                                                                         *)
(* `same' is EventCtx.SameHost: the peer endpoint lives on the same host   *)
(* and carries the daemon call for both.                                   *)
(***************************************************************************)

EpStates == {"Deleting", "Deleted", "Failed", "Creating", "Created", "ResolutionFailed"}

\* The worker's answers are separate from what the controller asks for.
Answers  == {"created", "deleted", "failed"}
Requests == {"create", "delete", "resolutionFailed"}
Events   == Answers \cup Requests

WorkerActions == {"create", "delete"}

\* The handler left the object alone: no state change and no status update.
Ignored == "ignored"

----------------------------------------------------------------------------
\* CreateEvent in every state that is not creating or created yet.
CreateOr(same) == IF same THEN "Created" ELSE "Creating"

\* DeleteEvent in the states that have something to delete.
DeleteOr(same) == IF same THEN "Deleted" ELSE "Deleting"

\* Faulty: a late CreatedEvent makes the worker send the delete again.
DeletingResends(ev, same) ==
    CASE ev = "create"           -> CreateOr(same)
      [] ev = "resolutionFailed" -> "ResolutionFailed"
      [] ev = "deleted"          -> "Deleted"
      [] ev = "failed"           -> "Failed"
      [] ev = "created"          -> "Deleting"
      [] OTHER                   -> Ignored

DeletingHandleEvent(ev, same) ==
    CASE ev = "create"           -> CreateOr(same)
      [] ev = "resolutionFailed" -> "ResolutionFailed"
      [] ev = "deleted"          -> "Deleted"
      [] ev = "failed"           -> "Failed"
      [] OTHER                   -> Ignored

DeletedHandleEvent(ev, same) ==
    CASE ev = "create"           -> CreateOr(same)
      [] ev = "resolutionFailed" -> "ResolutionFailed"
      [] OTHER                   -> Ignored

\* Faulty: a failed endpoint is never tried again.
FailedIsFinal(ev, same) ==
    IF ev = "resolutionFailed" THEN "ResolutionFailed" ELSE Ignored

FailedHandleEvent(ev, same) ==
    CASE ev = "create"           -> CreateOr(same)
      [] ev = "delete"           -> DeleteOr(same)
      [] ev = "resolutionFailed" -> "ResolutionFailed"
      [] OTHER                   -> Ignored

\* Faulty: the FailedEvent of the worker is not handled.
CreatingIgnoresFailure(ev, same) ==
    CASE ev = "create" /\ same   -> "Created"
      [] ev = "delete"           -> DeleteOr(same)
      [] ev = "resolutionFailed" -> "ResolutionFailed"
      [] ev = "created"          -> "Created"
      [] OTHER                   -> Ignored

CreatingHandleEvent(ev, same) ==
    CASE ev = "create" /\ same   -> "Created"
      [] ev = "delete"           -> DeleteOr(same)
      [] ev = "resolutionFailed" -> "ResolutionFailed"
      [] ev = "created"          -> "Created"
      [] ev = "failed"           -> "Failed"
      [] OTHER                   -> Ignored

CreatedHandleEvent(ev, same) ==
    CASE ev = "delete"           -> DeleteOr(same)
      [] ev = "resolutionFailed" -> "ResolutionFailed"
      [] OTHER                   -> Ignored

\* SameHost is not consulted for a delete in this state.
ResolutionFailedHandleEvent(ev, same) ==
    CASE ev = "create"           -> CreateOr(same)
      [] ev = "delete"           -> "Deleting"
      [] OTHER                   -> Ignored

\* State.HandleEvent, dispatched on the dynamic type of the state.
Target(s, ev, same) ==
    CASE s = "Deleting" -> DeletingHandleEvent(ev, same)
      [] s = "Deleted"  -> DeletedHandleEvent(ev, same)
      [] s = "Failed"   -> FailedHandleEvent(ev, same)
      [] s = "Creating" -> CreatingHandleEvent(ev, same)
      [] s = "Created"  -> CreatedHandleEvent(ev, same)
      [] OTHER          -> ResolutionFailedHandleEvent(ev, same)

\* The states in which a resolution failure that is not held also sends a
\* DeleteEvent to the additional state (the other endpoint of the wire).
PropagatesFailure(s) == s \in {"Deleting", "Failed", "Creating", "Created"}

\* The worker action a handler generates with a transition: every transition
\* to Creating carries "create", every transition to Deleting "delete".
GeneratedAction(t) ==
    CASE t = "Creating" -> "create"
      [] t = "Deleting" -> "delete"
      [] OTHER          -> Ignored

============================================================================
