------------------------- MODULE NodeEndpointProofs -------------------------
(***************************************************************************)
(* Theorems about NodeEndpoint, for any interfaces, any number of workers  *)
(* and any environment and failures.                                       *)
(*                                                                         *)
(* The reconciler may stop only when there is nothing left to do.  That is *)
(* decided over several steps, so the inductive invariant says what the    *)
(* running reconcile still has to do when no other one is due.             *)
(*                                                                         *)
(* What is reported is there: a second invariant (DeployInv) follows the   *)
(* good news from the daemon's answer through the event, the node          *)
(* endpoint, the poll and the apply to the Node, and says that it is       *)
(* nowhere on that way before the interfaces exist.                        *)
(***************************************************************************)
EXTENDS NodeEndpoint, SequenceTheorems, TLAPS

\* The calls that goroutines other than the reconciler make.
Shared ==
    [op : {"create"}, origin : {"api", "callback"}] \cup
    [op : {"resolve"}, success : BOOLEAN] \cup
    [op : {"event"}, ev : Events] \cup
    [op : {"list"}, act : {"upsert", "delete"}] \cup
    [op : {"uncache"}] \cup
    [op : {"store"}, o : Objects, drop : BOOLEAN]

Get == [op |-> "get"]
Apply == [op |-> "apply"]
Finish == Update("ready", FALSE)
Again == Update("failed", TRUE)

\* Only the reconciler has calls of its own.
SharedInv == \A p \in Procs : p # Rec => todo[p] \in Seq(Shared)

\* The Node is deployed and its model is known.
Wanted == node.st = "present" /\ node.ready /\ model

\* With no reconcile due, the running one has read the node endpoint's state and
\* nothing that it read has changed without a word.
RecInv ==
    ~due =>
        /\ todo[Rec] \in {<<>>, <<Get>>, <<Apply>>, <<Finish>>, <<Again>>}
        /\ Wanted /\ todo[Rec] = <<>> => node.ep = "ready" /\ node.eps
        /\ Wanted /\ todo[Rec] = <<Finish>> /\ ~stale => node.eps

IInv == NTypeOK /\ SharedInv /\ RecInv

----------------------------------------------------------------------------
(* Calls and goroutines *)

LEMMA SharedJobs ==
    /\ Shared \subseteq Jobs
    /\ Get \in Jobs /\ Apply \in Jobs /\ Finish \in Jobs /\ Again \in Jobs
    /\ [op |-> "upsert"] \in Jobs /\ [op |-> "delete"] \in Jobs
    /\ Update("unknown", TRUE) \in Jobs
    /\ Get.op = "get" /\ Apply.op = "apply" /\ Finish.op = "update" /\ Again.op = "update"
    /\ Finish.ep = "ready" /\ Finish.again = FALSE /\ Again.again = TRUE
    /\ \A ev \in Events : Event(ev) \in Shared
  BY DEF Shared, Jobs, Get, Apply, Finish, Again, Update, Event

LEMMA ProcFacts ==
    /\ Rec \in Procs /\ PodCB \in Procs /\ DaemonCB \in Procs /\ HostCB \in Procs
    /\ PodCB # Rec /\ DaemonCB # Rec /\ HostCB # Rec
    /\ \A k \in Workers : Goroutine(k) \in Procs /\ Goroutine(k) # Rec
  BY DEF Procs, Rec, PodCB, DaemonCB, HostCB, Goroutine

LEMMA TargetType ==
    ASSUME NEW s \in EpStates, NEW ev, NEW same
    PROVE  Target(s, ev, same) \in EpStates \cup {Ignored}
  BY DEF Target, EpStates, DeletingHandleEvent, DeletedHandleEvent, FailedHandleEvent,
         CreatingHandleEvent, CreatedHandleEvent, ResolutionFailedHandleEvent, CreateOr, DeleteOr

\* The heads that tell the calls of a reconcile apart.
LEMMA Singles ==
    /\ \A j : Head(<<j>>) = j /\ Tail(<<j>>) = <<>> /\ <<j>> # <<>>
    /\ <<Get>> # <<Finish>> /\ <<Apply>> # <<Finish>> /\ <<Again>> # <<Finish>>
    /\ \A t \in {<<Get>>, <<Apply>>, <<Finish>>, <<Again>>} : Head(t).op \in {"get", "apply", "update"}
  <1>1. \A j : Head(<<j>>) = j /\ Tail(<<j>>) = <<>> /\ <<j>> # <<>>
    OBVIOUS
  <1>2. Get.op # Finish.op /\ Apply.op # Finish.op /\ Again.again # Finish.again
    BY SharedJobs
  <1>3. <<Get>> # <<Finish>> /\ <<Apply>> # <<Finish>> /\ <<Again>> # <<Finish>>
    BY <1>1, <1>2
  <1> QED BY <1>1, <1>3, SharedJobs

LEMMA Joined ==
    ASSUME NEW S, NEW t \in Seq(S), t # <<>>, NEW js \in Seq(S)
    PROVE  /\ Head(t) \in S /\ Tail(t) \in Seq(S) /\ js \o Tail(t) \in Seq(S)
  <1>1. Head(t) \in S /\ Tail(t) \in Seq(S)
    BY HeadTailProperties
  <1> QED BY <1>1, ConcatProperties

\* One of the calls that any goroutine makes.
LEMMA SharedCall ==
    ASSUME IInv, NEW p \in Procs, NEW op, op \notin {"get", "apply", "update"}, At(p, op),
           NEW js \in Seq(Shared), Continue(p, js), UNCHANGED krm
    PROVE  todo' \in [Procs -> Seq(Jobs)] /\ SharedInv' /\ RecInv'
  <1>1. /\ todo \in [Procs -> Seq(Jobs)] /\ todo[p] \in Seq(Jobs) /\ todo[p] # <<>> /\ Head(todo[p]).op = op
        /\ todo' = [todo EXCEPT ![p] = js \o Tail(todo[p])]
    BY DEF IInv, NTypeOK, At, Continue
  <1>2. js \in Seq(Jobs)
    BY SharedJobs
  <1>3. todo' \in [Procs -> Seq(Jobs)]
    BY <1>1, <1>2, Joined
  <1>4. SharedInv'
    <2>1. ASSUME NEW q \in Procs, q # Rec PROVE todo'[q] \in Seq(Shared)
      <3>1. todo[q] \in Seq(Shared)
        BY <2>1 DEF IInv, SharedInv
      <3>2. CASE q = p
        BY <1>1, <3>1, <3>2, Joined
      <3> QED BY <1>1, <3>1, <3>2
    <2> QED BY <2>1 DEF SharedInv
  <1>5. RecInv'
    <2>1. ~due => p # Rec
      <3>1. ~due => todo[Rec] \in {<<>>, <<Get>>, <<Apply>>, <<Finish>>, <<Again>>}
        BY DEF IInv, RecInv
      <3> QED BY <1>1, <3>1, Singles
    <2>2. ~due => todo'[Rec] = todo[Rec]
      BY <1>1, <2>1
    <2> QED BY <2>2 DEF IInv, RecInv, Wanted, krm
  <1> QED BY <1>3, <1>4, <1>5

\* A callback or a worker gets calls to make.
LEMMA SharedStart ==
    ASSUME IInv, NEW p \in Procs, p # Rec, NEW js \in Seq(Shared), todo' = [todo EXCEPT ![p] = js], UNCHANGED krm
    PROVE  todo' \in [Procs -> Seq(Jobs)] /\ SharedInv' /\ RecInv'
  <1>1. todo \in [Procs -> Seq(Jobs)] /\ js \in Seq(Jobs)
    BY SharedJobs DEF IInv, NTypeOK
  <1>2. todo' \in [Procs -> Seq(Jobs)] /\ todo'[Rec] = todo[Rec]
    BY <1>1, ProcFacts
  <1>3. SharedInv'
    BY <1>1 DEF IInv, SharedInv
  <1>4. RecInv'
    BY <1>2 DEF IInv, RecInv, Wanted, krm
  <1> QED BY <1>2, <1>3, <1>4

----------------------------------------------------------------------------
(* The cache controllers *)

\* Types of what is left alone by a step that only changes calls and the node endpoint.
LEMMA TypesFrame ==
    ASSUME NTypeOK, UNCHANGED <<world, caches, workers, krm>>, nodeep' \in [Objects -> NodeEps],
           entry' \in Objects \cup {0}, todo' \in [Procs -> Seq(Jobs)]
    PROVE  NTypeOK'
  BY DEF NTypeOK, world, caches, workers, krm

LEMMA Lists ==
    /\ \A act \in {"upsert", "delete"} : [op |-> "list", act |-> act] \in Shared
    /\ [op |-> "uncache"] \in Shared
    /\ \A o \in {"api", "callback"} : [op |-> "create", origin |-> o] \in Shared
    /\ \A b \in BOOLEAN : [op |-> "resolve", success |-> b] \in Shared
  BY DEF Shared

LEMMA Callbacks ==
    ASSUME IInv, PodUpsert \/ PodDelete \/ DaemonUpsert \/ DaemonDelete
    PROVE  IInv'
  <1>1. PICK p \in {PodCB, DaemonCB}, js \in Seq(Shared) : todo' = [todo EXCEPT ![p] = js] /\ UNCHANGED krm
    <2>1. /\ <<[op |-> "list", act |-> "upsert"]>> \in Seq(Shared)
          /\ <<[op |-> "list", act |-> "delete"], [op |-> "uncache"]>> \in Seq(Shared)
      BY Lists
    <2> QED BY <2>1 DEF PodUpsert, PodDelete, DaemonUpsert, DaemonDelete
  <1>2. todo' \in [Procs -> Seq(Jobs)] /\ SharedInv' /\ RecInv'
    BY <1>1, SharedStart, ProcFacts
  <1>3. NTypeOK'
    <2>1. NTypeOK
      BY DEF IInv
    <2>2. CASE PodUpsert
      BY <1>2, <2>1, <2>2 DEF PodUpsert, NTypeOK, world, workers, cached, krm
    <2>3. CASE PodDelete
      BY <1>2, <2>1, <2>3 DEF PodDelete, NTypeOK, world, workers, cached, krm, caches
    <2>4. CASE DaemonUpsert
      <3>1. worker' \in 0 .. started' /\ started' \in 0 .. MaxWorkers
        BY <2>1, <2>4, NodeEndpointAssumption DEF DaemonUpsert, NTypeOK
      <3>2. UNCHANGED <<world, podSeen, queue, cached, krm>> /\ daemonSeen' = daemon
        BY <2>4 DEF DaemonUpsert
      <3> QED BY <1>2, <2>1, <3>1, <3>2 DEF NTypeOK, world, cached, krm
    <2>5. CASE DaemonDelete
      <3>1. worker' \in 0 .. started' /\ started' \in 0 .. MaxWorkers
        BY <2>1, <2>5 DEF DaemonDelete, NTypeOK
      <3>2. UNCHANGED <<world, caches, queue, cached, krm>>
        BY <2>5 DEF DaemonDelete
      <3> QED BY <1>2, <2>1, <3>1, <3>2 DEF NTypeOK, world, cached, krm, caches
    <2> QED BY <2>2, <2>3, <2>4, <2>5
  <1> QED BY <1>2, <1>3 DEF IInv

LEMMA UncacheStep ==
    ASSUME IInv, NEW p \in Procs, Uncache(p)
    PROVE  IInv'
  <1>1. At(p, "uncache") /\ Continue(p, <<>>) /\ UNCHANGED <<world, workers, cached, krm>> /\ <<>> \in Seq(Shared)
    BY DEF Uncache
  <1>2. todo' \in [Procs -> Seq(Jobs)] /\ SharedInv' /\ RecInv'
    BY <1>1, SharedCall
  <1>3. podSeen' \in Entries /\ daemonSeen' \in Entries
    BY DEF Uncache, IInv, NTypeOK, Entries
  <1> QED BY <1>1, <1>2, <1>3 DEF IInv, NTypeOK, world, workers, cached, krm

\* One of the calls that only reads: it is replaced by others.
LEMMA Reads ==
    ASSUME IInv, NEW p \in Procs, NEW op, op \notin {"get", "apply", "update"}, At(p, op),
           NEW js \in Seq(Shared), Continue(p, js), UNCHANGED <<world, caches, workers, krm>>,
           nodeep' \in [Objects -> NodeEps], entry' \in Objects \cup {0}
    PROVE  IInv'
  <1>1. todo' \in [Procs -> Seq(Jobs)] /\ SharedInv' /\ RecInv'
    BY SharedCall
  <1> QED BY <1>1, TypesFrame DEF IInv

LEMMA ListStep ==
    ASSUME IInv, NEW p \in Procs, List(p)
    PROVE  IInv'
  <1>1. /\ At(p, "list") /\ Continue(p, commonCallback(Head(todo[p]).act))
        /\ UNCHANGED <<world, caches, workers, krm, cached>>
    BY DEF List
  <1>2. commonCallback(Head(todo[p]).act) \in Seq(Shared)
    <2>1. /\ [op |-> "create", origin |-> "callback"] \in Shared /\ [op |-> "resolve", success |-> FALSE] \in Shared
          /\ Event("resolutionFailed") \in Shared
      BY Lists, SharedJobs DEF Events, Requests
    <2>2. /\ <<[op |-> "create", origin |-> "callback"]>> \in Seq(Shared)
          /\ <<[op |-> "resolve", success |-> FALSE], Event("resolutionFailed")>> \in Seq(Shared)
          /\ <<>> \in Seq(Shared)
      BY <2>1
    <2> QED BY <2>2 DEF commonCallback
  <1>3. nodeep' \in [Objects -> NodeEps] /\ entry' \in Objects \cup {0}
    BY <1>1 DEF IInv, NTypeOK, cached
  <1> QED BY <1>1, <1>2, <1>3, Reads

----------------------------------------------------------------------------
(* The node endpoint in the wire controller *)

LEMMA NewStep ==
    ASSUME IInv, NEW p \in Procs, NewNodeEndpoint(p)
    PROVE  IInv'
  <1>1. [op |-> "create", origin |-> "api"] \in Shared /\ \A o \in Objects : Store(o, FALSE) \in Shared
    BY Lists DEF Shared, Store
  <1>2. PICK js \in Seq(Shared) : Continue(p, js)
    <2>1. CASE entry # 0
      <3>1. <<[op |-> "create", origin |-> "api"]>> \in Seq(Shared)
        BY <1>1
      <3> QED BY <2>1, <3>1 DEF NewNodeEndpoint
    <2>2. CASE entry = 0
      <3>1. PICK o \in Objects : Continue(p, <<Store(o, FALSE), [op |-> "create", origin |-> "api"]>>)
        BY <2>2 DEF NewNodeEndpoint
      <3>2. \A i, j \in Shared : <<i, j>> \in Seq(Shared)
        OBVIOUS
      <3>3. <<Store(o, FALSE), [op |-> "create", origin |-> "api"]>> \in Seq(Shared)
        BY <1>1, <3>2, Zenon
      <3> QED BY <3>1, <3>3
    <2> QED BY <2>1, <2>2
  <1>3. At(p, "upsert") /\ UNCHANGED <<world, caches, workers, krm, cached>>
    BY DEF NewNodeEndpoint
  <1>4. nodeep' \in [Objects -> NodeEps] /\ entry' \in Objects \cup {0}
    BY <1>3 DEF IInv, NTypeOK, cached
  <1> QED BY <1>2, <1>3, <1>4, Reads

LEMMA Resolutions ==
    ASSUME NEW b \in BOOLEAN, NEW ev \in Events
    PROVE  /\ <<[op |-> "resolve", success |-> b]>> \o <<Event(ev)>> \in Seq(Shared)
           /\ <<[op |-> "resolve", success |-> b]>> \o <<>> \in Seq(Shared)
  <1>1. [op |-> "resolve", success |-> b] \in Shared /\ Event(ev) \in Shared
    BY Lists, SharedJobs
  <1>2. <<[op |-> "resolve", success |-> b]>> \in Seq(Shared) /\ <<Event(ev)>> \in Seq(Shared) /\ <<>> \in Seq(Shared)
    BY <1>1
  <1> QED BY <1>2, ConcatProperties

LEMMA CreateStep ==
    ASSUME IInv, NEW p \in Procs, nodeepCreate(p)
    PROVE  IInv'
  <1> DEFINE js == <<[op |-> "resolve", success |-> Resolvable]>> \o
                   IF Resolvable THEN <<Event("create")>>
                   ELSE IF Head(todo[p]).origin # "callback" THEN <<Event("resolutionFailed")>>
                   ELSE <<>>
  <1>1. At(p, "create") /\ Continue(p, js) /\ UNCHANGED <<world, caches, workers, krm, cached>>
    BY DEF nodeepCreate
  <1>2. js \in Seq(Shared)
    <2>1. Resolvable \in BOOLEAN /\ "create" \in Events /\ "resolutionFailed" \in Events
      BY DEF Resolvable, Events, Requests
    <2> QED BY <2>1, Resolutions
  <1>3. nodeep' \in [Objects -> NodeEps] /\ entry' \in Objects \cup {0}
    BY <1>1 DEF IInv, NTypeOK, cached
  <1> HIDE DEF js
  <1> QED BY <1>1, <1>2, <1>3, Reads

LEMMA DeleteStep ==
    ASSUME IInv, NEW p \in Procs, nodeepDelete(p)
    PROVE  IInv'
  <1> DEFINE js == IF entry = 0 THEN <<>>
                   ELSE <<[op |-> "resolve", success |-> Resolvable]>> \o
                        IF Resolvable THEN <<Event("delete")>> ELSE <<>>
  <1>1. At(p, "delete") /\ Continue(p, js) /\ UNCHANGED <<world, caches, workers, krm, cached>>
    BY DEF nodeepDelete
  <1>2. js \in Seq(Shared)
    <2>1. Resolvable \in BOOLEAN /\ "delete" \in Events /\ <<>> \in Seq(Shared)
      BY DEF Resolvable, Events, Requests
    <2> QED BY <2>1, Resolutions
  <1>3. nodeep' \in [Objects -> NodeEps] /\ entry' \in Objects \cup {0}
    BY <1>1 DEF IInv, NTypeOK, cached
  <1> HIDE DEF js
  <1> QED BY <1>1, <1>2, <1>3, Reads

LEMMA Stores ==
    ASSUME NEW o \in Objects, NEW b \in BOOLEAN
    PROVE  <<Store(o, b)>> \in Seq(Shared)
  <1>1. Store(o, b) \in Shared
    BY DEF Store, Shared
  <1> QED BY <1>1

LEMMA ResolveStep ==
    ASSUME IInv, NEW p \in Procs, Resolve(p)
    PROVE  IInv'
  <1>1. At(p, "resolve") /\ UNCHANGED <<world, caches, workers, krm, entry>> /\ <<>> \in Seq(Shared)
    BY DEF Resolve
  <1>2. Head(todo[p]) \in Jobs /\ Head(todo[p]).op = "resolve"
    <2>1. todo[p] \in Seq(Jobs) /\ todo[p] # <<>> /\ Head(todo[p]).op = "resolve"
      BY <1>1 DEF IInv, NTypeOK, At
    <2> QED BY <2>1, HeadTailProperties
  <1>3. Head(todo[p]).success \in BOOLEAN
    BY <1>2 DEF Jobs
  <1>4. nodeep \in [Objects -> NodeEps] /\ entry' \in Objects \cup {0} /\ entry \in Objects \cup {0}
    BY <1>1 DEF IInv, NTypeOK
  <1>5. nodeep' \in [Objects -> NodeEps]
    <2>1. \A n \in NodeEps : SetResolved(n, Head(todo[p]).success) \in NodeEps
      BY <1>3 DEF SetResolved, NodeEps
    <2> QED BY <1>4, <2>1 DEF Resolve
  <1>6. PICK js \in Seq(Shared) : Continue(p, js)
    BY <1>1, <1>4, Stores DEF Resolve
  <1> QED BY <1>1, <1>4, <1>5, <1>6, Reads

LEMMA TransitionType ==
    ASSUME NEW o \in [state : EpStates, ok : BOOLEAN, resolved : BOOLEAN], NEW t \in EpStates \cup {Ignored}
    PROVE  Transition(o, t) \in [state : EpStates, ok : BOOLEAN, resolved : BOOLEAN]
  <1> DEFINE b == t \in {"Created", "Deleted"}
  <1>1. b \in BOOLEAN /\ Transition(o, t) = IF t = Ignored THEN o ELSE [o EXCEPT !.state = t, !.ok = b]
    BY DEF Transition
  <1> HIDE DEF b
  <1> QED BY <1>1

LEMMA HandledType ==
    ASSUME NEW o \in NodeEps, NEW ev
    PROVE  Handled(o, ev) \in NodeEps
  <1> DEFINE t == Target(o.state, ev, FALSE)
             d == Dispatches(o, t)
  <1>1. Handled(o, ev) = IF d /\ worker = 0
                         THEN Transition(Transition(o, t), Target(t, "failed", FALSE)) ELSE Transition(o, t)
    BY DEF Handled
  <1>2. t \in EpStates \cup {Ignored}
    BY TargetType DEF NodeEps
  <1>3. d => t \in EpStates
    BY <1>2 DEF Dispatches, GeneratedAction, Ignored, EpStates
  <1>4. d => Target(t, "failed", FALSE) \in EpStates \cup {Ignored}
    BY <1>3, TargetType
  <1> HIDE DEF t, d
  <1>5. o \in [state : EpStates, ok : BOOLEAN, resolved : BOOLEAN]
    BY DEF NodeEps
  <1>6. Transition(o, t) \in [state : EpStates, ok : BOOLEAN, resolved : BOOLEAN]
    BY <1>2, <1>5, TransitionType
  <1>7. d => Transition(Transition(o, t), Target(t, "failed", FALSE)) \in [state : EpStates, ok : BOOLEAN, resolved : BOOLEAN]
    BY <1>4, <1>6, TransitionType
  <1> QED BY <1>1, <1>6, <1>7 DEF NodeEps

LEMMA EventStep ==
    ASSUME IInv, NEW p \in Procs, HandleEvent(p)
    PROVE  IInv'
  <1>1. /\ At(p, "event") /\ UNCHANGED <<world, caches, worker, started, krm, entry>> /\ <<>> \in Seq(Shared)
        /\ NTypeOK /\ nodeep \in [Objects -> NodeEps] /\ entry \in Objects \cup {0}
    BY DEF HandleEvent, IInv, NTypeOK
  <1>2. PICK js \in Seq(Shared) : Continue(p, js)
    BY <1>1, Stores DEF HandleEvent
  <1>3. todo' \in [Procs -> Seq(Jobs)] /\ SharedInv' /\ RecInv'
    BY <1>1, <1>2, SharedCall
  <1>4. nodeep' \in [Objects -> NodeEps]
    <2>1. nodeep' = nodeep \/ (entry # 0 /\ nodeep' = [nodeep EXCEPT ![entry] = Handled(nodeep[entry], Head(todo[p]).ev)])
      BY DEF HandleEvent
    <2>2. entry # 0 => nodeep[entry] \in NodeEps
      BY <1>1
    <2>3. entry # 0 => Handled(nodeep[entry], Head(todo[p]).ev) \in NodeEps
      BY <2>2, HandledType
    <2> QED BY <1>1, <2>1, <2>3
  <1>5. queue' \in [Workers -> Seq(WorkerActions)]
    <2> DEFINE t == Target(nodeep[entry].state, Head(todo[p]).ev, FALSE)
               writes == Dispatches(nodeep[entry], t)
    <2>1. worker # 0 => worker \in Workers
      BY <1>1, NodeEndpointAssumption DEF NTypeOK, Workers
    <2>2. writes => GeneratedAction(t) \in WorkerActions
      BY DEF Dispatches, GeneratedAction, WorkerActions
    <2>3. queue \in [Workers -> Seq(WorkerActions)]
      BY <1>1 DEF NTypeOK
    <2>4. \/ queue' = queue
          \/ writes /\ worker # 0 /\ queue' = [queue EXCEPT ![worker] = Append(queue[worker], GeneratedAction(t))]
      BY DEF HandleEvent
    <2> HIDE DEF t, writes
    <2>5. writes /\ worker # 0 => Append(queue[worker], GeneratedAction(t)) \in Seq(WorkerActions)
      BY <2>1, <2>2, <2>3
    <2> QED BY <2>1, <2>3, <2>4, <2>5
  <1>6. NTypeOK'
    BY <1>1, <1>3, <1>4, <1>5 DEF NTypeOK, world, caches, krm
  <1> QED BY <1>3, <1>6 DEF IInv

LEMMA CacheStep ==
    ASSUME IInv, NEW p \in Procs, Cache(p)
    PROVE  IInv'
  <1>1. At(p, "store") /\ Continue(p, <<>>) /\ UNCHANGED <<world, caches, workers, krm>> /\ <<>> \in Seq(Shared)
    BY DEF Cache
  <1>2. Head(todo[p]) \in Jobs /\ Head(todo[p]).op = "store"
    <2>1. todo[p] \in Seq(Jobs) /\ todo[p] # <<>> /\ Head(todo[p]).op = "store"
      BY <1>1 DEF IInv, NTypeOK, At
    <2> QED BY <2>1, HeadTailProperties
  <1>3. Head(todo[p]).o \in Objects
    BY <1>2 DEF Jobs
  <1>4. entry' \in Objects \cup {0}
    BY <1>3 DEF Cache
  <1>5. nodeep' \in [Objects -> NodeEps]
    <2>1. Fresh \in NodeEps /\ nodeep \in [Objects -> NodeEps]
      BY DEF Fresh, NodeEps, EpStates, IInv, NTypeOK
    <2> QED BY <2>1 DEF Cache
  <1> QED BY <1>1, <1>4, <1>5, Reads

----------------------------------------------------------------------------
(* The worker and the daemon *)

LEMMA WorkStep ==
    ASSUME IInv, NEW k \in Workers, Work(k)
    PROVE  IInv'
  <1>1. /\ NTypeOK /\ queue[k] # <<>> /\ queue' = [queue EXCEPT ![k] = Tail(queue[k])]
        /\ UNCHANGED <<server, pod, daemon, lost, caches, worker, started, cached, krm>>
    BY DEF IInv, Work
  <1>2. PICK ev \in Events : todo' = [todo EXCEPT ![Goroutine(k)] = <<Event(ev)>>]
    BY DEF Work, EndpointCreate, EndpointCreateFails, Events, Answers
  <1>3. <<Event(ev)>> \in Seq(Shared)
    BY SharedJobs
  <1>4. todo' \in [Procs -> Seq(Jobs)] /\ SharedInv' /\ RecInv'
    BY <1>1, <1>2, <1>3, ProcFacts, SharedStart
  <1>5. pair' \subseteq Interfaces /\ half' \subseteq Interfaces /\ pair' \cap half' = {}
    BY <1>1 DEF NTypeOK, Work, EndpointCreate, EndpointCreateFails, Deploy
  <1>6. queue' \in [Workers -> Seq(WorkerActions)]
    <2>1. queue \in [Workers -> Seq(WorkerActions)]
      BY <1>1 DEF NTypeOK
    <2>2. queue[k] \in Seq(WorkerActions)
      BY <2>1
    <2>3. Tail(queue[k]) \in Seq(WorkerActions)
      BY <1>1, <2>2, HeadTailProperties
    <2> QED BY <1>1, <2>1, <2>3
  <1>7. NTypeOK'
    BY <1>1, <1>4, <1>5, <1>6 DEF NTypeOK, caches, cached, krm
  <1> QED BY <1>4, <1>7 DEF IInv

----------------------------------------------------------------------------
(* The node endpoint controller *)

\* A step of the reconciler: what else there is stays.
LEMMA RecFrame ==
    ASSUME IInv, NEW js \in Seq(Jobs), todo' = [todo EXCEPT ![Rec] = js], node' \in Nodes,
           due' \in BOOLEAN, stale' \in BOOLEAN, UNCHANGED <<world, caches, workers, cached, model>>, RecInv'
    PROVE  IInv'
  <1>1. todo \in [Procs -> Seq(Jobs)] /\ NTypeOK
    BY DEF IInv, NTypeOK
  <1>2. todo' \in [Procs -> Seq(Jobs)]
    BY <1>1
  <1>3. SharedInv'
    BY <1>1 DEF IInv, SharedInv
  <1>4. NTypeOK'
    BY <1>1, <1>2 DEF NTypeOK, world, caches, workers, cached
  <1> QED BY <1>3, <1>4 DEF IInv

LEMMA NodeFields ==
    ASSUME NEW n \in Nodes
    PROVE  /\ \A e \in {"unknown", "notReady", "failed", "ready"} :
                LET m == [n EXCEPT !.ep = e] IN
                m \in Nodes /\ m.ep = e /\ m.st = n.st /\ m.ready = n.ready /\ m.eps = n.eps /\ m.fin = n.fin
           /\ \A b \in {TRUE, FALSE} :
                LET m == [n EXCEPT !.fin = b] IN
                m \in Nodes /\ m.ep = n.ep /\ m.st = n.st /\ m.ready = n.ready /\ m.eps = n.eps
           /\ \A b \in {TRUE, FALSE} :
                LET m == [n EXCEPT !.eps = b] IN
                m \in Nodes /\ m.ep = n.ep /\ m.st = n.st /\ m.ready = n.ready /\ m.eps = b
           /\ Remaining(n) \in Nodes /\ (n.st # "present" => Remaining(n).st # "present")
  <1>1. \A e \in {"unknown", "notReady", "failed", "ready"} :
          LET m == [n EXCEPT !.ep = e] IN
          m \in Nodes /\ m.ep = e /\ m.st = n.st /\ m.ready = n.ready /\ m.eps = n.eps /\ m.fin = n.fin
    BY DEF Nodes
  <1>2. \A b \in {TRUE, FALSE} :
          LET m == [n EXCEPT !.fin = b] IN
          m \in Nodes /\ m.ep = n.ep /\ m.st = n.st /\ m.ready = n.ready /\ m.eps = n.eps
    BY DEF Nodes
  <1>3. \A b \in {TRUE, FALSE} :
          LET m == [n EXCEPT !.eps = b] IN
          m \in Nodes /\ m.ep = n.ep /\ m.st = n.st /\ m.ready = n.ready /\ m.eps = b
    BY DEF Nodes
  <1>4. Remaining(n) \in Nodes /\ (n.st # "present" => Remaining(n).st # "present")
    BY DEF Remaining, Nodes
  <1> QED BY <1>1, <1>2, <1>3, <1>4

LEMMA StatusStep ==
    ASSUME IInv, NEW p \in Procs, StatusUpdate(p)
    PROVE  IInv'
  <1> DEFINE j == Head(todo[p])
  <1>1. /\ todo[p] # <<>> /\ j.op = "update" /\ todo[p] \in Seq(Jobs) /\ node \in Nodes
        /\ due \in BOOLEAN /\ stale \in BOOLEAN
        /\ node' = (IF stale THEN node ELSE [node EXCEPT !.ep = j.ep])
        /\ due' = (due \/ j.again \/ stale \/ node' # node) /\ stale' = FALSE
        /\ todo' = [todo EXCEPT ![p] = <<>> \o Tail(todo[p])]
        /\ UNCHANGED <<world, caches, workers, cached, model>>
    BY DEF IInv, NTypeOK, StatusUpdate, At, Continue
  <1>2. p = Rec
    <2>1. p # Rec => todo[p] \in Seq(Shared)
      BY DEF IInv, SharedInv
    <2>2. p # Rec => j \in Shared
      BY <1>1, <2>1, HeadTailProperties
    <2>3. \A s \in Shared : s.op # "update"
      BY DEF Shared
    <2> QED BY <1>1, <2>2, <2>3
  <1>3. j \in Jobs
    BY <1>1, HeadTailProperties
  <1>4. j.ep \in {"unknown", "notReady", "failed", "ready"} /\ j.again \in BOOLEAN
    BY <1>1, <1>3 DEF Jobs
  <1>5. PICK js \in Seq(Jobs) : js = Tail(todo[Rec]) /\ todo' = [todo EXCEPT ![Rec] = js]
    <2>1. Tail(todo[Rec]) \in Seq(Jobs)
      BY <1>1, <1>2, HeadTailProperties
    <2>2. <<>> \o Tail(todo[Rec]) = Tail(todo[Rec])
      BY <2>1
    <2> QED BY <1>1, <1>2, <2>1, <2>2
  <1>6. node' \in Nodes /\ due' \in BOOLEAN /\ stale' \in BOOLEAN
    BY <1>1, <1>4, NodeFields
  <1>7. RecInv'
    <2> SUFFICES ASSUME ~due' PROVE RecInv'
      BY DEF RecInv
    <2>1. ~due /\ ~j.again /\ ~stale /\ node' = node
      BY <1>1
    <2>2. todo[Rec] = <<Finish>>
      <3>1. todo[Rec] \in {<<>>, <<Get>>, <<Apply>>, <<Finish>>, <<Again>>}
        BY <2>1 DEF IInv, RecInv
      <3> QED BY <1>1, <1>2, <2>1, <3>1, Singles, SharedJobs
    <2>3. j = Finish /\ js = <<>>
      BY <1>2, <1>5, <2>2, Singles
    <2>4. node.ep = "ready"
      <3>1. node' = [node EXCEPT !.ep = "ready"]
        BY <1>1, <2>1, <2>3, SharedJobs
      <3>2. [node EXCEPT !.ep = "ready"].ep = "ready"
        BY <1>1 DEF Nodes
      <3> QED BY <2>1, <3>1, <3>2
    <2>5. Wanted => node.eps
      BY <2>1, <2>2 DEF IInv, RecInv
    <2>6. todo'[Rec] = <<>>
      BY <1>5, <2>3, ProcFacts DEF IInv, NTypeOK
    <2>7. <<>> # <<Finish>>
      BY Singles
    <2> QED BY <1>1, <2>1, <2>4, <2>5, <2>6, <2>7 DEF RecInv, Wanted
  <1> QED BY <1>1, <1>5, <1>6, <1>7, RecFrame

LEMMA ReconcileStep ==
    ASSUME IInv, Reconcile
    PROVE  IInv'
  <1>1. /\ todo \in [Procs -> Seq(Jobs)] /\ todo[Rec] = <<>> /\ due = TRUE /\ node \in Nodes /\ stale' = FALSE
        /\ model \in BOOLEAN /\ UNCHANGED <<world, caches, workers, cached, model>>
    BY DEF IInv, NTypeOK, Reconcile
  <1>2. ASSUME UNCHANGED todo, node' \in Nodes, due' \in BOOLEAN, ~due' => ~Wanted'
        PROVE  IInv'
    <2>1. <<>> \in Seq(Jobs) /\ todo' = [todo EXCEPT ![Rec] = <<>>] /\ todo'[Rec] = <<>>
      BY <1>1, <1>2, ProcFacts
    <2>2. RecInv'
      BY <1>2, <2>1 DEF RecInv
    <2> QED BY <1>1, <1>2, <2>1, <2>2, RecFrame
  <1>3. CASE ReconcileDeleted
    <2>1. /\ <<[op |-> "delete"], Update("unknown", TRUE)>> \in Seq(Jobs)
          /\ todo' = [todo EXCEPT ![Rec] = <<[op |-> "delete"], Update("unknown", TRUE)>>]
          /\ node' = node /\ due' = TRUE
      <3>1. [op |-> "delete"] \in Jobs /\ Update("unknown", TRUE) \in Jobs
        BY SharedJobs
      <3>2. \A i, j \in Jobs : <<i, j>> \in Seq(Jobs)
        OBVIOUS
      <3>3. <<[op |-> "delete"], Update("unknown", TRUE)>> \in Seq(Jobs)
        BY <3>1, <3>2, Zenon
      <3> QED BY <1>1, <1>3, <3>3 DEF ReconcileDeleted
    <2>2. RecInv'
      BY <2>1 DEF RecInv
    <2> QED BY <1>1, <2>1, <2>2, RecFrame
  <1>4. CASE RemoveFinalizer
    <2>1. node' = Remaining([node EXCEPT !.fin = FALSE]) /\ node.st = "deleting" /\ due' = FALSE /\ UNCHANGED todo
      BY <1>4 DEF RemoveFinalizer
    <2>2. PICK m \in Nodes : m = [node EXCEPT !.fin = FALSE] /\ m.st = node.st
      <3>1. [node EXCEPT !.fin = FALSE] \in Nodes /\ [node EXCEPT !.fin = FALSE].st = node.st
        BY <1>1 DEF Nodes
      <3> QED BY <3>1
    <2>3. node' \in Nodes /\ node'.st # "present"
      BY <2>1, <2>2, NodeFields
    <2> QED BY <1>2, <2>1, <2>3 DEF Wanted
  <1>5. CASE ReconcileNotReady
    <2>1. node' = [node EXCEPT !.ep = "notReady"] /\ ~node.ready /\ UNCHANGED todo /\ due' \in BOOLEAN
      BY <1>5 DEF ReconcileNotReady
    <2>2. node' \in Nodes /\ node'.ready = node.ready
      BY <1>1, <2>1, NodeFields
    <2> QED BY <1>2, <2>1, <2>2 DEF Wanted
  <1>6. CASE ReconcileNoModel
    <2>1. node' = [node EXCEPT !.eps = FALSE, !.ep = "failed"] /\ UNCHANGED todo /\ due' = TRUE
      BY <1>1, <1>6 DEF ReconcileNoModel
    <2>2. node' \in Nodes
      BY <1>1, <2>1 DEF Nodes
    <2> QED BY <1>2, <2>1, <2>2
  <1>7. CASE ReconcileReady
    <2>1. /\ <<Get>> \in Seq(Jobs) /\ todo' = [todo EXCEPT ![Rec] = <<Get>>]
          /\ node' = node /\ due' = FALSE
      BY <1>1, <1>7, SharedJobs DEF ReconcileReady, Get
    <2>2. todo'[Rec] = <<Get>>
      BY <1>1, <2>1, ProcFacts
    <2>3. RecInv'
      BY <2>2, Singles DEF RecInv
    <2> QED BY <1>1, <2>1, <2>3, RecFrame
  <1>8. CASE CallFails
    <2>1. node' = [node EXCEPT !.ep = "failed"] /\ UNCHANGED todo /\ due' = TRUE
      BY <1>1, <1>8 DEF CallFails
    <2>2. node' \in Nodes
      BY <1>1, <2>1, NodeFields
    <2> QED BY <1>2, <2>1, <2>2
  <1>9. CASE node.st = "absent" /\ due' = FALSE /\ UNCHANGED <<node, todo, used>>
    BY <1>1, <1>2, <1>9 DEF Wanted
  <1> QED BY <1>3, <1>4, <1>5, <1>6, <1>7, <1>8, <1>9 DEF Reconcile

LEMMA GetStep ==
    ASSUME IInv, EndpointGet
    PROVE  IInv'
  <1>1. /\ todo \in [Procs -> Seq(Jobs)] /\ node \in Nodes /\ UNCHANGED <<world, caches, workers, cached, model, stale>>
        /\ stale \in BOOLEAN /\ due \in BOOLEAN /\ node.fin \in BOOLEAN
    BY DEF IInv, NTypeOK, EndpointGet, Nodes
  <1>2. node' \in Nodes
    <2>1. node' = node \/ node' = [node EXCEPT !.fin = TRUE]
      BY DEF EndpointGet
    <2> QED BY <1>1, <2>1 DEF Nodes
  <1>3. ASSUME NEW j \in Jobs, todo' = [todo EXCEPT ![Rec] = <<j>>], due' \in BOOLEAN,
               due' = TRUE \/ j \in {Apply, Again}
        PROVE  IInv'
    <2>1. <<j>> \in Seq(Jobs) /\ todo'[Rec] = <<j>>
      BY <1>1, <1>3, ProcFacts
    <2>2. RecInv'
      BY <1>3, <2>1, Singles DEF RecInv
    <2> QED BY <1>1, <1>2, <1>3, <2>1, <2>2, RecFrame
  <1>4. \/ todo' = [todo EXCEPT ![Rec] = <<Again>>] /\ due' = due
        \/ todo' = [todo EXCEPT ![Rec] = <<Apply>>] /\ due' = (due \/ ~node.fin)
        \/ todo' = [todo EXCEPT ![Rec] = <<[op |-> "upsert"]>>] /\ due' = TRUE
    BY DEF EndpointGet, Again, Apply
  <1> QED BY <1>1, <1>3, <1>4, SharedJobs

LEMMA UpSertFailsStep ==
    ASSUME IInv, EndpointUpSertFails
    PROVE  IInv'
  <1>1. /\ todo \in [Procs -> Seq(Jobs)] /\ todo[Rec] \in Seq(Jobs) /\ todo[Rec] # <<>> /\ Head(todo[Rec]).op = "upsert"
        /\ todo' = [todo EXCEPT ![Rec] = <<Again>> \o Tail(todo[Rec])]
        /\ UNCHANGED <<world, caches, workers, cached, krm>>
    BY ProcFacts DEF IInv, NTypeOK, EndpointUpSertFails, At, Continue, Again
  <1>2. due
    <2>1. ~due => todo[Rec] \in {<<>>, <<Get>>, <<Apply>>, <<Finish>>, <<Again>>}
      BY DEF IInv, RecInv
    <2> QED BY <1>1, <2>1, Singles
  <1>3. PICK js \in Seq(Jobs) : todo' = [todo EXCEPT ![Rec] = js]
    <2>1. <<Again>> \in Seq(Jobs)
      BY SharedJobs
    <2> QED BY <1>1, <2>1, Joined
  <1>4. /\ node' \in Nodes /\ due' \in BOOLEAN /\ stale' \in BOOLEAN /\ due' = due
        /\ UNCHANGED <<world, caches, workers, cached, model>>
    BY <1>1 DEF IInv, NTypeOK, krm
  <1>5. RecInv'
    BY <1>2, <1>4 DEF RecInv
  <1> QED BY <1>3, <1>4, <1>5, RecFrame

LEMMA ApplyStep ==
    ASSUME IInv, APIApply
    PROVE  IInv'
  <1>1. /\ todo \in [Procs -> Seq(Jobs)] /\ todo[Rec] \in Seq(Jobs) /\ todo[Rec] # <<>> /\ Head(todo[Rec]).op = "apply"
        /\ node \in Nodes /\ due \in BOOLEAN /\ stale \in BOOLEAN
        /\ UNCHANGED <<world, caches, workers, cached, model, stale, due>>
    BY ProcFacts DEF IInv, NTypeOK, APIApply, At
  <1>2. ~due => todo[Rec] = <<Apply>>
    <2>1. ~due => todo[Rec] \in {<<>>, <<Get>>, <<Apply>>, <<Finish>>, <<Again>>}
      BY DEF IInv, RecInv
    <2> QED BY <1>1, <2>1, Singles, SharedJobs
  <1>3. ASSUME NEW j \in {Finish, Again}, todo' = [todo EXCEPT ![Rec] = <<j>> \o Tail(todo[Rec])],
               node' \in Nodes, j = Finish => node'.st = "absent" \/ node'.eps
        PROVE  IInv'
    <2>1. <<j>> \in Seq(Jobs)
      BY SharedJobs
    <2>2. PICK js \in Seq(Jobs) : js = <<j>> \o Tail(todo[Rec]) /\ todo' = [todo EXCEPT ![Rec] = js]
      BY <1>1, <1>3, <2>1, Joined
    <2>3. ~due => todo'[Rec] = <<j>>
      <3>1. ~due => Tail(todo[Rec]) = <<>>
        BY <1>2, Singles
      <3>2. <<j>> \o <<>> = <<j>>
        BY <2>1
      <3> QED BY <1>1, <2>2, <3>1, <3>2, ProcFacts
    <2>4. RecInv'
      BY <1>1, <1>3, <2>3, Singles DEF RecInv, Wanted
    <2> QED BY <1>1, <1>3, <2>2, <2>4, RecFrame
  <1>4. CASE /\ node' = IF node.st = "absent" THEN node ELSE [node EXCEPT !.eps = TRUE]
             /\ Continue(Rec, <<Update("ready", FALSE)>>)
    <2>1. node' \in Nodes /\ (node'.st = "absent" \/ node'.eps)
      BY <1>1, <1>4, NodeFields
    <2> QED BY <1>3, <1>4, <2>1 DEF Continue, Finish
  <1>5. CASE node' = [node EXCEPT !.eps = FALSE] /\ Continue(Rec, <<Update("failed", TRUE)>>)
    <2>1. node' \in Nodes
      BY <1>1, <1>5, NodeFields
    <2> QED BY <1>3, <1>5, <2>1, Singles DEF Continue, Again
  <1> QED BY <1>4, <1>5 DEF APIApply

----------------------------------------------------------------------------
(* The world around it *)

LEMMA EnvStep ==
    ASSUME IInv, Env
    PROVE  IInv'
  <1>1. /\ NTypeOK /\ SharedInv /\ RecInv /\ todo \in [Procs -> Seq(Jobs)] /\ node \in Nodes
        /\ due' = (due \/ node' # node \/ model' # model)
        /\ stale' = (stale \/ (node' # node /\ todo[Rec] # <<>>))
        /\ lost' = (lost \/ ~(pair \subseteq pair'))
        /\ UNCHANGED <<server, half, caches, workers, cached>>
    BY DEF IInv, NTypeOK, Env
  <1>2. PICK c \in EnvOps : Environment(c)
    BY DEF Env
  <1>3. pod' \in Entries /\ daemon' \in Entries /\ pair' \subseteq Interfaces /\ pair' \cap half = {}
        /\ model' \in BOOLEAN
    BY <1>1, <1>2 DEF Environment, NTypeOK, Entries, GetNodeConfigChanges
  <1>4. node' \in Nodes
    <2>1. node' = node \/ node' = Remaining([node EXCEPT !.st = "deleting"])
      BY <1>2 DEF Environment
    <2>2. PICK m \in Nodes : m = [node EXCEPT !.st = "deleting"]
      BY <1>1 DEF Nodes
    <2>3. Remaining(m) \in Nodes
      BY NodeFields
    <2> QED BY <1>1, <2>1, <2>2, <2>3
  <1>5. PICK js \in Seq(Shared) : todo' = todo \/ \E cb \in {PodCB, HostCB} : todo' = [todo EXCEPT ![cb] = js]
    <2>1. \A act \in {"upsert", "delete"} : <<[op |-> "list", act |-> act]>> \in Seq(Shared)
      BY Lists
    <2> QED BY <1>2, <2>1 DEF Environment
  <1>6. todo' \in [Procs -> Seq(Jobs)] /\ todo'[Rec] = todo[Rec] /\ SharedInv'
    <2>1. js \in Seq(Jobs)
      BY SharedJobs
    <2> QED BY <1>1, <1>5, <2>1, ProcFacts DEF SharedInv
  <1>7. RecInv'
    <2> SUFFICES ASSUME ~due' PROVE RecInv'
      BY DEF RecInv
    <2>1. ~due /\ node' = node /\ model' = model /\ (~stale' => ~stale)
      BY <1>1
    <2> QED BY <1>1, <1>6, <2>1 DEF RecInv, Wanted
  <1>8. due' \in BOOLEAN /\ stale' \in BOOLEAN
    BY <1>1 DEF NTypeOK
  <1>9. NTypeOK'
    BY <1>1, <1>3, <1>4, <1>6, <1>8 DEF NTypeOK, caches, workers, cached
  <1> QED BY <1>6, <1>7, <1>9 DEF IInv

LEMMA ReadyStep ==
    ASSUME IInv, NodeReady
    PROVE  IInv'
  <1>1. /\ NTypeOK /\ SharedInv /\ node \in Nodes /\ due' = TRUE /\ stale' \in BOOLEAN
        /\ UNCHANGED <<world, caches, workers, cached, model, todo>>
        /\ node' = [node EXCEPT !.ready = (pod = "ready")]
    BY DEF IInv, NTypeOK, NodeReady
  <1>2. node' \in Nodes
    <2> DEFINE b == pod = "ready"
    <2>1. b \in BOOLEAN /\ node' = [node EXCEPT !.ready = b]
      BY <1>1
    <2> HIDE DEF b
    <2> QED BY <1>1, <2>1 DEF Nodes
  <1>3. NTypeOK'
    BY <1>1, <1>2 DEF NTypeOK, world, caches, workers, cached
  <1>4. SharedInv' /\ RecInv'
    BY <1>1 DEF SharedInv, RecInv
  <1> QED BY <1>3, <1>4 DEF IInv

----------------------------------------------------------------------------
(* Theorems *)

LEMMA InitInv == NInit => IInv
  <1> SUFFICES ASSUME NInit PROVE IInv
    OBVIOUS
  <1>1. <<>> \in Seq(Jobs) /\ <<>> \in Seq(WorkerActions) /\ <<>> \in Seq(Shared)
    OBVIOUS
  <1>2. todo \in [Procs -> Seq(Jobs)] /\ queue \in [Workers -> Seq(WorkerActions)]
    BY <1>1 DEF NInit
  <1>3. node \in Nodes /\ nodeep \in [Objects -> NodeEps] /\ server \in BOOLEAN
    <2>1. Fresh \in NodeEps
      BY DEF Fresh, NodeEps, EpStates
    <2> QED BY <2>1, NodeEndpointAssumption DEF NInit, Nodes
  <1>4. worker \in 0 .. started /\ started \in 0 .. MaxWorkers
    BY NodeEndpointAssumption DEF NInit
  <1>5. NTypeOK
    BY <1>2, <1>3, <1>4 DEF NInit, NTypeOK, Entries
  <1>6. SharedInv /\ RecInv
    BY <1>1 DEF NInit, SharedInv, RecInv
  <1> QED BY <1>5, <1>6 DEF IInv

LEMMA NextInv == IInv /\ [NNext]_vars => IInv'
  <1> SUFFICES ASSUME IInv, [NNext]_vars PROVE IInv'
    OBVIOUS
  <1>1. ASSUME NEW p \in Procs, Call(p) PROVE IInv'
    BY <1>1, UncacheStep, ListStep, NewStep, CreateStep, DeleteStep, ResolveStep, EventStep, CacheStep,
       StatusStep DEF Call
  <1>2. CASE UNCHANGED vars
    <2>1. NTypeOK'
      BY <1>2 DEF vars, IInv, NTypeOK
    <2>2. SharedInv' /\ RecInv'
      BY <1>2 DEF vars, IInv, SharedInv, RecInv, Wanted
    <2> QED BY <2>1, <2>2 DEF IInv
  <1> QED BY <1>1, <1>2, Callbacks, WorkStep, ReconcileStep, GetStep, UpSertFailsStep, ApplyStep, EnvStep,
             ReadyStep DEF NNext

\* The inductive invariant holds throughout: callbacks, workers, reconciles, failures.
THEOREM Invariance == NSpec => []IInv
  <1> QED BY InitInv, NextInv, PTL DEF NSpec

\* Every variable keeps its type: in particular a pair is in the pod or on the host, and the
\* dispatcher never finds a worker that was not started.
THEOREM TypeCorrect == NSpec => []NTypeOK
  <1>1. IInv => NTypeOK
    BY DEF IInv
  <1> QED BY <1>1, Invariance, PTL

\* The node endpoint controller stops polling only when the Node is EPReady and its
\* Endpoints exist, whatever was refused, failed or flipped on the way.
THEOREM PollsUntilReady == NSpec => []StopsOnlyWhenReady
  <1>1. IInv => StopsOnlyWhenReady
    BY DEF IInv, RecInv, Wanted, StopsOnlyWhenReady
  <1> QED BY <1>1, Invariance, PTL

----------------------------------------------------------------------------
(* Nothing is reported before it is there *)

\* Calls that neither report nor lead to reporting the interfaces.
Unready ==
    {j \in Jobs : /\ j.op # "apply"
                  /\ j.op = "event" => j.ev \notin {"created", "deleted"}
                  /\ j.op = "update" => j.ep # "ready"}

\* Nobody has been told that the interfaces are there, nor is about to be.
Untold ==
    /\ node.ep # "ready" /\ ~node.eps
    /\ \A o \in Objects : ~nodeep[o].ok
    /\ \A p \in Procs : todo[p] \in Seq(Unready)

Deployed == Interfaces \subseteq pair \cup half

DeployInv == lost \/ Deployed \/ Untold

LEMMA UnreadyJobs ==
    /\ Unready \subseteq Jobs
    /\ [op |-> "upsert"] \in Unready /\ [op |-> "delete"] \in Unready /\ Get \in Unready
    /\ Again \in Unready /\ Update("unknown", TRUE) \in Unready /\ [op |-> "uncache"] \in Unready
    /\ \A o \in {"api", "callback"} : [op |-> "create", origin |-> o] \in Unready
    /\ \A b \in BOOLEAN : [op |-> "resolve", success |-> b] \in Unready
    /\ \A act \in {"upsert", "delete"} : [op |-> "list", act |-> act] \in Unready
    /\ \A o \in Objects, b \in BOOLEAN : Store(o, b) \in Unready
    /\ \A ev \in {"create", "delete", "resolutionFailed", "failed"} : Event(ev) \in Unready
  BY DEF Unready, Jobs, Get, Again, Update, Store, Event, Events, Answers, Requests

LEMMA Pairs ==
    ASSUME NEW S, NEW i \in S, NEW j \in S
    PROVE  <<i>> \in Seq(S) /\ <<i, j>> \in Seq(S) /\ <<>> \in Seq(S) /\ <<i>> \o <<j>> \in Seq(S) /\ <<i>> \o <<>> \in Seq(S)
  <1>1. <<i>> \in Seq(S) /\ <<j>> \in Seq(S) /\ <<i, j>> \in Seq(S) /\ <<>> \in Seq(S)
    OBVIOUS
  <1> QED BY <1>1, ConcatProperties

\* One goroutine goes on with calls that report nothing.
LEMMA UntoldCall ==
    ASSUME IInv, Untold, NEW p \in Procs, NEW js \in Seq(Unready),
           \/ todo' = [todo EXCEPT ![p] = js]
           \/ todo[p] # <<>> /\ Continue(p, js)
    PROVE  \A q \in Procs : todo'[q] \in Seq(Unready)
  <1>1. todo \in [Procs -> Seq(Jobs)] /\ \A q \in Procs : todo[q] \in Seq(Unready)
    BY DEF IInv, NTypeOK, Untold
  <1>2. todo[p] # <<>> => js \o Tail(todo[p]) \in Seq(Unready)
    BY <1>1, Joined
  <1>3. PICK ks \in Seq(Unready) : todo' = [todo EXCEPT ![p] = ks]
    BY <1>2 DEF Continue
  <1> QED BY <1>1, <1>3

\* The head of a goroutine's calls reports nothing.
LEMMA UntoldHead ==
    ASSUME IInv, Untold, NEW p \in Procs, todo[p] # <<>>
    PROVE  Head(todo[p]) \in Unready
  BY Joined, Pairs DEF Untold

LEMMA UntoldCallbacks ==
    ASSUME IInv, Untold, PodUpsert \/ PodDelete \/ DaemonUpsert \/ DaemonDelete
    PROVE  Untold'
  <1>1. PICK p \in Procs, js \in Seq(Unready) : todo' = [todo EXCEPT ![p] = js]
    <2>1. /\ <<[op |-> "list", act |-> "upsert"]>> \in Seq(Unready)
          /\ <<[op |-> "list", act |-> "delete"], [op |-> "uncache"]>> \in Seq(Unready)
      BY UnreadyJobs, Pairs
    <2> QED BY <2>1, ProcFacts DEF PodUpsert, PodDelete, DaemonUpsert, DaemonDelete
  <1>2. UNCHANGED <<nodeep, node>>
    BY DEF PodUpsert, PodDelete, DaemonUpsert, DaemonDelete, cached, krm
  <1>3. \A q \in Procs : todo'[q] \in Seq(Unready)
    BY <1>1, UntoldCall
  <1> QED BY <1>2, <1>3 DEF Untold

\* The calls that leave the node endpoints and the Node alone.
LEMMA UntoldReads ==
    ASSUME IInv, Untold, NEW p \in Procs,
           Uncache(p) \/ List(p) \/ NewNodeEndpoint(p) \/ nodeepCreate(p) \/ nodeepDelete(p)
    PROVE  Untold'
  <1>1. UNCHANGED <<nodeep, node>> /\ todo[p] # <<>>
    BY DEF Uncache, List, NewNodeEndpoint, nodeepCreate, nodeepDelete, cached, krm, At
  <1>2. PICK js \in Seq(Unready) : Continue(p, js)
    <2>1. <<>> \in Seq(Unready)
      OBVIOUS
    <2>2. CASE Uncache(p)
      BY <2>1, <2>2 DEF Uncache
    <2>3. CASE List(p)
      <3>1. /\ <<[op |-> "create", origin |-> "callback"]>> \in Seq(Unready)
            /\ <<[op |-> "resolve", success |-> FALSE], Event("resolutionFailed")>> \in Seq(Unready)
        BY UnreadyJobs, Pairs
      <3>2. commonCallback(Head(todo[p]).act) \in Seq(Unready)
        BY <2>1, <3>1 DEF commonCallback
      <3> QED BY <2>3, <3>2 DEF List
    <2>4. CASE NewNodeEndpoint(p)
      <3>1. <<[op |-> "create", origin |-> "api"]>> \in Seq(Unready)
        BY UnreadyJobs, Pairs
      <3>2. \A o \in Objects : <<Store(o, FALSE), [op |-> "create", origin |-> "api"]>> \in Seq(Unready)
        BY UnreadyJobs, Pairs
      <3> QED BY <2>4, <3>1, <3>2 DEF NewNodeEndpoint
    <2>5. CASE nodeepCreate(p)
      <3>1. \A b \in BOOLEAN : /\ <<[op |-> "resolve", success |-> b]>> \o <<Event("create")>> \in Seq(Unready)
                               /\ <<[op |-> "resolve", success |-> b]>> \o <<Event("resolutionFailed")>> \in Seq(Unready)
                               /\ <<[op |-> "resolve", success |-> b]>> \o <<>> \in Seq(Unready)
        BY UnreadyJobs, Pairs
      <3>2. Resolvable \in BOOLEAN
        BY DEF Resolvable
      <3> QED BY <2>5, <3>1, <3>2 DEF nodeepCreate
    <2>6. CASE nodeepDelete(p)
      <3>1. \A b \in BOOLEAN : /\ <<[op |-> "resolve", success |-> b]>> \o <<Event("delete")>> \in Seq(Unready)
                               /\ <<[op |-> "resolve", success |-> b]>> \o <<>> \in Seq(Unready)
        BY UnreadyJobs, Pairs
      <3>2. Resolvable \in BOOLEAN
        BY DEF Resolvable
      <3> QED BY <2>1, <2>6, <3>1, <3>2 DEF nodeepDelete
    <2> QED BY <2>2, <2>3, <2>4, <2>5, <2>6
  <1>3. \A q \in Procs : todo'[q] \in Seq(Unready)
    BY <1>1, <1>2, UntoldCall
  <1> QED BY <1>1, <1>3 DEF Untold

\* Without a created or deleted event no node endpoint becomes OK.
LEMMA HandledNotOk ==
    ASSUME NEW o \in NodeEps, ~o.ok, NEW ev, ev \notin {"created", "deleted"}
    PROVE  ~Handled(o, ev).ok
  <1>1. \A s \in EpStates : Target(s, ev, FALSE) \in (EpStates \ {"Created", "Deleted"}) \cup {Ignored}
    BY DEF Target, EpStates, DeletingHandleEvent, DeletedHandleEvent, FailedHandleEvent,
           CreatingHandleEvent, CreatedHandleEvent, ResolutionFailedHandleEvent, CreateOr, DeleteOr
  <1>2. \A s \in EpStates : Target(s, "failed", FALSE) \in (EpStates \ {"Created", "Deleted"}) \cup {Ignored}
    BY DEF Target, EpStates, DeletingHandleEvent, DeletedHandleEvent, FailedHandleEvent,
           CreatingHandleEvent, CreatedHandleEvent, ResolutionFailedHandleEvent, CreateOr, DeleteOr
  <1>3. ASSUME NEW n \in NodeEps, ~n.ok, NEW t \in (EpStates \ {"Created", "Deleted"}) \cup {Ignored}
        PROVE  Transition(n, t) \in NodeEps /\ ~Transition(n, t).ok
    <2> DEFINE b == t \in {"Created", "Deleted"}
    <2>1. Transition(n, t) = IF t = Ignored THEN n ELSE [n EXCEPT !.state = t, !.ok = b]
      BY DEF Transition
    <2>2. t # Ignored => b = FALSE
      BY DEF EpStates
    <2> HIDE DEF b
    <2> QED BY <1>3, <2>1, <2>2 DEF NodeEps
  <1> DEFINE t == Target(o.state, ev, FALSE)
             d == Dispatches(o, t)
  <1>4. t \in (EpStates \ {"Created", "Deleted"}) \cup {Ignored}
    BY <1>1 DEF NodeEps
  <1>5. d => t \in EpStates
    BY <1>4 DEF Dispatches, GeneratedAction, Ignored, EpStates
  <1>6. d => Target(t, "failed", FALSE) \in (EpStates \ {"Created", "Deleted"}) \cup {Ignored}
    BY <1>2, <1>5
  <1>7. Handled(o, ev) = IF d /\ worker = 0
                         THEN Transition(Transition(o, t), Target(t, "failed", FALSE)) ELSE Transition(o, t)
    BY DEF Handled
  <1> HIDE DEF t, d
  <1>8. Transition(o, t) \in NodeEps /\ ~Transition(o, t).ok
    BY <1>3, <1>4
  <1>9. d => ~Transition(Transition(o, t), Target(t, "failed", FALSE)).ok
    BY <1>3, <1>6, <1>8
  <1> QED BY <1>7, <1>8, <1>9

LEMMA UntoldWrites ==
    ASSUME IInv, Untold, NEW p \in Procs, Resolve(p) \/ HandleEvent(p) \/ Cache(p)
    PROVE  Untold'
  <1>1. /\ node' = node /\ todo[p] # <<>> /\ nodeep \in [Objects -> NodeEps] /\ entry \in Objects \cup {0}
        /\ \A o \in Objects : ~nodeep[o].ok
    BY DEF Resolve, HandleEvent, Cache, krm, At, IInv, NTypeOK, Untold
  <1>2. PICK js \in Seq(Unready) : Continue(p, js)
    <2>1. <<>> \in Seq(Unready)
      OBVIOUS
    <2>2. \A o \in Objects, b \in BOOLEAN : <<Store(o, b)>> \in Seq(Unready)
      BY UnreadyJobs, Pairs
    <2> QED BY <1>1, <2>1, <2>2 DEF Resolve, HandleEvent, Cache
  <1>3. \A q \in Procs : todo'[q] \in Seq(Unready)
    BY <1>1, <1>2, UntoldCall
  <1>4. \A o \in Objects : ~nodeep'[o].ok
    <2>1. CASE Resolve(p)
      <3>1. \A n \in NodeEps : \A b : SetResolved(n, b).ok = n.ok
        BY DEF SetResolved, NodeEps
      <3> QED BY <1>1, <2>1, <3>1 DEF Resolve
    <2>2. CASE HandleEvent(p)
      <3>1. Head(todo[p]).ev \notin {"created", "deleted"}
        <4>1. Head(todo[p]) \in Unready /\ Head(todo[p]).op = "event"
          BY <1>1, <2>2, UntoldHead DEF HandleEvent, At
        <4> QED BY <4>1 DEF Unready
      <3>2. nodeep' = nodeep \/ (entry # 0 /\ nodeep' = [nodeep EXCEPT ![entry] = Handled(nodeep[entry], Head(todo[p]).ev)])
        BY <2>2 DEF HandleEvent
      <3>3. entry # 0 => nodeep[entry] \in NodeEps /\ ~nodeep[entry].ok
        BY <1>1
      <3>4. entry # 0 => ~Handled(nodeep[entry], Head(todo[p]).ev).ok
        BY <3>1, <3>3, HandledNotOk
      <3> QED BY <1>1, <3>2, <3>4
    <2>3. CASE Cache(p)
      BY <1>1, <2>3 DEF Cache, Fresh
    <2> QED BY <2>1, <2>2, <2>3
  <1> QED BY <1>1, <1>3, <1>4 DEF Untold

LEMMA UntoldUpdate ==
    ASSUME IInv, Untold, NEW p \in Procs, StatusUpdate(p)
    PROVE  Untold'
  <1>1. todo[p] # <<>> /\ Head(todo[p]).op = "update" /\ Continue(p, <<>>) /\ UNCHANGED nodeep /\ node \in Nodes
    BY DEF StatusUpdate, At, cached, IInv, NTypeOK
  <1>2. Head(todo[p]) \in Unready
    BY <1>1, UntoldHead
  <1>3. Head(todo[p]).ep \in {"unknown", "notReady", "failed"}
    BY <1>1, <1>2 DEF Unready, Jobs
  <1>4. node' = node \/ node' = [node EXCEPT !.ep = Head(todo[p]).ep]
    BY DEF StatusUpdate
  <1>5. node'.ep # "ready" /\ ~node'.eps
    BY <1>1, <1>3, <1>4 DEF Untold, Nodes
  <1>6. <<>> \in Seq(Unready)
    OBVIOUS
  <1>7. \A q \in Procs : todo'[q] \in Seq(Unready)
    BY <1>1, <1>6, UntoldCall
  <1> QED BY <1>1, <1>5, <1>7 DEF Untold

LEMMA UntoldRec ==
    ASSUME IInv, Untold, Reconcile \/ EndpointGet \/ EndpointUpSertFails \/ NodeReady
    PROVE  Untold'
  <1>1. node \in Nodes /\ UNCHANGED nodeep /\ entry \in Objects \cup {0} /\ ~(entry # 0 /\ nodeep[entry].ok)
    BY DEF Reconcile, EndpointGet, EndpointUpSertFails, NodeReady, cached, IInv, NTypeOK, Untold
  <1>2. \/ todo' = todo
        \/ \E js \in Seq(Unready) : todo' = [todo EXCEPT ![Rec] = js] \/ (todo[Rec] # <<>> /\ Continue(Rec, js))
    <2>1. /\ <<[op |-> "delete"], Update("unknown", TRUE)>> \in Seq(Unready) /\ <<Get>> \in Seq(Unready)
          /\ <<[op |-> "upsert"]>> \in Seq(Unready) /\ <<Update("failed", TRUE)>> \in Seq(Unready)
      BY UnreadyJobs, Pairs DEF Again
    <2>2. CASE Reconcile
      BY <2>1, <2>2 DEF Reconcile, ReconcileDeleted, RemoveFinalizer, ReconcileNotReady, ReconcileNoModel,
                        ReconcileReady, CallFails, Get
    <2>3. CASE EndpointGet
      BY <1>1, <2>1, <2>3 DEF EndpointGet
    <2>4. CASE EndpointUpSertFails
      BY <2>1, <2>4 DEF EndpointUpSertFails, At
    <2>5. CASE NodeReady
      BY <2>5 DEF NodeReady
    <2> QED BY <2>2, <2>3, <2>4, <2>5
  <1>3. \A q \in Procs : todo'[q] \in Seq(Unready)
    <2>1. CASE todo' = todo
      BY <2>1 DEF Untold
    <2> QED BY <1>2, <2>1, UntoldCall, ProcFacts
  <1>4. node'.ep # "ready" /\ ~node'.eps
    <2>1. node.ep # "ready" /\ ~node.eps
      BY DEF Untold
    <2>2. CASE Reconcile
      BY <1>1, <2>1, <2>2 DEF Reconcile, ReconcileDeleted, RemoveFinalizer, ReconcileNotReady, ReconcileNoModel,
                              ReconcileReady, CallFails, Remaining, Nodes
    <2>3. CASE EndpointGet \/ EndpointUpSertFails \/ NodeReady
      BY <1>1, <2>1, <2>3 DEF EndpointGet, EndpointUpSertFails, NodeReady, krm, Nodes
    <2> QED BY <2>2, <2>3
  <1> QED BY <1>1, <1>3, <1>4 DEF Untold

LEMMA UntoldEnv ==
    ASSUME IInv, Untold, Env
    PROVE  Untold'
  <1>1. node \in Nodes /\ UNCHANGED nodeep /\ node.ep # "ready" /\ ~node.eps
    BY DEF Env, cached, IInv, NTypeOK, Untold
  <1>2. PICK c \in EnvOps : Environment(c)
    BY DEF Env
  <1>3. node'.ep # "ready" /\ ~node'.eps
    BY <1>1, <1>2 DEF Environment, Remaining, Nodes
  <1>4. todo' = todo \/ \E p \in Procs, js \in Seq(Unready) : todo' = [todo EXCEPT ![p] = js]
    <2>1. \A act \in {"upsert", "delete"} : <<[op |-> "list", act |-> act]>> \in Seq(Unready)
      BY UnreadyJobs, Pairs
    <2> QED BY <1>2, <2>1, ProcFacts DEF Environment
  <1>5. \A q \in Procs : todo'[q] \in Seq(Unready)
    <2>1. CASE todo' = todo
      BY <2>1 DEF Untold
    <2> QED BY <1>4, <2>1, UntoldCall
  <1> QED BY <1>1, <1>3, <1>5 DEF Untold

\* A worker reports success of a call that left every interface there.
LEMMA UntoldWork ==
    ASSUME IInv, Untold, NEW k \in Workers, Work(k)
    PROVE  Untold' \/ Deployed'
  <1>1. CASE EndpointCreate(k)
    BY <1>1 DEF EndpointCreate, Deploy, Deployed
  <1>2. CASE EndpointCreateFails(k)
    <2>1. <<Event("failed")>> \in Seq(Unready)
      BY UnreadyJobs, Pairs
    <2>2. todo' = [todo EXCEPT ![Goroutine(k)] = <<Event("failed")>>] /\ UNCHANGED <<nodeep, node>>
      BY <1>2 DEF EndpointCreateFails, Work, cached, krm
    <2>3. \A q \in Procs : todo'[q] \in Seq(Unready)
      BY <2>1, <2>2, ProcFacts, UntoldCall
    <2> QED BY <2>2, <2>3 DEF Untold
  <1> QED BY <1>1, <1>2 DEF Work

\* Only the end of a pod takes interfaces away.
LEMMA InterfacesStay ==
    ASSUME [NNext]_vars
    PROVE  (lost => lost') /\ (lost' \/ pair \cup half \subseteq pair' \cup half')
  <1>1. ASSUME NEW p \in Procs, Call(p) PROVE UNCHANGED <<pair, half, lost>>
    BY <1>1 DEF Call, Uncache, List, NewNodeEndpoint, nodeepCreate, nodeepDelete, Resolve,
                HandleEvent, Cache, StatusUpdate, world
  <1>2. ASSUME NEW k \in Workers, Work(k) PROVE UNCHANGED lost /\ pair \cup half \subseteq pair' \cup half'
    BY <1>2 DEF Work, EndpointCreate, EndpointCreateFails
  <1>3. CASE PodUpsert \/ PodDelete \/ DaemonUpsert \/ DaemonDelete
    BY <1>3 DEF PodUpsert, PodDelete, DaemonUpsert, DaemonDelete, world
  <1>4. CASE Reconcile \/ EndpointGet \/ EndpointUpSertFails \/ APIApply \/ NodeReady
    <2>1. UNCHANGED world
      BY <1>4 DEF Reconcile, EndpointGet, EndpointUpSertFails, APIApply, NodeReady
    <2> QED BY <2>1 DEF world
  <1>5. CASE Env
    BY <1>5 DEF Env
  <1>6. CASE UNCHANGED vars
    BY <1>6 DEF vars
  <1> QED BY <1>1, <1>2, <1>3, <1>4, <1>5, <1>6 DEF NNext

LEMMA DeployStep == IInv /\ DeployInv /\ [NNext]_vars => DeployInv'
  <1> SUFFICES ASSUME IInv, DeployInv, [NNext]_vars PROVE DeployInv'
    OBVIOUS
  <1>1. CASE lost \/ Deployed
    BY <1>1, InterfacesStay DEF DeployInv, Deployed
  <1>2. CASE Untold
    <2>1. ~APIApply
      <3>1. ASSUME APIApply PROVE FALSE
        <4>1. Head(todo[Rec]) \in Unready /\ Head(todo[Rec]).op = "apply"
          BY <1>2, <3>1, UntoldHead, ProcFacts DEF APIApply, At
        <4> QED BY <4>1 DEF Unready
      <3> QED BY <3>1
    <2>2. ASSUME NEW p \in Procs, Call(p) PROVE Untold'
      BY <1>2, <2>2, UntoldReads, UntoldWrites, UntoldUpdate DEF Call
    <2>3. ASSUME NEW k \in Workers, Work(k) PROVE Untold' \/ Deployed'
      BY <1>2, <2>3, UntoldWork
    <2>4. ASSUME UNCHANGED vars PROVE Untold'
      <3>1. UNCHANGED <<node, nodeep, todo>>
        BY <2>4 DEF vars
      <3> QED BY <1>2, <3>1 DEF Untold
    <2>5. Untold' \/ Deployed'
      BY <1>2, <2>1, <2>2, <2>3, <2>4, UntoldCallbacks, UntoldRec, UntoldEnv DEF NNext
    <2> QED BY <2>5 DEF DeployInv
  <1> QED BY <1>1, <1>2 DEF DeployInv

\* A Node that is EPReady or has its Endpoint resources has its interfaces, unless they went
\* with its pod: whatever fails half way, and whichever node endpoint is put back, success is
\* reported, stored, polled and written only after a call that left them all there.
THEOREM ReadyNodesHaveInterfaces == NSpec => []ReadyHasInterfaces
  <1>1. NInit => DeployInv
    <2>1. <<>> \in Seq(Unready)
      OBVIOUS
    <2> QED BY <2>1 DEF NInit, DeployInv, Untold, Fresh
  <1>2. DeployInv => ReadyHasInterfaces
    BY DEF DeployInv, ReadyHasInterfaces, Untold, Deployed
  <1> QED BY <1>1, <1>2, DeployStep, Invariance, PTL DEF NSpec

============================================================================
