------------------------ MODULE WireControllerProofs ------------------------
(***************************************************************************)
(* Theorems about WireController and about LinkController, its client, for *)
(* every value of their constants.                                         *)
(*                                                                         *)
(* The inductive invariant says what each goroutine may still have to do.  *)
(* AllowedAt(p, n, a) is the set of calls goroutine p may hold when n Wire *)
(* objects exist and a says whether WireDelete was ever called:            *)
(*                                                                         *)
(*  - a call refers only to Wire objects that exist;                       *)
(*  - a worker only reports answers and settles, it never writes;          *)
(*  - only the gRPC handler claims and inserts;                            *)
(*  - before WireDelete was called nobody deletes or forgets the wire.     *)
(*                                                                         *)
(* Both specifications take the steps of WireStep, so each lemma about a   *)
(* step serves both.  HeldInv, StableInv and PlaceInv follow a wire that   *)
(* nobody asked to delete, HoldInv a wire over one host and the finalizer  *)
(* of its Link, CalmInv the deletion of such a Link.                       *)
(***************************************************************************)
EXTENDS LinkController, SequenceTheorems, TLAPS

\* The Wire objects a call refers to are among the first n.
RefersUpTo(j, n) ==
    /\ j.op \in {"settle", "reconcile"} => j.w <= n
    /\ j.op \in {"write", "send"} => j.task.w <= n

WorkerJob(j) ==
    j.op \in {"settle", "forget"} \/ (j.op = "event" /\ j.ev \in Answers)

CreateJob(j) ==
    /\ j.op \notin {"forget", "wireDelete"}
    /\ j.op = "setDesired" => j.to = "create"

AllowedAt(p, n, a) ==
    {j \in Jobs :
        /\ RefersUpTo(j, n)
        /\ p \in Workers => WorkerJob(j)
        /\ p # Api => j.op \notin {"claim", "insert"}
        /\ ~a => CreateJob(j)}

JobInv == \A p \in Procs : todo[p] \in Seq(AllowedAt(p, Len(wires), asked))

\* Calls that do not allocate.
Unclaiming == {j \in Jobs : j.op \notin {"claim", "insert"}}

\* Only the first call of the gRPC handler can allocate.
ClaimFirst == todo[Api] # <<>> => Tail(todo[Api]) \in Seq(Unclaiming)

\* Before a deletion there is at most one Wire object.  Once it exists it is the
\* cached one, is wanted, owns its VXLAN id and no allocation is pending; a new wire is inserted with
\* its claim.
UnaskedInv ==
    ~asked =>
        /\ cached = Len(wires) /\ Len(wires) <= 1
        /\ \A i \in 1 .. Len(wires) : wires[i].desired = "create"
        /\ cached # NoWire => claimed /\ todo[Api] \in Seq(Unclaiming)
        /\ At(Api, "insert") => claimed

IInv == TypeOK /\ JobInv /\ ClaimFirst /\ UnaskedInv

----------------------------------------------------------------------------
(* Sequences of calls *)

\* Sequences over a set are sequences over any larger set.
LEMMA SeqMono ==
    ASSUME NEW S, NEW T, S \subseteq T
    PROVE  Seq(S) \subseteq Seq(T)
  OBVIOUS

\* What Continue leaves of a goroutine's calls stays within a set of calls.
LEMMA ContinueSeq ==
    ASSUME NEW S, NEW s \in Seq(S), s # <<>>, NEW js \in Seq(S)
    PROVE  js \o Tail(s) \in Seq(S)
  <1>1. Tail(s) \in Seq(S)
    OBVIOUS
  <1> QED BY <1>1

\* Sequences of at most two calls.
LEMMA ShortSeqs ==
    ASSUME NEW S
    PROVE  /\ <<>> \in Seq(S)
           /\ \A a \in S : <<a>> \in Seq(S)
           /\ \A a, b \in S : <<a, b>> \in Seq(S)
  OBVIOUS

\* Sequences of one and two calls, put together.
LEMMA ShortConcat ==
    ASSUME NEW a, NEW b
    PROVE  <<a>> \o <<>> \o <<b>> = <<a, b>> /\ <<>> \o <<>> \o <<b>> = <<b>>
  <1> DEFINE S == {a, b}
             s == <<a>> \o <<>> \o <<b>>
             t == <<a, b>>
  <1>1. s \in Seq(S) /\ t \in Seq(S) /\ Len(s) = 2 /\ Len(t) = 2
    OBVIOUS
  <1>2. s[1] = a /\ s[2] = b /\ t[1] = a /\ t[2] = b
    OBVIOUS
  <1>3. \A i \in 1 .. Len(s) : s[i] = t[i]
    <2> HIDE DEF s, t
    <2> QED BY <1>1, <1>2
  <1>4. s = t
    <2> HIDE DEF s, t, S
    <2> QED BY <1>1, <1>3, SeqEqual
  <1>5. <<>> \o <<>> \o <<b>> = <<b>>
    <2>1. <<b>> \in Seq(S)
      OBVIOUS
    <2> QED BY <2>1, ConcatEmptySeq
  <1> QED BY <1>4, <1>5

\* The head of a goroutine's calls is one of the calls it may hold.
LEMMA HeadIn ==
    ASSUME NEW S, NEW s \in Seq(S), s # <<>>
    PROVE  Head(s) \in S
  OBVIOUS

----------------------------------------------------------------------------
(* Calls *)

\* The fields of every kind of call.
LEMMA JobFields ==
    ASSUME NEW j \in Jobs
    PROVE  /\ j.op = "setDesired" => j.to \in {"create", "delete"}
           /\ j.op = "startWorker" => j.host \in Hosts
           /\ j.op \in {"reconcile", "settle"} => j.w \in Wires
           /\ j.op = "resolve" => j.data \in [Ep -> Data]
           /\ j.op = "unresolve" => j.ep \in Ep
           /\ j.op = "event" => /\ j.ev \in Events /\ j.ep \in Ep
                                /\ j.same \in BOOLEAN /\ j.hold \in BOOLEAN
           /\ j.op \in {"write", "send"} => j.task \in Tasks
           /\ j.op = "send" => j.worker \in Workers
  BY DEF Jobs

\* Every call the actions build is one of Jobs.
LEMMA JobKinds ==
    /\ \A to \in {"create", "delete"} : [op |-> "setDesired", to |-> to] \in Jobs
    /\ [op |-> "claim"] \in Jobs
    /\ [op |-> "insert"] \in Jobs
    /\ [op |-> "forget"] \in Jobs
    /\ \A o \in {"wireCreate", "wireDelete"}, r \in {"api", "callback"} :
          [op |-> o, origin |-> r] \in Jobs
    /\ \A h \in Hosts : [op |-> "startWorker", host |-> h] \in Jobs
    /\ \A o \in {"reconcile", "settle"}, w \in Wires : [op |-> o, w |-> w] \in Jobs
    /\ \A d \in [Ep -> Data] : [op |-> "resolve", data |-> d] \in Jobs
    /\ \A e \in Ep : [op |-> "unresolve", ep |-> e] \in Jobs
    /\ \A ev \in Events, e \in Ep, same \in BOOLEAN, hold \in BOOLEAN :
          Event(ev, e, same, hold) \in Jobs
    /\ \A t \in Tasks : [op |-> "write", task |-> t] \in Jobs
    /\ \A k \in Workers, t \in Tasks : [op |-> "send", worker |-> k, task |-> t] \in Jobs
  BY DEF Jobs, Event

----------------------------------------------------------------------------
(* The state machine and the Wire object *)

\* Every handler of state.go ends in a state or leaves the object alone.
LEMMA TargetType ==
    ASSUME NEW s \in EpStates, NEW ev, NEW same \in BOOLEAN
    PROVE  Target(s, ev, same) \in EpStates \cup {Ignored}
  BY DEF Target, EpStates, DeletingHandleEvent, DeletedHandleEvent, FailedHandleEvent,
         CreatingHandleEvent, CreatedHandleEvent, ResolutionFailedHandleEvent,
         CreateOr, DeleteOr

\* No handler generates a worker action for the answer of a worker.
LEMMA AnswerGeneratesNothing ==
    ASSUME NEW s \in EpStates, NEW ev \in Answers, NEW same \in BOOLEAN
    PROVE  GeneratedAction(Target(s, ev, same)) = Ignored
  BY DEF Target, EpStates, Answers, DeletingHandleEvent, DeletedHandleEvent, FailedHandleEvent,
         CreatingHandleEvent, CreatedHandleEvent, ResolutionFailedHandleEvent,
         CreateOr, DeleteOr, GeneratedAction, Ignored

\* Transition keeps a Wire object well formed and does not touch what is desired.
LEMMA TransitionType ==
    ASSUME NEW o \in WireObjects, NEW e \in Ep, NEW t \in EpStates \cup {Ignored}
    PROVE  /\ Transition(o, e, t) \in WireObjects
           /\ Transition(o, e, t).desired = o.desired
  <1>1. CASE t = Ignored
    BY <1>1 DEF Transition
  <1>2. CASE t # Ignored
    <2> DEFINE b == t \in {"Created", "Deleted"}
    <2>1. b \in BOOLEAN
      OBVIOUS
    <2>2. Transition(o, e, t) = [o EXCEPT !.state[e] = t, !.ok[e] = b]
      BY <1>2, Zenon DEF Transition
    <2> HIDE DEF b
    <2>3. [o EXCEPT !.state[e] = t, !.ok[e] = b] \in WireObjects
      BY <1>2, <2>1 DEF WireObjects
    <2>4. [o EXCEPT !.state[e] = t, !.ok[e] = b].desired = o.desired
      BY DEF WireObjects
    <2> QED BY <2>2, <2>3, <2>4
  <1> QED BY <1>1, <1>2

\* A generated event is the write of a task for the wire, or nothing.
LEMMA GeneratedType ==
    ASSUME NEW w \in Wires, NEW e \in Ep, NEW t
    PROVE  \/ Generated(w, e, t) = <<>> /\ GeneratedAction(t) = Ignored
           \/ /\ GeneratedAction(t) # Ignored
              /\ \E task \in Tasks : /\ task.w = w
                                     /\ Generated(w, e, t) = <<[op |-> "write", task |-> task]>>
  <1>1. CASE GeneratedAction(t) = Ignored
    BY <1>1 DEF Generated
  <1>2. CASE GeneratedAction(t) # Ignored
    <2>1. GeneratedAction(t) \in WorkerActions
      BY <1>2 DEF GeneratedAction, WorkerActions, Ignored
    <2>2. [act |-> GeneratedAction(t), ep |-> e, w |-> w] \in Tasks
      BY <2>1 DEF Tasks
    <2> QED BY <1>2, <2>2 DEF Generated
  <1> QED BY <1>1, <1>2

----------------------------------------------------------------------------
(* The goroutines *)

\* Callbacks, workers and the gRPC handler are different goroutines.
LEMMA ProcsDisjoint ==
    /\ Api \in Procs /\ Api \notin Workers /\ Api \notin Callbacks
    /\ Callbacks \subseteq Procs /\ Workers \subseteq Procs
    /\ Callbacks \cap Workers = {}
  BY ConstantsAssumption DEF Api, Workers, Callbacks, Procs, Ep

\* More calls are allowed with more Wire objects and after a WireDelete.
LEMMA AllowedMono ==
    ASSUME NEW p, NEW n \in Nat, NEW m \in Nat, NEW a \in BOOLEAN, NEW b \in BOOLEAN,
           n <= m, a => b
    PROVE  Seq(AllowedAt(p, n, a)) \subseteq Seq(AllowedAt(p, m, b))
  <1>1. ASSUME NEW j \in Jobs, RefersUpTo(j, n)
        PROVE  RefersUpTo(j, m)
    <2>1. j.op \in {"settle", "reconcile"} => j.w \in Wires
      BY JobFields
    <2>2. j.op \in {"write", "send"} => j.task \in Tasks
      BY JobFields
    <2>3. j.op \in {"write", "send"} => j.task.w \in Wires
      BY <2>2 DEF Tasks
    <2> QED BY <1>1, <2>1, <2>3, ConstantsAssumption DEF RefersUpTo, Wires
  <1>2. AllowedAt(p, n, a) \subseteq AllowedAt(p, m, b)
    BY <1>1 DEF AllowedAt
  <1> QED BY <1>2, SeqMono

\* The calls of AllowedAt are calls.
LEMMA AllowedAreJobs ==
    ASSUME NEW p, NEW n, NEW a
    PROVE  Seq(AllowedAt(p, n, a)) \subseteq Seq(Jobs)
  BY SeqMono DEF AllowedAt

\* Replacing the calls of some goroutines by allowed ones keeps the others allowed.
LEMMA JobInvSet ==
    ASSUME TypeOK, JobInv,
           DOMAIN todo' = Procs, todo' = [q \in DOMAIN todo' |-> todo'[q]],
           wires' \in Seq(WireObjects), asked' \in BOOLEAN,
           Len(wires) <= Len(wires'), asked => asked',
           \A q \in Procs : todo'[q] = todo[q]
                             \/ todo'[q] \in Seq(AllowedAt(q, Len(wires'), asked'))
    PROVE  todo' \in [Procs -> Seq(Jobs)] /\ JobInv'
  <1> USE DEF TypeOK
  <1>1. Len(wires) \in Nat /\ Len(wires') \in Nat
    OBVIOUS
  <1>2. \A q \in Procs : todo'[q] \in Seq(AllowedAt(q, Len(wires'), asked'))
    <2> TAKE q \in Procs
    <2>1. todo[q] \in Seq(AllowedAt(q, Len(wires), asked))
      BY DEF JobInv
    <2>2. Seq(AllowedAt(q, Len(wires), asked)) \subseteq Seq(AllowedAt(q, Len(wires'), asked'))
      BY <1>1, AllowedMono
    <2> QED BY <2>1, <2>2
  <1>3. \A q \in Procs : todo'[q] \in Seq(Jobs)
    BY <1>2, AllowedAreJobs
  <1>4. JobInv'
    BY <1>2 DEF JobInv
  <1> QED BY <1>3, <1>4

\* The calls an action may put in front: allowed ones that do not allocate.
New(p, n, a) == AllowedAt(p, n, a) \cap Unclaiming

\* A goroutine that did its first call and got allowed calls in front of the
\* rest keeps the invariant's part about calls.
LEMMA ContinueKeeps ==
    ASSUME IInv, NEW p \in Procs, todo[p] # <<>>, NEW js, Continue(p, js),
           wires' \in Seq(WireObjects), asked' \in BOOLEAN,
           Len(wires) <= Len(wires'), asked => asked',
           js \in Seq(New(p, Len(wires'), asked'))
    PROVE  /\ todo' \in [Procs -> Seq(Jobs)] /\ JobInv' /\ ClaimFirst'
           /\ p # Api => todo'[Api] = todo[Api]
           /\ p = Api => todo'[Api] \in Seq(Unclaiming)
  <1> USE DEF IInv, TypeOK
  <1>0. todo' = [todo EXCEPT ![p] = js \o Tail(@)]
    BY DEF Continue
  <1>1. /\ js \in Seq(AllowedAt(p, Len(wires'), asked'))
        /\ js \in Seq(Unclaiming)
    BY SeqMono DEF New
  <1>2. todo[p] \in Seq(AllowedAt(p, Len(wires'), asked'))
    <2>1. todo[p] \in Seq(AllowedAt(p, Len(wires), asked))
      BY DEF JobInv
    <2>2. Len(wires) \in Nat /\ Len(wires') \in Nat
      OBVIOUS
    <2> QED BY <2>1, <2>2, AllowedMono
  <1>3. todo'[p] = js \o Tail(todo[p])
    BY <1>0
  <1>4. todo'[p] \in Seq(AllowedAt(p, Len(wires'), asked'))
    BY <1>1, <1>2, <1>3, ContinueSeq
  <1>5. \A q \in Procs : todo'[q] = todo[q]
                           \/ todo'[q] \in Seq(AllowedAt(q, Len(wires'), asked'))
    BY <1>0, <1>4
  <1>6. DOMAIN todo' = Procs /\ todo' = [q \in DOMAIN todo' |-> todo'[q]]
    BY <1>0
  <1>7. todo' \in [Procs -> Seq(Jobs)] /\ JobInv'
    BY <1>5, <1>6, JobInvSet
  <1>8. p # Api => todo'[Api] = todo[Api]
    BY <1>0, ProcsDisjoint
  <1>9. p = Api => todo'[Api] \in Seq(Unclaiming)
    <2> SUFFICES ASSUME p = Api PROVE todo'[Api] \in Seq(Unclaiming)
      OBVIOUS
    <2>1. Tail(todo[Api]) \in Seq(Unclaiming)
      BY DEF ClaimFirst
    <2> QED BY <1>1, <1>3, <2>1
  <1>10. ClaimFirst'
    <2>1. CASE p = Api
      BY <2>1, <1>9 DEF ClaimFirst
    <2>2. CASE p # Api
      BY <2>2, <1>8 DEF ClaimFirst
    <2> QED BY <2>1, <2>2
  <1> QED BY <1>7, <1>8, <1>9, <1>10

\* The first call of a goroutine is allowed.
LEMMA HeadAllowed ==
    ASSUME IInv, NEW p \in Procs, todo[p] # <<>>
    PROVE  Head(todo[p]) \in AllowedAt(p, Len(wires), asked)
  BY HeadIn DEF IInv, JobInv

----------------------------------------------------------------------------
(* The steps of a goroutine *)

\* The type invariant without the goroutines.
RestOK ==
    /\ pod \in [Ep -> Hosts \cup {"NotReady", "Absent"}]
    /\ daemon \in [Hosts -> {"ready", "notReady", "absent"}]
    /\ topology \in {"ready", "notReady", "absent"}
    /\ worker \in [Hosts -> 0 .. MaxWorkers]
    /\ started \in [Hosts -> 0 .. MaxWorkers]
    /\ queue \in [Workers -> Seq(Tasks)]
    /\ wires \in Seq(WireObjects) /\ Len(wires) <= MaxWires
    /\ cached \in 0 .. Len(wires)
    /\ claimed \in BOOLEAN
    /\ deployed \subseteq Hosts
    /\ removing \in ({"daemon"} \X Hosts) \cup ({"pod"} \X Ep) \cup {<<>>}
    /\ asked \in BOOLEAN
    /\ used \in [{"api", "env", "fail"} -> Nat]
    /\ used["api"] <= MaxApi /\ used["env"] <= MaxEnv /\ used["fail"] <= MaxFail

\* The type invariant is that and the type of the goroutines.
LEMMA TypeParts == TypeOK <=> RestOK /\ todo \in [Procs -> Seq(Jobs)]
  BY DEF TypeOK, RestOK

\* Calls that leave what is desired, and before a deletion the cache and the
\* claim, alone preserve the invariant.
LEMMA CallStep ==
    ASSUME IInv, NEW p \in Procs, todo[p] # <<>>, NEW js, Continue(p, js),
           RestOK', asked' = asked, Len(wires') = Len(wires),
           ~asked => /\ cached' = cached /\ claimed' = claimed
                     /\ \A i \in 1 .. Len(wires) : wires'[i].desired = wires[i].desired,
           js \in Seq(New(p, Len(wires), asked))
    PROVE  IInv'
  <1>1. wires' \in Seq(WireObjects) /\ asked' \in BOOLEAN /\ Len(wires) <= Len(wires')
    BY DEF RestOK
  <1>2. /\ todo' \in [Procs -> Seq(Jobs)] /\ JobInv' /\ ClaimFirst'
        /\ p # Api => todo'[Api] = todo[Api]
        /\ p = Api => todo'[Api] \in Seq(Unclaiming)
    BY <1>1, ContinueKeeps
  <1>3. TypeOK'
    BY <1>2, TypeParts DEF TypeOK, RestOK
  <1>4. UnaskedInv'
    <2> SUFFICES ASSUME ~asked'
                 PROVE  /\ cached' = Len(wires') /\ Len(wires') <= 1
                        /\ \A i \in 1 .. Len(wires') : wires'[i].desired = "create"
                        /\ cached' # NoWire => claimed' /\ todo'[Api] \in Seq(Unclaiming)
                        /\ At(Api, "insert")' => claimed'
      BY DEF UnaskedInv
    <2>1. cached' = Len(wires') /\ Len(wires') <= 1
      BY DEF IInv, UnaskedInv
    <2>2. \A i \in 1 .. Len(wires') : wires'[i].desired = "create"
      BY DEF IInv, UnaskedInv
    <2>3. ASSUME cached' # NoWire PROVE claimed' /\ todo'[Api] \in Seq(Unclaiming)
      BY <2>3, <1>2 DEF IInv, UnaskedInv
    <2>4. ASSUME At(Api, "insert")' PROVE claimed'
      <3>1. todo'[Api] \notin Seq(Unclaiming)
        BY <2>4, HeadIn DEF At, Unclaiming
      <3>2. At(Api, "insert")
        BY <2>4, <3>1, <1>2 DEF At
      <3> QED BY <3>2 DEF IInv, UnaskedInv
    <2> QED BY <2>1, <2>2, <2>3, <2>4
  <1> QED BY <1>2, <1>3, <1>4 DEF IInv

\* No call in front: always allowed.
LEMMA EmptyNew ==
    ASSUME NEW p, NEW n, NEW a
    PROVE  <<>> \in Seq(New(p, n, a))
  OBVIOUS

\* A single call in front.
LEMMA OneNew ==
    ASSUME NEW p, NEW n, NEW a, NEW j \in New(p, n, a)
    PROVE  <<j>> \in Seq(New(p, n, a))
  OBVIOUS

\* The fields of a Wire object that the cache writes directly.
LEMMA WireFields ==
    ASSUME NEW o \in WireObjects
    PROVE  /\ \A to \in {"create", "delete"} :
                 /\ [o EXCEPT !.desired = to] \in WireObjects
                 /\ [o EXCEPT !.desired = to].desired = to
           /\ \A d \in [Ep -> Data] :
                 /\ [o EXCEPT !.host = d] \in WireObjects
                 /\ [o EXCEPT !.host = d].desired = o.desired
           /\ \A e \in Ep :
                 /\ [o EXCEPT !.host[e] = NoHost] \in WireObjects
                 /\ [o EXCEPT !.host[e] = NoHost].desired = o.desired
  BY DEF WireObjects, Data

\* Replacing a Wire object by another one.
LEMMA WireUpdate ==
    ASSUME NEW ws \in Seq(WireObjects), NEW i \in 1 .. Len(ws), NEW o \in WireObjects
    PROVE  /\ [ws EXCEPT ![i] = o] \in Seq(WireObjects)
           /\ Len([ws EXCEPT ![i] = o]) = Len(ws)
           /\ o.desired = ws[i].desired =>
                 \A k \in 1 .. Len(ws) : [ws EXCEPT ![i] = o][k].desired = ws[k].desired
  OBVIOUS

\* SetDesiredAction preserves the invariant: before a deletion it sets "create".
LEMMA SetDesiredStep ==
    ASSUME IInv, NEW p \in Procs, SetDesiredAction(p)
    PROVE  IInv'
  <1> DEFINE to == Head(todo[p]).to
  <1>1. todo[p] # <<>> /\ Head(todo[p]).op = "setDesired"
    BY DEF SetDesiredAction, At
  <1>2. Head(todo[p]) \in AllowedAt(p, Len(wires), asked)
    BY <1>1, HeadAllowed
  <1>3. to \in {"create", "delete"} /\ (~asked => to = "create")
    BY <1>1, <1>2, JobFields DEF AllowedAt, CreateJob
  <1>4. CASE cached = NoWire
    <2>1. Continue(p, <<>>) /\ wires' = wires /\ RestOK' /\ asked' = asked
          /\ cached' = cached /\ claimed' = claimed
      BY <1>4 DEF SetDesiredAction, cacheVars, workerVars, IInv, TypeOK, RestOK
    <2> QED BY <2>1, <1>1, CallStep, EmptyNew
  <1>5. CASE cached # NoWire
    <2> DEFINE o == [wires[cached] EXCEPT !.desired = to]
    <2>1. wires \in Seq(WireObjects) /\ cached \in 1 .. Len(wires)
      BY <1>5 DEF IInv, TypeOK, NoWire
    <2>2. o \in WireObjects /\ o.desired = to
      <3>1. wires[cached] \in WireObjects
        BY <2>1
      <3> QED BY <3>1, <1>3, WireFields
    <2>3. wires' = [wires EXCEPT ![cached] = o]
      BY <1>5, <2>1 DEF SetDesiredAction
    <2> HIDE DEF o, to
    <2>4. wires' \in Seq(WireObjects) /\ Len(wires') = Len(wires)
      BY <2>1, <2>2, <2>3, WireUpdate
    <2>5. ~asked => \A i \in 1 .. Len(wires) : wires'[i].desired = wires[i].desired
      BY <2>1, <2>2, <2>3, <1>3, WireUpdate DEF IInv, UnaskedInv
    <2>6. Continue(p, <<>>) /\ RestOK' /\ asked' = asked
          /\ cached' = cached /\ claimed' = claimed
      BY <2>4 DEF SetDesiredAction, cacheVars, workerVars, IInv, TypeOK, RestOK
    <2> QED BY <2>4, <2>5, <2>6, <1>1, CallStep, EmptyNew
  <1> QED BY <1>4, <1>5

\* Resolve and UnResolve preserve the invariant: they write the resolution only.
LEMMA ResolveStep ==
    ASSUME IInv, NEW p \in Procs, Resolve(p) \/ UnResolve(p)
    PROVE  IInv'
  <1> DEFINE j == Head(todo[p])
  <1>1. todo[p] # <<>> /\ j.op \in {"resolve", "unresolve"}
    BY DEF Resolve, UnResolve, At
  <1>2. j \in Jobs
    BY <1>1, HeadAllowed DEF AllowedAt
  <1>3. CASE cached = NoWire
    <2>1. Continue(p, <<>>) /\ wires' = wires /\ RestOK' /\ asked' = asked
          /\ cached' = cached /\ claimed' = claimed
      BY <1>3 DEF Resolve, UnResolve, cacheVars, workerVars, IInv, TypeOK, RestOK
    <2> QED BY <2>1, <1>1, CallStep, EmptyNew
  <1>4. CASE cached # NoWire
    <2>1. wires \in Seq(WireObjects) /\ cached \in 1 .. Len(wires)
      BY <1>4 DEF IInv, TypeOK, NoWire
    <2>2. \E o \in WireObjects : /\ o.desired = wires[cached].desired
                                 /\ wires' = [wires EXCEPT ![cached] = o]
      <3>1. CASE Resolve(p)
        <4> DEFINE o == [wires[cached] EXCEPT !.host = j.data]
        <4>1. j.data \in [Ep -> Data]
          BY <3>1, <1>2, JobFields DEF Resolve, At
        <4>2. o \in WireObjects /\ o.desired = wires[cached].desired
          <5>1. wires[cached] \in WireObjects
            BY <2>1
          <5> QED BY <5>1, <4>1, WireFields
        <4>3. wires' = [wires EXCEPT ![cached] = o]
          BY <3>1, <1>4, <2>1 DEF Resolve
        <4> QED BY <4>2, <4>3
      <3>2. CASE UnResolve(p)
        <4> DEFINE o == [wires[cached] EXCEPT !.host[j.ep] = NoHost]
        <4>1. j.ep \in Ep
          BY <3>2, <1>2, JobFields DEF UnResolve, At
        <4>2. o \in WireObjects /\ o.desired = wires[cached].desired
          <5>1. wires[cached] \in WireObjects
            BY <2>1
          <5> QED BY <5>1, <4>1, WireFields
        <4>3. wires' = [wires EXCEPT ![cached] = o]
          BY <3>2, <1>4, <2>1 DEF UnResolve
        <4> QED BY <4>2, <4>3
      <3> QED BY <3>1, <3>2
    <2>3. PICK o \in WireObjects : /\ o.desired = wires[cached].desired
                                  /\ wires' = [wires EXCEPT ![cached] = o]
      BY <2>2
    <2>4. /\ wires' \in Seq(WireObjects) /\ Len(wires') = Len(wires)
          /\ \A i \in 1 .. Len(wires) : wires'[i].desired = wires[i].desired
      BY <2>1, <2>3, WireUpdate
    <2>5. Continue(p, <<>>) /\ RestOK' /\ asked' = asked
          /\ cached' = cached /\ claimed' = claimed
      BY <2>4 DEF Resolve, UnResolve, cacheVars, workerVars, IInv, TypeOK, RestOK
    <2> QED BY <2>4, <2>5, <1>1, CallStep, EmptyNew
  <1> QED BY <1>3, <1>4

\* The spent bounds are within the bounds.
UsedOK ==
    /\ used \in [{"api", "env", "fail"} -> Nat]
    /\ used["api"] <= MaxApi /\ used["env"] <= MaxEnv /\ used["fail"] <= MaxFail

\* A failure is charged only while the bound allows it.
LEMMA SpendFail ==
    ASSUME TypeOK, NEW c, MayFail(c), Spend("fail")
    PROVE  UsedOK'
  BY ConstantsAssumption DEF TypeOK, MayFail, Spend, UsedOK

\* Claim preserves the invariant: only the gRPC handler claims, as its first
\* call, and before a deletion only when there is no wire.
LEMMA ClaimStep ==
    ASSUME IInv, NEW p \in Procs, Claim(p)
    PROVE  IInv'
  <1> DEFINE j == Head(todo[p])
             ins == [op |-> "insert"]
             S == AllowedAt(Api, Len(wires), asked)
  <1>1. todo[p] # <<>> /\ j.op = "claim"
    BY DEF Claim, At
  <1>2. p = Api
    BY <1>1, HeadAllowed DEF AllowedAt
  <1>3. ~asked => cached = NoWire
    <2>1. todo[Api] \notin Seq(Unclaiming)
      BY <1>1, <1>2, HeadIn DEF Unclaiming
    <2> QED BY <2>1 DEF IInv, UnaskedInv
  <1>4. /\ UNCHANGED <<pod, daemon, topology, removing, worker, started, queue, wires, cached,
                        deployed, asked>>
        /\ claimed' \in BOOLEAN
    BY DEF Claim, cacheVars, workerVars, IInv, TypeOK
  <1>5. /\ TypeOK /\ JobInv /\ wires' \in Seq(WireObjects) /\ asked' \in BOOLEAN
        /\ Len(wires) <= Len(wires') /\ (asked => asked')
    BY <1>4 DEF IInv, TypeOK
  <1>6. UsedOK'
    <2>1. used' = used \/ (MayFail("claim") /\ Spend("fail"))
      BY DEF Claim
    <2>2. CASE used' = used
      BY <2>2 DEF UsedOK, IInv, TypeOK
    <2> QED BY <2>1, <2>2, SpendFail DEF IInv
  <1>7. RestOK'
    BY <1>4, <1>6 DEF IInv, TypeOK, RestOK, UsedOK
  <1>8. PICK js : /\ todo' = [todo EXCEPT ![Api] = js]
                  /\ js \in Seq(S)
                  /\ js # <<>> => Tail(js) \in Seq(Unclaiming) /\ claimed'
    <2>1. CASE claimed' = TRUE /\ Continue(p, <<ins>>)
      <3> DEFINE rest == Tail(todo[Api])
                 js == <<ins>> \o rest
      <3>1. rest \in Seq(S) /\ rest \in Seq(Unclaiming)
        BY <1>1, <1>2, ProcsDisjoint DEF IInv, JobInv, ClaimFirst
      <3>2. ins \in S
        BY JobKinds, ProcsDisjoint DEF AllowedAt, RefersUpTo, CreateJob
      <3>3. todo' = [todo EXCEPT ![Api] = js]
        BY <1>2, <2>1, ProcsDisjoint DEF Continue, IInv, TypeOK
      <3> HIDE DEF rest, S, ins
      <3>4. js \in Seq(S) /\ Tail(js) = rest
        BY <3>1, <3>2
      <3> QED BY <2>1, <3>1, <3>3, <3>4
    <2>2. CASE todo' = [todo EXCEPT ![p] = <<>>]
      <3>1. todo' = [todo EXCEPT ![Api] = <<>>] /\ <<>> \in Seq(S)
        BY <1>2, <2>2, ShortSeqs
      <3> HIDE DEF S
      <3> WITNESS <<>>
      <3> QED BY <3>1
    <2> QED BY <2>1, <2>2 DEF Claim
  <1>9. todo'[Api] = js
    BY <1>8, ProcsDisjoint DEF IInv, TypeOK
  <1>10. todo' \in [Procs -> Seq(Jobs)] /\ JobInv'
    <2>1. DOMAIN todo' = Procs /\ todo' = [q \in DOMAIN todo' |-> todo'[q]]
      BY <1>8 DEF IInv, TypeOK
    <2>2. \A q \in Procs : todo'[q] = todo[q]
                            \/ todo'[q] \in Seq(AllowedAt(q, Len(wires'), asked'))
      BY <1>4, <1>8 DEF IInv, TypeOK
    <2> QED BY <2>1, <2>2, <1>5, JobInvSet
  <1>11. ClaimFirst'
    BY <1>8, <1>9 DEF ClaimFirst
  <1>12. UnaskedInv'
    BY <1>3, <1>4, <1>8, <1>9 DEF IInv, UnaskedInv, At
  <1>13. TypeOK'
    BY <1>7, <1>10 DEF TypeOK, RestOK
  <1> QED BY <1>10, <1>11, <1>12, <1>13 DEF IInv

\* Insert preserves the invariant: before a deletion the new wire is the first.
LEMMA InsertStep ==
    ASSUME IInv, NEW p \in Procs, Insert(p)
    PROVE  IInv'
  <1> DEFINE j == Head(todo[p])
  <1>1. todo[p] # <<>> /\ j.op = "insert"
    BY DEF Insert, At
  <1>2. p = Api
    BY <1>1, HeadAllowed DEF AllowedAt
  <1>3. ~asked => cached = NoWire /\ Len(wires) = 0 /\ claimed
    <2>1. todo[Api] \notin Seq(Unclaiming)
      BY <1>1, <1>2, HeadIn DEF Unclaiming
    <2> QED BY <1>1, <1>2, <2>1 DEF IInv, UnaskedInv, NoWire, At
  <1>4. NewWire \in WireObjects /\ NewWire.desired = "create"
    BY DEF NewWire, WireObjects, EpStates, Data
  <1>5. /\ wires' = Append(wires, NewWire) /\ Len(wires) < MaxWires /\ cached' = Len(wires) + 1
        /\ Continue(p, <<>>) /\ claimed' = claimed /\ asked' = asked
    BY DEF Insert
  <1>6. /\ wires' \in Seq(WireObjects) /\ Len(wires') = Len(wires) + 1
        /\ wires'[Len(wires) + 1] = NewWire
    BY <1>4, <1>5 DEF IInv, TypeOK
  <1>7. RestOK'
    <2>1. cached' \in 0 .. Len(wires') /\ Len(wires') <= MaxWires
      BY <1>5, <1>6, ConstantsAssumption DEF IInv, TypeOK
    <2> QED BY <1>6, <2>1 DEF Insert, cacheVars, workerVars, IInv, TypeOK, RestOK
  <1>8. Len(wires) <= Len(wires') /\ asked' \in BOOLEAN
    BY <1>5, <1>6 DEF IInv, TypeOK
  <1>9. /\ todo' \in [Procs -> Seq(Jobs)] /\ JobInv' /\ ClaimFirst'
        /\ todo'[Api] \in Seq(Unclaiming)
    BY <1>1, <1>2, <1>5, <1>6, <1>8, ContinueKeeps, EmptyNew
  <1>10. TypeOK'
    BY <1>7, <1>9 DEF TypeOK, RestOK
  <1>11. UnaskedInv'
    BY <1>3, <1>4, <1>5, <1>6, <1>9 DEF UnaskedInv
  <1> QED BY <1>9, <1>10, <1>11 DEF IInv

\* resolveWire gives each endpoint a host, the remote cluster or a failure.
LEMMA resolveWireType ==
    ASSUME TypeOK
    PROVE  resolveWire \in [Ep -> Data]
  BY DEF TypeOK, resolveWire, resolveEndpoint, Data

\* Events of the state machine, as calls.
RequestEvents == {j \in Jobs : j.op = "event"}

\* What wireCreate and wireDelete send are events.
LEMMA CallsType ==
    ASSUME NEW d \in [Ep -> Data], NEW origin
    PROVE  /\ CreateCalls(d, origin) \in Seq(RequestEvents)
           /\ DeleteCalls(d) \in Seq(RequestEvents)
  <1>1. \A ev \in Events, e \in Ep, same \in BOOLEAN, hold \in BOOLEAN :
            Event(ev, e, same, hold) \in RequestEvents
    BY JobKinds DEF RequestEvents, Event
  <1> DEFINE b == (d[0] = d[1])
  <1>2. b \in BOOLEAN
    OBVIOUS
  <1>3. /\ Event("create", 0, FALSE, FALSE) \in RequestEvents
        /\ Event("create", 1, b, FALSE) \in RequestEvents
        /\ Event("delete", 0, FALSE, FALSE) \in RequestEvents
        /\ Event("delete", 1, b, FALSE) \in RequestEvents
        /\ Event("resolutionFailed", 0, FALSE, TRUE) \in RequestEvents
        /\ Event("resolutionFailed", 1, FALSE, TRUE) \in RequestEvents
    BY <1>1, <1>2 DEF Events, Requests, Ep
  <1> DEFINE c0 == IF d[0] # Peer THEN <<Event("create", 0, FALSE, FALSE)>> ELSE <<>>
             c1 == IF d[1] # Peer THEN <<Event("create", 1, b, FALSE)>> ELSE <<>>
             d0 == IF d[0] \in Hosts THEN <<Event("delete", 0, FALSE, FALSE)>> ELSE <<>>
             d1 == IF d[1] \in Hosts THEN <<Event("delete", 1, b, FALSE)>> ELSE <<>>
  <1>4. /\ c0 \in Seq(RequestEvents) /\ c1 \in Seq(RequestEvents)
        /\ d0 \in Seq(RequestEvents) /\ d1 \in Seq(RequestEvents)
    BY <1>3, ShortSeqs
  <1>5. /\ <<Event("resolutionFailed", 0, FALSE, TRUE),
             Event("resolutionFailed", 1, FALSE, TRUE)>> \in Seq(RequestEvents)
        /\ <<>> \in Seq(RequestEvents)
    BY <1>3, ShortSeqs
  <1>6. CreateCalls(d, origin) \in {c0 \o c1, <<>>,
            <<Event("resolutionFailed", 0, FALSE, TRUE), Event("resolutionFailed", 1, FALSE, TRUE)>>}
    BY DEF CreateCalls
  <1>7. DeleteCalls(d) = d0 \o d1
    BY DEF DeleteCalls
  <1> HIDE DEF c0, c1, d0, d1
  <1>8. c0 \o c1 \in Seq(RequestEvents) /\ d0 \o d1 \in Seq(RequestEvents)
    BY <1>4
  <1> QED BY <1>5, <1>6, <1>7, <1>8

\* The first half of wireCreate and wireDelete preserves the invariant.
LEMMA ResolveForStep ==
    ASSUME IInv, NEW p \in Procs, ResolveForCreate(p) \/ ResolveForDelete(p)
    PROVE  IInv'
  <1> DEFINE j == Head(todo[p])
             S == New(p, Len(wires), asked)
             r == [op |-> "resolve", data |-> resolveWire]
             cs == IF j.op = "wireCreate" THEN CreateCalls(resolveWire, j.origin)
                                          ELSE DeleteCalls(resolveWire)
  <1>1. todo[p] # <<>> /\ j.op \in {"wireCreate", "wireDelete"}
    BY DEF ResolveForCreate, ResolveForDelete, At
  <1>2. p \notin Workers
    BY <1>1, HeadAllowed DEF AllowedAt, WorkerJob
  <1>3. resolveWire \in [Ep -> Data]
    BY resolveWireType DEF IInv
  <1>4. r \in S
    BY <1>2, <1>3, JobKinds DEF New, AllowedAt, RefersUpTo, CreateJob, Unclaiming
  <1>5. RequestEvents \subseteq S
    BY <1>2 DEF RequestEvents, New, AllowedAt, RefersUpTo, CreateJob, Unclaiming
  <1>6. cs \in Seq(S)
    <2>1. cs \in Seq(RequestEvents)
      BY <1>3, CallsType
    <2> QED BY <2>1, <1>5, SeqMono
  <1>7. Continue(p, <<r>> \o cs)
    BY DEF ResolveForCreate, ResolveForDelete, At
  <1> HIDE DEF cs, r, S
  <1>8. <<r>> \o cs \in Seq(S)
    BY <1>4, <1>6
  <1>9. RestOK' /\ UNCHANGED <<wires, cached, claimed, asked>>
    BY DEF ResolveForCreate, ResolveForDelete, cacheVars, workerVars, wireVars,
           IInv, TypeOK, RestOK
  <1> QED BY <1>1, <1>7, <1>8, <1>9, CallStep DEF S

\* HandleEvent preserves the invariant: the state changes keep what is desired,
\* and the answer of a worker makes the worker write nothing.
LEMMA HandleEventStep ==
    ASSUME IInv, NEW p \in Procs, HandleEvent(p)
    PROVE  IInv'
  <1> DEFINE j == Head(todo[p])
             S == New(p, Len(wires), asked)
  <1>1. todo[p] # <<>> /\ j.op = "event"
    BY DEF HandleEvent, At
  <1>2. j \in AllowedAt(p, Len(wires), asked)
    BY <1>1, HeadAllowed
  <1>3. j.ev \in Events /\ j.ep \in Ep /\ j.same \in BOOLEAN /\ j.hold \in BOOLEAN
    BY <1>1, <1>2, JobFields DEF AllowedAt
  <1>4. p \in Workers => j.ev \in Answers
    BY <1>1, <1>2 DEF AllowedAt, WorkerJob
  <1>5. CASE cached = NoWire
    <2>1. Continue(p, <<>>) /\ wires' = wires /\ RestOK' /\ asked' = asked
          /\ cached' = cached /\ claimed' = claimed
      BY <1>5 DEF HandleEvent, cacheVars, workerVars, IInv, TypeOK, RestOK
    <2> QED BY <2>1, <1>1, CallStep, EmptyNew
  <1>6. CASE cached # NoWire
    <2> DEFINE o  == wires[cached]
               t1 == OwnTarget(o, j)
               t2 == PeerTarget(o, j)
               o2 == Transition(Transition(o, j.ep, t1), 1 - j.ep, t2)
               g1 == Generated(cached, j.ep, t1)
               g2 == Generated(cached, 1 - j.ep, t2)
               st == [op |-> "settle", w |-> cached]
    <2>1. wires \in Seq(WireObjects) /\ cached \in 1 .. Len(wires) /\ cached \in Wires
      BY <1>6, ConstantsAssumption DEF IInv, TypeOK, NoWire, Wires
    <2>2. o \in WireObjects
      BY <2>1
    <2>3. o.state[j.ep] \in EpStates /\ o.state[1 - j.ep] \in EpStates /\ 1 - j.ep \in Ep
      BY <2>2, <1>3 DEF WireObjects, Ep
    <2>4. t1 \in EpStates \cup {Ignored}
      BY <2>3, <1>3, TargetType DEF OwnTarget
    <2>5. t2 \in EpStates \cup {Ignored}
      BY <2>3, TargetType DEF PeerTarget
    <2>6. p \in Workers => GeneratedAction(t1) = Ignored /\ GeneratedAction(t2) = Ignored
      <3> SUFFICES ASSUME p \in Workers
                   PROVE  GeneratedAction(t1) = Ignored /\ GeneratedAction(t2) = Ignored
        OBVIOUS
      <3>1. GeneratedAction(t1) = Ignored
        BY <1>3, <1>4, <2>3, AnswerGeneratesNothing DEF OwnTarget
      <3>2. t2 = Ignored
        BY <1>4 DEF PeerTarget, Propagates, Answers
      <3>3. GeneratedAction(Ignored) = Ignored
        BY DEF GeneratedAction, Ignored
      <3> QED BY <3>1, <3>2, <3>3
    <2>7. wires' = [wires EXCEPT ![cached] = o2]
      BY <1>6 DEF HandleEvent
    <2>8. Continue(p, g1 \o g2 \o <<st>>)
      BY <1>6 DEF HandleEvent
    <2> HIDE DEF j, t1, t2, o
    <2>9. o2 \in WireObjects /\ o2.desired = o.desired
      <3> DEFINE oa == Transition(o, j.ep, t1)
      <3>1. oa \in WireObjects /\ oa.desired = o.desired
        BY <2>2, <2>4, <1>3, TransitionType
      <3> HIDE DEF oa
      <3>2. Transition(oa, 1 - j.ep, t2) \in WireObjects
            /\ Transition(oa, 1 - j.ep, t2).desired = oa.desired
        BY <3>1, <2>3, <2>5, TransitionType
      <3> QED BY <3>1, <3>2 DEF oa
    <2>10. \A t \in Tasks : t.w = cached /\ p \notin Workers => [op |-> "write", task |-> t] \in S
      BY <2>1, JobKinds DEF New, AllowedAt, RefersUpTo, CreateJob, Unclaiming
    <2>11. g1 \in Seq(S) /\ g2 \in Seq(S)
      <3> HIDE DEF S
      <3>1. ASSUME NEW e \in Ep, NEW tg, p \in Workers => GeneratedAction(tg) = Ignored
            PROVE  Generated(cached, e, tg) \in Seq(S)
        <4>1. CASE Generated(cached, e, tg) = <<>>
          BY <4>1, ShortSeqs
        <4>2. CASE Generated(cached, e, tg) # <<>>
          <5>1. GeneratedAction(tg) # Ignored
            BY <4>2 DEF Generated
          <5>2. PICK task \in Tasks : /\ task.w = cached
                    /\ Generated(cached, e, tg) = <<[op |-> "write", task |-> task]>>
            BY <5>1, <2>1, GeneratedType
          <5>3. [op |-> "write", task |-> task] \in S
            BY <5>1, <5>2, <3>1, <2>10
          <5> QED BY <5>2, <5>3, ShortSeqs
        <4> QED BY <4>1, <4>2
      <3> QED BY <1>3, <2>3, <2>6, <3>1
    <2>12. <<st>> \in Seq(S)
      <3>1. st \in S
        BY <2>1, JobKinds DEF New, AllowedAt, RefersUpTo, CreateJob, WorkerJob, Unclaiming
      <3> QED BY <3>1, ShortSeqs
    <2> HIDE DEF o2, g1, g2, st, S
    <2>13. g1 \o g2 \o <<st>> \in Seq(S)
      BY <2>11, <2>12
    <2>14. /\ wires' \in Seq(WireObjects) /\ Len(wires') = Len(wires)
           /\ \A i \in 1 .. Len(wires) : wires'[i].desired = wires[i].desired
      BY <2>1, <2>7, <2>9, WireUpdate DEF o
    <2>15. RestOK' /\ asked' = asked /\ cached' = cached /\ claimed' = claimed
      BY <2>14 DEF HandleEvent, cacheVars, workerVars, IInv, TypeOK, RestOK
    <2> QED BY <2>8, <2>13, <2>14, <2>15, <1>1, CallStep DEF S
  <1> QED BY <1>5, <1>6

\* A registered worker is a worker.
LEMMA WorkerOfType ==
    ASSUME TypeOK, NEW h, WorkerOf(h) # 0
    PROVE  <<h, WorkerOf(h)>> \in Workers
  <1>1. h \in Hosts /\ WorkerOf(h) = worker[h]
    BY DEF WorkerOf
  <1>2. worker[h] \in 0 .. MaxWorkers
    BY <1>1 DEF TypeOK
  <1>3. WorkerOf(h) \in 1 .. MaxWorkers
    BY <1>1, <1>2, ConstantsAssumption
  <1> QED BY <1>1, <1>3 DEF Workers

\* WriteEvent preserves the invariant: the task goes to a worker's channel, is
\* held before it, or turns into a failure of its endpoint.
LEMMA WriteEventStep ==
    ASSUME IInv, NEW p \in Procs, WriteEvent(p)
    PROVE  IInv'
  <1> DEFINE j == Head(todo[p])
             t == j.task
             h == wires[t.w].host[t.ep]
             k == <<h, WorkerOf(h)>>
             sd == [op |-> "send", worker |-> k, task |-> t]
             S == New(p, Len(wires), asked)
  <1>1. todo[p] # <<>> /\ j.op = "write"
    BY DEF WriteEvent, At
  <1>2. j \in AllowedAt(p, Len(wires), asked)
    BY <1>1, HeadAllowed
  <1>3. t \in Tasks /\ t.w \in 1 .. Len(wires) /\ t.ep \in Ep
    <2>1. t \in Tasks /\ t.w <= Len(wires)
      BY <1>1, <1>2, JobFields DEF AllowedAt, RefersUpTo
    <2> QED BY <2>1, ConstantsAssumption DEF Tasks, Wires, IInv, TypeOK
  <1>4. p \notin Workers
    BY <1>1, <1>2 DEF AllowedAt, WorkerJob
  <1>5. wires \in Seq(WireObjects) /\ wires[t.w] \in WireObjects
    BY <1>3 DEF IInv, TypeOK
  <1>6. UNCHANGED <<pod, daemon, topology, removing, worker, started, cached, claimed,
                    deployed, asked, used>>
    BY DEF WriteEvent, cacheVars
  <1>7. WorkerOf(h) # 0 => k \in Workers
    BY WorkerOfType DEF IInv
  <1> HIDE DEF h
  <1>8. CASE Continue(p, <<>>) /\ UNCHANGED <<wires, queue>>
    <2>1. RestOK'
      BY <1>6, <1>8 DEF IInv, TypeOK, RestOK
    <2> QED BY <1>1, <1>6, <1>8, <2>1, CallStep, EmptyNew
  <1>9. CASE /\ wires' = [wires EXCEPT ![t.w] =
                            Transition(@, t.ep, Target(@.state[t.ep], "failed", FALSE))]
             /\ Continue(p, <<>>) /\ UNCHANGED queue
    <2> DEFINE o == wires[t.w]
               tg == Target(o.state[t.ep], "failed", FALSE)
    <2>1. o.state[t.ep] \in EpStates
      BY <1>3, <1>5 DEF WireObjects
    <2>2. tg \in EpStates \cup {Ignored}
      BY <2>1, TargetType
    <2>3. wires' = [wires EXCEPT ![t.w] = Transition(o, t.ep, tg)]
      BY <1>3, <1>5, <1>9
    <2> HIDE DEF tg
    <2>4. Transition(o, t.ep, tg) \in WireObjects /\ Transition(o, t.ep, tg).desired = o.desired
      BY <1>3, <1>5, <2>2, TransitionType
    <2>5. /\ wires' \in Seq(WireObjects) /\ Len(wires') = Len(wires)
          /\ \A i \in 1 .. Len(wires) : wires'[i].desired = wires[i].desired
      <3> DEFINE n == Transition(o, t.ep, tg)
                 i == t.w
      <3>1. /\ wires \in Seq(WireObjects) /\ i \in 1 .. Len(wires)
            /\ n \in WireObjects /\ n.desired = wires[i].desired /\ wires' = [wires EXCEPT ![i] = n]
        BY <1>3, <1>5, <2>3, <2>4
      <3> HIDE DEF n, i
      <3> QED BY <3>1, WireUpdate
    <2>6. RestOK'
      BY <1>6, <1>9, <2>5 DEF IInv, TypeOK, RestOK
    <2> QED BY <1>1, <1>6, <1>9, <2>5, <2>6, CallStep, EmptyNew
  <1>10. CASE /\ WorkerOf(h) # 0 /\ queue' = [queue EXCEPT ![k] = Append(@, t)]
              /\ Continue(p, <<>>) /\ UNCHANGED wires
    <2>1. queue' \in [Workers -> Seq(Tasks)]
      <3> HIDE DEF k, t
      <3>1. k \in Workers /\ t \in Tasks
        BY <1>3, <1>7, <1>10
      <3> QED BY <1>10, <3>1 DEF IInv, TypeOK
    <2>2. RestOK'
      BY <1>6, <1>10, <2>1 DEF IInv, TypeOK, RestOK
    <2> QED BY <1>1, <1>6, <1>10, <2>2, CallStep, EmptyNew
  <1>11. CASE WorkerOf(h) # 0 /\ Continue(p, <<sd>>) /\ UNCHANGED <<wires, queue>>
    <2>1. sd \in Jobs
      BY <1>3, <1>7, <1>11, JobKinds
    <2>2. sd \in S
      <3>1. sd.op = "send" /\ sd.task = t
        OBVIOUS
      <3> HIDE DEF sd, t
      <3> QED BY <1>3, <1>4, <2>1, <3>1 DEF New, AllowedAt, RefersUpTo, CreateJob, Unclaiming
    <2>3. <<sd>> \in Seq(S)
      BY <2>2, ShortSeqs
    <2>4. RestOK'
      BY <1>6, <1>11 DEF IInv, TypeOK, RestOK
    <2> HIDE DEF sd
    <2> QED BY <1>1, <1>6, <1>11, <2>3, <2>4, CallStep
  <1> QED BY <1>8, <1>9, <1>10, <1>11 DEF WriteEvent, h

\* Send preserves the invariant.
LEMMA SendStep ==
    ASSUME IInv, NEW p \in Procs, Send(p)
    PROVE  IInv'
  <1> DEFINE j == Head(todo[p])
  <1>1. todo[p] # <<>> /\ j.op = "send"
    BY DEF Send, At
  <1>2. j.task \in Tasks /\ j.worker \in Workers
    BY <1>1, HeadAllowed, JobFields DEF AllowedAt
  <1>3. queue' \in [Workers -> Seq(Tasks)]
    BY <1>2 DEF Send, IInv, TypeOK
  <1>4. RestOK' /\ UNCHANGED <<wires, cached, claimed, asked>> /\ Continue(p, <<>>)
    BY <1>3 DEF Send, cacheVars, wireVars, IInv, TypeOK, RestOK
  <1> QED BY <1>1, <1>4, CallStep, EmptyNew

\* Settle preserves the invariant: before a deletion no wire is finished, and the
\* object that is put back in the cache is the one that is there.
LEMMA SettleStep ==
    ASSUME IInv, NEW p \in Procs, Settle(p)
    PROVE  IInv'
  <1> DEFINE j == Head(todo[p])
             w == j.w
             S == New(p, Len(wires), asked)
             fg == [op |-> "forget"]
  <1>1. todo[p] # <<>> /\ j.op = "settle"
    BY DEF Settle, At
  <1>2. j \in AllowedAt(p, Len(wires), asked)
    BY <1>1, HeadAllowed
  <1>3. w \in 1 .. Len(wires)
    <2>1. w \in Wires /\ w <= Len(wires)
      BY <1>1, <1>2, JobFields DEF AllowedAt, RefersUpTo
    <2> QED BY <2>1, ConstantsAssumption DEF Wires, IInv, TypeOK
  <1>4. UNCHANGED <<pod, daemon, topology, removing, worker, started, queue, wires, deployed, asked>>
    BY DEF Settle, cacheVars, workerVars
  <1>5. CASE Finished(wires[w])
    <2>1. asked
      <3>1. wires[w].desired # "create"
        BY <1>5 DEF Finished
      <3> QED BY <1>3, <3>1 DEF IInv, UnaskedInv, TypeOK
    <2>2. cached' = cached
      BY <1>5 DEF Settle
    <2>3. CASE claimed' = FALSE /\ Continue(p, <<fg>>) /\ used' = used
      <3>1. fg \in S
        BY <2>1, JobKinds DEF New, AllowedAt, RefersUpTo, WorkerJob, Unclaiming
      <3>2. <<fg>> \in Seq(S)
        BY <3>1, ShortSeqs
      <3>3. RestOK'
        BY <1>4, <2>2, <2>3 DEF IInv, TypeOK, RestOK
      <3> QED BY <1>1, <1>4, <2>1, <2>3, <3>2, <3>3, CallStep
    <2>4. CASE MayFail("release") /\ Spend("fail") /\ Continue(p, <<>>) /\ claimed' \in {claimed, FALSE}
      <3>1. UsedOK'
        BY <2>4, SpendFail DEF IInv
      <3>2. RestOK'
        BY <1>4, <2>2, <2>4, <3>1 DEF IInv, TypeOK, RestOK, UsedOK
      <3> QED BY <1>1, <1>4, <2>1, <2>4, <3>2, CallStep, EmptyNew
    <2> QED BY <1>5, <2>3, <2>4 DEF Settle
  <1>6. CASE ~Finished(wires[w])
    <2>1. cached' = w /\ Continue(p, <<>>) /\ claimed' = claimed /\ used' = used
      BY <1>6 DEF Settle
    <2>2. ~asked => cached' = cached
      BY <1>3, <2>1 DEF IInv, UnaskedInv, TypeOK
    <2>3. cached' \in 0 .. Len(wires')
      BY <1>3, <1>4, <2>1 DEF IInv, TypeOK
    <2>4. RestOK'
      BY <1>4, <2>1, <2>3 DEF IInv, TypeOK, RestOK
    <2> QED BY <1>1, <1>4, <2>1, <2>2, <2>4, CallStep, EmptyNew
  <1> QED BY <1>5, <1>6

\* Forget preserves the invariant: it happens only after a WireDelete.
LEMMA ForgetStep ==
    ASSUME IInv, NEW p \in Procs, Forget(p)
    PROVE  IInv'
  <1>1. todo[p] # <<>> /\ Head(todo[p]).op = "forget"
    BY DEF Forget, At
  <1>2. asked
    BY <1>1, HeadAllowed DEF AllowedAt, CreateJob
  <1>3. UNCHANGED <<wires, claimed, asked>> /\ Continue(p, <<>>)
    BY DEF Forget
  <1>4. cached' \in 0 .. Len(wires')
    BY <1>3 DEF Forget, NoWire, IInv, TypeOK
  <1>5. RestOK'
    BY <1>4 DEF Forget, cacheVars, workerVars, IInv, TypeOK, RestOK
  <1> QED BY <1>1, <1>2, <1>3, <1>5, CallStep, EmptyNew

\* Reconcile preserves the invariant: before a deletion the wire is to be created.
LEMMA ReconcileCallStep ==
    ASSUME IInv, NEW p \in Procs, Reconcile(p)
    PROVE  IInv'
  <1> DEFINE j == Head(todo[p])
             S == New(p, Len(wires), asked)
             op == IF wires[j.w].desired = "create" THEN "wireCreate" ELSE "wireDelete"
             n == [op |-> op, origin |-> "callback"]
  <1>1. todo[p] # <<>> /\ j.op = "reconcile"
    BY DEF Reconcile, At
  <1>2. j \in AllowedAt(p, Len(wires), asked)
    BY <1>1, HeadAllowed
  <1>3. j.w \in 1 .. Len(wires)
    <2>1. j.w \in Wires /\ j.w <= Len(wires)
      BY <1>1, <1>2, JobFields DEF AllowedAt, RefersUpTo
    <2> QED BY <2>1, ConstantsAssumption DEF Wires, IInv, TypeOK
  <1>4. op \in {"wireCreate", "wireDelete"} /\ (~asked => op = "wireCreate")
    BY <1>3 DEF IInv, UnaskedInv
  <1>5. p \notin Workers
    BY <1>1, <1>2 DEF AllowedAt, WorkerJob
  <1>6. Continue(p, <<n>>) /\ UNCHANGED <<wires, cached, claimed, asked>> /\ RestOK'
    BY DEF Reconcile, cacheVars, workerVars, wireVars, IInv, TypeOK, RestOK
  <1> HIDE DEF op
  <1>7. n \in S
    BY <1>4, <1>5, JobKinds DEF New, AllowedAt, RefersUpTo, CreateJob, Unclaiming
  <1>8. <<n>> \in Seq(S)
    BY <1>7, ShortSeqs
  <1> HIDE DEF n
  <1> QED BY <1>1, <1>6, <1>8, CallStep

\* An upsert callback looks at the cached wire.
LEMMA UpsertCallsType ==
    ASSUME IInv, NEW p, p \notin Workers
    PROVE  UpsertCalls \in Seq(New(p, Len(wires), asked))
  <1>1. CASE cached = NoWire
    BY <1>1, ShortSeqs DEF UpsertCalls
  <1>2. CASE cached # NoWire
    <2> DEFINE r == [op |-> "reconcile", w |-> cached]
    <2>1. cached \in Wires /\ cached <= Len(wires)
      BY <1>2, ConstantsAssumption DEF IInv, TypeOK, NoWire, Wires
    <2>2. r \in New(p, Len(wires), asked)
      BY <2>1, JobKinds DEF New, AllowedAt, RefersUpTo, CreateJob, Unclaiming
    <2> QED BY <1>2, <2>2, ShortSeqs DEF UpsertCalls
  <1> QED BY <1>1, <1>2

\* StartWorker preserves the invariant.
LEMMA StartWorkerStep ==
    ASSUME IInv, NEW p \in Procs, StartWorker(p)
    PROVE  IInv'
  <1> DEFINE h == Head(todo[p]).host
  <1>1. todo[p] # <<>> /\ Head(todo[p]).op = "startWorker"
    BY DEF StartWorker, At
  <1>2. p \notin Workers /\ h \in Hosts
    BY <1>1, HeadAllowed, JobFields DEF AllowedAt, WorkerJob
  <1>3. UNCHANGED <<pod, daemon, topology, removing, queue, wires, cached, claimed, deployed, asked>>
    BY DEF StartWorker, cacheVars, wireVars
  <1>4. CASE /\ started[h] < MaxWorkers /\ started' = [started EXCEPT ![h] = @ + 1]
             /\ worker' = [worker EXCEPT ![h] = started[h] + 1]
             /\ Continue(p, UpsertCalls) /\ used' = used
    <2> HIDE DEF h
    <2>1. started[h] + 1 \in 0 .. MaxWorkers
      BY <1>2, <1>4, ConstantsAssumption, SMTT(30) DEF IInv, TypeOK
    <2>2. started' \in [Hosts -> 0 .. MaxWorkers] /\ worker' \in [Hosts -> 0 .. MaxWorkers]
      BY <1>2, <1>4, <2>1 DEF IInv, TypeOK
    <2>3. RestOK'
      BY <1>3, <1>4, <2>2 DEF IInv, TypeOK, RestOK
    <2>4. UpsertCalls \in Seq(New(p, Len(wires), asked))
      BY <1>2, UpsertCallsType
    <2> QED BY <1>1, <1>3, <1>4, <2>3, <2>4, CallStep
  <1>5. CASE MayFail("worker") /\ Spend("fail") /\ Continue(p, <<>>) /\ UNCHANGED <<started, worker>>
    <2>1. UsedOK'
      BY <1>5, SpendFail DEF IInv
    <2>2. RestOK'
      BY <1>3, <1>5, <2>1 DEF IInv, TypeOK, RestOK, UsedOK
    <2> QED BY <1>1, <1>3, <1>5, <2>2, CallStep, EmptyNew
  <1> QED BY <1>4, <1>5 DEF StartWorker

\* Every step of a goroutine preserves the invariant.
LEMMA GoroutineStep ==
    ASSUME IInv, NEW p \in Procs, Step(p)
    PROVE  IInv'
  BY ClaimStep, InsertStep, SetDesiredStep, ResolveForStep, ResolveStep, HandleEventStep, WriteEventStep,
     SendStep, SettleStep, ForgetStep, ReconcileCallStep, StartWorkerStep DEF Step

----------------------------------------------------------------------------
(* The steps that start goroutines *)

\* Giving allowed calls to goroutines other than the gRPC handler preserves the
\* invariant when the wire is left alone.
LEMMA SpawnStep ==
    ASSUME IInv, RestOK', UNCHANGED <<wires, cached, claimed, asked>>,
           DOMAIN todo' = Procs, todo' = [q \in DOMAIN todo' |-> todo'[q]],
           \A q \in Procs : todo'[q] = todo[q]
                             \/ (q # Api /\ todo'[q] \in Seq(New(q, Len(wires), asked)))
    PROVE  IInv'
  <1>1. \A q \in Procs : todo'[q] = todo[q]
                           \/ todo'[q] \in Seq(AllowedAt(q, Len(wires'), asked'))
    <2>1. \A q : Seq(New(q, Len(wires), asked)) \subseteq Seq(AllowedAt(q, Len(wires), asked))
      BY SeqMono DEF New
    <2> QED BY <2>1
  <1>2. TypeOK /\ JobInv /\ wires' \in Seq(WireObjects) /\ asked' \in BOOLEAN
        /\ Len(wires) <= Len(wires')
    BY DEF IInv, TypeOK
  <1>3. todo' \in [Procs -> Seq(Jobs)] /\ JobInv'
    BY <1>1, <1>2, JobInvSet
  <1>4. todo'[Api] = todo[Api]
    BY ProcsDisjoint
  <1>5. TypeOK'
    BY <1>3 DEF TypeOK, RestOK
  <1>6. ClaimFirst' /\ UnaskedInv'
    BY <1>4 DEF IInv, ClaimFirst, UnaskedInv, At
  <1> QED BY <1>3, <1>5, <1>6 DEF IInv

\* A worker's turn preserves the invariant: it is left with an answer to report.
LEMMA WorkerTurnStep ==
    ASSUME IInv, NEW k \in Workers, WorkerTurn(k)
    PROVE  IInv'
  <1> DEFINE t == Head(queue[k])
             S == New(k, Len(wires), asked)
  <1>1. queue[k] # <<>> /\ queue[k] \in Seq(Tasks)
    BY DEF WorkerTurn, Receives, IInv, TypeOK
  <1>2. t \in Tasks /\ queue' \in [Workers -> Seq(Tasks)]
    BY <1>1 DEF WorkerTurn, IInv, TypeOK
  <1>3. t.act \in WorkerActions /\ t.ep \in Ep
    BY <1>2 DEF Tasks
  <1>4. k \in Procs /\ k # Api /\ k[1] \in Hosts
    BY ProcsDisjoint DEF Workers
  <1>5. deployed' \subseteq Hosts
    <2>1. Effect(k[1], t.act) \subseteq Hosts /\ deployed \subseteq Hosts
      BY <1>4 DEF Effect, IInv, TypeOK
    <2> QED BY <2>1 DEF WorkerTurn, Outcomes
  <1>6. UsedOK'
    <2>1. used' = used \/ (MayFail("daemon") /\ Spend("fail"))
      BY DEF WorkerTurn
    <2>2. CASE used' = used
      BY <2>2 DEF UsedOK, IInv, TypeOK
    <2> QED BY <2>1, <2>2, SpendFail DEF IInv
  <1>7. RestOK' /\ UNCHANGED <<wires, cached, claimed, asked>>
    BY <1>2, <1>5, <1>6
       DEF WorkerTurn, cacheVars, wireVars, IInv, TypeOK, RestOK, UsedOK
  <1>8. \E ev \in Answers : todo' = [todo EXCEPT ![k] = <<Event(ev, t.ep, FALSE, FALSE)>>]
    BY DEF WorkerTurn, Answer, Answers
  <1>9. PICK ev \in Answers : todo' = [todo EXCEPT ![k] = <<Event(ev, t.ep, FALSE, FALSE)>>]
    BY <1>8
  <1> DEFINE j == Event(ev, t.ep, FALSE, FALSE)
  <1>10. j \in Jobs /\ j.op = "event" /\ j.ev = ev
    BY <1>3, JobKinds DEF Events, Event
  <1> HIDE DEF j
  <1>11. j \in S
    BY <1>10 DEF New, AllowedAt, RefersUpTo, WorkerJob, CreateJob, Unclaiming
  <1>12. <<j>> \in Seq(S)
    BY <1>11, ShortSeqs
  <1>13. todo' = [todo EXCEPT ![k] = <<j>>]
    BY <1>9 DEF j
  <1>14. DOMAIN todo' = Procs /\ todo' = [q \in DOMAIN todo' |-> todo'[q]]
    BY <1>13 DEF IInv, TypeOK
  <1>15. \A q \in Procs : todo'[q] = todo[q]
                            \/ (q # Api /\ todo'[q] \in Seq(New(q, Len(wires), asked)))
    BY <1>4, <1>12, <1>13 DEF IInv, TypeOK
  <1> QED BY <1>7, <1>14, <1>15, SpawnStep

\* The gRPC handlers preserve the invariant: WireUpSert allocates only when there
\* is no wire, and after WireDelete the wire may go.
LEMMA ApiCallStep ==
    ASSUME IInv, WireUpSert \/ WireDelete, UsedOK'
    PROVE  IInv'
  <1> DEFINE cl == [op |-> "claim"]
             sc == [op |-> "setDesired", to |-> "create"]
             sd == [op |-> "setDesired", to |-> "delete"]
             wc == [op |-> "wireCreate", origin |-> "api"]
             wd == [op |-> "wireDelete", origin |-> "api"]
  <1>1. cl \in Jobs /\ sc \in Jobs /\ sd \in Jobs /\ wc \in Jobs /\ wd \in Jobs
    BY JobKinds
  <1>2. Api \in Procs /\ Api \notin Workers
    BY ProcsDisjoint
  <1>3. UNCHANGED <<pod, daemon, topology, removing, worker, started, queue, wires, cached,
                    claimed, deployed>>
    BY DEF WireUpSert, WireDelete, cacheVars, workerVars, wireVars
  <1>4. UsedOK'
    OBVIOUS
  <1>5. TypeOK /\ JobInv /\ wires' \in Seq(WireObjects) /\ Len(wires) <= Len(wires')
    BY <1>3 DEF IInv, TypeOK
  <1>6. CASE WireUpSert
    <2> DEFINE x == IF cached = NoWire THEN cl ELSE sc
    <2>1. todo' = [todo EXCEPT ![Api] = <<x, wc>>] /\ asked' = asked
      BY <1>6 DEF WireUpSert
    <2>2. x \in AllowedAt(Api, Len(wires), asked) /\ wc \in AllowedAt(Api, Len(wires), asked)
      BY <1>1, <1>2 DEF AllowedAt, RefersUpTo, CreateJob
    <2>3. wc \in Unclaiming /\ (cached # NoWire => x \in Unclaiming) /\ x.op # "insert"
      BY <1>1 DEF Unclaiming
    <2> HIDE DEF x, wc
    <2>4. /\ <<x, wc>> \in Seq(AllowedAt(Api, Len(wires), asked))
          /\ Tail(<<x, wc>>) \in Seq(Unclaiming)
          /\ cached # NoWire => <<x, wc>> \in Seq(Unclaiming)
      <3>1. Tail(<<x, wc>>) = <<wc>>
        OBVIOUS
      <3> QED BY <2>2, <2>3, <3>1, ShortSeqs
    <2>5. todo'[Api] = <<x, wc>>
      BY <1>2, <2>1 DEF IInv, TypeOK
    <2>6. DOMAIN todo' = Procs /\ todo' = [q \in DOMAIN todo' |-> todo'[q]]
      BY <2>1 DEF IInv, TypeOK
    <2>7. \A q \in Procs : todo'[q] = todo[q]
                            \/ todo'[q] \in Seq(AllowedAt(q, Len(wires'), asked'))
      BY <1>3, <2>1, <2>4 DEF IInv, TypeOK
    <2>8. asked' \in BOOLEAN
      BY <2>1 DEF IInv, TypeOK
    <2>9. todo' \in [Procs -> Seq(Jobs)] /\ JobInv'
      BY <1>5, <2>1, <2>6, <2>7, <2>8, JobInvSet
    <2>10. TypeOK'
      BY <1>3, <1>4, <2>1, <2>9 DEF IInv, TypeOK, UsedOK
    <2>11. ~At(Api, "insert")'
      <3>1. Head(<<x, wc>>) = x
        OBVIOUS
      <3> QED BY <2>3, <2>5, <3>1 DEF At
    <2>12. ClaimFirst' /\ UnaskedInv'
      BY <1>3, <2>1, <2>4, <2>5, <2>11 DEF IInv, ClaimFirst, UnaskedInv
    <2> QED BY <2>9, <2>10, <2>12 DEF IInv
  <1>7. CASE WireDelete
    <2>1. todo' = [todo EXCEPT ![Api] = <<sd, wd>>] /\ asked' = TRUE
      BY <1>7 DEF WireDelete
    <2>2. sd \in AllowedAt(Api, Len(wires), TRUE) /\ wd \in AllowedAt(Api, Len(wires), TRUE)
      BY <1>1, <1>2 DEF AllowedAt, RefersUpTo
    <2>3. wd \in Unclaiming
      BY <1>1 DEF Unclaiming
    <2> HIDE DEF sd, wd
    <2>4. /\ <<sd, wd>> \in Seq(AllowedAt(Api, Len(wires), TRUE))
          /\ Tail(<<sd, wd>>) \in Seq(Unclaiming)
      <3>1. Tail(<<sd, wd>>) = <<wd>>
        OBVIOUS
      <3> QED BY <2>2, <2>3, <3>1, ShortSeqs
    <2>5. todo'[Api] = <<sd, wd>>
      BY <1>2, <2>1 DEF IInv, TypeOK
    <2>6. DOMAIN todo' = Procs /\ todo' = [q \in DOMAIN todo' |-> todo'[q]]
      BY <2>1 DEF IInv, TypeOK
    <2>7. \A q \in Procs : todo'[q] = todo[q]
                            \/ todo'[q] \in Seq(AllowedAt(q, Len(wires'), asked'))
      BY <1>3, <2>1, <2>4 DEF IInv, TypeOK
    <2>8. todo' \in [Procs -> Seq(Jobs)] /\ JobInv'
      BY <1>5, <2>1, <2>6, <2>7, JobInvSet
    <2>9. TypeOK'
      BY <1>3, <1>4, <2>1, <2>8 DEF IInv, TypeOK, UsedOK
    <2>10. ClaimFirst' /\ UnaskedInv'
      BY <2>1, <2>4, <2>5 DEF ClaimFirst, UnaskedInv
    <2> QED BY <2>8, <2>9, <2>10 DEF IInv
  <1> QED BY <1>6, <1>7

\* A goroutine of an upsert callback preserves the invariant.
LEMMA UpsertSpawn ==
    ASSUME IInv, RestOK', UNCHANGED <<wires, cached, claimed, asked>>,
           NEW c, c \in Callbacks \/ c \notin Procs, NEW js,
           c \in Callbacks => js \in Seq(New(c, Len(wires), asked)),
           todo' = [todo EXCEPT ![c] = js]
    PROVE  IInv'
  <1>1. DOMAIN todo' = Procs /\ todo' = [q \in DOMAIN todo' |-> todo'[q]]
    BY DEF IInv, TypeOK
  <1>2. \A q \in Procs : todo'[q] = todo[q]
                           \/ (q # Api /\ todo'[q] \in Seq(New(q, Len(wires), asked)))
    BY ProcsDisjoint DEF IInv, TypeOK
  <1> QED BY <1>1, <1>2, SpawnStep

\* The two goroutines of a delete callback preserve the invariant.
LEMMA DeleteSpawn ==
    ASSUME IInv, RestOK', UNCHANGED <<wires, cached, claimed, asked>>,
           NEW src \in {"pod", "node"}, NEW M, NEW hold \in BOOLEAN,
           DeleteGoroutines(src, M, hold)
    PROVE  IInv'
  <1> DEFINE c(e) == <<src, e>>
             js(e) == IF e \in M THEN <<[op |-> "unresolve", ep |-> e],
                                        Event("resolutionFailed", e, FALSE, hold)>> ELSE <<>>
  <1>1. todo' = [todo EXCEPT ![c(0)] = js(0), ![c(1)] = js(1)]
    BY DEF DeleteGoroutines
  <1>2. \A e \in Ep : c(e) \notin Workers /\ c(e) # Api
    BY ConstantsAssumption DEF Workers, Api
  <1>3. \A e \in Ep : js(e) \in Seq(New(c(e), Len(wires), asked))
    <2> TAKE e \in Ep
    <2> DEFINE S == New(c(e), Len(wires), asked)
               u == [op |-> "unresolve", ep |-> e]
               f == Event("resolutionFailed", e, FALSE, hold)
    <2>1. u \in S
      BY <1>2, JobKinds DEF New, AllowedAt, RefersUpTo, CreateJob, Unclaiming
    <2>2. f \in Jobs /\ f.op = "event"
      BY JobKinds DEF Events, Requests, Event
    <2>3. f \in S
      <3> HIDE DEF f, c
      <3> QED BY <1>2, <2>2 DEF New, AllowedAt, RefersUpTo, CreateJob, Unclaiming
    <2>4. <<u, f>> \in Seq(S) /\ <<>> \in Seq(S)
      BY <2>1, <2>3, ShortSeqs
    <2>5. js(e) = <<u, f>> \/ js(e) = <<>>
      OBVIOUS
    <2> HIDE DEF S, u, f, js
    <2> QED BY <2>4, <2>5 DEF S
  <1> HIDE DEF js
  <1>4. DOMAIN todo' = Procs /\ todo' = [q \in DOMAIN todo' |-> todo'[q]]
    BY <1>1 DEF IInv, TypeOK
  <1>5. c(0) # c(1)
    OBVIOUS
  <1> HIDE DEF c
  <1>6. \A q \in Procs :
            \/ todo'[q] = todo[q]
            \/ (q = c(0) /\ todo'[q] = js(0))
            \/ (q = c(1) /\ todo'[q] = js(1))
    BY <1>1, <1>5 DEF IInv, TypeOK
  <1>7. \A q \in Procs : todo'[q] = todo[q]
                           \/ (q # Api /\ todo'[q] \in Seq(New(q, Len(wires), asked)))
    BY <1>2, <1>3, <1>6 DEF Ep
  <1> QED BY <1>4, <1>7, SpawnStep

\* A cache change is charged only while the bound allows it.
LEMMA SpendEnv ==
    ASSUME TypeOK, used["env"] < MaxEnv, Spend("env")
    PROVE  UsedOK'
  BY ConstantsAssumption DEF TypeOK, Spend, UsedOK

\* The first goroutine of a cache's callback.
LEMMA FirstCallback ==
    ASSUME NEW src \in {"pod", "node"}
    PROVE  /\ <<src, 0>> \in Callbacks \/ <<src, 0>> \notin Procs
           /\ <<src, 0>> \notin Workers
  BY ConstantsAssumption DEF Callbacks, Workers, Procs, Api, Ep

\* Changes of the pod, daemon, node and topology caches preserve the invariant.
LEMMA EnvironmentStep ==
    ASSUME IInv, Environment
    PROVE  IInv'
  <1> USE DEF cacheVars, workerVars, wireVars
  <1>0. TypeOK
    BY DEF IInv
  <1>1. ASSUME NEW e \in Ep, NEW v \in Hosts \cup {"NotReady"}, PodUpsert(e, v)
        PROVE  IInv'
    <2>1. UsedOK'
      BY <1>0, <1>1, SpendEnv DEF PodUpsert, EnvStep
    <2>2. pod' \in [Ep -> Hosts \cup {"NotReady", "Absent"}]
      BY <1>0, <1>1 DEF PodUpsert, TypeOK
    <2>3. RestOK' /\ UNCHANGED <<wires, cached, claimed, asked>>
      BY <1>0, <1>1, <2>1, <2>2 DEF PodUpsert, TypeOK, RestOK, UsedOK
    <2>4. todo' = [todo EXCEPT ![<<"pod", 0>>] = UpsertCalls]
      BY <1>1 DEF PodUpsert
    <2> QED BY <2>3, <2>4, FirstCallback, UpsertCallsType, UpsertSpawn
  <1>2. ASSUME NEW e \in Ep, PodDelete(e)
        PROVE  IInv'
    <2>1. UsedOK'
      BY <1>0, <1>2, SpendEnv DEF PodDelete, EnvStep
    <2>2. removing' \in ({"daemon"} \X Hosts) \cup ({"pod"} \X Ep) \cup {<<>>}
      BY <1>2 DEF PodDelete
    <2>3. RestOK' /\ UNCHANGED <<wires, cached, claimed, asked>>
      BY <1>0, <1>2, <2>1, <2>2 DEF PodDelete, TypeOK, RestOK, UsedOK
    <2>4. DeleteGoroutines("pod", ResolvedTo(Hosts) \cap {e}, FALSE)
      BY <1>2 DEF PodDelete
    <2> QED BY <2>3, <2>4, DeleteSpawn
  <1>3. ASSUME NEW h \in Hosts, DaemonDelete(h)
        PROVE  IInv'
    <2>1. UsedOK'
      BY <1>0, <1>3, SpendEnv DEF DaemonDelete, EnvStep
    <2>2. /\ removing' \in ({"daemon"} \X Hosts) \cup ({"pod"} \X Ep) \cup {<<>>}
          /\ worker' \in [Hosts -> 0 .. MaxWorkers]
      BY <1>0, <1>3, ConstantsAssumption DEF DaemonDelete, TypeOK
    <2>3. RestOK' /\ UNCHANGED <<wires, cached, claimed, asked>>
      BY <1>0, <1>3, <2>1, <2>2 DEF DaemonDelete, TypeOK, RestOK, UsedOK
    <2>4. DeleteGoroutines("pod", ResolvedTo({h}), TRUE)
      BY <1>3 DEF DaemonDelete
    <2> QED BY <2>3, <2>4, DeleteSpawn
  <1>4. ASSUME NEW h \in Hosts, NodeDelete(h)
        PROVE  IInv'
    <2>1. UsedOK'
      BY <1>0, <1>4, SpendEnv DEF NodeDelete, EnvStep
    <2>2. RestOK' /\ UNCHANGED <<wires, cached, claimed, asked>>
      BY <1>0, <1>4, <2>1 DEF NodeDelete, TypeOK, RestOK, UsedOK
    <2>3. DeleteGoroutines("node", ResolvedTo({h}), FALSE)
      BY <1>4 DEF NodeDelete
    <2> QED BY <2>2, <2>3, DeleteSpawn
  <1>5. ASSUME NEW h \in Hosts, NEW v \in {"ready", "notReady"}, DaemonUpsert(h, v)
        PROVE  IInv'
    <2> DEFINE c == <<"pod", 0>>
               sw == [op |-> "startWorker", host |-> h]
               js == IF v = "ready" THEN <<sw>> ELSE UpsertCalls
    <2>1. UsedOK'
      BY <1>0, <1>5, SpendEnv DEF DaemonUpsert, EnvStep
    <2>2. /\ daemon' \in [Hosts -> {"ready", "notReady", "absent"}]
          /\ worker' \in [Hosts -> 0 .. MaxWorkers]
      BY <1>0, <1>5, ConstantsAssumption DEF DaemonUpsert, TypeOK
    <2>3. RestOK' /\ UNCHANGED <<wires, cached, claimed, asked>>
      BY <1>0, <1>5, <2>1, <2>2 DEF DaemonUpsert, TypeOK, RestOK, UsedOK
    <2>4. todo' = [todo EXCEPT ![c] = js]
      BY <1>5 DEF DaemonUpsert
    <2>5. c \in Callbacks => js \in Seq(New(c, Len(wires), asked))
      <3>1. c \notin Workers
        BY FirstCallback
      <3>2. sw \in New(c, Len(wires), asked)
        BY <3>1, JobKinds DEF New, AllowedAt, RefersUpTo, CreateJob, Unclaiming
      <3>3. <<sw>> \in Seq(New(c, Len(wires), asked))
        BY <3>2, ShortSeqs
      <3> HIDE DEF c, sw
      <3> QED BY <3>1, <3>3, UpsertCallsType
    <2>6. c \in Callbacks \/ c \notin Procs
      BY FirstCallback
    <2> HIDE DEF c, js
    <2> QED BY <2>3, <2>4, <2>5, <2>6, UpsertSpawn
  <1>6. ASSUME NodeUpsert
        PROVE  IInv'
    <2>1. UsedOK'
      BY <1>0, <1>6, SpendEnv DEF NodeUpsert, EnvStep
    <2>2. RestOK' /\ UNCHANGED <<wires, cached, claimed, asked>>
      BY <1>0, <1>6, <2>1 DEF NodeUpsert, TypeOK, RestOK, UsedOK
    <2>3. todo' = [todo EXCEPT ![<<"node", 0>>] = UpsertCalls]
      BY <1>6 DEF NodeUpsert
    <2> QED BY <2>2, <2>3, FirstCallback, UpsertCallsType, UpsertSpawn
  <1>7. ASSUME NEW v \in {"ready", "notReady", "absent"}, TopologyChange(v)
        PROVE  IInv'
    <2>1. UsedOK'
      BY <1>0, <1>7, SpendEnv DEF TopologyChange
    <2>2. RestOK' /\ UNCHANGED <<wires, cached, claimed, asked, todo>>
      BY <1>0, <1>7, <2>1 DEF TopologyChange, TypeOK, RestOK, UsedOK
    <2> QED BY <1>0, <2>2, SpawnStep DEF TypeOK
  <1> QED BY <1>1, <1>2, <1>3, <1>4, <1>5, <1>6, <1>7 DEF Environment

\* The end of a delete callback preserves the invariant.
LEMMA CallbackDoneStep ==
    ASSUME IInv, CallbackDone
    PROVE  IInv'
  <1>0. TypeOK
    BY DEF IInv
  <1>1. /\ pod' \in [Ep -> Hosts \cup {"NotReady", "Absent"}]
        /\ daemon' \in [Hosts -> {"ready", "notReady", "absent"}]
    BY <1>0 DEF CallbackDone, TypeOK
  <1>2. RestOK' /\ UNCHANGED <<wires, cached, claimed, asked, todo>>
    BY <1>0, <1>1 DEF CallbackDone, workerVars, wireVars, TypeOK, RestOK
  <1> QED BY <1>0, <1>2, SpawnStep DEF TypeOK

----------------------------------------------------------------------------
(* The theorems *)

\* Initially there is no wire and no goroutine runs.
LEMMA InitInv == Init => IInv
  <1> SUFFICES ASSUME Init PROVE IInv
    OBVIOUS
  <1> USE DEF Init
  <1>1. started \in [Hosts -> 0 .. MaxWorkers]
    BY ConstantsAssumption
  <1>2. TypeOK
    <2>1. /\ pod \in [Ep -> Hosts \cup {"NotReady", "Absent"}]
          /\ daemon \in [Hosts -> {"ready", "notReady", "absent"}]
      BY ConstantsAssumption
    <2>2. wires \in Seq(WireObjects) /\ Len(wires) = 0
      OBVIOUS
    <2>3. Len(wires) <= MaxWires /\ cached \in 0 .. Len(wires)
      BY <2>2, ConstantsAssumption DEF NoWire
    <2>4. queue \in [Workers -> Seq(Tasks)] /\ todo \in [Procs -> Seq(Jobs)]
      OBVIOUS
    <2>5. UsedOK
      BY ConstantsAssumption DEF UsedOK
    <2> QED BY <1>1, <2>1, <2>2, <2>3, <2>4, <2>5 DEF TypeOK, UsedOK
  <1>3. JobInv
    BY DEF JobInv
  <1>4. ClaimFirst /\ UnaskedInv
    BY ProcsDisjoint DEF ClaimFirst, UnaskedInv, NoWire, At
  <1> QED BY <1>2, <1>3, <1>4 DEF IInv

\* The bounds are respected, and no change is forgotten.
Charged == UsedOK' /\ used'["env"] >= used["env"]

\* Everything but the bounds.
wireState == <<pod, daemon, topology, worker, started, queue, wires, cached, claimed, deployed,
               todo, removing, asked>>

\* What a step of the wire controller, or of the Link reconciler and the wire controller,
\* does to the wire controller: whoever makes the gRPC calls, and whatever is counted.
WireStep ==
    \/ (WireUpSert \/ WireDelete) /\ Charged
    \/ System
    \/ Environment
    \/ UNCHANGED wireState /\ Charged

\* The steps of the wire controller by itself.
LEMMA NextIsWireStep ==
    ASSUME IInv, [Next]_vars
    PROVE  WireStep
  <1>1. CASE ApiCall
    <2>1. Charged
      BY <1>1, ConstantsAssumption DEF ApiCall, Spend, UsedOK, Charged, IInv, TypeOK
    <2> QED BY <1>1, <2>1 DEF ApiCall, WireStep
  <1>2. CASE UNCHANGED vars
    BY <1>2 DEF vars, wireState, WireStep, Charged, UsedOK, IInv, TypeOK
  <1> QED BY <1>1, <1>2 DEF Next, WireStep

\* Every step preserves the invariant.
LEMMA NextInv ==
    ASSUME IInv, WireStep
    PROVE  IInv'
  <1>1. CASE (WireUpSert \/ WireDelete) /\ Charged
    BY <1>1, ApiCallStep DEF Charged
  <1>2. CASE \E p \in Procs : Step(p)
    BY <1>2, GoroutineStep
  <1>3. CASE \E k \in Workers : WorkerTurn(k)
    BY <1>3, WorkerTurnStep
  <1>4. CASE CallbackDone
    BY <1>4, CallbackDoneStep
  <1>5. CASE Environment
    BY <1>5, EnvironmentStep
  <1>6. CASE UNCHANGED wireState /\ Charged
    BY <1>6 DEF wireState, Charged, UsedOK, IInv, TypeOK, JobInv, ClaimFirst, UnaskedInv, At
  <1> QED BY <1>1, <1>2, <1>3, <1>4, <1>5, <1>6 DEF WireStep, System

\* The inductive invariant holds in every reachable state.
THEOREM Invariance == Spec => []IInv
  <1>1. IInv /\ [Next]_vars => IInv'
    BY NextInv, NextIsWireStep
  <1> QED BY InitInv, <1>1, PTL DEF Spec

\* The variables keep their types: no cached object and no pending call refers
\* to a Wire object that was never allocated.
THEOREM TypeCorrect == Spec => []TypeOK
  <1>1. IInv => TypeOK
    BY DEF IInv
  <1> QED BY Invariance, <1>1, PTL

\* No worker ever writes to a worker's channel, so no cycle of goroutines can
\* wait on full channels (worker.Write blocks).
THEOREM NoWorkerWrites == Spec => []WorkersNeverWrite
  <1>1. IInv => WorkersNeverWrite
    <2> SUFFICES ASSUME IInv, NEW k \in Workers, NEW i \in DOMAIN todo[k]
                 PROVE  todo[k][i].op \notin {"write", "send"}
      BY DEF WorkersNeverWrite, JobsOf
    <2>1. todo[k] \in Seq(AllowedAt(k, Len(wires), asked))
      BY ProcsDisjoint DEF IInv, JobInv
    <2>2. todo[k][i] \in AllowedAt(k, Len(wires), asked)
      BY <2>1
    <2> QED BY <2>2 DEF AllowedAt, WorkerJob
  <1> QED BY Invariance, <1>1, PTL

\* A wire that nobody asked to delete keeps its VXLAN id.
THEOREM ClaimIsKept == Spec => []ClaimKept
  <1>1. IInv => ClaimKept
    BY DEF IInv, UnaskedInv, ClaimKept
  <1> QED BY Invariance, <1>1, PTL

\* Before a WireDelete the cached wire is replaced by none and removed by nobody.
LEMMA KeptStep ==
    ASSUME IInv, WireStep, cached # NoWire, ~asked
    PROVE  cached' = cached
  <1> USE DEF cacheVars, workerVars, wireVars
  <1>1. CASE WireUpSert \/ WireDelete \/ UNCHANGED wireState
    BY <1>1 DEF WireUpSert, WireDelete, wireState
  <1>2. ASSUME NEW p \in Procs, Step(p) PROVE cached' = cached
    <2>1. CASE Insert(p)
      <3>1. todo[p] # <<>> /\ Head(todo[p]).op = "insert"
        BY <2>1 DEF Insert, At
      <3>2. p = Api
        BY <3>1, HeadAllowed DEF AllowedAt
      <3>3. todo[Api] \in Seq(Unclaiming)
        BY DEF IInv, UnaskedInv
      <3> QED BY <3>1, <3>2, <3>3, HeadIn DEF Unclaiming
    <2>2. CASE Settle(p)
      <3>1. todo[p] # <<>> /\ Head(todo[p]).op = "settle"
        BY <2>2 DEF Settle, At
      <3>2. Head(todo[p]).w \in Wires /\ Head(todo[p]).w <= Len(wires)
        BY <3>1, HeadAllowed, JobFields DEF AllowedAt, RefersUpTo
      <3>3. Head(todo[p]).w = cached
        BY <3>2, ConstantsAssumption DEF IInv, UnaskedInv, Wires, NoWire, TypeOK
      <3> QED BY <2>2, <3>3 DEF Settle
    <2>3. CASE Forget(p)
      <3>1. todo[p] # <<>> /\ Head(todo[p]).op = "forget"
        BY <2>3 DEF Forget, At
      <3> QED BY <3>1, HeadAllowed DEF AllowedAt, CreateJob
    <2>4. CASE ~(Insert(p) \/ Settle(p) \/ Forget(p))
      BY <1>2, <2>4 DEF Step, Claim, SetDesiredAction, ResolveForCreate, ResolveForDelete, Resolve,
         UnResolve, HandleEvent, WriteEvent, Send, Reconcile, StartWorker
    <2> QED BY <2>1, <2>2, <2>3, <2>4
  <1>3. ASSUME NEW k \in Workers, WorkerTurn(k) PROVE cached' = cached
    BY <1>3 DEF WorkerTurn
  <1>4. CASE CallbackDone
    BY <1>4 DEF CallbackDone
  <1>5. CASE Environment
    BY <1>5 DEF Environment, PodUpsert, PodDelete, DaemonUpsert, DaemonDelete, NodeUpsert,
       NodeDelete, TopologyChange
  <1> QED BY <1>1, <1>2, <1>3, <1>4, <1>5 DEF WireStep, System

\* A wire that nobody asked to delete stays in the cache as the same object,
\* whatever pods, daemons, nodes and workers do.
THEOREM WireIsKept == Spec => KeptUntilAsked
  <1> DEFINE A == cached # NoWire /\ ~asked => cached' = cached
  <1>1. IInv /\ [Next]_vars => [A]_vars
    BY KeptStep, NextIsWireStep
  <1> QED BY Invariance, <1>1, PTL DEF Spec, KeptUntilAsked

----------------------------------------------------------------------------
(* Before a deletion, without deletions of pods and nodes *)

\* A call that leads to no delete: a resolution failure is held.
HeldJob(j) ==
    /\ j.op = "event" => j.ev # "delete" /\ (j.ev = "resolutionFailed" => j.hold)
    /\ j.op \in {"write", "send"} => j.task.act = "create"

HeldJobs == {j \in Jobs : HeldJob(j)}
CreateTasks == {t \in Tasks : t.act = "create"}

\* Nobody deletes anything, and no endpoint is being deleted.
HeldInv ==
    ~asked => /\ \A p \in Procs : todo[p] \in Seq(HeldJobs)
              /\ \A k \in Workers : queue[k] \in Seq(CreateTasks)
              /\ \A i \in 1 .. Len(wires), e \in Ep : wires[i].state[e] # "Deleting"

\* A transition changes the state and the status of its endpoint only.
LEMMA TransitionFields ==
    ASSUME NEW o \in WireObjects, NEW e \in Ep, NEW t \in EpStates \cup {Ignored}
    PROVE  /\ Transition(o, e, t).host = o.host
           /\ \A x \in Ep : x # e \/ t = Ignored =>
                 /\ Transition(o, e, t).state[x] = o.state[x]
                 /\ Transition(o, e, t).ok[x] = o.ok[x]
           /\ t # Ignored => Transition(o, e, t).state[e] = t
           /\ t # Ignored => (Transition(o, e, t).ok[e] <=> t \in {"Created", "Deleted"})
  <1>1. CASE t = Ignored
    BY <1>1 DEF Transition
  <1>2. CASE t # Ignored
    <2> DEFINE b == t \in {"Created", "Deleted"}
    <2>1. Transition(o, e, t) = [o EXCEPT !.state[e] = t, !.ok[e] = b]
      BY <1>2, Zenon DEF Transition
    <2> HIDE DEF b
    <2>2. /\ [o EXCEPT !.state[e] = t, !.ok[e] = b].host = o.host
          /\ \A x \in Ep : x # e =>
                /\ [o EXCEPT !.state[e] = t, !.ok[e] = b].state[x] = o.state[x]
                /\ [o EXCEPT !.state[e] = t, !.ok[e] = b].ok[x] = o.ok[x]
          /\ [o EXCEPT !.state[e] = t, !.ok[e] = b].state[e] = t
          /\ [o EXCEPT !.state[e] = t, !.ok[e] = b].ok[e] = b
      BY DEF WireObjects
    <2> QED BY <1>2, <2>1, <2>2 DEF b
  <1> QED BY <1>1, <1>2

\* Writing the desired action or the resolution leaves states and status alone.
LEMMA OtherFields ==
    ASSUME NEW o \in WireObjects
    PROVE  /\ \A to : /\ [o EXCEPT !.desired = to].state = o.state
                      /\ [o EXCEPT !.desired = to].ok = o.ok
                      /\ [o EXCEPT !.desired = to].host = o.host
           /\ \A d : /\ [o EXCEPT !.host = d].state = o.state
                     /\ [o EXCEPT !.host = d].ok = o.ok
                     /\ [o EXCEPT !.host = d].host = d
           /\ \A e : [o EXCEPT !.host[e] = NoHost].state = o.state
  BY DEF WireObjects

\* Only a DeleteEvent leads to Deleting; a state other than Deleting is left for
\* Deleted only by a DeleteEvent, for Creating only by a CreateEvent.
LEMMA TargetOf ==
    ASSUME NEW s \in EpStates, NEW ev, NEW same \in BOOLEAN
    PROVE  /\ ev # "delete" => Target(s, ev, same) # "Deleting"
           /\ ev # "delete" /\ s # "Deleting" => Target(s, ev, same) # "Deleted"
           /\ ev # "create" => Target(s, ev, same) # "Creating"
           /\ Target(s, ev, same) = "Created" => ev = "created" \/ (ev = "create" /\ same)
           /\ s = "Creating" /\ ev \in {"created", "failed"} => Target(s, ev, same) # Ignored
  BY DEF Target, EpStates, DeletingHandleEvent, DeletedHandleEvent, FailedHandleEvent, Ignored,
         CreatingHandleEvent, CreatedHandleEvent, ResolutionFailedHandleEvent, CreateOr, DeleteOr

\* A held resolution failure reaches no other endpoint.
LEMMA HeldAlone ==
    ASSUME NEW o, NEW j, j.op = "event", HeldJob(j)
    PROVE  PeerTarget(o, j) = Ignored
  BY DEF HeldJob, PeerTarget, Propagates

\* What wireCreate sends leads to no delete.
LEMMA CreateCallsHeld ==
    ASSUME NEW d \in [Ep -> Data], NEW origin
    PROVE  CreateCalls(d, origin) \in Seq(HeldJobs)
  <1> DEFINE b == (d[0] = d[1])
             c0 == IF d[0] # Peer THEN <<Event("create", 0, FALSE, FALSE)>> ELSE <<>>
             c1 == IF d[1] # Peer THEN <<Event("create", 1, b, FALSE)>> ELSE <<>>
             f0 == Event("resolutionFailed", 0, FALSE, TRUE)
             f1 == Event("resolutionFailed", 1, FALSE, TRUE)
  <1>1. b \in BOOLEAN
    OBVIOUS
  <1>2. \A ev \in Events, e \in Ep, same \in BOOLEAN, hold \in BOOLEAN :
            ev # "delete" /\ (ev = "resolutionFailed" => hold) => Event(ev, e, same, hold) \in HeldJobs
    BY JobKinds DEF HeldJobs, HeldJob, Event
  <1>3. /\ Event("create", 0, FALSE, FALSE) \in HeldJobs /\ Event("create", 1, b, FALSE) \in HeldJobs
        /\ f0 \in HeldJobs /\ f1 \in HeldJobs
    BY <1>1, <1>2 DEF Events, Requests, Ep
  <1>4. c0 \in Seq(HeldJobs) /\ c1 \in Seq(HeldJobs) /\ <<f0, f1>> \in Seq(HeldJobs)
        /\ <<>> \in Seq(HeldJobs)
    BY <1>3, ShortSeqs
  <1>5. CreateCalls(d, origin) \in {c0 \o c1, <<>>, <<f0, f1>>}
    BY DEF CreateCalls
  <1> HIDE DEF c0, c1, f0, f1
  <1>6. c0 \o c1 \in Seq(HeldJobs)
    BY <1>4
  <1> QED BY <1>4, <1>5, <1>6

\* The calls that are neither events nor writes lead to no delete by themselves.
LEMMA PlainHeld ==
    ASSUME NEW j \in Jobs, j.op \notin {"event", "write", "send"}
    PROVE  j \in HeldJobs
  BY DEF HeldJobs, HeldJob

\* A goroutine that did its first call and got such calls in front of the rest.
LEMMA HeldContinue ==
    ASSUME TypeOK, \A q \in Procs : todo[q] \in Seq(HeldJobs),
           NEW p \in Procs, todo[p] # <<>>, NEW js \in Seq(HeldJobs), Continue(p, js)
    PROVE  \A q \in Procs : todo'[q] \in Seq(HeldJobs)
  <1>1. todo' = [todo EXCEPT ![p] = js \o Tail(@)]
    BY DEF Continue
  <1>2. js \o Tail(todo[p]) \in Seq(HeldJobs)
    BY ContinueSeq
  <1> QED BY <1>1, <1>2 DEF TypeOK

\* UpsertCalls lead to no delete by themselves.
LEMMA UpsertCallsHeld ==
    ASSUME IInv
    PROVE  UpsertCalls \in Seq(HeldJobs)
  <1>1. CASE cached = NoWire
    BY <1>1, ShortSeqs DEF UpsertCalls
  <1>2. CASE cached # NoWire
    <2> DEFINE r == [op |-> "reconcile", w |-> cached]
    <2>1. cached \in Wires
      BY <1>2, ConstantsAssumption DEF IInv, TypeOK, NoWire, Wires
    <2>2. r \in Jobs /\ r.op = "reconcile"
      BY <2>1, JobKinds
    <2>3. r \in HeldJobs
      BY <2>2, PlainHeld
    <2> QED BY <1>2, <2>3, ShortSeqs DEF UpsertCalls
  <1> QED BY <1>1, <1>2

\* An event that leads to no delete changes its own endpoint only, not to Deleting,
\* and generates at most a create.
LEMMA HeldEventCases ==
    ASSUME IInv, HeldInv, ~asked, NEW p \in Procs, HandleEvent(p), cached # NoWire,
           NEW j, j = Head(todo[p]), NEW o, o = wires[cached], NEW t, t = OwnTarget(o, j)
    PROVE  /\ todo[p] # <<>> /\ j \in HeldJobs /\ j.op = "event" /\ j.ev \in Events
           /\ j.ep \in Ep /\ j.same \in BOOLEAN
           /\ o \in WireObjects /\ cached \in 1 .. Len(wires) /\ cached \in Wires
           /\ o.state[j.ep] \in EpStates /\ o.state[j.ep] # "Deleting"
           /\ t = Target(o.state[j.ep], j.ev, j.same)
           /\ t \in EpStates \cup {Ignored} /\ t # "Deleting"
           /\ wires' = [wires EXCEPT ![cached] = Transition(o, j.ep, t)]
           /\ t = "Creating" =>
                 Continue(p, <<[op |-> "write", task |-> [act |-> "create", ep |-> j.ep, w |-> cached]],
                               [op |-> "settle", w |-> cached]>>)
           /\ t # "Creating" => Continue(p, <<[op |-> "settle", w |-> cached]>>)
  <1>1. todo[p] # <<>> /\ j.op = "event"
    BY DEF HandleEvent, At
  <1>2. todo[p] \in Seq(HeldJobs)
    BY DEF HeldInv
  <1>3. j \in HeldJobs
    BY <1>1, <1>2
  <1>4. j.ev \in Events /\ j.ep \in Ep /\ j.same \in BOOLEAN /\ j.ev # "delete"
    BY <1>1, <1>3, JobFields DEF HeldJobs, HeldJob
  <1>5. wires \in Seq(WireObjects) /\ cached \in 1 .. Len(wires) /\ cached \in Wires
    BY ConstantsAssumption DEF IInv, TypeOK, NoWire, Wires
  <1>6. o \in WireObjects
    BY <1>5
  <1>7. o.state[j.ep] \in EpStates /\ o.state[j.ep] # "Deleting"
    BY <1>4, <1>5, <1>6 DEF WireObjects, HeldInv
  <1>8. t = Target(o.state[j.ep], j.ev, j.same)
    BY DEF OwnTarget
  <1>9. t \in EpStates \cup {Ignored} /\ t # "Deleting"
    BY <1>4, <1>7, <1>8, TargetType, TargetOf
  <1>10. PeerTarget(o, j) = Ignored
    BY <1>1, <1>3, HeldAlone DEF HeldJobs
  <1>11. wires' = [wires EXCEPT ![cached] = Transition(Transition(o, j.ep, t), 1 - j.ep, Ignored)]
    BY <1>10 DEF HandleEvent
  <1>12. Continue(p, Generated(cached, j.ep, t) \o Generated(cached, 1 - j.ep, Ignored)
                       \o <<[op |-> "settle", w |-> cached]>>)
    BY <1>10 DEF HandleEvent
  <1>13. Transition(Transition(o, j.ep, t), 1 - j.ep, Ignored) = Transition(o, j.ep, t)
    BY DEF Transition
  <1>14. Generated(cached, 1 - j.ep, Ignored) = <<>>
    BY DEF Generated, GeneratedAction, Ignored
  <1> DEFINE st == [op |-> "settle", w |-> cached]
             wr == [op |-> "write", task |-> [act |-> "create", ep |-> j.ep, w |-> cached]]
  <1>15. t = "Creating" => Generated(cached, j.ep, t) = <<wr>>
    BY DEF Generated, GeneratedAction, Ignored
  <1>16. t # "Creating" => Generated(cached, j.ep, t) = <<>>
    BY <1>9 DEF Generated, GeneratedAction, Ignored
  <1> HIDE DEF wr, st
  <1>17. <<wr>> \o <<>> \o <<st>> = <<wr, st>> /\ <<>> \o <<>> \o <<st>> = <<st>>
    BY ShortConcat
  <1>18. t = "Creating" => Continue(p, <<wr, st>>)
    BY <1>12, <1>14, <1>15, <1>17 DEF st
  <1>19. t # "Creating" => Continue(p, <<st>>)
    BY <1>12, <1>14, <1>16, <1>17 DEF st
  <1> QED BY <1>1, <1>3, <1>4, <1>5, <1>6, <1>7, <1>8, <1>9, <1>11, <1>13, <1>18, <1>19 DEF st, wr

\* Such an event keeps the calls harmless and no endpoint is being deleted.
LEMMA HeldEvent ==
    ASSUME IInv, HeldInv, ~asked, NEW p \in Procs, HandleEvent(p)
    PROVE  /\ \A q \in Procs : todo'[q] \in Seq(HeldJobs)
           /\ \A i \in 1 .. Len(wires'), e \in Ep : wires'[i].state[e] # "Deleting"
  <1>1. TypeOK /\ \A q \in Procs : todo[q] \in Seq(HeldJobs)
    BY DEF HeldInv, IInv
  <1>2. CASE cached = NoWire
    <2>1. todo[p] # <<>> /\ Continue(p, <<>>) /\ wires' = wires
      BY <1>2 DEF HandleEvent, At
    <2>2. \A q \in Procs : todo'[q] \in Seq(HeldJobs)
      BY <1>1, <2>1, HeldContinue, ShortSeqs
    <2> QED BY <2>1, <2>2 DEF HeldInv
  <1>3. CASE cached # NoWire
    <2>1. PICK j : j = Head(todo[p])
      OBVIOUS
    <2>2. PICK o : o = wires[cached]
      OBVIOUS
    <2>3. PICK t : t = OwnTarget(o, j)
      OBVIOUS
    <2> DEFINE st == [op |-> "settle", w |-> cached]
               task == [act |-> "create", ep |-> j.ep, w |-> cached]
               wr == [op |-> "write", task |-> task]
    <2>4. /\ todo[p] # <<>> /\ j.ep \in Ep /\ o \in WireObjects
          /\ cached \in 1 .. Len(wires) /\ cached \in Wires
          /\ t \in EpStates \cup {Ignored} /\ t # "Deleting"
          /\ wires' = [wires EXCEPT ![cached] = Transition(o, j.ep, t)]
          /\ Continue(p, <<wr, st>>) \/ Continue(p, <<st>>)
      BY <1>3, <2>1, <2>2, <2>3, HeldEventCases
    <2>5. \A e \in Ep : o.state[e] # "Deleting"
      BY <2>2, <2>4 DEF HeldInv
    <2>6. \A e \in Ep : Transition(o, j.ep, t).state[e] # "Deleting"
      BY <2>4, <2>5, TransitionFields
    <2>7. wires \in Seq(WireObjects)
      BY <1>1 DEF TypeOK
    <2>8. \A i \in 1 .. Len(wires'), e \in Ep : wires'[i].state[e] # "Deleting"
      BY <2>4, <2>6, <2>7 DEF HeldInv
    <2>9. task \in Tasks /\ task.act = "create"
      BY <2>4 DEF Tasks, WorkerActions
    <2> HIDE DEF task
    <2>10. wr \in HeldJobs
      BY <2>9, JobKinds DEF HeldJobs, HeldJob
    <2>11. st \in HeldJobs
      <3>1. st \in Jobs /\ st.op = "settle"
        BY <2>4, JobKinds
      <3> QED BY <3>1, PlainHeld
    <2>12. <<wr, st>> \in Seq(HeldJobs) /\ <<st>> \in Seq(HeldJobs)
      BY <2>10, <2>11, ShortSeqs
    <2> HIDE DEF st, wr
    <2> QED BY <1>1, <2>4, <2>8, <2>12, HeldContinue DEF task
  <1> QED BY <1>2, <1>3

\* What becomes of a task t that is written for an endpoint on h.
LEMMA WriteCases ==
    ASSUME NEW p, WriteEvent(p), NEW t, t = Head(todo[p]).task,
           NEW h, h = wires[t.w].host[t.ep], NEW k, k = <<h, WorkerOf(h)>>
    PROVE  /\ todo[p] # <<>> /\ Head(todo[p]).op = "write"
           /\ \/ h = NoHost /\ Continue(p, <<>>) /\ UNCHANGED <<wires, queue>>
              \/ /\ wires' = [wires EXCEPT ![t.w] =
                                Transition(@, t.ep, Target(@.state[t.ep], "failed", FALSE))]
                 /\ Continue(p, <<>>) /\ UNCHANGED queue
              \/ /\ WorkerOf(h) # 0 /\ queue' = [queue EXCEPT ![k] = Append(@, t)]
                 /\ Continue(p, <<>>) /\ UNCHANGED wires
              \/ /\ WorkerOf(h) # 0 /\ Continue(p, <<[op |-> "send", worker |-> k, task |-> t]>>)
                 /\ UNCHANGED <<wires, queue>>
  <1>1. todo[p] # <<>> /\ Head(todo[p]).op = "write"
    BY DEF WriteEvent, At
  <1> QED BY <1>1, Zenon DEF WriteEvent

\* A create is written to a channel, held before it, or fails.
LEMMA HeldWrite ==
    ASSUME IInv, HeldInv, ~asked, NEW p \in Procs, WriteEvent(p) \/ Send(p)
    PROVE  /\ \A q \in Procs : todo'[q] \in Seq(HeldJobs)
           /\ \A k \in Workers : queue'[k] \in Seq(CreateTasks)
           /\ \A i \in 1 .. Len(wires'), e \in Ep : wires'[i].state[e] # "Deleting"
  <1> DEFINE j == Head(todo[p])
             t == j.task
             h == wires[t.w].host[t.ep]
             k == <<h, WorkerOf(h)>>
  <1>0. todo[p] # <<>> /\ j.op \in {"write", "send"}
    <2>1. CASE WriteEvent(p)
      BY <2>1 DEF WriteEvent, At
    <2>2. CASE Send(p)
      BY <2>2 DEF Send, At
    <2> QED BY <2>1, <2>2
  <1>1. /\ todo[p] # <<>> /\ j.op \in {"write", "send"} /\ todo[p] \in Seq(HeldJobs) /\ TypeOK
        /\ \A q \in Procs : todo[q] \in Seq(HeldJobs)
        /\ \A i \in 1 .. Len(wires), e \in Ep : wires[i].state[e] # "Deleting"
        /\ \A x \in Workers : queue[x] \in Seq(CreateTasks)
    BY <1>0 DEF HeldInv, IInv
  <1>2. j \in HeldJobs
    BY <1>1
  <1>3. t \in Tasks /\ t.act = "create" /\ t \in CreateTasks
    BY <1>1, <1>2, JobFields DEF HeldJobs, HeldJob, CreateTasks
  <1>4. t.w \in Wires /\ t.ep \in Ep
    BY <1>3 DEF Tasks
  <1>5. t.w \in 1 .. Len(wires)
    <2>1. j \in AllowedAt(p, Len(wires), asked)
      BY <1>1, HeadAllowed
    <2> QED BY <1>1, <1>4, <2>1, ConstantsAssumption DEF AllowedAt, RefersUpTo, Wires, TypeOK
  <1> HIDE DEF t
  <1>6. CASE Continue(p, <<>>) /\ UNCHANGED <<wires, queue>>
    BY <1>1, <1>6, HeldContinue, ShortSeqs
  <1>7. CASE /\ wires' = [wires EXCEPT ![t.w] = Transition(@, t.ep, Target(@.state[t.ep], "failed", FALSE))]
             /\ Continue(p, <<>>) /\ UNCHANGED queue
    <2> DEFINE o == wires[t.w]
               tg == Target(o.state[t.ep], "failed", FALSE)
    <2>1. wires' = [wires EXCEPT ![t.w] = Transition(o, t.ep, tg)]
      BY <1>5, <1>7
    <2>2. o \in WireObjects
      BY <1>1, <1>5 DEF TypeOK
    <2>a. o.state[t.ep] \in EpStates
      BY <2>2, <1>4 DEF WireObjects
    <2>3. tg \in EpStates \cup {Ignored} /\ tg # "Deleting"
      BY <2>a, TargetType, TargetOf
    <2>4. \A e \in Ep : o.state[e] # "Deleting"
      BY <1>1, <1>5
    <2> HIDE DEF o, tg
    <2>5. \A e \in Ep : Transition(o, t.ep, tg).state[e] # "Deleting"
      BY <2>2, <2>3, <2>4, <1>4, TransitionFields
    <2>6. wires \in Seq(WireObjects)
      BY <1>1 DEF TypeOK
    <2>7. \A i \in 1 .. Len(wires'), e \in Ep : wires'[i].state[e] # "Deleting"
      BY <2>1, <2>5, <2>6, <1>1, <1>5
    <2> QED BY <1>1, <1>7, <2>7, HeldContinue, ShortSeqs
  <1>8. ASSUME NEW x, queue' = [queue EXCEPT ![x] = Append(@, t)], Continue(p, <<>>), UNCHANGED wires,
               x \in Workers
        PROVE  /\ \A q \in Procs : todo'[q] \in Seq(HeldJobs)
               /\ \A y \in Workers : queue'[y] \in Seq(CreateTasks)
               /\ \A i \in 1 .. Len(wires'), e \in Ep : wires'[i].state[e] # "Deleting"
    <2>1. Append(queue[x], t) \in Seq(CreateTasks)
      BY <1>1, <1>3, <1>8
    <2>2. \A y \in Workers : queue'[y] \in Seq(CreateTasks)
      BY <2>1, <1>1, <1>8 DEF TypeOK
    <2> QED BY <1>1, <1>8, <2>2, HeldContinue, ShortSeqs
  <1>9. CASE WorkerOf(h) # 0 /\ Continue(p, <<[op |-> "send", worker |-> k, task |-> t]>>)
             /\ UNCHANGED <<wires, queue>>
    <2> DEFINE s == [op |-> "send", worker |-> k, task |-> t]
    <2>1. k \in Workers
      BY <1>1, <1>9, WorkerOfType
    <2>2. s \in Jobs
      BY <1>3, <2>1, JobKinds
    <2>3. s \in HeldJobs
      BY <1>3, <2>2 DEF HeldJobs, HeldJob
    <2>4. <<s>> \in Seq(HeldJobs)
      BY <2>3, ShortSeqs
    <2> HIDE DEF s
    <2>5. Continue(p, <<s>>)
      BY <1>9 DEF s
    <2> QED BY <1>1, <1>9, <2>4, <2>5, HeldContinue
  <1>10. CASE WriteEvent(p)
    <2>1. WorkerOf(h) # 0 => k \in Workers
      BY <1>1, WorkerOfType
    <2>2. \/ Continue(p, <<>>) /\ UNCHANGED <<wires, queue>>
          \/ /\ wires' = [wires EXCEPT ![t.w] = Transition(@, t.ep, Target(@.state[t.ep], "failed", FALSE))]
             /\ Continue(p, <<>>) /\ UNCHANGED queue
          \/ /\ WorkerOf(h) # 0 /\ queue' = [queue EXCEPT ![k] = Append(@, t)]
             /\ Continue(p, <<>>) /\ UNCHANGED wires
          \/ /\ WorkerOf(h) # 0 /\ Continue(p, <<[op |-> "send", worker |-> k, task |-> t]>>)
             /\ UNCHANGED <<wires, queue>>
      BY <1>10, WriteCases DEF t
    <2> HIDE DEF k, h, j
    <2> QED BY <1>6, <1>7, <1>8, <1>9, <2>1, <2>2
  <1>11. CASE Send(p)
    <2>1. j.op = "send"
      BY <1>11 DEF Send, At
    <2>2. j.worker \in Workers
      BY <1>2, <2>1, JobFields DEF HeldJobs
    <2> QED BY <1>8, <1>11, <2>2 DEF Send, t, wireVars
  <1> QED BY <1>10, <1>11

\* The other calls of a goroutine lead to no delete and change no state.
LEMMA HeldCall ==
    ASSUME IInv, HeldInv, ~asked, NEW p \in Procs,
           \/ SetDesiredAction(p) \/ ResolveForCreate(p) \/ Resolve(p)
           \/ UnResolve(p) \/ Settle(p) \/ Forget(p) \/ Reconcile(p) \/ StartWorker(p) \/ Claim(p) \/ Insert(p)
    PROVE  /\ \A q \in Procs : todo'[q] \in Seq(HeldJobs)
           /\ \A i \in 1 .. Len(wires'), e \in Ep : wires'[i].state[e] # "Deleting"
  <1> DEFINE j == Head(todo[p])
  <1> USE DEF wireVars
  <1>1. /\ todo[p] # <<>> /\ TypeOK /\ wires \in Seq(WireObjects)
        /\ \A q \in Procs : todo[q] \in Seq(HeldJobs)
        /\ \A i \in 1 .. Len(wires), e \in Ep : wires[i].state[e] # "Deleting"
    BY DEF SetDesiredAction, ResolveForCreate, Resolve, UnResolve, Settle, Forget,
           Reconcile, StartWorker, Claim, Insert, At, HeldInv, IInv, TypeOK
  <1>2. j \in Jobs
    BY <1>1, HeadAllowed DEF AllowedAt
  <1>3. ASSUME NEW js \in Seq(HeldJobs), Continue(p, js)
        PROVE  \A q \in Procs : todo'[q] \in Seq(HeldJobs)
    BY <1>1, <1>3, HeldContinue
  <1>4. <<>> \in Seq(HeldJobs)
    BY ShortSeqs
  <1>5. ASSUME NEW x \in Jobs, x.op \notin {"event", "write", "send"}
        PROVE  <<x>> \in Seq(HeldJobs)
    <2>1. x \in HeldJobs
      BY <1>5, PlainHeld
    <2> QED BY <2>1, ShortSeqs
  <1>6. CASE Claim(p)
    <2>1. <<[op |-> "insert"]>> \in Seq(HeldJobs)
      BY <1>5, JobKinds
    <2>2. wires' = wires
      BY <1>6 DEF Claim
    <2>3. CASE Continue(p, <<[op |-> "insert"]>>)
      BY <1>1, <1>3, <2>1, <2>2, <2>3
    <2>4. CASE todo' = [todo EXCEPT ![p] = <<>>]
      BY <1>1, <1>4, <2>2, <2>4 DEF TypeOK
    <2> QED BY <1>6, <2>3, <2>4 DEF Claim
  <1>7. CASE Insert(p)
    <2>1. wires' = Append(wires, NewWire) /\ Continue(p, <<>>)
      BY <1>7 DEF Insert
    <2>2. \A e \in Ep : NewWire.state[e] # "Deleting"
      BY DEF NewWire
    <2> HIDE DEF NewWire
    <2>3. Len(wires') = Len(wires) + 1 /\ wires'[Len(wires) + 1] = NewWire
          /\ \A i \in 1 .. Len(wires) : wires'[i] = wires[i]
      BY <1>1, <2>1
    <2>4. \A i \in 1 .. Len(wires'), e \in Ep : wires'[i].state[e] # "Deleting"
      <3> TAKE i \in 1 .. Len(wires'), e \in Ep
      <3>1. i \in 1 .. Len(wires) \/ i = Len(wires) + 1
        BY <1>1, <2>3
      <3> QED BY <1>1, <2>2, <2>3, <3>1
    <2> QED BY <1>3, <1>4, <2>1, <2>4
  <1>8. CASE SetDesiredAction(p) \/ Resolve(p) \/ UnResolve(p)
    <2>1. Continue(p, <<>>)
      BY <1>8 DEF SetDesiredAction, Resolve, UnResolve
    <2>2. CASE cached = NoWire
      BY <1>1, <1>3, <1>4, <1>8, <2>1, <2>2 DEF SetDesiredAction, Resolve, UnResolve
    <2>3. CASE cached # NoWire
      <3>1. cached \in 1 .. Len(wires)
        BY <1>1, <2>3 DEF TypeOK, NoWire
      <3>2. wires[cached] \in WireObjects
        BY <1>1, <3>1
      <3>3. wires' \in {[wires EXCEPT ![cached] = [wires[cached] EXCEPT !.desired = j.to]],
                        [wires EXCEPT ![cached] = [wires[cached] EXCEPT !.host = j.data]],
                        [wires EXCEPT ![cached] = [wires[cached] EXCEPT !.host[j.ep] = NoHost]]}
        BY <1>8, <2>3, <3>1 DEF SetDesiredAction, Resolve, UnResolve
      <3>4. \E o : o.state = wires[cached].state /\ wires' = [wires EXCEPT ![cached] = o]
        BY <3>2, <3>3, OtherFields
      <3>5. PICK o : o.state = wires[cached].state /\ wires' = [wires EXCEPT ![cached] = o]
        BY <3>4
      <3>6. \A i \in 1 .. Len(wires'), e \in Ep : wires'[i].state[e] # "Deleting"
        BY <1>1, <3>1, <3>5
      <3> QED BY <1>3, <1>4, <2>1, <3>6
    <2> QED BY <2>2, <2>3
  <1>9. CASE ResolveForCreate(p)
    <2> DEFINE r == [op |-> "resolve", data |-> resolveWire]
               cs == CreateCalls(resolveWire, j.origin)
    <2>1. Continue(p, <<r>> \o cs) /\ wires' = wires
      BY <1>9 DEF ResolveForCreate
    <2>2. resolveWire \in [Ep -> Data]
      BY <1>1, resolveWireType
    <2>3. r \in Jobs /\ r.op = "resolve"
      BY <2>2, JobKinds
    <2>4. <<r>> \in Seq(HeldJobs)
      BY <1>5, <2>3
    <2>5. cs \in Seq(HeldJobs)
      BY <2>2, CreateCallsHeld
    <2> HIDE DEF r, cs
    <2>6. <<r>> \o cs \in Seq(HeldJobs)
      BY <2>4, <2>5
    <2> QED BY <1>1, <1>3, <2>1, <2>6
  <1>10. CASE Settle(p)
    <2>1. <<[op |-> "forget"]>> \in Seq(HeldJobs)
      BY <1>5, JobKinds
    <2>2. wires' = wires /\ (Continue(p, <<>>) \/ Continue(p, <<[op |-> "forget"]>>))
      BY <1>10 DEF Settle
    <2> QED BY <1>1, <1>3, <1>4, <2>1, <2>2
  <1>11. CASE Forget(p)
    BY <1>1, <1>3, <1>4, <1>11 DEF Forget
  <1>12. CASE Reconcile(p)
    <2> DEFINE n == [op |-> IF wires[j.w].desired = "create" THEN "wireCreate" ELSE "wireDelete",
                     origin |-> "callback"]
    <2>1. Continue(p, <<n>>) /\ wires' = wires
      BY <1>12 DEF Reconcile
    <2>2. n.op \in {"wireCreate", "wireDelete"}
      OBVIOUS
    <2>3. n \in Jobs
      BY JobKinds
    <2> HIDE DEF n
    <2>4. <<n>> \in Seq(HeldJobs)
      BY <1>5, <2>2, <2>3
    <2> QED BY <1>1, <1>3, <2>1, <2>4
  <1>13. CASE StartWorker(p)
    <2>1. UpsertCalls \in Seq(HeldJobs)
      BY UpsertCallsHeld
    <2>2. wires' = wires /\ (Continue(p, <<>>) \/ Continue(p, UpsertCalls))
      BY <1>13 DEF StartWorker
    <2> QED BY <1>1, <1>3, <1>4, <2>1, <2>2
  <1> QED BY <1>6, <1>7, <1>8, <1>9, <1>10, <1>11, <1>12, <1>13

\* A cache deletes no pod and no node.
NoDeletions == EnvOps \cap {"podDelete", "nodeDelete"} = {}

\* A change of the caches is counted.
LEMMA EnvironmentCounts ==
    ASSUME TypeOK, Environment
    PROVE  used'["env"] = used["env"] + 1 /\ used'["env"] # 0
  <1>1. Spend("env")
    BY DEF Environment, EnvStep, PodUpsert, PodDelete, DaemonUpsert, DaemonDelete, NodeUpsert,
           NodeDelete, TopologyChange
  <1> QED BY <1>1 DEF Spend, TypeOK

\* A callback's goroutines get calls that lead to no delete.
LEMMA HeldEnvironment ==
    ASSUME NoDeletions, IInv, HeldInv, ~asked, Environment
    PROVE  /\ \A q \in Procs : todo'[q] \in Seq(HeldJobs)
           /\ UNCHANGED <<wires, queue>>
  <1> USE DEF wireVars, workerVars
  <1>1. /\ \A q \in Procs : todo[q] \in Seq(HeldJobs)
        /\ todo \in [Procs -> Seq(Jobs)]
    BY DEF HeldInv, IInv, TypeOK
  <1>2. ASSUME NEW c, NEW js \in Seq(HeldJobs), todo' = [todo EXCEPT ![c] = js]
        PROVE  \A q \in Procs : todo'[q] \in Seq(HeldJobs)
    BY <1>1, <1>2
  <1>3. UpsertCalls \in Seq(HeldJobs)
    BY UpsertCallsHeld
  <1>4. ASSUME NEW h \in Hosts PROVE <<[op |-> "startWorker", host |-> h]>> \in Seq(HeldJobs)
    <2> DEFINE sw == [op |-> "startWorker", host |-> h]
    <2>1. sw \in Jobs /\ sw.op = "startWorker"
      BY JobKinds
    <2>2. sw \in HeldJobs
      BY <2>1, PlainHeld
    <2> QED BY <2>2, ShortSeqs
  <1>5. ASSUME NEW M, DeleteGoroutines("pod", M, TRUE)
        PROVE  \A q \in Procs : todo'[q] \in Seq(HeldJobs)
    <2> DEFINE js(e) == IF e \in M THEN <<[op |-> "unresolve", ep |-> e],
                                         Event("resolutionFailed", e, FALSE, TRUE)>> ELSE <<>>
    <2>1. ASSUME NEW e \in Ep PROVE js(e) \in Seq(HeldJobs)
      <3> DEFINE u == [op |-> "unresolve", ep |-> e]
                 f == Event("resolutionFailed", e, FALSE, TRUE)
      <3>1. u \in Jobs /\ u.op = "unresolve"
        BY JobKinds
      <3>2. u \in HeldJobs
        BY <3>1, PlainHeld
      <3>3. f \in HeldJobs
        BY JobKinds DEF HeldJobs, HeldJob, Event, Events, Requests
      <3>4. <<u, f>> \in Seq(HeldJobs) /\ <<>> \in Seq(HeldJobs)
        BY <3>2, <3>3, ShortSeqs
      <3> QED BY <3>4
    <2>2. todo' = [todo EXCEPT ![<<"pod", 0>>] = js(0), ![<<"pod", 1>>] = js(1)]
      BY <1>5 DEF DeleteGoroutines
    <2>3. js(0) \in Seq(HeldJobs) /\ js(1) \in Seq(HeldJobs)
      BY <2>1 DEF Ep
    <2> HIDE DEF js
    <2> QED BY <1>1, <2>2, <2>3
  <1>6. ASSUME NEW e \in Ep, NEW v \in Hosts \cup {"NotReady"}, PodUpsert(e, v)
        PROVE  (\A q \in Procs : todo'[q] \in Seq(HeldJobs)) /\ UNCHANGED <<wires, queue>>
    BY <1>2, <1>3, <1>6 DEF PodUpsert
  <1>7. ASSUME NEW e \in Ep, PodDelete(e) PROVE FALSE
    BY <1>7 DEF PodDelete, EnvStep, NoDeletions
  <1>8. ASSUME NEW h \in Hosts, NodeDelete(h) PROVE FALSE
    BY <1>8 DEF NodeDelete, EnvStep, NoDeletions
  <1>9. ASSUME NEW h \in Hosts, DaemonDelete(h)
        PROVE  (\A q \in Procs : todo'[q] \in Seq(HeldJobs)) /\ UNCHANGED <<wires, queue>>
    <2>1. DeleteGoroutines("pod", ResolvedTo({h}), TRUE) /\ UNCHANGED <<wires, queue>>
      BY <1>9 DEF DaemonDelete
    <2> QED BY <1>5, <2>1
  <1>10. ASSUME NEW h \in Hosts, NEW v \in {"ready", "notReady"}, DaemonUpsert(h, v)
         PROVE  (\A q \in Procs : todo'[q] \in Seq(HeldJobs)) /\ UNCHANGED <<wires, queue>>
    <2> DEFINE js == IF v = "ready" THEN <<[op |-> "startWorker", host |-> h]>> ELSE UpsertCalls
    <2>1. todo' = [todo EXCEPT ![<<"pod", 0>>] = js] /\ UNCHANGED <<wires, queue>>
      BY <1>10 DEF DaemonUpsert
    <2>2. js \in Seq(HeldJobs)
      BY <1>3, <1>4
    <2> HIDE DEF js
    <2> QED BY <1>2, <2>1, <2>2
  <1>11. CASE NodeUpsert
    BY <1>2, <1>3, <1>11 DEF NodeUpsert
  <1>12. ASSUME NEW v, TopologyChange(v)
         PROVE  (\A q \in Procs : todo'[q] \in Seq(HeldJobs)) /\ UNCHANGED <<wires, queue>>
    BY <1>1, <1>12 DEF TopologyChange
  <1> QED BY <1>6, <1>7, <1>8, <1>9, <1>10, <1>11, <1>12 DEF Environment

\* A worker's turn takes a create from its channel and leaves an answer.
LEMMA HeldTurn ==
    ASSUME IInv, HeldInv, ~asked, NEW k \in Workers, WorkerTurn(k)
    PROVE  /\ \A q \in Procs : todo'[q] \in Seq(HeldJobs)
           /\ \A x \in Workers : queue'[x] \in Seq(CreateTasks)
  <1> DEFINE t == Head(queue[k])
  <1>1. /\ queue[k] # <<>> /\ \A x \in Workers : queue[x] \in Seq(CreateTasks)
        /\ \A q \in Procs : todo[q] \in Seq(HeldJobs)
        /\ todo \in [Procs -> Seq(Jobs)] /\ queue \in [Workers -> Seq(Tasks)]
    BY DEF WorkerTurn, Receives, HeldInv, IInv, TypeOK
  <1>2. t \in CreateTasks /\ Tail(queue[k]) \in Seq(CreateTasks)
    BY <1>1
  <1>3. t.ep \in Ep
    BY <1>2 DEF CreateTasks, Tasks
  <1>4. \E ev \in Answers : todo' = [todo EXCEPT ![k] = <<Event(ev, t.ep, FALSE, FALSE)>>]
    BY DEF WorkerTurn, Answer, Answers
  <1>5. PICK ev \in Answers : todo' = [todo EXCEPT ![k] = <<Event(ev, t.ep, FALSE, FALSE)>>]
    BY <1>4
  <1> DEFINE j == Event(ev, t.ep, FALSE, FALSE)
  <1>6. j \in Jobs /\ j.op = "event" /\ j.ev = ev
    BY <1>3, JobKinds DEF Events, Event
  <1>7. j \in HeldJobs
    BY <1>6 DEF HeldJobs, HeldJob, Answers
  <1>8. <<j>> \in Seq(HeldJobs)
    BY <1>7, ShortSeqs
  <1> HIDE DEF j
  <1>9. \A q \in Procs : todo'[q] \in Seq(HeldJobs)
    BY <1>1, <1>5, <1>8 DEF j
  <1>10. \A x \in Workers : queue'[x] \in Seq(CreateTasks)
    BY <1>1, <1>2 DEF WorkerTurn
  <1> QED BY <1>9, <1>10

\* Without deletions of pods and nodes, every step before a WireDelete leads to no
\* delete: the failure of a daemon is held.
LEMMA NextHeld ==
    ASSUME NoDeletions \/ used'["env"] = 0, IInv, HeldInv, WireStep
    PROVE  HeldInv'
  <1> SUFFICES ASSUME ~asked'
               PROVE  /\ \A q \in Procs : todo'[q] \in Seq(HeldJobs)
                      /\ \A k \in Workers : queue'[k] \in Seq(CreateTasks)
                      /\ \A i \in 1 .. Len(wires'), e \in Ep : wires'[i].state[e] # "Deleting"
    BY DEF HeldInv
  <1> USE DEF wireVars, workerVars
  <1>1. CASE WireUpSert \/ WireDelete
    <2>1. WireUpSert
      BY <1>1 DEF WireDelete
    <2>2. ~asked /\ UNCHANGED <<wires, queue>>
      BY <2>1 DEF WireUpSert
    <2> DEFINE x == IF cached = NoWire THEN [op |-> "claim"] ELSE [op |-> "setDesired", to |-> "create"]
               wc == [op |-> "wireCreate", origin |-> "api"]
    <2>3. todo' = [todo EXCEPT ![Api] = <<x, wc>>]
      BY <2>1 DEF WireUpSert
    <2>4. x \in Jobs /\ x.op \notin {"event", "write", "send"} /\ wc \in Jobs /\ wc.op = "wireCreate"
      BY JobKinds
    <2> HIDE DEF x, wc
    <2>5. x \in HeldJobs /\ wc \in HeldJobs
      BY <2>4, PlainHeld
    <2>6. <<x, wc>> \in Seq(HeldJobs)
      BY <2>5, ShortSeqs
    <2> QED BY <2>2, <2>3, <2>6 DEF HeldInv, IInv, TypeOK
  <1>2. ASSUME NEW p \in Procs, Step(p)
        PROVE  /\ \A q \in Procs : todo'[q] \in Seq(HeldJobs)
               /\ \A k \in Workers : queue'[k] \in Seq(CreateTasks)
               /\ \A i \in 1 .. Len(wires'), e \in Ep : wires'[i].state[e] # "Deleting"
    <2>0. asked' = asked
      BY <1>2 DEF Step, Claim, Insert, SetDesiredAction, ResolveForCreate, ResolveForDelete, Resolve,
           UnResolve, HandleEvent, WriteEvent, Send, Settle, Forget, Reconcile, StartWorker
    <2>1. CASE HandleEvent(p)
      <3>1. queue' = queue
        BY <2>1 DEF HandleEvent
      <3> QED BY <2>0, <2>1, <3>1, HeldEvent DEF HeldInv
    <2>2. CASE WriteEvent(p) \/ Send(p)
      BY <2>0, <2>2, HeldWrite
    <2>3. CASE ResolveForDelete(p)
      <3>1. todo[p] # <<>> /\ Head(todo[p]).op = "wireDelete"
        BY <2>3 DEF ResolveForDelete, At
      <3>2. FALSE
        BY <2>0, <3>1, HeadAllowed DEF AllowedAt, CreateJob
      <3> QED BY <3>2
    <2>4. CASE \/ SetDesiredAction(p) \/ ResolveForCreate(p) \/ Resolve(p)
               \/ UnResolve(p) \/ Settle(p) \/ Forget(p) \/ Reconcile(p) \/ StartWorker(p) \/ Claim(p) \/ Insert(p)
      <3>1. queue' = queue
        BY <2>4 DEF Claim, Insert, SetDesiredAction, ResolveForCreate, Resolve, UnResolve,
                    Settle, Forget, Reconcile, StartWorker
      <3> QED BY <2>0, <2>4, <3>1, HeldCall DEF HeldInv
    <2> QED BY <1>2, <2>1, <2>2, <2>3, <2>4 DEF Step
  <1>3. ASSUME NEW k \in Workers, WorkerTurn(k)
        PROVE  /\ \A q \in Procs : todo'[q] \in Seq(HeldJobs)
               /\ \A x \in Workers : queue'[x] \in Seq(CreateTasks)
               /\ \A i \in 1 .. Len(wires'), e \in Ep : wires'[i].state[e] # "Deleting"
    <2>1. ~asked /\ wires' = wires
      BY <1>3 DEF WorkerTurn
    <2> QED BY <1>3, <2>1, HeldTurn DEF HeldInv
  <1>4. CASE CallbackDone
    BY <1>4 DEF CallbackDone, HeldInv
  <1>5. CASE Environment
    <2>1. ~asked
      BY <1>5 DEF Environment, PodUpsert, PodDelete, DaemonUpsert, DaemonDelete, NodeUpsert,
           NodeDelete, TopologyChange
    <2>2. NoDeletions
      BY <1>5, EnvironmentCounts DEF IInv
    <2> QED BY <1>5, <2>1, <2>2, HeldEnvironment DEF HeldInv
  <1>6. CASE UNCHANGED wireState
    BY <1>6 DEF wireState, HeldInv
  <1> QED BY <1>1, <1>2, <1>3, <1>4, <1>5, <1>6 DEF WireStep, System

\* The failure of a daemon is held: as long as no pod and no node is deleted and no client
\* asks for it, no delete goes to any worker, whatever daemons, workers and pods do.
THEOREM HeldEndsAreKept ==
    ASSUME NoDeletions
    PROVE  Spec => []HeldEndKept
  <1>1. Init => HeldInv
    BY DEF Init, HeldInv
  <1>2. IInv /\ HeldInv /\ [Next]_vars => HeldInv'
    BY NextHeld, NextIsWireStep
  <1>3. IInv /\ HeldInv => HeldEndKept
    <2> SUFFICES ASSUME HeldInv, ~asked, NEW e \in Ep, Sent("delete", e) PROVE FALSE
      BY DEF HeldEndKept
    <2>1. ASSUME NEW k \in Workers, NEW i \in DOMAIN queue[k], queue[k][i].act = "delete" PROVE FALSE
      <3>1. queue[k] \in Seq(CreateTasks)
        BY DEF HeldInv
      <3>2. queue[k][i] \in CreateTasks
        BY <2>1, <3>1
      <3> QED BY <2>1, <3>2 DEF CreateTasks
    <2>2. ASSUME NEW p \in Procs, NEW i \in DOMAIN todo[p], todo[p][i].op \in {"write", "send"},
                 todo[p][i].task.act = "delete"
          PROVE  FALSE
      <3>1. todo[p] \in Seq(HeldJobs)
        BY DEF HeldInv
      <3>2. todo[p][i] \in HeldJobs
        BY <2>2, <3>1
      <3> QED BY <2>2, <3>2 DEF HeldJobs, HeldJob
    <2> QED BY <2>1, <2>2 DEF Sent, TasksOf, JobsOf
  <1> QED BY Invariance, <1>1, <1>2, <1>3, PTL DEF Spec

----------------------------------------------------------------------------
(* ... and with pods and daemons that stay *)

\* Only the topology changes.
Steady == EnvOps \subseteq {"topology"}

UpSertCall == [op |-> "wireCreate", origin |-> "api"]

\* The calls of a create over the resolution d: only a resolved endpoint is
\* created, and the second one relies on the first only on the same host.
CreateCall(j, d) ==
    /\ j.op \in {"event", "write", "send", "settle"}
    /\ j.op = "event" => /\ j.ev \in {"create", "resolutionFailed"}
                         /\ j.ev = "create" => d[j.ep] \in Hosts
                         /\ j.same => j.ep = 1 /\ d[0] = d[1]
    /\ j.op \in {"write", "send"} => d[j.task.ep] \in Hosts

CallsOver(d) == {j \in HeldJobs : CreateCall(j, d)}

\* Where the only goroutine that resolves the wire is in WireUpSert.
ApiInv ==
    \/ todo[Api] = <<>>
    \/ todo[Api] \in {<<[op |-> "claim"], UpSertCall>>, <<[op |-> "insert"], UpSertCall>>}
    \/ /\ cached # NoWire
       /\ \/ todo[Api] \in {<<[op |-> "setDesired", to |-> "create"], UpSertCall>>, <<UpSertCall>>}
          \/ At(Api, "resolve") /\ Tail(todo[Api]) \in Seq(CallsOver(Head(todo[Api]).data))
          \/ todo[Api] \in Seq(CallsOver(wires[cached].host))

\* An endpoint that is being created has its call under way.
UnderwayInv ==
    cached # NoWire => \A e \in Ep : wires[cached].state[e] = "Creating" => Underway("create", e)

StableInv ==
    /\ \A p \in Callbacks : todo[p] = <<>>
    /\ ~asked => ApiInv /\ UnderwayInv

\* Before a WireDelete there is one wire, and it is wanted.
LEMMA OnlyWire ==
    ASSUME IInv, ~asked
    PROVE  /\ cached # NoWire => cached \in 1 .. Len(wires) /\ wires[cached] \in WireObjects
                                 /\ wires[cached].desired = "create"
           /\ \A w \in Wires : w <= Len(wires) => w = cached /\ cached # NoWire
  <1>1. wires \in Seq(WireObjects) /\ cached \in 0 .. Len(wires) /\ cached = Len(wires) /\ Len(wires) <= 1
    BY DEF IInv, TypeOK, UnaskedInv
  <1>2. \A i \in 1 .. Len(wires) : wires[i].desired = "create"
    BY DEF IInv, UnaskedInv
  <1>3. cached # NoWire => cached \in 1 .. Len(wires)
    BY <1>1 DEF NoWire
  <1>4. cached # NoWire => wires[cached] \in WireObjects
    BY <1>1, <1>3
  <1>5. \A w \in Wires : w <= Len(wires) => w = cached /\ cached # NoWire
    BY <1>1, ConstantsAssumption DEF Wires, NoWire
  <1> QED BY <1>2, <1>3, <1>4, <1>5

\* Where WireUpSert is, by its next call.
LEMMA ApiCases ==
    ASSUME IInv, ApiInv, todo[Api] # <<>>,
           NEW j, j = Head(todo[Api])
    PROVE  /\ j.op \in {"claim", "insert", "setDesired", "wireCreate", "resolve",
                        "event", "write", "send", "settle"}
           /\ j.op = "claim" => todo[Api] = <<[op |-> "claim"], UpSertCall>>
           /\ j.op = "insert" => todo[Api] = <<[op |-> "insert"], UpSertCall>>
           /\ j.op \notin {"claim", "insert"} => cached # NoWire
           /\ j.op = "setDesired" =>
                 todo[Api] = <<[op |-> "setDesired", to |-> "create"], UpSertCall>>
           /\ j.op = "wireCreate" => todo[Api] = <<UpSertCall>>
           /\ j.op = "resolve" => Tail(todo[Api]) \in Seq(CallsOver(j.data))
           /\ j.op \in {"event", "write", "send", "settle"} =>
                 todo[Api] \in Seq(CallsOver(wires[cached].host))
  <1> DEFINE cl == <<[op |-> "claim"], UpSertCall>>
             ins == <<[op |-> "insert"], UpSertCall>>
             sd == <<[op |-> "setDesired", to |-> "create"], UpSertCall>>
             up == <<UpSertCall>>
  <1>1. Head(cl).op = "claim" /\ Head(ins).op = "insert" /\ Head(sd).op = "setDesired"
        /\ Head(up).op = "wireCreate"
    BY DEF UpSertCall
  <1>2. todo[Api] \in Seq(CallsOver(wires[cached].host)) =>
            j.op \in {"event", "write", "send", "settle"}
    <2> SUFFICES ASSUME todo[Api] \in Seq(CallsOver(wires[cached].host))
                 PROVE  j.op \in {"event", "write", "send", "settle"}
      OBVIOUS
    <2>1. j \in CallsOver(wires[cached].host)
      BY HeadIn
    <2> QED BY <2>1 DEF CallsOver, CreateCall
  <1>3. \/ todo[Api] = cl \/ todo[Api] = ins
        \/ cached # NoWire /\ todo[Api] = sd
        \/ cached # NoWire /\ todo[Api] = up
        \/ cached # NoWire /\ j.op = "resolve" /\ Tail(todo[Api]) \in Seq(CallsOver(j.data))
        \/ cached # NoWire /\ todo[Api] \in Seq(CallsOver(wires[cached].host))
    BY DEF ApiInv, At
  <1> HIDE DEF cl, ins, sd, up
  <1>4. /\ j.op \in {"claim", "insert", "setDesired", "wireCreate", "resolve",
                     "event", "write", "send", "settle"}
        /\ j.op = "claim" => todo[Api] = cl
        /\ j.op = "insert" => todo[Api] = ins
        /\ j.op \notin {"claim", "insert"} => cached # NoWire
        /\ j.op = "setDesired" => todo[Api] = sd
        /\ j.op = "wireCreate" => todo[Api] = up
        /\ j.op = "resolve" => Tail(todo[Api]) \in Seq(CallsOver(j.data))
        /\ j.op \in {"event", "write", "send", "settle"} =>
              todo[Api] \in Seq(CallsOver(wires[cached].host))
    BY <1>1, <1>2, <1>3
  <1> QED BY <1>4 DEF cl, ins, sd, up

\* A call that is not the one a goroutine does stays ahead of it, and the new ones are.
LEMMA JobsLast ==
    ASSUME TypeOK, NEW p \in Procs, todo[p] # <<>>, NEW js \in Seq(Jobs), Continue(p, js)
    PROVE  /\ \A q \in Procs : \A j \in JobsOf(q) : q # p \/ j # Head(todo[p]) => j \in JobsOf(q)'
           /\ \A i \in 1 .. Len(js) : js[i] \in JobsOf(p)'
           /\ \A q \in Procs : q # p => todo'[q] = todo[q]
           /\ todo'[p] = js \o Tail(todo[p])
  <1>1. todo' = [todo EXCEPT ![p] = js \o Tail(@)] /\ todo \in [Procs -> Seq(Jobs)]
    BY DEF Continue, TypeOK
  <1>2. todo'[p] = js \o Tail(todo[p]) /\ \A q \in Procs : q # p => todo'[q] = todo[q]
    BY <1>1
  <1>3. todo[p] \in Seq(Jobs) /\ Tail(todo[p]) \in Seq(Jobs) /\ Len(Tail(todo[p])) = Len(todo[p]) - 1
    BY <1>1
  <1>4. \A i \in 1 .. Len(js) : todo'[p][i] = js[i] /\ i \in DOMAIN todo'[p]
    BY <1>2, <1>3
  <1>5. ASSUME NEW i \in DOMAIN todo[p], todo[p][i] # Head(todo[p])
        PROVE  \E n \in DOMAIN todo'[p] : todo'[p][n] = todo[p][i]
    <2>1. i \in 1 .. Len(todo[p]) /\ i # 1
      BY <1>3, <1>5
    <2>2. i - 1 \in 1 .. Len(Tail(todo[p])) /\ Tail(todo[p])[i - 1] = todo[p][i]
      BY <1>3, <2>1
    <2>3. Len(js) + (i - 1) \in DOMAIN todo'[p] /\ todo'[p][Len(js) + (i - 1)] = todo[p][i]
      BY <1>2, <1>3, <2>2, SMTT(30)
    <2> QED BY <2>3
  <1>6. \A q \in Procs : \A j \in JobsOf(q) : q # p \/ j # Head(todo[p]) => j \in JobsOf(q)'
    BY <1>2, <1>5, ZenonT(60) DEF JobsOf
  <1> QED BY <1>2, <1>4, <1>6 DEF JobsOf

\* What is in a channel stays there when something is put behind it.
LEMMA TasksLast ==
    ASSUME TypeOK, NEW k \in Workers, NEW t \in Tasks, queue' = [queue EXCEPT ![k] = Append(@, t)]
    PROVE  /\ \A x \in Workers : TasksOf(x) \subseteq TasksOf(x)'
           /\ t \in TasksOf(k)'
           /\ \A x \in Workers : TasksOf(x)' \subseteq TasksOf(x) \cup (IF x = k THEN {t} ELSE {})
  <1>1. queue \in [Workers -> Seq(Tasks)]
    BY DEF TypeOK
  <1>2. queue'[k] = Append(queue[k], t) /\ \A x \in Workers : x # k => queue'[x] = queue[x]
    BY <1>1
  <1>3. /\ queue[k] \in Seq(Tasks) /\ DOMAIN queue'[k] = 1 .. Len(queue[k]) + 1
        /\ DOMAIN queue[k] = 1 .. Len(queue[k]) /\ Len(queue[k]) \in Nat
        /\ queue'[k][Len(queue[k]) + 1] = t
        /\ \A i \in 1 .. Len(queue[k]) : queue'[k][i] = queue[k][i]
    BY <1>1, <1>2
  <1>4. TasksOf(k) \subseteq TasksOf(k)' /\ t \in TasksOf(k)' /\ TasksOf(k)' \subseteq TasksOf(k) \cup {t}
    <2>1. \A i \in DOMAIN queue[k] : i \in DOMAIN queue'[k] /\ queue'[k][i] = queue[k][i]
      BY <1>3
    <2>2. Len(queue[k]) + 1 \in DOMAIN queue'[k]
      BY <1>3
    <2>3. \A i \in DOMAIN queue'[k] : i \in DOMAIN queue[k] \/ i = Len(queue[k]) + 1
      BY <1>3
    <2> QED BY <1>3, <2>1, <2>2, <2>3 DEF TasksOf
  <1>5. \A x \in Workers : x # k => TasksOf(x)' = TasksOf(x)
    BY <1>2 DEF TasksOf
  <1> QED BY <1>4, <1>5

\* What is left of one or two calls once the first is done.
LEMMA AfterFirst ==
    ASSUME NEW a, NEW b, NEW c
    PROVE  /\ <<a>> \o Tail(<<b, c>>) = <<a, c>>
           /\ <<>> \o Tail(<<b, c>>) = <<c>>
  <1>1. Tail(<<b, c>>) = <<c>>
    OBVIOUS
  <1>2. <<a>> \o <<c>> = <<a, c>>
    <2>1. <<a>> \o <<>> = <<a>>
      <3>1. <<a>> \in Seq({a})
        OBVIOUS
      <3> QED BY <3>1, ConcatEmptySeq
    <2>2. <<a>> \o <<>> \o <<c>> = <<a, c>>
      BY ShortConcat
    <2> QED BY <2>1, <2>2
  <1>3. <<>> \o <<c>> = <<c>>
    <2>1. <<c>> \in Seq({c})
      OBVIOUS
    <2> QED BY <2>1, ConcatEmptySeq
  <1> QED BY <1>1, <1>2, <1>3

LEMMA AfterOnly ==
    ASSUME NEW s \in Seq(Jobs), NEW b
    PROVE  s \o Tail(<<b>>) = s
  <1>1. Tail(<<b>>) = <<>>
    OBVIOUS
  <1> QED BY <1>1, ConcatEmptySeq

\* A daemon call stays under way unless the goroutine's own call is the one that
\* carries it.
LEMMA UnderwayLasts ==
    ASSUME IInv, NEW p \in Procs, todo[p] # <<>>, NEW js \in Seq(Jobs), Continue(p, js),
           \A x \in Workers : TasksOf(x) \subseteq TasksOf(x)',
           NEW e \in Ep, Underway("create", e), NEW j, j = Head(todo[p]),
           ~(j.op \in {"write", "send"} /\ j.task.act = "create" /\ j.task.ep = e),
           ~(p \in Workers /\ j.op = "event" /\ j.ep = e /\ j.ev \in {Answer("create"), "failed"})
    PROVE  Underway("create", e)'
  <1>1. \A q \in Procs : \A x \in JobsOf(q) : q # p \/ x # j => x \in JobsOf(q)'
    BY JobsLast DEF IInv
  <1>2. CASE \E k \in Workers : \E t \in TasksOf(k) : t.act = "create" /\ t.ep = e
    BY <1>2 DEF Underway, Sent
  <1>3. ASSUME NEW q \in Procs, NEW x \in JobsOf(q), x.op \in {"write", "send"},
               x.task.act = "create", x.task.ep = e
        PROVE  Underway("create", e)'
    <2>1. x \in JobsOf(q)'
      BY <1>1, <1>3
    <2> QED BY <1>3, <2>1 DEF Underway, Sent
  <1>4. ASSUME NEW q \in Workers, NEW x \in JobsOf(q), x.op = "event", x.ep = e,
               x.ev \in {Answer("create"), "failed"}
        PROVE  Underway("create", e)'
    <2>1. x \in JobsOf(q)'
      BY <1>1, <1>4, ProcsDisjoint
    <2> QED BY <1>4, <2>1 DEF Underway, Sent
  <1> QED BY <1>2, <1>3, <1>4 DEF Underway, Sent

\* Calls that neither report nor write, and leave the states alone, keep daemon calls
\* under way.
LEMMA UnderwayCall ==
    ASSUME IInv, UnderwayInv, NEW p \in Procs, todo[p] # <<>>, NEW js \in Seq(Jobs), Continue(p, js),
           queue' = queue, Head(todo[p]).op \notin {"event", "write", "send"},
           cached' # NoWire => cached # NoWire /\ wires'[cached'].state = wires[cached].state
    PROVE  UnderwayInv'
  <1> SUFFICES ASSUME cached' # NoWire, NEW e \in Ep, wires'[cached'].state[e] = "Creating"
               PROVE  Underway("create", e)'
    BY DEF UnderwayInv
  <1>1. Underway("create", e)
    BY DEF UnderwayInv
  <1>2. \A x \in Workers : TasksOf(x) \subseteq TasksOf(x)'
    BY DEF TasksOf
  <1> QED BY <1>1, <1>2, UnderwayLasts

\* The calls of a worker leave WireUpSert where it is.
LEMMA ApiKept ==
    ASSUME ApiInv, todo'[Api] = todo[Api],
           cached # NoWire => cached' = cached /\ wires'[cached].host = wires[cached].host
    PROVE  ApiInv'
  BY DEF ApiInv, At

\* What wireCreate sends for the resolution d.
LEMMA CreateCallsOver ==
    ASSUME NEW d \in [Ep -> Data], NEW origin
    PROVE  /\ CreateCalls(d, origin) \in Seq(CallsOver(d))
           /\ CreateCalls(d, origin) \in Seq({j \in Jobs : j.op = "event"})
  <1> DEFINE b == (d[0] = d[1])
             c0 == IF d[0] # Peer THEN <<Event("create", 0, FALSE, FALSE)>> ELSE <<>>
             c1 == IF d[1] # Peer THEN <<Event("create", 1, b, FALSE)>> ELSE <<>>
             f0 == Event("resolutionFailed", 0, FALSE, TRUE)
             f1 == Event("resolutionFailed", 1, FALSE, TRUE)
             S == {j \in CallsOver(d) : j.op = "event"}
  <1>1. b \in BOOLEAN
    OBVIOUS
  <1>2. \A ev \in Events, e \in Ep, same \in BOOLEAN, hold \in BOOLEAN :
            /\ ev \in {"create", "resolutionFailed"} /\ (ev = "resolutionFailed" => hold)
            /\ ev = "create" => d[e] \in Hosts
            /\ same => e = 1 /\ d[0] = d[1]
            => Event(ev, e, same, hold) \in S
    BY JobKinds DEF HeldJobs, HeldJob, Event, CallsOver, CreateCall
  <1>3. f0 \in S /\ f1 \in S
    BY <1>2 DEF Events, Requests, Ep
  <1>4. ASSUME \A e \in Ep : d[e] # NoHost
        PROVE  c0 \in Seq(S) /\ c1 \in Seq(S)
    <2>1. \A e \in Ep : d[e] # Peer => d[e] \in Hosts
      BY <1>4 DEF Data
    <2>2. d[0] # Peer => Event("create", 0, FALSE, FALSE) \in S
      BY <1>2, <2>1 DEF Events, Requests, Ep
    <2>3. d[1] # Peer => Event("create", 1, b, FALSE) \in S
      BY <1>1, <1>2, <2>1 DEF Events, Requests, Ep
    <2> HIDE DEF S
    <2> QED BY <2>2, <2>3, ShortSeqs
  <1>5. \/ (\A e \in Ep : d[e] # NoHost) /\ CreateCalls(d, origin) = c0 \o c1
        \/ CreateCalls(d, origin) \in {<<>>, <<f0, f1>>}
    BY DEF CreateCalls
  <1> HIDE DEF S, c0, c1, f0, f1
  <1>6. <<>> \in Seq(S) /\ <<f0, f1>> \in Seq(S)
    BY <1>3, ShortSeqs
  <1>7. c0 \in Seq(S) /\ c1 \in Seq(S) => c0 \o c1 \in Seq(S)
    OBVIOUS
  <1>8. CreateCalls(d, origin) \in Seq(S)
    BY <1>4, <1>5, <1>6, <1>7
  <1>9. S \subseteq CallsOver(d) /\ S \subseteq {j \in Jobs : j.op = "event"}
    BY DEF S, CallsOver, HeldJobs
  <1> QED BY <1>8, <1>9, SeqMono

\* What is ahead of WireUpSert after each of its calls before the first event.
LEMMA UpSertNext ==
    ASSUME IInv, ApiInv, NEW j, j = Head(todo[Api])
    PROVE  /\ Claim(Api) => \/ todo'[Api] = <<[op |-> "insert"], UpSertCall>>
                            \/ todo'[Api] = <<>>
           /\ Insert(Api) \/ SetDesiredAction(Api) => todo'[Api] = <<UpSertCall>>
           /\ ResolveForCreate(Api) =>
                 /\ todo'[Api] # <<>> /\ Head(todo'[Api]) = [op |-> "resolve", data |-> resolveWire]
                 /\ Tail(todo'[Api]) = CreateCalls(resolveWire, j.origin)
                 /\ CreateCalls(resolveWire, j.origin) \in Seq(CallsOver(resolveWire))
           /\ Resolve(Api) => todo'[Api] \in Seq(CallsOver(j.data))
  <1>1. TypeOK /\ Api \in Procs
    BY ProcsDisjoint DEF IInv
  <1>2. todo[Api] # <<>> =>
            /\ j.op = "claim" => todo[Api] = <<[op |-> "claim"], UpSertCall>>
            /\ j.op = "insert" => todo[Api] = <<[op |-> "insert"], UpSertCall>>
            /\ j.op = "setDesired" =>
                  todo[Api] = <<[op |-> "setDesired", to |-> "create"], UpSertCall>>
            /\ j.op = "wireCreate" => todo[Api] = <<UpSertCall>>
            /\ j.op = "resolve" => Tail(todo[Api]) \in Seq(CallsOver(j.data))
    BY <1>1, ApiCases
  <1>3. \A js : Continue(Api, js) => todo'[Api] = js \o Tail(todo[Api])
    BY <1>1 DEF Continue, TypeOK
  <1>4. ASSUME Claim(Api)
        PROVE  todo'[Api] = <<[op |-> "insert"], UpSertCall>> \/ todo'[Api] = <<>>
    <2> DEFINE a == [op |-> "insert"]
               b == [op |-> "claim"]
    <2>1. todo[Api] = <<b, UpSertCall>>
      BY <1>2, <1>4 DEF Claim, At
    <2>2. CASE Continue(Api, <<a>>)
      <3>1. todo'[Api] = <<a>> \o Tail(todo[Api])
        BY <1>3, <2>2
      <3> HIDE DEF a, b
      <3>2. todo'[Api] = <<a, UpSertCall>>
        BY <2>1, <3>1, AfterFirst
      <3> QED BY <3>2 DEF a
    <2>3. CASE todo' = [todo EXCEPT ![Api] = <<>>]
      BY <1>1, <2>3 DEF TypeOK
    <2> QED BY <1>4, <2>2, <2>3 DEF Claim
  <1>5. ASSUME NEW b, todo[Api] = <<b, UpSertCall>>, Continue(Api, <<>>)
        PROVE  todo'[Api] = <<UpSertCall>>
    <2>1. todo'[Api] = <<>> \o Tail(todo[Api])
      BY <1>3, <1>5
    <2> QED BY <1>5, <2>1, AfterFirst
  <1>6. Insert(Api) => todo'[Api] = <<UpSertCall>>
    BY <1>2, <1>5 DEF Insert, At
  <1>7. SetDesiredAction(Api) => todo'[Api] = <<UpSertCall>>
    BY <1>2, <1>5 DEF SetDesiredAction, At
  <1>8. ASSUME Resolve(Api)
        PROVE  todo'[Api] \in Seq(CallsOver(j.data))
    <2>1. todo'[Api] = <<>> \o Tail(todo[Api])
      BY <1>3, <1>8 DEF Resolve
    <2>2. Tail(todo[Api]) \in Seq(CallsOver(j.data))
      BY <1>2, <1>8 DEF Resolve, At
    <2> QED BY <2>1, <2>2, ConcatEmptySeq
  <1>9. ASSUME ResolveForCreate(Api)
        PROVE  /\ todo'[Api] # <<>> /\ Head(todo'[Api]) = [op |-> "resolve", data |-> resolveWire]
               /\ Tail(todo'[Api]) = CreateCalls(resolveWire, j.origin)
               /\ CreateCalls(resolveWire, j.origin) \in Seq(CallsOver(resolveWire))
    <2> DEFINE r == [op |-> "resolve", data |-> resolveWire]
               cs == CreateCalls(resolveWire, j.origin)
               s == <<r>> \o cs
    <2>1. todo[Api] = <<UpSertCall>> /\ Continue(Api, s)
      BY <1>2, <1>9 DEF ResolveForCreate, At
    <2>2. resolveWire \in [Ep -> Data]
      BY <1>1, resolveWireType
    <2>3. r \in Jobs /\ cs \in Seq(CallsOver(resolveWire))
      BY <2>2, JobKinds, CreateCallsOver
    <2>4. cs \in Seq(Jobs)
      BY <2>3, SeqMono DEF CallsOver, HeldJobs
    <2> HIDE DEF r, cs
    <2>5. Len(s) = 1 + Len(cs) /\ s \in Seq(Jobs) /\ s # <<>> /\ Head(s) = r
      BY <2>3, <2>4
    <2>6. Tail(s) \in Seq(Jobs) /\ Len(Tail(s)) = Len(cs) /\ \A i \in 1 .. Len(cs) : Tail(s)[i] = cs[i]
      BY <2>3, <2>4, <2>5
    <2>7. Tail(s) = cs
      <3> HIDE DEF s
      <3> QED BY <2>4, <2>6, SeqEqual
    <2> HIDE DEF s
    <2>8. todo'[Api] = s
      BY <1>3, <2>1, <2>5, AfterOnly
    <2> QED BY <2>3, <2>5, <2>7, <2>8 DEF r, cs
  <1> QED BY <1>4, <1>6, <1>7, <1>8, <1>9

\* The calls of WireUpSert before the first event.
LEMMA StableUpSert ==
    ASSUME IInv, ApiInv, UnderwayInv, ~asked,
           \/ Claim(Api) \/ Insert(Api) \/ SetDesiredAction(Api)
           \/ ResolveForCreate(Api) \/ Resolve(Api)
    PROVE  ApiInv' /\ UnderwayInv'
  <1> USE DEF wireVars, workerVars
  <1> DEFINE j == Head(todo[Api])
  <1>1. todo[Api] # <<>> /\ TypeOK /\ Api \in Procs /\ queue' = queue
        /\ j.op \in {"claim", "insert", "setDesired", "wireCreate", "resolve"}
    BY ProcsDisjoint DEF Claim, Insert, SetDesiredAction, ResolveForCreate, Resolve, At, IInv
  <1>2. j.op \notin {"claim", "insert"} => cached # NoWire
    BY <1>1, ApiCases
  <1>3. /\ Claim(Api) => \/ todo'[Api] = <<[op |-> "insert"], UpSertCall>>
                         \/ todo'[Api] = <<>>
        /\ Insert(Api) \/ SetDesiredAction(Api) => todo'[Api] = <<UpSertCall>>
        /\ ResolveForCreate(Api) =>
              /\ todo'[Api] # <<>> /\ Head(todo'[Api]) = [op |-> "resolve", data |-> resolveWire]
              /\ Tail(todo'[Api]) \in Seq(CallsOver(resolveWire))
        /\ Resolve(Api) => todo'[Api] \in Seq(CallsOver(j.data))
    BY UpSertNext
  <1>4. <<>> \in Seq(Jobs)
    OBVIOUS
  <1>5. CASE Claim(Api)
    <2>1. cached' = cached /\ cached = NoWire
      <3>1. todo[Api] \notin Seq(Unclaiming)
        BY <1>1, <1>5, HeadIn DEF Unclaiming, Claim, At
      <3> QED BY <1>5, <3>1 DEF IInv, UnaskedInv, Claim
    <2>2. UnderwayInv'
      BY <2>1 DEF UnderwayInv
    <2> QED BY <1>3, <1>5, <2>2 DEF ApiInv
  <1>6. CASE Insert(Api)
    <2>1. cached' = Len(wires) + 1 /\ wires' = Append(wires, NewWire)
      BY <1>6 DEF Insert
    <2>2. cached' # NoWire /\ wires'[cached'] = NewWire
      BY <1>1, <2>1 DEF TypeOK, NoWire
    <2>3. \A e \in Ep : NewWire.state[e] # "Creating"
      BY DEF NewWire
    <2> QED BY <1>3, <1>6, <2>2, <2>3 DEF ApiInv, UnderwayInv
  <1>7. CASE SetDesiredAction(Api) \/ Resolve(Api)
    <2>1. /\ j.op \in {"setDesired", "resolve"} /\ Continue(Api, <<>>) /\ cached' = cached
      BY <1>7 DEF SetDesiredAction, Resolve, At
    <2>2. cached # NoWire /\ cached \in 1 .. Len(wires) /\ wires[cached] \in WireObjects
      BY <1>2, <2>1, OnlyWire
    <2>3. wires \in Seq(WireObjects)
      BY <1>1 DEF TypeOK
    <2>4. /\ SetDesiredAction(Api) => wires'[cached] = [wires[cached] EXCEPT !.desired = j.to]
          /\ Resolve(Api) => wires'[cached] = [wires[cached] EXCEPT !.host = j.data]
      BY <2>2, <2>3 DEF SetDesiredAction, Resolve
    <2>5. wires'[cached].state = wires[cached].state
          /\ (Resolve(Api) => wires'[cached].host = j.data)
      <3> DEFINE o == wires[cached]
      <3>1. /\ [o EXCEPT !.desired = j.to].state = o.state
            /\ [o EXCEPT !.host = j.data].state = o.state /\ [o EXCEPT !.host = j.data].host = j.data
        BY <2>2, OtherFields
      <3>2. CASE SetDesiredAction(Api) /\ ~Resolve(Api)
        BY <2>4, <3>1, <3>2
      <3>3. CASE Resolve(Api)
        BY <2>4, <3>1, <3>3
      <3> QED BY <1>7, <3>2, <3>3
    <2>6. UnderwayInv'
      <3>1. Head(todo[Api]).op \notin {"event", "write", "send"}
        BY <2>1
      <3>2. cached' # NoWire => cached # NoWire /\ wires'[cached'].state = wires[cached].state
        BY <2>1, <2>2, <2>5
      <3> QED BY <1>1, <1>4, <2>1, <3>1, <3>2, UnderwayCall
    <2>7. CASE SetDesiredAction(Api)
      BY <1>3, <2>1, <2>2, <2>6, <2>7 DEF ApiInv
    <2>8. CASE Resolve(Api)
      BY <1>3, <2>1, <2>2, <2>5, <2>6, <2>8 DEF ApiInv
    <2> QED BY <1>7, <2>7, <2>8
  <1>8. CASE ResolveForCreate(Api)
    <2> DEFINE r == [op |-> "resolve", data |-> resolveWire]
               s == <<r>> \o CreateCalls(resolveWire, j.origin)
    <2>1. j.op = "wireCreate" /\ Continue(Api, s) /\ UNCHANGED <<wires, cached>>
      BY <1>8 DEF ResolveForCreate, At
    <2>2. r.op = "resolve" /\ r.data = resolveWire
      OBVIOUS
    <2>3. s \in Seq(Jobs)
      <3>1. resolveWire \in [Ep -> Data]
        BY <1>1, resolveWireType
      <3>2. r \in Jobs /\ CreateCalls(resolveWire, j.origin) \in Seq(HeldJobs)
        BY <3>1, JobKinds, CreateCallsHeld
      <3>3. CreateCalls(resolveWire, j.origin) \in Seq(Jobs)
        BY <3>2, SeqMono DEF HeldJobs
      <3> HIDE DEF r
      <3> QED BY <3>2, <3>3
    <2> HIDE DEF s
    <2>4. cached # NoWire /\ cached' # NoWire
      BY <1>2, <2>1
    <2>5. UnderwayInv'
      BY <1>1, <2>1, <2>3, <2>4, UnderwayCall
    <2>6. At(Api, "resolve")' /\ Tail(todo'[Api]) \in Seq(CallsOver(Head(todo'[Api]).data))
      BY <1>3, <1>8, <2>2 DEF At
    <2> QED BY <2>4, <2>5, <2>6 DEF ApiInv
  <1> QED BY <1>5, <1>6, <1>7, <1>8

\* WireUpSert after a call of some goroutine that leaves the resolution alone.
LEMMA ApiAfter ==
    ASSUME TypeOK, ApiInv, NEW p \in Procs, todo[p] # <<>>, NEW js, Continue(p, js),
           cached # NoWire, cached' = cached, NEW d, d = wires[cached].host, wires'[cached].host = d,
           p = Api => todo[Api] \in Seq(CallsOver(d)) /\ js \in Seq(CallsOver(d))
    PROVE  ApiInv'
  <1>1. todo' = [todo EXCEPT ![p] = js \o Tail(@)] /\ todo \in [Procs -> Seq(Jobs)] /\ Api \in Procs
    BY ProcsDisjoint DEF Continue, TypeOK
  <1>2. CASE p = Api
    <2>1. todo'[Api] = js \o Tail(todo[Api])
      BY <1>1, <1>2
    <2>2. todo'[Api] \in Seq(CallsOver(d))
      BY <1>2, <2>1, ContinueSeq
    <2> QED BY <2>2 DEF ApiInv
  <1>3. CASE p # Api
    <2>1. todo'[Api] = todo[Api]
      BY <1>1, <1>3
    <2> QED BY <2>1, ApiKept
  <1> QED BY <1>2, <1>3

\* The settlement of a wanted wire puts it back.
LEMMA StableSettle ==
    ASSUME IInv, ApiInv, UnderwayInv, ~asked, NEW p \in Procs, Settle(p)
    PROVE  ApiInv' /\ UnderwayInv'
  <1>1. PICK j : j = Head(todo[p])
    OBVIOUS
  <1>2. todo[p] # <<>> /\ j.op = "settle" /\ TypeOK
    BY <1>1 DEF Settle, At, IInv
  <1>3. j \in Jobs /\ RefersUpTo(j, Len(wires))
    BY <1>1, <1>2, HeadAllowed DEF AllowedAt
  <1>4. j.w \in Wires /\ j.w <= Len(wires)
    BY <1>2, <1>3, JobFields DEF RefersUpTo
  <1>5. j.w = cached /\ cached # NoWire /\ wires[cached].desired = "create"
    BY <1>4, OnlyWire
  <1>6. ~Finished(wires[j.w])
    BY <1>5 DEF Finished
  <1>7. cached' = cached /\ Continue(p, <<>>) /\ wires' = wires /\ queue' = queue
    BY <1>1, <1>5, <1>6 DEF Settle, workerVars
  <1>8. p = Api => todo[Api] \in Seq(CallsOver(wires[cached].host))
    BY <1>1, <1>2, ApiCases
  <1>9. <<>> \in Seq(Jobs) /\ <<>> \in Seq(CallsOver(wires[cached].host))
    BY ShortSeqs
  <1>10. ApiInv'
    BY <1>2, <1>5, <1>7, <1>8, <1>9, ApiAfter
  <1>11. UnderwayInv'
    BY <1>1, <1>2, <1>5, <1>7, <1>9, UnderwayCall
  <1> QED BY <1>10, <1>11

\* An event: a create of an endpoint leaves the write of its daemon call behind, and an
\* answer takes the endpoint out of Creating.
LEMMA StableEvent ==
    ASSUME IInv, HeldInv, ApiInv, UnderwayInv, ~asked, NEW p \in Procs, HandleEvent(p)
    PROVE  ApiInv' /\ UnderwayInv'
  <1>0. PICK j : j = Head(todo[p])
    OBVIOUS
  <1>1. todo[p] # <<>> /\ j.op = "event" /\ TypeOK /\ cached' = cached /\ queue' = queue
        /\ todo \in [Procs -> Seq(Jobs)] /\ Api \in Procs
    BY <1>0, ProcsDisjoint DEF HandleEvent, At, IInv, TypeOK, workerVars
  <1>2. CASE cached = NoWire
    <2>1. p # Api
      BY <1>0, <1>1, <1>2, ApiCases
    <2>2. todo'[Api] = todo[Api]
      BY <1>1, <1>2, <2>1 DEF HandleEvent, Continue
    <2>3. ApiInv'
      BY <1>2, <2>2, ApiKept
    <2> QED BY <1>1, <1>2, <2>3 DEF UnderwayInv
  <1>3. CASE cached # NoWire
    <2>1. PICK o : o = wires[cached]
      OBVIOUS
    <2>2. PICK t : t = OwnTarget(o, j)
      OBVIOUS
    <2> DEFINE st == [op |-> "settle", w |-> cached]
               task == [act |-> "create", ep |-> j.ep, w |-> cached]
               wr == [op |-> "write", task |-> task]
    <2>3. /\ j \in HeldJobs /\ j.ev \in Events
          /\ j.ep \in Ep /\ j.same \in BOOLEAN
          /\ o \in WireObjects /\ cached \in 1 .. Len(wires) /\ cached \in Wires
          /\ o.state[j.ep] \in EpStates
          /\ t = Target(o.state[j.ep], j.ev, j.same)
          /\ t \in EpStates \cup {Ignored}
          /\ wires' = [wires EXCEPT ![cached] = Transition(o, j.ep, t)]
          /\ t = "Creating" => Continue(p, <<wr, st>>)
          /\ t # "Creating" => Continue(p, <<st>>)
      BY <1>0, <1>3, <2>1, <2>2, HeldEventCases
    <2>4. wires'[cached] = Transition(o, j.ep, t)
      BY <1>1, <2>3 DEF TypeOK
    <2>5. wires'[cached].host = o.host
      BY <2>3, <2>4, TransitionFields
    <2>6. task \in Tasks /\ task.act = "create" /\ task.ep = j.ep
      BY <2>3 DEF Tasks, WorkerActions
    <2> HIDE DEF task
    <2>7. wr \in Jobs /\ wr \in HeldJobs /\ wr.op = "write" /\ wr.task = task
      BY <2>6, JobKinds DEF HeldJobs, HeldJob
    <2>8. st \in Jobs /\ st \in HeldJobs /\ st.op = "settle"
      <3>1. st \in Jobs /\ st.op = "settle"
        BY <2>3, JobKinds
      <3> QED BY <3>1, PlainHeld
    <2> HIDE DEF wr, st
    <2>9. <<wr, st>> \in Seq(Jobs) /\ <<st>> \in Seq(Jobs)
      BY <2>7, <2>8, ShortSeqs
    <2>10. PICK js : js = IF t = "Creating" THEN <<wr, st>> ELSE <<st>>
      OBVIOUS
    <2>11. js \in Seq(Jobs) /\ Continue(p, js)
      BY <2>3, <2>9, <2>10 DEF wr, st, task
    <2>12. p = Api => todo[Api] \in Seq(CallsOver(o.host)) /\ js \in Seq(CallsOver(o.host))
      <3> SUFFICES ASSUME p = Api
                   PROVE  todo[Api] \in Seq(CallsOver(o.host)) /\ js \in Seq(CallsOver(o.host))
        OBVIOUS
      <3>1. todo[Api] \in Seq(CallsOver(o.host))
        BY <1>0, <1>1, <2>1, ApiCases
      <3>2. j \in CallsOver(o.host)
        BY <1>0, <1>1, <3>1, HeadIn
      <3>3. t = "Creating" => o.host[j.ep] \in Hosts
        BY <1>1, <2>3, <3>2, TargetOf DEF CallsOver, CreateCall
      <3>4. st \in CallsOver(o.host)
        BY <2>8 DEF CallsOver, CreateCall
      <3>5. t = "Creating" => wr \in CallsOver(o.host)
        BY <2>6, <2>7, <3>3 DEF CallsOver, CreateCall
      <3> QED BY <2>10, <3>1, <3>4, <3>5, ShortSeqs
    <2>13. ApiInv'
      BY <1>1, <1>3, <2>1, <2>5, <2>11, <2>12, ApiAfter
    <2>14. UnderwayInv'
      <3> SUFFICES ASSUME NEW e \in Ep, wires'[cached'].state[e] = "Creating"
                   PROVE  Underway("create", e)'
        BY DEF UnderwayInv
      <3>1. CASE e = j.ep /\ t # Ignored
        <4>1. t = "Creating"
          BY <1>1, <2>3, <2>4, <3>1, TransitionFields
        <4>2. js = <<wr, st>>
          BY <2>10, <4>1
        <4>3. 1 \in 1 .. Len(js) /\ js[1] = wr
          BY <4>2
        <4>4. wr \in JobsOf(p)'
          BY <1>1, <2>11, <4>3, JobsLast
        <4> QED BY <2>6, <2>7, <3>1, <4>4 DEF Underway, Sent
      <3>2. CASE e # j.ep \/ t = Ignored
        <4>1. o.state[e] = "Creating"
          BY <1>1, <2>3, <2>4, <3>2, TransitionFields
        <4>2. Underway("create", e)
          BY <1>3, <2>1, <4>1 DEF UnderwayInv
        <4>3. ~(j.ep = e /\ j.ev \in {Answer("create"), "failed"})
          BY <2>3, <3>2, <4>1, TargetOf DEF Answer
        <4>4. \A x \in Workers : TasksOf(x) \subseteq TasksOf(x)'
          BY <1>1 DEF TasksOf
        <4> QED BY <1>0, <1>1, <2>11, <4>2, <4>3, <4>4, UnderwayLasts
      <3> QED BY <3>1, <3>2
    <2> QED BY <2>13, <2>14
  <1> QED BY <1>2, <1>3

\* A call that WireUpSert has ahead of it writes a task of the one wire, for an endpoint
\* that is resolved.
LEMMA StableTask ==
    ASSUME IInv, ApiInv, ~asked, todo[Api] # <<>>, NEW j, j = Head(todo[Api]),
           j.op \in {"write", "send"}, NEW t, t = j.task
    PROVE  /\ todo[Api] \in Seq(CallsOver(wires[cached].host)) /\ j \in CallsOver(wires[cached].host)
           /\ t \in Tasks /\ t.ep \in Ep /\ t.w = cached /\ cached # NoWire
           /\ t.act = "create" /\ wires[cached].host[t.ep] \in Hosts
  <1>1. j \in Jobs /\ RefersUpTo(j, Len(wires))
    BY HeadAllowed, ProcsDisjoint DEF AllowedAt
  <1>2. t \in Tasks /\ t.w <= Len(wires)
    BY <1>1, JobFields DEF RefersUpTo
  <1>3. t.w \in Wires /\ t.ep \in Ep
    BY <1>2 DEF Tasks
  <1>4. t.w = cached /\ cached # NoWire
    BY <1>2, <1>3, OnlyWire
  <1>5. todo[Api] \in Seq(CallsOver(wires[cached].host))
    BY ApiCases
  <1>6. j \in CallsOver(wires[cached].host)
    BY <1>5, HeadIn
  <1>7. t.act = "create" /\ wires[cached].host[t.ep] \in Hosts
    BY <1>6 DEF CallsOver, CreateCall, HeldJobs, HeldJob
  <1> QED BY <1>2, <1>3, <1>4, <1>5, <1>6, <1>7

\* The task reaches a channel.
LEMMA StableAppend ==
    ASSUME IInv, ApiInv, UnderwayInv, ~asked, todo[Api] # <<>>, NEW j, j = Head(todo[Api]),
           j.op \in {"write", "send"}, NEW t, t = j.task, NEW k \in Workers,
           queue' = [queue EXCEPT ![k] = Append(@, t)], Continue(Api, <<>>), UNCHANGED <<wires, cached>>
    PROVE  ApiInv' /\ UnderwayInv'
  <1>1. /\ todo[Api] \in Seq(CallsOver(wires[cached].host)) /\ t \in Tasks /\ cached # NoWire
        /\ t.act = "create" /\ TypeOK /\ Api \in Procs
    BY StableTask, ProcsDisjoint DEF IInv
  <1>2. <<>> \in Seq(Jobs) /\ <<>> \in Seq(CallsOver(wires[cached].host))
    BY ShortSeqs
  <1>3. ApiInv'
    BY <1>1, <1>2, ApiAfter
  <1>4. (\A x \in Workers : TasksOf(x) \subseteq TasksOf(x)') /\ t \in TasksOf(k)'
    BY <1>1, TasksLast
  <1>5. ASSUME NEW e \in Ep, wires[cached].state[e] = "Creating"
        PROVE  Underway("create", e)'
    <2>1. CASE t.ep = e
      BY <1>1, <1>4, <2>1 DEF Underway, Sent
    <2>2. CASE t.ep # e
      <3>1. Underway("create", e)
        BY <1>1, <1>5 DEF UnderwayInv
      <3>2. j.op # "event"
        OBVIOUS
      <3> QED BY <1>1, <1>2, <1>4, <2>2, <3>1, <3>2, UnderwayLasts
    <2> QED BY <2>1, <2>2
  <1> QED BY <1>3, <1>5 DEF UnderwayInv

\* The write of a daemon call: it reaches a channel, waits before it, or its endpoint fails.
LEMMA StableWrite ==
    ASSUME IInv, HeldInv, ApiInv, UnderwayInv, ~asked, WriteEvent(Api) \/ Send(Api)
    PROVE  ApiInv' /\ UnderwayInv'
  <1> USE DEF wireVars
  <1>1. PICK j : j = Head(todo[Api])
    OBVIOUS
  <1>2. PICK t : t = j.task
    OBVIOUS
  <1>3. todo[Api] # <<>> /\ j.op \in {"write", "send"} /\ cached' = cached
    <2>1. CASE WriteEvent(Api)
      BY <1>1, <2>1 DEF WriteEvent, At
    <2>2. CASE Send(Api)
      BY <1>1, <2>2 DEF Send, At
    <2> QED BY <2>1, <2>2
  <1>4. PICK o : o = wires[cached]
    OBVIOUS
  <1>5. /\ todo[Api] \in Seq(CallsOver(o.host)) /\ j \in CallsOver(o.host)
        /\ t \in Tasks /\ t.ep \in Ep /\ t.w = cached /\ cached # NoWire
        /\ t.act = "create" /\ o.host[t.ep] \in Hosts
    BY <1>1, <1>2, <1>3, <1>4, StableTask
  <1>6. PICK h : h = o.host[t.ep]
    OBVIOUS
  <1>7. PICK k : k = <<h, WorkerOf(h)>>
    OBVIOUS
  <1>8. h # NoHost /\ (WorkerOf(h) # 0 => k \in Workers) /\ TypeOK /\ Api \in Procs
        /\ cached \in 1 .. Len(wires) /\ o \in WireObjects /\ wires \in Seq(WireObjects)
    <2>1. TypeOK /\ Api \in Procs
      BY ProcsDisjoint DEF IInv
    <2>2. h # NoHost
      BY <1>5, <1>6, ConstantsAssumption
    <2> QED BY <1>4, <1>5, <1>7, <2>1, <2>2, WorkerOfType, OnlyWire DEF TypeOK
  <1>9. <<>> \in Seq(Jobs) /\ <<>> \in Seq(CallsOver(o.host))
    BY ShortSeqs
  <1>10. CASE Send(Api)
    <2>1. j.op = "send" /\ j \in Jobs
      BY <1>1, <1>5, <1>10 DEF Send, At, CallsOver, HeldJobs
    <2>2. j.worker \in Workers
      BY <2>1, JobFields
    <2>3. queue' = [queue EXCEPT ![j.worker] = Append(@, t)] /\ Continue(Api, <<>>) /\ wires' = wires
      BY <1>1, <1>2, <1>10 DEF Send
    <2> QED BY <1>1, <1>2, <1>3, <2>2, <2>3, StableAppend
  <1>11. CASE WriteEvent(Api)
    <2>1. /\ j.op = "write"
          /\ \/ h = NoHost
             \/ /\ wires' = [wires EXCEPT ![t.w] =
                               Transition(@, t.ep, Target(@.state[t.ep], "failed", FALSE))]
                /\ Continue(Api, <<>>) /\ UNCHANGED queue
             \/ /\ WorkerOf(h) # 0 /\ queue' = [queue EXCEPT ![k] = Append(@, t)]
                /\ Continue(Api, <<>>) /\ UNCHANGED wires
             \/ /\ WorkerOf(h) # 0 /\ Continue(Api, <<[op |-> "send", worker |-> k, task |-> t]>>)
                /\ UNCHANGED <<wires, queue>>
      <3>1. t = Head(todo[Api]).task /\ h = wires[t.w].host[t.ep]
        BY <1>1, <1>2, <1>4, <1>5, <1>6
      <3>2. j.op = "write"
        BY <1>1, <1>11 DEF WriteEvent, At
      <3> QED BY <1>1, <1>7, <1>11, <3>1, <3>2, Zenon DEF WriteEvent
    <2>2. CASE /\ WorkerOf(h) # 0 /\ queue' = [queue EXCEPT ![k] = Append(@, t)]
               /\ Continue(Api, <<>>) /\ UNCHANGED wires
      BY <1>1, <1>2, <1>3, <1>8, <2>2, StableAppend
    <2>3. CASE /\ WorkerOf(h) # 0 /\ Continue(Api, <<[op |-> "send", worker |-> k, task |-> t]>>)
               /\ UNCHANGED <<wires, queue>>
      <3> DEFINE s == [op |-> "send", worker |-> k, task |-> t]
      <3>1. s \in Jobs /\ s.op = "send" /\ s.task = t
        BY <1>5, <1>8, <2>3, JobKinds
      <3> HIDE DEF s
      <3>2. s \in CallsOver(o.host)
        BY <1>5, <3>1 DEF CallsOver, CreateCall, HeldJobs, HeldJob
      <3>3. <<s>> \in Seq(Jobs) /\ <<s>> \in Seq(CallsOver(o.host)) /\ 1 \in 1 .. Len(<<s>>) /\ <<s>>[1] = s
        BY <3>1, <3>2, ShortSeqs
      <3>4. Continue(Api, <<s>>)
        BY <2>3 DEF s
      <3>5. ApiInv'
        BY <1>3, <1>4, <1>5, <1>8, <2>3, <3>3, <3>4, ApiAfter
      <3>6. s \in JobsOf(Api)'
        BY <1>3, <1>8, <3>3, <3>4, JobsLast, ZenonT(60)
      <3>7. \A x \in Workers : TasksOf(x) \subseteq TasksOf(x)'
        BY <2>3 DEF TasksOf
      <3>8. ASSUME NEW e \in Ep, o.state[e] = "Creating"
            PROVE  Underway("create", e)'
        <4>1. CASE t.ep = e
          BY <1>5, <1>8, <3>1, <3>6, <4>1 DEF Underway, Sent
        <4>2. CASE t.ep # e
          <5>1. Underway("create", e)
            BY <1>4, <1>5, <3>8 DEF UnderwayInv
          <5> QED BY <1>1, <1>2, <1>3, <1>8, <3>3, <3>4, <3>7, <4>2, <5>1, UnderwayLasts
        <4> QED BY <4>1, <4>2
      <3> QED BY <1>3, <1>4, <2>3, <3>5, <3>8 DEF UnderwayInv
    <2>4. CASE /\ wires' = [wires EXCEPT ![t.w] =
                              Transition(@, t.ep, Target(@.state[t.ep], "failed", FALSE))]
               /\ Continue(Api, <<>>) /\ UNCHANGED queue
      <3>1. PICK tg : tg = Target(o.state[t.ep], "failed", FALSE)
        OBVIOUS
      <3>2. wires'[cached] = Transition(o, t.ep, tg)
        <4>1. wires' = [wires EXCEPT ![cached] = Transition(o, t.ep, tg)]
          BY <1>4, <1>5, <1>8, <2>4, <3>1, Zenon
        <4> QED BY <1>8, <4>1
      <3>3. o.state[t.ep] \in EpStates
        BY <1>5, <1>8 DEF WireObjects
      <3>4. tg \in EpStates \cup {Ignored} /\ tg # "Creating"
            /\ (o.state[t.ep] = "Creating" => tg # Ignored)
        BY <3>1, <3>3, TargetType, TargetOf
      <3>5. wires'[cached].host = o.host
        BY <1>5, <1>8, <3>2, <3>4, TransitionFields
      <3>6. ApiInv'
        BY <1>3, <1>4, <1>5, <1>8, <1>9, <2>4, <3>5, ApiAfter
      <3>7. \A x \in Workers : TasksOf(x) \subseteq TasksOf(x)'
        BY <2>4 DEF TasksOf
      <3>8. ASSUME NEW e \in Ep, wires'[cached].state[e] = "Creating"
            PROVE  Underway("create", e)'
        <4>1. e # t.ep /\ o.state[e] = "Creating"
          BY <1>5, <1>8, <3>2, <3>4, <3>8, TransitionFields
        <4>2. Underway("create", e)
          BY <1>4, <1>5, <4>1 DEF UnderwayInv
        <4> QED BY <1>1, <1>2, <1>3, <1>8, <1>9, <2>4, <3>7, <4>1, <4>2, UnderwayLasts
      <3> QED BY <1>3, <3>6, <3>8 DEF UnderwayInv
    <2> QED BY <1>8, <2>1, <2>2, <2>3, <2>4
  <1> QED BY <1>10, <1>11

\* A daemon call stays under way as long as no channel and no goroutine loses anything.
LEMMA UnderwayMono ==
    ASSUME \A x \in Workers : TasksOf(x) \subseteq TasksOf(x)',
           \A q \in Procs : JobsOf(q) \subseteq JobsOf(q)',
           NEW e \in Ep, Underway("create", e)
    PROVE  Underway("create", e)'
  <1>1. Workers \subseteq Procs
    BY ProcsDisjoint
  <1> QED BY <1>1 DEF Underway, Sent

\* A worker's turn turns the daemon call into its answer.
LEMMA StableTurn ==
    ASSUME IInv, HeldInv, ApiInv, UnderwayInv, ~asked, NEW k \in Workers, WorkerTurn(k)
    PROVE  ApiInv' /\ UnderwayInv'
  <1> USE DEF wireVars
  <1>1. PICK t : t = Head(queue[k])
    OBVIOUS
  <1>2. /\ queue[k] # <<>> /\ todo[k] = <<>> /\ queue' = [queue EXCEPT ![k] = Tail(@)]
        /\ UNCHANGED <<wires, cached>>
    BY DEF WorkerTurn, Receives
  <1>3. queue \in [Workers -> Seq(Tasks)] /\ todo \in [Procs -> Seq(Jobs)] /\ queue[k] \in Seq(CreateTasks)
    BY DEF IInv, TypeOK, HeldInv
  <1>4. t \in CreateTasks
    BY <1>1, <1>2, <1>3
  <1>5. t.act = "create"
    BY <1>4 DEF CreateTasks
  <1>6. PICK ev \in {Answer("create"), "failed"} : todo' = [todo EXCEPT ![k] = <<Event(ev, t.ep, FALSE, FALSE)>>]
    BY <1>1, <1>5 DEF WorkerTurn
  <1>7. k \in Procs /\ Api \in Procs /\ k # Api
    BY ProcsDisjoint
  <1>8. ApiInv'
    <2>1. todo'[Api] = todo[Api]
      BY <1>3, <1>6, <1>7
    <2> QED BY <1>2, <2>1, ApiKept
  <1>9. PICK a : a = Event(ev, t.ep, FALSE, FALSE)
    OBVIOUS
  <1>10. a.op = "event" /\ a.ev = ev /\ a.ep = t.ep
    BY <1>9 DEF Event
  <1>11. todo'[k] = <<a>> /\ \A q \in Procs : q # k => todo'[q] = todo[q]
    BY <1>3, <1>6, <1>7, <1>9
  <1>12. a \in JobsOf(k)'
    <2>1. 1 \in DOMAIN todo'[k] /\ todo'[k][1] = a
      BY <1>11
    <2> QED BY <2>1 DEF JobsOf
  <1>13. \A q \in Procs : JobsOf(q) \subseteq JobsOf(q)'
    <2>1. JobsOf(k) = {}
      BY <1>2 DEF JobsOf
    <2>2. \A q \in Procs : q # k => JobsOf(q)' = JobsOf(q)
      BY <1>11 DEF JobsOf
    <2> QED BY <2>1, <2>2
  <1>14. \A x \in Workers : x # k => TasksOf(x)' = TasksOf(x)
    <2>1. \A x \in Workers : x # k => queue'[x] = queue[x]
      BY <1>2, <1>3
    <2> QED BY <2>1 DEF TasksOf
  <1>15. ASSUME NEW u \in TasksOf(k), u # t
         PROVE  u \in TasksOf(k)'
    <2>1. PICK i \in DOMAIN queue[k] : u = queue[k][i]
      BY DEF TasksOf
    <2>2. i \in 1 .. Len(queue[k]) /\ i # 1 /\ Len(queue[k]) \in Nat
      BY <1>1, <1>2, <1>3, <1>15, <2>1
    <2>3. queue'[k] = Tail(queue[k]) /\ queue[k] \in Seq(Tasks)
      BY <1>2, <1>3
    <2>4. Tail(queue[k]) \in Seq(Tasks) /\ Len(Tail(queue[k])) = Len(queue[k]) - 1
      BY <1>2, <2>3
    <2>5. i - 1 \in 1 .. Len(Tail(queue[k])) /\ Tail(queue[k])[i - 1] = queue[k][i]
      BY <1>2, <2>2, <2>3, <2>4
    <2>6. i - 1 \in DOMAIN queue'[k] /\ queue'[k][i - 1] = u
      BY <2>1, <2>3, <2>4, <2>5
    <2> QED BY <2>6 DEF TasksOf
  <1>16. ASSUME NEW e \in Ep, Underway("create", e)
         PROVE  Underway("create", e)'
    <2>1. CASE t.ep = e
      BY <1>10, <1>12, <2>1 DEF Underway
    <2>2. CASE t.ep # e
      <3>1. ASSUME NEW x \in Workers, NEW u \in TasksOf(x), u.act = "create", u.ep = e
            PROVE  Underway("create", e)'
        <4>1. u \in TasksOf(x)'
          BY <1>14, <1>15, <2>2, <3>1
        <4> QED BY <3>1, <4>1 DEF Underway, Sent
      <3>2. ASSUME NEW q \in Procs, NEW j \in JobsOf(q), j.op \in {"write", "send"},
                   j.task.act = "create", j.task.ep = e
            PROVE  Underway("create", e)'
        <4>1. j \in JobsOf(q)'
          BY <1>13
        <4> QED BY <3>2, <4>1 DEF Underway, Sent
      <3>3. ASSUME NEW x \in Workers, NEW j \in JobsOf(x), j.op = "event", j.ep = e,
                   j.ev \in {Answer("create"), "failed"}
            PROVE  Underway("create", e)'
        <4>1. j \in JobsOf(x)'
          BY <1>13, ProcsDisjoint
        <4> QED BY <3>3, <4>1 DEF Underway, Sent
      <3> QED BY <1>16, <3>1, <3>2, <3>3 DEF Underway, Sent
    <2> QED BY <2>1, <2>2
  <1>17. UnderwayInv'
    BY <1>2, <1>16 DEF UnderwayInv
  <1> QED BY <1>8, <1>17

\* WireUpSert starts.
LEMMA StableStart ==
    ASSUME IInv, UnderwayInv, WireUpSert
    PROVE  ApiInv' /\ UnderwayInv'
  <1> USE DEF wireVars, workerVars
  <1>1. todo[Api] = <<>> /\ UNCHANGED <<wires, cached, queue>> /\ todo \in [Procs -> Seq(Jobs)] /\ Api \in Procs
    BY ProcsDisjoint DEF WireUpSert, IInv, TypeOK
  <1>2. \E s : todo' = [todo EXCEPT ![Api] = s]
               /\ \/ cached = NoWire /\ s = <<[op |-> "claim"], UpSertCall>>
                  \/ cached # NoWire /\ s = <<[op |-> "setDesired", to |-> "create"], UpSertCall>>
    BY DEF WireUpSert, UpSertCall
  <1>3. /\ \/ cached = NoWire /\ todo'[Api] = <<[op |-> "claim"], UpSertCall>>
           \/ cached # NoWire /\ todo'[Api] = <<[op |-> "setDesired", to |-> "create"], UpSertCall>>
        /\ \A q \in Procs : q # Api => todo'[q] = todo[q]
    BY <1>1, <1>2
  <1>4. ApiInv'
    BY <1>1, <1>3 DEF ApiInv
  <1>5. JobsOf(Api) = {} /\ \A q \in Procs : q # Api => JobsOf(q)' = JobsOf(q)
    BY <1>1, <1>3 DEF JobsOf
  <1>6. \A x \in Workers : TasksOf(x) \subseteq TasksOf(x)'
    BY <1>1 DEF TasksOf
  <1>7. \A q \in Procs : JobsOf(q) \subseteq JobsOf(q)'
    BY <1>5
  <1>8. UnderwayInv'
    BY <1>1, <1>6, <1>7, UnderwayMono DEF UnderwayInv
  <1> QED BY <1>4, <1>8

\* A goroutine's step is its own.
LEMMA StepAlone ==
    ASSUME TypeOK, NEW p \in Procs, Step(p)
    PROVE  todo[p] # <<>> /\ \A q \in Procs : q # p => todo'[q] = todo[q]
  <1>1. todo \in [Procs -> Seq(Jobs)]
    BY DEF TypeOK
  <1>2. todo[p] # <<>>
    BY DEF Step, At, Claim, Insert, SetDesiredAction, ResolveForCreate, ResolveForDelete, Resolve,
           UnResolve, HandleEvent, WriteEvent, Send, Settle, Forget, Reconcile, StartWorker
  <1>3. \E s : todo' = [todo EXCEPT ![p] = s]
    BY DEF Step, Continue, Claim, Insert, SetDesiredAction, ResolveForCreate, ResolveForDelete, Resolve,
           UnResolve, HandleEvent, WriteEvent, Send, Settle, Forget, Reconcile, StartWorker
  <1> QED BY <1>1, <1>2, <1>3

\* Before a WireDelete, WireUpSert does its own calls and a worker reports and settles.
LEMMA StepKinds ==
    ASSUME IInv, ApiInv, ~asked, NEW p \in {Api} \cup Workers, Step(p)
    PROVE  \/ HandleEvent(p) \/ Settle(p)
           \/ p = Api /\ \/ Claim(Api) \/ Insert(Api) \/ SetDesiredAction(Api)
                         \/ ResolveForCreate(Api) \/ Resolve(Api) \/ WriteEvent(Api) \/ Send(Api)
  <1>1. p \in Procs /\ todo[p] # <<>>
    BY StepAlone, ProcsDisjoint DEF IInv
  <1>2. PICK j : j = Head(todo[p])
    OBVIOUS
  <1>3. /\ Claim(p) => j.op = "claim"
        /\ Insert(p) => j.op = "insert"
        /\ SetDesiredAction(p) => j.op = "setDesired"
        /\ ResolveForCreate(p) => j.op = "wireCreate"
        /\ ResolveForDelete(p) => j.op = "wireDelete"
        /\ Resolve(p) => j.op = "resolve"
        /\ UnResolve(p) => j.op = "unresolve"
        /\ WriteEvent(p) => j.op = "write"
        /\ Send(p) => j.op = "send"
        /\ Forget(p) => j.op = "forget"
        /\ Reconcile(p) => j.op = "reconcile"
        /\ StartWorker(p) => j.op = "startWorker"
    BY <1>2 DEF At, Claim, Insert, SetDesiredAction, ResolveForCreate, ResolveForDelete, Resolve,
           UnResolve, WriteEvent, Send, Forget, Reconcile, StartWorker
  <1>4. CASE p = Api
    <2>1. j.op \in {"claim", "insert", "setDesired", "wireCreate", "resolve",
                    "event", "write", "send", "settle"}
      BY <1>1, <1>2, <1>4, ApiCases
    <2> QED BY <1>3, <1>4, <2>1 DEF Step
  <1>5. CASE p \in Workers
    <2>1. j.op \in {"settle", "event"}
      BY <1>1, <1>2, <1>5, HeadAllowed DEF AllowedAt, WorkerJob, CreateJob
    <2> QED BY <1>3, <2>1 DEF Step
  <1> QED BY <1>4, <1>5

\* They keep daemon calls under way.
LEMMA StableStep ==
    ASSUME IInv, HeldInv, ApiInv, UnderwayInv, ~asked, NEW p \in {Api} \cup Workers, Step(p)
    PROVE  ApiInv' /\ UnderwayInv'
  <1>1. p \in Procs
    BY ProcsDisjoint
  <1>2. \/ HandleEvent(p) \/ Settle(p)
        \/ p = Api /\ \/ Claim(Api) \/ Insert(Api) \/ SetDesiredAction(Api)
                      \/ ResolveForCreate(Api) \/ Resolve(Api) \/ WriteEvent(Api) \/ Send(Api)
    BY StepKinds
  <1> QED BY <1>1, <1>2, StableEvent, StableSettle, StableUpSert, StableWrite

\* With pods and daemons that stay no callback ever runs, and daemon calls stay under way.
LEMMA NextStable ==
    ASSUME Steady \/ used'["env"] = 0, IInv, HeldInv, StableInv, WireStep
    PROVE  StableInv'
  <1> USE DEF wireVars, workerVars
  <1>0. /\ TypeOK /\ todo \in [Procs -> Seq(Jobs)] /\ Api \in Procs /\ Api \notin Callbacks
        /\ Callbacks \subseteq Procs /\ Workers \subseteq Procs /\ Callbacks \cap Workers = {}
        /\ \A q \in Callbacks : todo[q] = <<>>
    BY ProcsDisjoint DEF IInv, TypeOK, StableInv
  <1>1. CASE WireUpSert \/ WireDelete
    <2>1. (\E s : todo' = [todo EXCEPT ![Api] = s]) /\ (~asked' => ~asked /\ WireUpSert)
      BY <1>1 DEF WireUpSert, WireDelete
    <2>2. \A q \in Callbacks : todo'[q] = <<>>
      BY <1>0, <2>1
    <2> QED BY <2>1, <2>2, StableStart DEF StableInv
  <1>2. ASSUME NEW p \in Procs, Step(p)
        PROVE  StableInv'
    <2>1. todo[p] # <<>> /\ \A q \in Procs : q # p => todo'[q] = todo[q]
      BY <1>0, <1>2, StepAlone
    <2>2. p \in {Api} \cup Workers
      BY <1>0, <2>1 DEF Procs
    <2>3. \A q \in Callbacks : todo'[q] = <<>>
      BY <1>0, <2>1
    <2>4. asked' = asked
      BY <1>2 DEF Step, Claim, Insert, SetDesiredAction, ResolveForCreate, ResolveForDelete, Resolve,
           UnResolve, HandleEvent, WriteEvent, Send, Settle, Forget, Reconcile, StartWorker
    <2> QED BY <1>2, <2>2, <2>3, <2>4, StableStep DEF StableInv
  <1>3. ASSUME NEW k \in Workers, WorkerTurn(k)
        PROVE  StableInv'
    <2>1. \E s : todo' = [todo EXCEPT ![k] = s]
      BY <1>3 DEF WorkerTurn
    <2>2. \A q \in Callbacks : todo'[q] = <<>>
      BY <1>0, <2>1
    <2>3. asked' = asked
      BY <1>3 DEF WorkerTurn
    <2> QED BY <1>3, <2>2, <2>3, StableTurn DEF StableInv
  <1>4. CASE UNCHANGED <<todo, queue, wires, cached, asked>>
    BY <1>4 DEF StableInv, ApiInv, At, UnderwayInv, Underway, Sent, TasksOf, JobsOf
  <1>5. CASE CallbackDone
    BY <1>4, <1>5 DEF CallbackDone
  <1>6. CASE Environment
    <2>0. Steady
      BY <1>0, <1>6, EnvironmentCounts
    <2>1. \E v : TopologyChange(v)
      BY <1>6, <2>0 DEF Environment, Steady, EnvStep, PodUpsert, PodDelete, DaemonUpsert, DaemonDelete, NodeUpsert,
           NodeDelete
    <2> QED BY <1>4, <2>1 DEF TopologyChange
  <1>7. CASE UNCHANGED wireState
    BY <1>4, <1>7 DEF wireState
  <1> QED BY <1>1, <1>2, <1>3, <1>5, <1>6, <1>7 DEF WireStep, System

\* The calls under way are those that an endpoint in Creating or Deleting waits for.
LEMMA UnderwayFollows ==
    ASSUME IInv, HeldInv, StableInv
    PROVE  OngoingIsUnderway
  <1> SUFFICES ASSUME cached # NoWire, ~asked, NEW e \in Ep
               PROVE  /\ wires[cached].state[e] = "Creating" => Underway("create", e)
                      /\ wires[cached].state[e] = "Deleting" => Underway("delete", e)
    BY DEF OngoingIsUnderway
  <1>1. cached \in 1 .. Len(wires)
    BY OnlyWire
  <1> QED BY <1>1 DEF StableInv, UnderwayInv, HeldInv

\* What state.go relies on when it answers "do nothing" in Creating and Deleting: before a
\* WireDelete, as long as pods, daemons and nodes stay as they are, an endpoint in either
\* state has its daemon call or the answer to it still on the way.
THEOREM OngoingAreUnderway ==
    ASSUME Steady
    PROVE  Spec => []OngoingIsUnderway
  <1>1. NoDeletions
    BY DEF Steady, NoDeletions
  <1>2. Init => HeldInv /\ StableInv
    <2>1. Init => HeldInv
      BY DEF Init, HeldInv
    <2>2. Init => StableInv
      BY ProcsDisjoint DEF Init, StableInv, ApiInv, UnderwayInv
    <2> QED BY <2>1, <2>2
  <1>3. IInv /\ HeldInv /\ StableInv /\ [Next]_vars => HeldInv' /\ StableInv'
    BY <1>1, NextHeld, NextStable, NextIsWireStep
  <1>4. IInv /\ HeldInv /\ StableInv => OngoingIsUnderway
    BY UnderwayFollows
  <1> QED BY Invariance, <1>2, <1>3, <1>4, PTL DEF Spec

----------------------------------------------------------------------------
(* ... and a topology that changes at most once *)

\* What the wire resolves to as long as the topology is ready.
ReadyHost(e) ==
    IF e \in Remote THEN Peer
    ELSE IF pod[e] \in Hosts /\ daemon[pod[e]] = "ready" THEN pod[e] ELSE NoHost
ReadyData ==
    IF \A e \in Ep : ReadyHost(e) = Peer THEN [e \in Ep |-> NoHost]
    ELSE [e \in Ep |-> ReadyHost(e)]

NoHosts(d) == \A e \in Ep : d[e] \notin Hosts

\* The daemon call for e was answered with success.
Answered(e) ==
    \E k \in Workers : \E j \in JobsOf(k) : j.op = "event" /\ j.ep = e /\ j.ev = "created"

\* No worker was given anything to do.
Unused == \A k \in Workers : queue[k] = <<>> /\ todo[k] = <<>>

\* A worker's tasks are for the endpoints on its host and for the first Wire object; a task
\* that waits for a worker is, too.
PlacedTasks(k, d) == {t \in Tasks : k[1] = d[t.ep] /\ t.w = 1}
PlacedJobs(d) == {j \in Jobs : j.op = "send" => j.worker[1] = d[j.task.ep]}

PlacedInv ==
    /\ todo[Api] \in Seq(PlacedJobs(ReadyData))
    /\ \A k \in Workers : queue[k] \in Seq(PlacedTasks(k, ReadyData))

\* What WireUpSert is about to store.
ResolvingInv ==
    At(Api, "resolve") =>
        LET d == Head(todo[Api]).data IN d = ReadyData \/ (NoHosts(d) /\ topology # "ready")

\* WireUpSert, if it is about to store a resolution, has found no host.
FindsNothing == At(Api, "resolve") => NoHosts(Head(todo[Api]).data)

\* The wire o is resolved as the caches say, not yet, or no more.
ResolvedInv(o) ==
    \/ o.host = ReadyData
    \/ NoHosts(o.host) /\ Unused /\ \A e \in Ep : o.state[e] # "Created"
    \/ NoHosts(o.host) /\ topology # "ready" /\ FindsNothing

\* A created endpoint, or one whose daemon answered, is deployed; the second one of two on
\* the same host relies on the first.
DeployedInv(o) ==
    /\ \A e \in Ep : o.ok[e] => o.state[e] = "Created"
    /\ o.host = ReadyData => \A e \in Ep : ReadyData[e] \in Hosts =>
          /\ Answered(e) => ReadyData[e] \in deployed
          /\ o.state[e] = "Created" =>
                ReadyData[e] \in deployed \/ (e = 1 /\ ReadyData[0] = ReadyData[1])

CachedInv ==
    /\ cached = NoWire => Unused
    /\ cached # NoWire => ResolvedInv(wires[cached]) /\ DeployedInv(wires[cached])

PlaceInv ==
    /\ removing = <<>>
    /\ ~asked /\ used["env"] <= 1 =>
          /\ used["env"] = 0 => topology = "ready"
          /\ ResolvingInv /\ PlacedInv /\ CachedInv

\* The caches that a resolution reads, apart from the topology, stay as they are.
LEMMA ReadyDataSame ==
    ASSUME UNCHANGED <<pod, daemon>>
    PROVE  ReadyData' = ReadyData
  BY DEF ReadyData, ReadyHost

\* What a resolution reads.
LEMMA ResolveWireIs ==
    /\ topology = "ready" => resolveWire = ReadyData
    /\ topology # "ready" => NoHosts(resolveWire)
  <1>1. ASSUME topology = "ready" PROVE resolveWire = ReadyData
    <2>1. \A e \in Ep : resolveEndpoint(e) = ReadyHost(e)
      BY <1>1 DEF resolveEndpoint, ReadyHost
    <2> QED BY <2>1 DEF resolveWire, ReadyData
  <1>2. ASSUME topology # "ready" PROVE NoHosts(resolveWire)
    <2>1. \A e \in Ep : resolveEndpoint(e) \in {Peer, NoHost}
      BY <1>2 DEF resolveEndpoint
    <2>2. \A e \in Ep : resolveWire[e] \in {Peer, NoHost}
      BY <2>1 DEF resolveWire
    <2> QED BY <2>2, ConstantsAssumption DEF NoHosts
  <1> QED BY <1>1, <1>2

\* WireUpSert's calls after the resolution store no other one.
LEMMA NotResolving ==
    ASSUME NEW d, NEW s \in Seq(CallsOver(d)), s # <<>>
    PROVE  Head(s).op # "resolve"
  <1>1. Head(s) \in CallsOver(d)
    BY HeadIn
  <1> QED BY <1>1 DEF CallsOver, CreateCall

\* A step that resolves nothing keeps what is known of the cached wire: an endpoint becomes
\* Created by an answer or, as the second on a host, with the first; and an answer comes with
\* the deployment.
LEMMA CachedKept ==
    ASSUME CachedInv, cached # NoWire, cached' = cached, topology' = topology,
           NEW d, d = ReadyData, ReadyData' = d,
           NEW o, o = wires[cached], NEW n, n = wires'[cached], n.host = o.host,
           deployed \subseteq deployed',
           NoHosts(o.host) /\ Unused => Unused',
           topology # "ready" /\ FindsNothing => FindsNothing',
           \A e \in Ep : n.ok[e] => n.state[e] = "Created",
           \A e \in Ep : n.state[e] = "Created" =>
               \/ o.state[e] = "Created" \/ Answered(e)
               \/ e = 1 /\ o.host[0] = o.host[1] /\ o.host[e] \in Hosts,
           \A e \in Ep : Answered(e)' => Answered(e) \/ d[e] \in deployed' \/ o.host # d
    PROVE  CachedInv'
  <1>1. ResolvedInv(o) /\ DeployedInv(o)
    BY DEF CachedInv
  <1>2. Unused => \A e \in Ep : ~Answered(e)
    BY DEF Unused, Answered, JobsOf
  <1>3. ResolvedInv(n)'
    <2>1. CASE o.host = d
      BY <2>1 DEF ResolvedInv
    <2>2. CASE NoHosts(o.host) /\ Unused /\ \A e \in Ep : o.state[e] # "Created"
      <3>1. \A e \in Ep : n.state[e] # "Created"
        BY <1>2, <2>2 DEF NoHosts
      <3> QED BY <2>2, <3>1 DEF ResolvedInv
    <2>3. CASE NoHosts(o.host) /\ topology # "ready" /\ FindsNothing
      BY <2>3 DEF ResolvedInv
    <2> QED BY <1>1, <2>1, <2>2, <2>3 DEF ResolvedInv
  <1>4. DeployedInv(n)'
    <2> SUFFICES ASSUME n.host = d, NEW e \in Ep, d[e] \in Hosts
                 PROVE  /\ Answered(e)' => d[e] \in deployed'
                        /\ n.state[e] = "Created" => d[e] \in deployed' \/ (e = 1 /\ d[0] = d[1])
      BY DEF DeployedInv
    <2>1. Answered(e) => d[e] \in deployed
      BY <1>1 DEF DeployedInv
    <2>2. o.state[e] = "Created" => d[e] \in deployed \/ (e = 1 /\ d[0] = d[1])
      BY <1>1 DEF DeployedInv
    <2> QED BY <2>1, <2>2
  <1> QED BY <1>3, <1>4 DEF CachedInv

\* No call but an event is an answer.
LEMMA AnsweredLess ==
    ASSUME TypeOK, NEW p \in Procs, todo[p] # <<>>, NEW js \in Seq(Jobs), Continue(p, js),
           p \in Workers => \A i \in 1 .. Len(js) : js[i].op # "event"
    PROVE  \A e \in Ep : Answered(e)' => Answered(e)
  <1>1. todo' = [todo EXCEPT ![p] = js \o Tail(@)] /\ todo \in [Procs -> Seq(Jobs)]
    BY DEF Continue, TypeOK
  <1>2. todo'[p] = js \o Tail(todo[p]) /\ \A q \in Procs : q # p => todo'[q] = todo[q]
    BY <1>1
  <1>3. todo[p] \in Seq(Jobs) /\ Tail(todo[p]) \in Seq(Jobs) /\ Len(Tail(todo[p])) = Len(todo[p]) - 1
    BY <1>1
  <1> SUFFICES ASSUME NEW e \in Ep, NEW k \in Workers, NEW j \in JobsOf(k)',
                      j.op = "event", j.ep = e, j.ev = "created"
               PROVE  Answered(e)
    BY DEF Answered
  <1>4. CASE k # p
    <2>1. j \in JobsOf(k)
      BY <1>2, <1>4, ProcsDisjoint DEF JobsOf
    <2> QED BY <2>1 DEF Answered
  <1>5. CASE k = p
    <2>1. PICK i \in DOMAIN todo'[p] : todo'[p][i] = j
      BY <1>5 DEF JobsOf
    <2>2. i \in 1 .. Len(js) + Len(Tail(todo[p])) /\ Len(js) \in Nat
      BY <1>2, <1>3, <2>1
    <2>3. CASE i <= Len(js)
      <3>1. i \in 1 .. Len(js) /\ js[i] = j
        BY <1>2, <1>3, <2>1, <2>2, <2>3
      <3> QED BY <1>5, <3>1
    <2>4. CASE i > Len(js)
      <3>1. i - Len(js) \in 1 .. Len(Tail(todo[p])) /\ Tail(todo[p])[i - Len(js)] = j
        BY <1>2, <1>3, <2>1, <2>2, <2>4
      <3>2. (i - Len(js)) + 1 \in DOMAIN todo[p] /\ todo[p][(i - Len(js)) + 1] = j
        BY <1>3, <2>2, <3>1
      <3>3. j \in JobsOf(k)
        BY <1>5, <3>2 DEF JobsOf
      <3> QED BY <3>3 DEF Answered
    <2> QED BY <2>2, <2>3, <2>4
  <1> QED BY <1>4, <1>5

\* Every call but a waiting one is placed, whatever the resolution.
LEMMA PlacedCall ==
    ASSUME TypeOK, PlacedInv, ReadyData' = ReadyData, queue' = queue, NEW p \in Procs, todo[p] # <<>>,
           NEW js \in Seq(Jobs), Continue(p, js),
           p = Api => js \in Seq(PlacedJobs(ReadyData))
    PROVE  PlacedInv'
  <1>1. todo' = [todo EXCEPT ![p] = js \o Tail(@)] /\ todo \in [Procs -> Seq(Jobs)] /\ Api \in Procs
    BY ProcsDisjoint DEF Continue, TypeOK
  <1>2. todo'[Api] \in Seq(PlacedJobs(ReadyData))
    <2>1. CASE p = Api
      <3>1. todo'[Api] = js \o Tail(todo[Api])
        BY <1>1, <2>1
      <3> QED BY <2>1, <3>1, ContinueSeq DEF PlacedInv
    <2>2. CASE p # Api
      BY <1>1, <2>2 DEF PlacedInv
    <2> QED BY <2>1, <2>2
  <1>3. \A k \in Workers : queue'[k] \in Seq(PlacedTasks(k, ReadyData))
    BY DEF PlacedInv
  <1> QED BY <1>2, <1>3 DEF PlacedInv

\* Workers that were given nothing still have nothing to do.
LEMMA UnusedKept ==
    ASSUME TypeOK, queue' = queue, NEW p \in Procs, todo[p] # <<>>, NEW s, todo' = [todo EXCEPT ![p] = s]
    PROVE  Unused => Unused' /\ p \notin Workers
  <1>1. todo \in [Procs -> Seq(Jobs)] /\ Workers \subseteq Procs
    BY ProcsDisjoint DEF TypeOK
  <1>2. Unused => p \notin Workers
    BY DEF Unused
  <1>3. p \notin Workers => \A k \in Workers : todo'[k] = todo[k]
    BY <1>1
  <1> QED BY <1>2, <1>3 DEF Unused

\* Every call but a waiting one is placed, whatever the resolution.
LEMMA PlainPlaced ==
    ASSUME NEW d, NEW j \in Jobs, j.op # "send"
    PROVE  j \in PlacedJobs(d)
  BY DEF PlacedJobs

PlaceCore == ResolvingInv /\ PlacedInv /\ CachedInv

\* The calls of WireUpSert before the first event: the resolution that is stored is the one
\* the caches give, or finds no host for ever.
LEMMA PlaceUpSert ==
    ASSUME IInv, ApiInv, PlaceCore, ~asked, UNCHANGED <<pod, daemon, topology>>,
           \/ Claim(Api) \/ Insert(Api) \/ SetDesiredAction(Api)
           \/ ResolveForCreate(Api) \/ Resolve(Api)
    PROVE  PlaceCore'
  <1> USE DEF wireVars, workerVars
  <1>0. PICK j : j = Head(todo[Api])
    OBVIOUS
  <1>1. todo[Api] # <<>> /\ TypeOK /\ Api \in Procs /\ Api \notin Workers /\ queue' = queue
        /\ deployed' = deployed /\ todo \in [Procs -> Seq(Jobs)]
        /\ j.op \in {"claim", "insert", "setDesired", "wireCreate", "resolve"}
    BY <1>0, ProcsDisjoint DEF Claim, Insert, SetDesiredAction, ResolveForCreate, Resolve, At, IInv, TypeOK
  <1>2. j.op \notin {"claim", "insert"} => cached # NoWire
    BY <1>0, <1>1, ApiCases
  <1>3. /\ Claim(Api) => \/ todo'[Api] = <<[op |-> "insert"], UpSertCall>>
                         \/ todo'[Api] = <<>>
        /\ Insert(Api) \/ SetDesiredAction(Api) => todo'[Api] = <<UpSertCall>>
        /\ ResolveForCreate(Api) =>
              todo'[Api] # <<>> /\ Head(todo'[Api]) = [op |-> "resolve", data |-> resolveWire]
        /\ Resolve(Api) => todo'[Api] \in Seq(CallsOver(j.data))
    BY <1>0, UpSertNext
  <1>4. ReadyData' = ReadyData
    BY ReadyDataSame
  <1>5. \E s : todo' = [todo EXCEPT ![Api] = s]
    BY DEF Continue, Claim, Insert, SetDesiredAction, ResolveForCreate, Resolve
  <1>6. /\ \A q \in Procs : q # Api => todo'[q] = todo[q]
        /\ Unused => Unused'
        /\ \A e \in Ep : Answered(e)' <=> Answered(e)
    <2>1. \A q \in Procs : q # Api => todo'[q] = todo[q]
      BY <1>1, <1>5
    <2>2. \A k \in Workers : todo'[k] = todo[k]
      BY <1>1, <2>1, ProcsDisjoint
    <2> QED BY <1>1, <2>1, <2>2 DEF Unused, Answered, JobsOf
  <1>7. ~ResolveForCreate(Api) => ~At(Api, "resolve")'
    <2>1. \A s : s = <<UpSertCall>> \/ s = <<[op |-> "insert"], UpSertCall>> => Head(s).op # "resolve"
      BY DEF UpSertCall
    <2>2. Resolve(Api) => ~At(Api, "resolve")'
      BY <1>3, NotResolving DEF At
    <2> QED BY <1>3, <2>1, <2>2 DEF At
  <1>8. PlacedInv'
    <2>1. ASSUME NEW js \in Seq(Jobs), Continue(Api, js), js \in Seq(PlacedJobs(ReadyData))
          PROVE  PlacedInv'
      BY <1>1, <1>4, <2>1, PlacedCall DEF PlaceCore
    <2>2. Continue(Api, <<>>) => PlacedInv'
      <3>1. <<>> \in Seq(Jobs) /\ <<>> \in Seq(PlacedJobs(ReadyData))
        OBVIOUS
      <3> QED BY <2>1, <3>1
    <2>3. CASE Insert(Api) \/ SetDesiredAction(Api) \/ Resolve(Api)
      BY <2>2, <2>3 DEF Insert, SetDesiredAction, Resolve
    <2>4. CASE Claim(Api)
      <3> DEFINE a == [op |-> "insert"]
      <3>1. a \in Jobs /\ a.op # "send"
        BY JobKinds
      <3> HIDE DEF a
      <3>2. <<a>> \in Seq(Jobs) /\ <<a>> \in Seq(PlacedJobs(ReadyData))
        BY <3>1, PlainPlaced, ShortSeqs
      <3>3. CASE Continue(Api, <<a>>)
        BY <2>1, <3>2, <3>3
      <3>4. CASE todo' = [todo EXCEPT ![Api] = <<>>]
        <4>1. todo'[Api] \in Seq(PlacedJobs(ReadyData))
          BY <1>1, <3>4, ShortSeqs
        <4> QED BY <1>1, <1>4, <4>1 DEF PlaceCore, PlacedInv
      <3> QED BY <2>4, <3>3, <3>4 DEF Claim, a
    <2>5. CASE ResolveForCreate(Api)
      <3> DEFINE r == [op |-> "resolve", data |-> resolveWire]
                 cs == CreateCalls(resolveWire, j.origin)
                 E == {x \in Jobs : x.op # "send"}
      <3>1. Continue(Api, <<r>> \o cs)
        BY <1>0, <2>5 DEF ResolveForCreate
      <3>2. resolveWire \in [Ep -> Data]
        BY <1>1, resolveWireType
      <3>3. r \in E
        BY <3>2, JobKinds
      <3>4. cs \in Seq({x \in Jobs : x.op = "event"})
        BY <3>2, CreateCallsOver
      <3>5. cs \in Seq(E)
        BY <3>4, SeqMono
      <3>6. E \subseteq Jobs /\ E \subseteq PlacedJobs(ReadyData)
        BY PlainPlaced
      <3> HIDE DEF r, cs, E
      <3>7. <<r>> \o cs \in Seq(E)
        BY <3>3, <3>5
      <3>8. <<r>> \o cs \in Seq(Jobs) /\ <<r>> \o cs \in Seq(PlacedJobs(ReadyData))
        BY <3>6, <3>7, SeqMono
      <3> QED BY <2>1, <3>1, <3>8
    <2> QED BY <2>3, <2>4, <2>5
  <1>9. ASSUME ~Claim(Api), ~Insert(Api)
        PROVE  cached # NoWire /\ cached' = cached /\ cached \in 1 .. Len(wires) /\ wires[cached] \in WireObjects
               /\ wires \in Seq(WireObjects)
    <2>1. cached # NoWire /\ cached' = cached
      BY <1>0, <1>2, <1>9 DEF SetDesiredAction, ResolveForCreate, Resolve, At
    <2> QED BY <1>1, <2>1, OnlyWire DEF TypeOK
  <1>10. CASE Claim(Api)
    <2>1. cached' = cached /\ cached = NoWire
      <3>1. todo[Api] \notin Seq(Unclaiming)
        BY <1>1, <1>10, HeadIn DEF Unclaiming, Claim, At
      <3> QED BY <1>10, <3>1 DEF IInv, UnaskedInv, Claim
    <2>2. ~At(Api, "resolve")'
      BY <1>7, <1>10 DEF Claim, ResolveForCreate, At
    <2> QED BY <1>6, <1>8, <2>1, <2>2 DEF PlaceCore, CachedInv, ResolvingInv
  <1>11. CASE Insert(Api)
    <2>1. cached' = Len(wires) + 1 /\ wires' = Append(wires, NewWire)
      BY <1>11 DEF Insert
    <2>2. cached' # NoWire /\ wires'[cached'] = NewWire
      BY <1>1, <2>1 DEF TypeOK, NoWire
    <2>3. cached = NoWire
      <3>1. todo[Api] \notin Seq(Unclaiming)
        BY <1>1, <1>11, HeadIn DEF Unclaiming, Insert, At
      <3> QED BY <3>1 DEF IInv, UnaskedInv
    <2>4. Unused'
      BY <1>6, <2>3 DEF PlaceCore, CachedInv
    <2>5. /\ \A e \in Ep : NewWire.state[e] # "Created" /\ ~NewWire.ok[e] /\ NewWire.host[e] = NoHost
      BY DEF NewWire
    <2>6. NoHosts(NewWire.host)
      BY <2>5, ConstantsAssumption DEF NoHosts
    <2>7. ResolvedInv(NewWire)'
      BY <2>4, <2>5, <2>6 DEF ResolvedInv
    <2>8. DeployedInv(NewWire)'
      BY <1>4, <2>5, ConstantsAssumption DEF DeployedInv
    <2>9. CachedInv'
      BY <2>2, <2>7, <2>8 DEF CachedInv
    <2>10. ~At(Api, "resolve")'
      BY <1>7, <1>11 DEF Insert, ResolveForCreate, At
    <2> QED BY <1>8, <2>9, <2>10 DEF PlaceCore, ResolvingInv
  <1>12. CASE SetDesiredAction(Api)
    <2>0. ~Claim(Api) /\ ~Insert(Api) /\ ~ResolveForCreate(Api)
      BY <1>12 DEF SetDesiredAction, Claim, Insert, ResolveForCreate, At
    <2>1. PICK o : o = wires[cached]
      OBVIOUS
    <2>2. PICK n : n = wires'[cached]
      OBVIOUS
    <2>3. n = [o EXCEPT !.desired = j.to]
      BY <1>0, <1>9, <1>12, <2>0, <2>1, <2>2 DEF SetDesiredAction
    <2>4. n.state = o.state /\ n.ok = o.ok /\ n.host = o.host
      BY <1>9, <2>0, <2>1, <2>3, OtherFields
    <2>5. ~At(Api, "resolve")'
      BY <1>7, <2>0
    <2>6. \A e \in Ep : n.ok[e] => n.state[e] = "Created"
      BY <1>9, <2>0, <2>1, <2>4 DEF PlaceCore, CachedInv, DeployedInv
    <2>7. FindsNothing'
      BY <2>5 DEF FindsNothing
    <2>8. CachedInv'
      BY <1>1, <1>4, <1>6, <1>9, <2>0, <2>1, <2>2, <2>4, <2>6, <2>7, CachedKept DEF PlaceCore
    <2> QED BY <1>8, <2>5, <2>8 DEF PlaceCore, ResolvingInv
  <1>13. CASE ResolveForCreate(Api)
    <2>0. ~Claim(Api) /\ ~Insert(Api)
      BY <1>13 DEF Claim, Insert, ResolveForCreate, At
    <2>1. PICK o : o = wires[cached]
      OBVIOUS
    <2>2. o = wires'[cached]
      BY <1>13, <2>1 DEF ResolveForCreate
    <2>3. Head(todo'[Api]).data = resolveWire
      BY <1>3, <1>13
    <2>4. resolveWire = ReadyData \/ (NoHosts(resolveWire) /\ topology # "ready")
      BY ResolveWireIs
    <2>5. ResolvingInv'
      BY <1>4, <2>3, <2>4 DEF ResolvingInv
    <2>6. topology # "ready" => FindsNothing'
      BY <2>3, ResolveWireIs DEF FindsNothing
    <2>7. \A e \in Ep : o.ok[e] => o.state[e] = "Created"
      BY <1>9, <2>0, <2>1 DEF PlaceCore, CachedInv, DeployedInv
    <2>8. CachedInv'
      BY <1>1, <1>4, <1>6, <1>9, <2>0, <2>1, <2>2, <2>6, <2>7, CachedKept DEF PlaceCore
    <2> QED BY <1>8, <2>5, <2>8 DEF PlaceCore
  <1>14. CASE Resolve(Api)
    <2>0. ~Claim(Api) /\ ~Insert(Api) /\ ~ResolveForCreate(Api)
      BY <1>14 DEF Resolve, Claim, Insert, ResolveForCreate, At
    <2>1. PICK o : o = wires[cached]
      OBVIOUS
    <2>2. PICK n : n = wires'[cached]
      OBVIOUS
    <2>3. PICK d : d = ReadyData
      OBVIOUS
    <2>4. n = [o EXCEPT !.host = j.data]
      BY <1>0, <1>9, <1>14, <2>0, <2>1, <2>2 DEF Resolve
    <2>5. n.state = o.state /\ n.ok = o.ok /\ n.host = j.data
      BY <1>9, <2>0, <2>1, <2>4, OtherFields
    <2>6. ~At(Api, "resolve")' /\ FindsNothing' /\ ResolvingInv'
      BY <1>7, <2>0 DEF FindsNothing, ResolvingInv
    <2>7. At(Api, "resolve") /\ (j.data = d \/ (NoHosts(j.data) /\ topology # "ready"))
      BY <1>0, <1>14, <2>3 DEF Resolve, PlaceCore, ResolvingInv
    <2>8. ResolvedInv(o) /\ DeployedInv(o)
      BY <1>9, <2>0, <2>1 DEF PlaceCore, CachedInv
    <2>9. ResolvedInv(n)'
      BY <1>4, <2>3, <2>5, <2>6, <2>7 DEF ResolvedInv
    <2>10. DeployedInv(n)'
      <3>1. \A e \in Ep : n.ok[e] => n.state[e] = "Created"
        BY <2>5, <2>8 DEF DeployedInv
      <3>2. ASSUME n.host = d, NEW e \in Ep, d[e] \in Hosts
            PROVE  /\ Answered(e) => d[e] \in deployed
                   /\ n.state[e] = "Created" => d[e] \in deployed \/ (e = 1 /\ d[0] = d[1])
        <4>1. CASE o.host = d
          BY <2>3, <2>5, <2>8, <3>2, <4>1 DEF DeployedInv
        <4>2. CASE Unused /\ \A x \in Ep : o.state[x] # "Created"
          <5>1. ~Answered(e)
            BY <4>2 DEF Unused, Answered, JobsOf
          <5> QED BY <2>5, <4>2, <5>1
        <4>3. CASE FindsNothing
          BY <1>0, <2>5, <2>7, <3>2, <4>3 DEF FindsNothing, NoHosts
        <4> QED BY <2>3, <2>8, <4>1, <4>2, <4>3 DEF ResolvedInv
      <3> QED BY <1>1, <1>4, <1>6, <2>3, <3>1, <3>2 DEF DeployedInv
    <2>11. CachedInv'
      BY <1>9, <2>0, <2>2, <2>9, <2>10 DEF CachedInv
    <2> QED BY <1>8, <2>6, <2>11 DEF PlaceCore
  <1> QED BY <1>10, <1>11, <1>12, <1>13, <1>14

\* What WireUpSert is about to store is left alone by the other calls.
LEMMA ResolvingKept ==
    ASSUME TypeOK, ResolvingInv, ReadyData' = ReadyData, topology' = topology,
           NEW p \in Procs, todo[p] # <<>>, NEW js, Continue(p, js), NEW d,
           p = Api => todo[Api] \in Seq(CallsOver(d)) /\ js \in Seq(CallsOver(d))
    PROVE  ResolvingInv' /\ (FindsNothing => FindsNothing')
  <1>1. todo' = [todo EXCEPT ![p] = js \o Tail(@)] /\ todo \in [Procs -> Seq(Jobs)] /\ Api \in Procs
    BY ProcsDisjoint DEF Continue, TypeOK
  <1>2. CASE p = Api
    <2>1. todo'[Api] = js \o Tail(todo[Api])
      BY <1>1, <1>2
    <2>2. todo'[Api] \in Seq(CallsOver(d))
      BY <1>2, <2>1, ContinueSeq
    <2>3. ~At(Api, "resolve")'
      BY <2>2, NotResolving DEF At
    <2> QED BY <2>3 DEF ResolvingInv, FindsNothing
  <1>3. CASE p # Api
    <2>1. todo'[Api] = todo[Api]
      BY <1>1, <1>3
    <2> QED BY <2>1 DEF ResolvingInv, FindsNothing, At
  <1> QED BY <1>2, <1>3

\* The settlement changes nothing about a wanted wire.
LEMMA PlaceSettle ==
    ASSUME IInv, ApiInv, PlaceCore, ~asked, UNCHANGED <<pod, daemon, topology>>,
           NEW p \in Procs, Settle(p)
    PROVE  PlaceCore'
  <1>1. PICK j : j = Head(todo[p])
    OBVIOUS
  <1>2. todo[p] # <<>> /\ j.op = "settle" /\ TypeOK
    BY <1>1 DEF Settle, At, IInv
  <1>3. j \in Jobs /\ RefersUpTo(j, Len(wires))
    BY <1>1, <1>2, HeadAllowed DEF AllowedAt
  <1>4. j.w \in Wires /\ j.w <= Len(wires)
    BY <1>2, <1>3, JobFields DEF RefersUpTo
  <1>5. j.w = cached /\ cached # NoWire /\ wires[cached].desired = "create"
    BY <1>4, OnlyWire
  <1>6. ~Finished(wires[j.w])
    BY <1>5 DEF Finished
  <1>7. cached' = cached /\ Continue(p, <<>>) /\ wires' = wires /\ queue' = queue /\ deployed' = deployed
    BY <1>1, <1>5, <1>6 DEF Settle, workerVars
  <1>8. PICK o : o = wires[cached]
    OBVIOUS
  <1>9. p = Api => todo[Api] \in Seq(CallsOver(o.host))
    BY <1>1, <1>2, <1>8, ApiCases
  <1>10. /\ <<>> \in Seq(Jobs) /\ <<>> \in Seq(CallsOver(o.host))
         /\ <<>> \in Seq(PlacedJobs(ReadyData)) /\ \A i \in 1 .. Len(<<>>) : <<>>[i].op # "event"
    BY ShortSeqs
  <1>11. ReadyData' = ReadyData
    BY ReadyDataSame
  <1>12. ResolvingInv' /\ (FindsNothing => FindsNothing')
    BY <1>2, <1>7, <1>9, <1>10, <1>11, ResolvingKept DEF PlaceCore
  <1>13. PlacedInv'
    BY <1>2, <1>7, <1>10, <1>11, PlacedCall DEF PlaceCore
  <1>14. \A e \in Ep : Answered(e)' => Answered(e)
    BY <1>2, <1>7, <1>10, AnsweredLess
  <1>15. Unused => Unused'
    BY <1>2, <1>7, UnusedKept DEF Continue
  <1>16. \A e \in Ep : o.ok[e] => o.state[e] = "Created"
    BY <1>5, <1>8 DEF PlaceCore, CachedInv, DeployedInv
  <1>17. CachedInv'
    <2>1. o = wires'[cached]
      BY <1>7, <1>8
    <2> QED BY <1>5, <1>7, <1>8, <1>11, <1>12, <1>14, <1>15, <1>16, <2>1, CachedKept DEF PlaceCore
  <1> QED BY <1>12, <1>13, <1>17 DEF PlaceCore

\* An event: an endpoint becomes Created by the answer of its daemon or with the first
\* endpoint on its host.
LEMMA PlaceEvent ==
    ASSUME IInv, HeldInv, ApiInv, PlaceCore, ~asked, UNCHANGED <<pod, daemon, topology>>,
           NEW p \in {Api} \cup Workers, HandleEvent(p)
    PROVE  PlaceCore'
  <1>0. PICK j : j = Head(todo[p])
    OBVIOUS
  <1>1. /\ todo[p] # <<>> /\ j.op = "event" /\ TypeOK /\ cached' = cached /\ queue' = queue
        /\ deployed' = deployed /\ todo \in [Procs -> Seq(Jobs)] /\ Api \in Procs /\ p \in Procs
        /\ (p \in Workers <=> p # Api)
    BY <1>0, ProcsDisjoint DEF HandleEvent, At, IInv, TypeOK, workerVars
  <1>2. cached # NoWire
    <2>1. p = Api => cached # NoWire
      BY <1>0, <1>1, ApiCases
    <2>2. p \in Workers => ~Unused
      BY <1>1 DEF Unused
    <2> QED BY <1>1, <2>1, <2>2 DEF PlaceCore, CachedInv
  <1>3. PICK o : o = wires[cached]
    OBVIOUS
  <1>4. PICK t : t = OwnTarget(o, j)
    OBVIOUS
  <1>5. PICK n : n = wires'[cached]
    OBVIOUS
  <1>6. PICK d : d = ReadyData
    OBVIOUS
  <1> DEFINE st == [op |-> "settle", w |-> cached]
             task == [act |-> "create", ep |-> j.ep, w |-> cached]
             wr == [op |-> "write", task |-> task]
  <1>7. /\ j \in HeldJobs /\ j.ev \in Events
        /\ j.ep \in Ep /\ j.same \in BOOLEAN
        /\ o \in WireObjects /\ cached \in 1 .. Len(wires) /\ cached \in Wires
        /\ o.state[j.ep] \in EpStates /\ o.state[j.ep] # "Deleting"
        /\ t = Target(o.state[j.ep], j.ev, j.same)
        /\ t \in EpStates \cup {Ignored}
        /\ wires' = [wires EXCEPT ![cached] = Transition(o, j.ep, t)]
        /\ t = "Creating" => Continue(p, <<wr, st>>)
        /\ t # "Creating" => Continue(p, <<st>>)
    BY <1>0, <1>1, <1>2, <1>3, <1>4, HeldEventCases
  <1>8. n = Transition(o, j.ep, t)
    BY <1>1, <1>5, <1>7 DEF TypeOK
  <1>9. /\ n.host = o.host
        /\ \A e \in Ep : e # j.ep \/ t = Ignored => n.state[e] = o.state[e] /\ n.ok[e] = o.ok[e]
        /\ t # Ignored => n.state[j.ep] = t /\ (n.ok[j.ep] <=> t \in {"Created", "Deleted"})
    BY <1>7, <1>8, TransitionFields
  <1>10. j.ev # "delete" /\ t # "Deleted"
         /\ (t = "Created" => j.ev = "created" \/ (j.ev = "create" /\ j.same))
    <2>1. j.ev # "delete"
      BY <1>1, <1>7 DEF HeldJobs, HeldJob
    <2> QED BY <1>7, <2>1, TargetOf
  <1>11. task \in Tasks /\ task.act = "create" /\ task.ep = j.ep
    BY <1>7 DEF Tasks, WorkerActions
  <1> HIDE DEF task
  <1>12. wr \in Jobs /\ wr \in HeldJobs /\ wr.op = "write" /\ wr.task = task
    BY <1>11, JobKinds DEF HeldJobs, HeldJob
  <1>13. st \in Jobs /\ st \in HeldJobs /\ st.op = "settle"
    <2>1. st \in Jobs /\ st.op = "settle"
      BY <1>7, JobKinds
    <2> QED BY <2>1, PlainHeld
  <1> HIDE DEF wr, st
  <1>14. PICK js : js = IF t = "Creating" THEN <<wr, st>> ELSE <<st>>
    OBVIOUS
  <1>15. js \in Seq(Jobs) /\ Continue(p, js) /\ js \in Seq(PlacedJobs(d))
         /\ \A i \in 1 .. Len(js) : js[i].op # "event"
    <2>1. Continue(p, js)
      BY <1>7, <1>14 DEF wr, st, task
    <2>2. wr \in PlacedJobs(d) /\ st \in PlacedJobs(d)
      BY <1>12, <1>13, PlainPlaced
    <2>3. js \in Seq(Jobs) /\ js \in Seq(PlacedJobs(d))
      BY <1>12, <1>13, <1>14, <2>2, ShortSeqs
    <2>4. \A i \in 1 .. Len(js) : js[i] = wr \/ js[i] = st
      <3>1. CASE js = <<wr, st>>
        BY <3>1
      <3>2. CASE js = <<st>>
        BY <3>2
      <3> QED BY <1>14, <3>1, <3>2
    <2> QED BY <1>12, <1>13, <2>1, <2>3, <2>4
  <1>16. ASSUME p = Api
         PROVE  /\ todo[Api] \in Seq(CallsOver(o.host)) /\ js \in Seq(CallsOver(o.host))
                /\ j \in CallsOver(o.host)
    <2>1. todo[Api] \in Seq(CallsOver(o.host))
      BY <1>0, <1>1, <1>3, <1>16, ApiCases
    <2>2. j \in CallsOver(o.host)
      BY <1>0, <1>1, <1>16, <2>1, HeadIn
    <2>3. t = "Creating" => o.host[j.ep] \in Hosts
      BY <1>1, <1>7, <2>2, TargetOf DEF CallsOver, CreateCall
    <2>4. st \in CallsOver(o.host)
      BY <1>13 DEF CallsOver, CreateCall
    <2>5. t = "Creating" => wr \in CallsOver(o.host)
      BY <1>11, <1>12, <2>3 DEF CallsOver, CreateCall
    <2> QED BY <1>14, <2>1, <2>2, <2>4, <2>5, ShortSeqs
  <1>17. ReadyData' = d
    BY <1>6, ReadyDataSame
  <1>18. ResolvingInv' /\ (FindsNothing => FindsNothing')
    BY <1>1, <1>6, <1>15, <1>16, <1>17, ResolvingKept DEF PlaceCore
  <1>19. PlacedInv'
    BY <1>1, <1>6, <1>15, <1>17, PlacedCall DEF PlaceCore
  <1>20. \A e \in Ep : Answered(e)' => Answered(e)
    BY <1>1, <1>15, AnsweredLess
  <1>21. Unused => Unused'
    BY <1>1, <1>15, UnusedKept DEF Continue
  <1>22. \A e \in Ep : o.ok[e] => o.state[e] = "Created"
    BY <1>2, <1>3 DEF PlaceCore, CachedInv, DeployedInv
  <1>23. \A e \in Ep : n.ok[e] => n.state[e] = "Created"
    BY <1>9, <1>10, <1>22
  <1>24. ASSUME NEW e \in Ep, n.state[e] = "Created"
         PROVE  \/ o.state[e] = "Created" \/ Answered(e)
                \/ e = 1 /\ o.host[0] = o.host[1] /\ o.host[e] \in Hosts
    <2>1. CASE e # j.ep \/ t = Ignored
      BY <1>9, <1>24, <2>1
    <2>2. CASE e = j.ep /\ t # Ignored
      <3>1. t = "Created"
        BY <1>9, <1>24, <2>2
      <3>2. CASE p = Api
        <4>1. /\ j.ev \in {"create", "resolutionFailed"} /\ (j.ev = "create" => o.host[j.ep] \in Hosts)
              /\ (j.same => j.ep = 1 /\ o.host[0] = o.host[1])
          BY <1>1, <1>16, <3>2 DEF CallsOver, CreateCall
        <4> QED BY <1>10, <2>2, <3>1, <4>1
      <3>3. CASE p \in Workers
        <4>1. j.ev \in Answers
          BY <1>0, <1>1, <3>3, HeadAllowed DEF AllowedAt, WorkerJob
        <4>2. j.ev = "created"
          BY <1>10, <3>1, <4>1 DEF Answers
        <4>3. j \in JobsOf(p)
          <5>1. todo[p] \in Seq(Jobs)
            BY <1>1
          <5>2. 1 \in DOMAIN todo[p] /\ todo[p][1] = j
            BY <1>0, <1>1, <5>1
          <5> QED BY <5>2 DEF JobsOf
        <4> QED BY <1>1, <2>2, <3>3, <4>2, <4>3 DEF Answered
      <3> QED BY <1>1, <3>2, <3>3
    <2> QED BY <2>1, <2>2
  <1>25. CachedInv'
    BY <1>1, <1>2, <1>3, <1>5, <1>6, <1>9, <1>17, <1>18, <1>20, <1>21, <1>23, <1>24, CachedKept DEF PlaceCore
  <1> QED BY <1>18, <1>19, <1>25 DEF PlaceCore

\* Before a WireDelete the cached wire is the first one.
LEMMA FirstWire ==
    ASSUME IInv, ~asked, cached # NoWire
    PROVE  cached = 1
  BY DEF IInv, TypeOK, UnaskedInv, NoWire

\* A task reaches the channel of a worker on the endpoint's host.
LEMMA PlaceAppend ==
    ASSUME IInv, ApiInv, PlaceCore, ~asked, UNCHANGED <<pod, daemon, topology, deployed>>,
           todo[Api] # <<>>, NEW j, j = Head(todo[Api]), j.op \in {"write", "send"},
           NEW t, t = j.task, NEW k \in Workers, k[1] = ReadyData[t.ep],
           queue' = [queue EXCEPT ![k] = Append(@, t)], Continue(Api, <<>>), UNCHANGED <<wires, cached>>
    PROVE  PlaceCore'
  <1>1. PICK o : o = wires[cached]
    OBVIOUS
  <1>2. PICK d : d = ReadyData
    OBVIOUS
  <1>3. /\ todo[Api] \in Seq(CallsOver(o.host)) /\ t \in Tasks /\ t.ep \in Ep /\ cached # NoWire
        /\ o.host[t.ep] \in Hosts /\ TypeOK /\ Api \in Procs /\ Api \notin Workers
        /\ queue \in [Workers -> Seq(Tasks)] /\ todo \in [Procs -> Seq(Jobs)]
    BY <1>1, StableTask, ProcsDisjoint DEF IInv, TypeOK
  <1>4. ReadyData' = d
    BY <1>2, ReadyDataSame
  <1>5. <<>> \in Seq(Jobs) /\ <<>> \in Seq(CallsOver(o.host)) /\ \A i \in 1 .. Len(<<>>) : <<>>[i].op # "event"
    BY ShortSeqs
  <1>6. ResolvingInv' /\ (FindsNothing => FindsNothing')
    BY <1>2, <1>3, <1>4, <1>5, ResolvingKept DEF PlaceCore
  <1>7. PlacedInv'
    <2>1. todo[Api] \in Seq(PlacedJobs(d)) /\ \A x \in Workers : queue[x] \in Seq(PlacedTasks(x, d))
      BY <1>2 DEF PlaceCore, PlacedInv
    <2>2. todo'[Api] = <<>> \o Tail(todo[Api])
      BY <1>3 DEF Continue
    <2>3. todo'[Api] \in Seq(PlacedJobs(d))
      BY <2>1, <2>2, ContinueSeq, ShortSeqs
    <2>4. t \in PlacedTasks(k, d)
      <3>1. t.w = 1
        BY StableTask, FirstWire
      <3> QED BY <1>2, <1>3, <3>1 DEF PlacedTasks
    <2>5. Append(queue[k], t) \in Seq(PlacedTasks(k, d))
      BY <2>1, <2>4
    <2>6. \A x \in Workers : queue'[x] \in Seq(PlacedTasks(x, d))
      BY <1>3, <2>1, <2>5
    <2> QED BY <1>4, <2>3, <2>6 DEF PlacedInv
  <1>8. \A e \in Ep : Answered(e)' => Answered(e)
    BY <1>3, <1>5, AnsweredLess
  <1>9. ~NoHosts(o.host)
    BY <1>3 DEF NoHosts
  <1>10. \A e \in Ep : o.ok[e] => o.state[e] = "Created"
    BY <1>1, <1>3 DEF PlaceCore, CachedInv, DeployedInv
  <1>11. CachedInv'
    <2>1. o = wires'[cached]
      BY <1>1
    <2> QED BY <1>1, <1>2, <1>3, <1>4, <1>6, <1>8, <1>9, <1>10, <2>1, CachedKept DEF PlaceCore
  <1> QED BY <1>6, <1>7, <1>11 DEF PlaceCore

\* The write of a daemon call: what it is written for is where the caches place it.
LEMMA PlaceWrite ==
    ASSUME IInv, HeldInv, ApiInv, PlaceCore, ~asked, UNCHANGED <<pod, daemon, topology>>,
           WriteEvent(Api) \/ Send(Api)
    PROVE  PlaceCore'
  <1> USE DEF wireVars
  <1>1. PICK j : j = Head(todo[Api])
    OBVIOUS
  <1>2. PICK t : t = j.task
    OBVIOUS
  <1>3. todo[Api] # <<>> /\ j.op \in {"write", "send"} /\ cached' = cached /\ deployed' = deployed
    <2>1. CASE WriteEvent(Api)
      BY <1>1, <2>1 DEF WriteEvent, At
    <2>2. CASE Send(Api)
      BY <1>1, <2>2 DEF Send, At
    <2> QED BY <2>1, <2>2
  <1>4. PICK o : o = wires[cached]
    OBVIOUS
  <1>5. /\ todo[Api] \in Seq(CallsOver(o.host)) /\ j \in CallsOver(o.host)
        /\ t \in Tasks /\ t.ep \in Ep /\ t.w = cached /\ cached # NoWire
        /\ t.act = "create" /\ o.host[t.ep] \in Hosts
    BY <1>1, <1>2, <1>3, <1>4, StableTask
  <1>6. PICK d : d = ReadyData
    OBVIOUS
  <1>7. ReadyData' = d
    BY <1>6, ReadyDataSame
  <1>8. PICK h : h = o.host[t.ep]
    OBVIOUS
  <1>9. PICK k : k = <<h, WorkerOf(h)>>
    OBVIOUS
  <1>10. h # NoHost /\ (WorkerOf(h) # 0 => k \in Workers) /\ TypeOK /\ Api \in Procs
        /\ cached \in 1 .. Len(wires) /\ o \in WireObjects /\ wires \in Seq(WireObjects)
        /\ todo[Api] \in Seq(PlacedJobs(d)) /\ Api \notin Workers
    <2>1. TypeOK /\ Api \in Procs /\ Api \notin Workers
      BY ProcsDisjoint DEF IInv
    <2>2. h # NoHost
      BY <1>5, <1>8, ConstantsAssumption
    <2>3. todo[Api] \in Seq(PlacedJobs(d))
      BY <1>6 DEF PlaceCore, PlacedInv
    <2> QED BY <1>4, <1>5, <1>9, <2>1, <2>2, <2>3, WorkerOfType, OnlyWire DEF TypeOK
  <1>11. o.host = d
    <2>1. ~NoHosts(o.host)
      BY <1>5 DEF NoHosts
    <2> QED BY <1>4, <1>5, <1>6, <2>1 DEF PlaceCore, CachedInv, ResolvedInv
  <1>12. k[1] = d[t.ep]
    BY <1>8, <1>9, <1>11
  <1>13. CASE Send(Api)
    <2>1. j.op = "send" /\ j \in Jobs
      BY <1>1, <1>5, <1>13 DEF Send, At, CallsOver, HeldJobs
    <2>2. j.worker \in Workers
      BY <2>1, JobFields
    <2>3. queue' = [queue EXCEPT ![j.worker] = Append(@, t)] /\ Continue(Api, <<>>) /\ wires' = wires
      BY <1>1, <1>2, <1>13 DEF Send
    <2>4. j \in PlacedJobs(d)
      BY <1>1, <1>3, <1>10, HeadIn
    <2>5. j.worker[1] = d[t.ep]
      BY <1>2, <2>1, <2>4 DEF PlacedJobs
    <2> QED BY <1>1, <1>2, <1>3, <1>6, <2>2, <2>3, <2>5, PlaceAppend
  <1>14. CASE WriteEvent(Api)
    <2>1. \/ h = NoHost
          \/ /\ wires' = [wires EXCEPT ![t.w] =
                            Transition(@, t.ep, Target(@.state[t.ep], "failed", FALSE))]
             /\ Continue(Api, <<>>) /\ UNCHANGED queue
          \/ /\ WorkerOf(h) # 0 /\ queue' = [queue EXCEPT ![k] = Append(@, t)]
             /\ Continue(Api, <<>>) /\ UNCHANGED wires
          \/ /\ WorkerOf(h) # 0 /\ Continue(Api, <<[op |-> "send", worker |-> k, task |-> t]>>)
             /\ UNCHANGED <<wires, queue>>
      <3>1. t = Head(todo[Api]).task /\ h = wires[t.w].host[t.ep]
        BY <1>1, <1>2, <1>4, <1>5, <1>8
      <3> QED BY <1>9, <1>14, <3>1, Zenon DEF WriteEvent
    <2>2. CASE /\ WorkerOf(h) # 0 /\ queue' = [queue EXCEPT ![k] = Append(@, t)]
               /\ Continue(Api, <<>>) /\ UNCHANGED wires
      BY <1>1, <1>2, <1>3, <1>6, <1>10, <1>12, <2>2, PlaceAppend
    <2>3. CASE /\ WorkerOf(h) # 0 /\ Continue(Api, <<[op |-> "send", worker |-> k, task |-> t]>>)
               /\ UNCHANGED <<wires, queue>>
      <3> DEFINE s == [op |-> "send", worker |-> k, task |-> t]
      <3>1. s \in Jobs /\ s.op = "send" /\ s.task = t /\ s.worker = k
        BY <1>5, <1>10, <2>3, JobKinds
      <3> HIDE DEF s
      <3>2. s \in CallsOver(o.host) /\ s \in PlacedJobs(d)
        BY <1>5, <1>12, <3>1 DEF CallsOver, CreateCall, HeldJobs, HeldJob, PlacedJobs
      <3>3. <<s>> \in Seq(Jobs) /\ <<s>> \in Seq(CallsOver(o.host)) /\ <<s>> \in Seq(PlacedJobs(d))
        BY <3>1, <3>2, ShortSeqs
      <3>4. Continue(Api, <<s>>)
        BY <2>3 DEF s
      <3>5. ResolvingInv' /\ (FindsNothing => FindsNothing')
        BY <1>3, <1>5, <1>6, <1>7, <1>10, <3>3, <3>4, ResolvingKept DEF PlaceCore
      <3>6. PlacedInv'
        BY <1>3, <1>6, <1>7, <1>10, <2>3, <3>3, <3>4, PlacedCall DEF PlaceCore
      <3>7. \A e \in Ep : Answered(e)' => Answered(e)
        BY <1>3, <1>10, <3>3, <3>4, AnsweredLess
      <3>8. Unused => Unused'
        BY <1>3, <1>10, <2>3, <3>4, UnusedKept DEF Continue
      <3>9. \A e \in Ep : o.ok[e] => o.state[e] = "Created"
        BY <1>4, <1>5 DEF PlaceCore, CachedInv, DeployedInv
      <3>10. CachedInv'
        <4>1. o = wires'[cached]
          BY <1>4, <2>3
        <4> QED BY <1>3, <1>4, <1>5, <1>6, <1>7, <3>5, <3>7, <3>8, <3>9, <4>1, CachedKept DEF PlaceCore
      <3> QED BY <3>5, <3>6, <3>10 DEF PlaceCore
    <2>4. CASE /\ wires' = [wires EXCEPT ![t.w] =
                              Transition(@, t.ep, Target(@.state[t.ep], "failed", FALSE))]
               /\ Continue(Api, <<>>) /\ UNCHANGED queue
      <3>1. PICK tg : tg = Target(o.state[t.ep], "failed", FALSE)
        OBVIOUS
      <3>2. PICK n : n = wires'[cached]
        OBVIOUS
      <3>3. n = Transition(o, t.ep, tg)
        <4>1. wires' = [wires EXCEPT ![cached] = Transition(o, t.ep, tg)]
          BY <1>4, <1>5, <1>8, <2>4, <3>1, Zenon
        <4> QED BY <1>10, <3>2, <4>1
      <3>4. o.state[t.ep] \in EpStates
        BY <1>5, <1>10 DEF WireObjects
      <3>5. tg \in EpStates \cup {Ignored} /\ tg # "Created" /\ (o.state[t.ep] # "Deleting" => tg # "Deleted")
        BY <3>1, <3>4, TargetType, TargetOf
      <3>6. /\ n.host = o.host
            /\ \A e \in Ep : e # t.ep \/ tg = Ignored => n.state[e] = o.state[e] /\ n.ok[e] = o.ok[e]
            /\ tg # Ignored => n.state[t.ep] = tg /\ (n.ok[t.ep] <=> tg \in {"Created", "Deleted"})
        BY <1>5, <1>10, <3>3, <3>5, TransitionFields
      <3>7. \A e \in Ep : o.ok[e] => o.state[e] = "Created"
        BY <1>4, <1>5 DEF PlaceCore, CachedInv, DeployedInv
      <3>8. \A e \in Ep : n.ok[e] => n.state[e] = "Created"
        <4>1. o.state[t.ep] # "Deleting"
          BY <1>4, <1>5, <1>10 DEF HeldInv
        <4> QED BY <1>5, <3>5, <3>6, <3>7, <4>1
      <3>9. \A e \in Ep : n.state[e] = "Created" => o.state[e] = "Created"
        BY <1>5, <3>5, <3>6
      <3>10. /\ <<>> \in Seq(Jobs) /\ <<>> \in Seq(CallsOver(o.host)) /\ <<>> \in Seq(PlacedJobs(d))
             /\ \A i \in 1 .. Len(<<>>) : <<>>[i].op # "event"
        BY ShortSeqs
      <3>11. ResolvingInv' /\ (FindsNothing => FindsNothing')
        BY <1>3, <1>5, <1>6, <1>7, <1>10, <2>4, <3>10, ResolvingKept DEF PlaceCore
      <3>12. PlacedInv'
        BY <1>3, <1>6, <1>7, <1>10, <2>4, <3>10, PlacedCall DEF PlaceCore
      <3>13. \A e \in Ep : Answered(e)' => Answered(e)
        BY <1>3, <1>10, <2>4, <3>10, AnsweredLess
      <3>14. Unused => Unused'
        BY <1>3, <1>10, <2>4, UnusedKept DEF Continue
      <3>15. CachedInv'
        BY <1>3, <1>4, <1>5, <1>6, <1>7, <3>2, <3>6, <3>8, <3>9, <3>11, <3>13, <3>14, CachedKept DEF PlaceCore
      <3> QED BY <3>11, <3>12, <3>15 DEF PlaceCore
    <2> QED BY <1>10, <2>1, <2>2, <2>3, <2>4
  <1> QED BY <1>13, <1>14

\* A worker's turn: the answer comes with the deployment, unless the wire has lost the host.
LEMMA PlaceTurn ==
    ASSUME IInv, HeldInv, PlaceCore, ~asked, UNCHANGED <<pod, daemon, topology>>,
           NEW k \in Workers, WorkerTurn(k)
    PROVE  PlaceCore'
  <1> USE DEF wireVars
  <1>1. PICK t : t = Head(queue[k])
    OBVIOUS
  <1>2. PICK d : d = ReadyData
    OBVIOUS
  <1>3. PICK o : o = wires[cached]
    OBVIOUS
  <1>4. /\ queue[k] # <<>> /\ todo[k] = <<>> /\ queue' = [queue EXCEPT ![k] = Tail(@)]
        /\ UNCHANGED <<wires, cached>> /\ k \in Procs /\ Api \in Procs /\ k # Api
    BY ProcsDisjoint DEF WorkerTurn, Receives
  <1>5. /\ queue \in [Workers -> Seq(Tasks)] /\ todo \in [Procs -> Seq(Jobs)]
        /\ \A x \in Workers : queue[x] \in Seq(PlacedTasks(x, d))
        /\ queue[k] \in Seq(CreateTasks) /\ todo[Api] \in Seq(PlacedJobs(d))
    BY <1>2 DEF IInv, TypeOK, HeldInv, PlaceCore, PlacedInv
  <1>6. t \in CreateTasks /\ t \in PlacedTasks(k, d) /\ Tail(queue[k]) \in Seq(PlacedTasks(k, d))
    BY <1>1, <1>4, <1>5
  <1>7. t.act = "create" /\ t.ep \in Ep /\ k[1] = d[t.ep] /\ t.w = 1
    BY <1>6 DEF CreateTasks, PlacedTasks, Tasks
  <1>8. cached # NoWire /\ cached = 1
    <2>1. ~Unused
      BY <1>4 DEF Unused
    <2> QED BY <2>1, FirstWire DEF PlaceCore, CachedInv
  <1>9. ReadyData' = d
    BY <1>2, ReadyDataSame
  <1>10. Effect(k[1], "create") = deployed \cup {k[1]}
    BY DEF Effect
  <1>11. deployed \subseteq deployed'
    BY <1>1, <1>7, <1>10 DEF WorkerTurn, Outcomes
  <1>12. PICK ev \in {"created", "failed"} :
            /\ todo' = [todo EXCEPT ![k] = <<Event(ev, t.ep, FALSE, FALSE)>>]
            /\ ev = "created" => deployed' \in Outcomes(k[1], t)
    BY <1>1, <1>7 DEF WorkerTurn, Answer
  <1>13. ev = "created" /\ o.host = d => d[t.ep] \in deployed'
    BY <1>3, <1>7, <1>8, <1>10, <1>12 DEF Outcomes
  <1>14. PICK a : a = Event(ev, t.ep, FALSE, FALSE)
    OBVIOUS
  <1>15. a.op = "event" /\ a.ev = ev /\ a.ep = t.ep
    BY <1>14 DEF Event
  <1>16. todo'[k] = <<a>> /\ todo'[Api] = todo[Api] /\ \A q \in Procs : q # k => todo'[q] = todo[q]
    BY <1>4, <1>5, <1>12, <1>14
  <1>17. \A e \in Ep : Answered(e)' => Answered(e) \/ d[e] \in deployed' \/ o.host # d
    <2> SUFFICES ASSUME NEW e \in Ep, NEW x \in Workers, NEW j \in JobsOf(x)',
                        j.op = "event", j.ep = e, j.ev = "created"
                 PROVE  Answered(e) \/ d[e] \in deployed' \/ o.host # d
      BY DEF Answered
    <2>1. CASE x # k
      <3>1. j \in JobsOf(x)
        BY <1>16, <2>1, ProcsDisjoint DEF JobsOf
      <3> QED BY <3>1 DEF Answered
    <2>2. CASE x = k
      <3>1. j = a
        BY <1>16, <2>2 DEF JobsOf
      <3> QED BY <1>13, <1>15, <3>1
    <2> QED BY <2>1, <2>2
  <1>18. PlacedInv'
    <2>1. \A x \in Workers : queue'[x] \in Seq(PlacedTasks(x, d))
      BY <1>4, <1>5, <1>6
    <2> QED BY <1>5, <1>9, <1>16, <2>1 DEF PlacedInv
  <1>19. ResolvingInv' /\ (FindsNothing => FindsNothing')
    BY <1>2, <1>9, <1>16 DEF PlaceCore, ResolvingInv, FindsNothing, At
  <1>20. \A e \in Ep : o.ok[e] => o.state[e] = "Created"
    BY <1>3, <1>8 DEF PlaceCore, CachedInv, DeployedInv
  <1>21. ~Unused
    BY <1>4 DEF Unused
  <1>22. CachedInv'
    <2>1. o = wires'[cached]
      BY <1>3, <1>4
    <2> QED BY <1>2, <1>3, <1>4, <1>8, <1>9, <1>11, <1>17, <1>19, <1>20, <1>21, <2>1, CachedKept DEF PlaceCore
  <1> QED BY <1>18, <1>19, <1>22 DEF PlaceCore

\* WireUpSert starts.
LEMMA PlaceStart ==
    ASSUME IInv, PlaceCore, WireUpSert
    PROVE  PlaceCore'
  <1> USE DEF wireVars, workerVars, cacheVars
  <1> DEFINE x == IF cached = NoWire THEN [op |-> "claim"] ELSE [op |-> "setDesired", to |-> "create"]
             wc == [op |-> "wireCreate", origin |-> "api"]
  <1>1. /\ todo[Api] = <<>> /\ UNCHANGED <<pod, daemon, topology, wires, cached, queue, deployed>>
        /\ todo \in [Procs -> Seq(Jobs)] /\ Api \in Procs /\ Api \notin Workers /\ Workers \subseteq Procs
        /\ todo' = [todo EXCEPT ![Api] = <<x, wc>>]
    BY ProcsDisjoint DEF WireUpSert, IInv, TypeOK
  <1>2. x \in Jobs /\ x.op \in {"claim", "setDesired"} /\ wc \in Jobs /\ wc.op = "wireCreate"
    BY JobKinds
  <1> HIDE DEF x, wc
  <1>3. todo'[Api] = <<x, wc>> /\ \A k \in Workers : todo'[k] = todo[k]
    BY <1>1
  <1>4. ReadyData' = ReadyData
    BY <1>1, ReadyDataSame
  <1>5. ~At(Api, "resolve")'
    BY <1>2, <1>3 DEF At
  <1>6. ResolvingInv' /\ FindsNothing'
    BY <1>5 DEF ResolvingInv, FindsNothing
  <1>7. PlacedInv'
    <2>1. x \in PlacedJobs(ReadyData) /\ wc \in PlacedJobs(ReadyData)
      BY <1>2, PlainPlaced
    <2>2. <<x, wc>> \in Seq(PlacedJobs(ReadyData))
      BY <2>1, ShortSeqs
    <2> QED BY <1>1, <1>3, <1>4, <2>2 DEF PlaceCore, PlacedInv
  <1>8. (Unused => Unused') /\ \A e \in Ep : Answered(e)' => Answered(e)
    BY <1>1, <1>3 DEF Unused, Answered, JobsOf
  <1>9. CASE cached = NoWire
    BY <1>1, <1>6, <1>7, <1>8, <1>9 DEF PlaceCore, CachedInv
  <1>10. CASE cached # NoWire
    <2>1. PICK o : o = wires[cached]
      OBVIOUS
    <2>2. \A e \in Ep : o.ok[e] => o.state[e] = "Created"
      BY <1>10, <2>1 DEF PlaceCore, CachedInv, DeployedInv
    <2>3. o = wires'[cached]
      BY <1>1, <2>1
    <2>4. CachedInv'
      BY <1>1, <1>4, <1>6, <1>8, <1>10, <2>1, <2>2, <2>3, CachedKept DEF PlaceCore
    <2> QED BY <1>6, <1>7, <2>4 DEF PlaceCore
  <1> QED BY <1>9, <1>10

\* The first change of the topology: whatever is resolved stays resolved as it is until the
\* next WireUpSert, which finds no host.
LEMMA PlaceTopology ==
    ASSUME PlaceCore, topology = "ready", topology' # "ready",
           UNCHANGED <<pod, daemon, queue, wires, cached, deployed, todo>>
    PROVE  PlaceCore'
  <1>1. ReadyData' = ReadyData
    BY ReadyDataSame
  <1>2. ResolvingInv'
    BY <1>1 DEF PlaceCore, ResolvingInv, At
  <1>3. PlacedInv'
    BY <1>1 DEF PlaceCore, PlacedInv
  <1>4. (Unused' <=> Unused) /\ \A e \in Ep : Answered(e)' <=> Answered(e)
    BY DEF Unused, Answered, JobsOf
  <1>5. CASE cached = NoWire
    BY <1>2, <1>3, <1>4, <1>5 DEF PlaceCore, CachedInv
  <1>6. CASE cached # NoWire
    <2>1. PICK o : o = wires[cached]
      OBVIOUS
    <2>2. ResolvedInv(o) /\ DeployedInv(o)
      BY <1>6, <2>1 DEF PlaceCore, CachedInv
    <2>3. ResolvedInv(o)'
      BY <1>1, <1>4, <2>2 DEF ResolvedInv
    <2>4. DeployedInv(o)'
      BY <1>1, <1>4, <2>2 DEF DeployedInv
    <2>5. CachedInv'
      BY <1>6, <2>1, <2>3, <2>4 DEF CachedInv
    <2> QED BY <1>2, <1>3, <2>5 DEF PlaceCore
  <1> QED BY <1>5, <1>6

\* Before a WireDelete, WireUpSert does its own calls and a worker reports and settles.
LEMMA PlaceStep ==
    ASSUME IInv, HeldInv, ApiInv, PlaceCore, ~asked, UNCHANGED <<pod, daemon, topology>>,
           NEW p \in {Api} \cup Workers, Step(p)
    PROVE  PlaceCore'
  <1>1. p \in Procs
    BY ProcsDisjoint
  <1>2. \/ HandleEvent(p) \/ Settle(p)
        \/ p = Api /\ \/ Claim(Api) \/ Insert(Api) \/ SetDesiredAction(Api)
                      \/ ResolveForCreate(Api) \/ Resolve(Api) \/ WriteEvent(Api) \/ Send(Api)
    BY StepKinds
  <1> QED BY <1>1, <1>2, PlaceEvent, PlaceSettle, PlaceUpSert, PlaceWrite

\* With pods and daemons that stay and a topology that changes at most once, every step
\* keeps the endpoints where the caches place them.
LEMMA NextPlace ==
    ASSUME Steady \/ used'["env"] = 0, IInv, HeldInv, StableInv, PlaceInv, WireStep
    PROVE  PlaceInv'
  <1> USE DEF cacheVars
  <1>0. /\ removing = <<>> /\ \A q \in Callbacks : todo[q] = <<>>
        /\ used \in [{"api", "env", "fail"} -> Nat] /\ TypeOK
    BY DEF PlaceInv, StableInv, IInv, TypeOK
  <1>1. ASSUME removing' = removing, used'["env"] \in Nat, used'["env"] >= used["env"],
               topology' = topology, ~asked' => ~asked,
               ~asked /\ ~asked' /\ PlaceCore => PlaceCore'
        PROVE  PlaceInv'
    <2>1. used["env"] \in Nat
      BY <1>0
    <2> QED BY <1>1, <2>1 DEF PlaceInv, PlaceCore
  <1>2. CASE (WireUpSert \/ WireDelete) /\ Charged
    <2>1. removing' = removing /\ topology' = topology /\ used'["env"] >= used["env"]
          /\ used'["env"] \in Nat /\ (~asked' => ~asked /\ WireUpSert)
      BY <1>0, <1>2 DEF Charged, UsedOK, WireUpSert, WireDelete
    <2> QED BY <1>1, <2>1, PlaceStart
  <1>3. ASSUME NEW p \in Procs, Step(p)
        PROVE  PlaceInv'
    <2>1. todo[p] # <<>>
      BY <1>0, <1>3, StepAlone
    <2>2. p \in {Api} \cup Workers
      BY <1>0, <2>1 DEF Procs
    <2>3. UNCHANGED <<pod, daemon, topology, removing, asked>>
      BY <1>3 DEF Step, Claim, Insert, SetDesiredAction, ResolveForCreate, ResolveForDelete, Resolve,
           UnResolve, HandleEvent, WriteEvent, Send, Settle, Forget, Reconcile, StartWorker
    <2>4. used' = used \/ Spend("fail")
      BY <1>3 DEF Step, Claim, Insert, SetDesiredAction, ResolveForCreate, ResolveForDelete, Resolve,
           UnResolve, HandleEvent, WriteEvent, Send, Settle, Forget, Reconcile, StartWorker
    <2>5. used'["env"] \in Nat /\ used'["env"] >= used["env"]
      BY <1>0, <2>4 DEF Spend
    <2> QED BY <1>1, <1>3, <2>2, <2>3, <2>5, PlaceStep DEF StableInv
  <1>4. ASSUME NEW k \in Workers, WorkerTurn(k)
        PROVE  PlaceInv'
    <2>1. UNCHANGED <<pod, daemon, topology, removing, asked>> /\ (used' = used \/ Spend("fail"))
      BY <1>4 DEF WorkerTurn
    <2>2. used'["env"] \in Nat /\ used'["env"] >= used["env"]
      BY <1>0, <2>1 DEF Spend
    <2> QED BY <1>1, <1>4, <2>1, <2>2, PlaceTurn
  <1>5. CASE CallbackDone
    BY <1>0, <1>5 DEF CallbackDone
  <1>6. CASE Environment
    <2>0. Steady
      BY <1>0, <1>6, EnvironmentCounts
    <2>1. PICK v : TopologyChange(v)
      BY <1>6, <2>0 DEF Environment, Steady, EnvStep, PodUpsert, PodDelete, DaemonUpsert, DaemonDelete, NodeUpsert,
           NodeDelete
    <2>2. UNCHANGED <<pod, daemon, removing, asked, queue, wires, cached, deployed, todo>>
          /\ used'["env"] = used["env"] + 1 /\ topology' # topology
      BY <1>0, <2>1 DEF TopologyChange, Spend, wireVars, workerVars
    <2>3. ASSUME ~asked', used'["env"] <= 1
          PROVE  used["env"] = 0 /\ topology = "ready" /\ topology' # "ready" /\ PlaceCore
      BY <1>0, <2>2, <2>3 DEF PlaceInv, PlaceCore
    <2>4. ~asked' /\ used'["env"] <= 1 => PlaceCore' /\ used'["env"] = 1
      BY <1>0, <2>2, <2>3, PlaceTopology
    <2> QED BY <1>0, <2>2, <2>4 DEF PlaceInv, PlaceCore
  <1>7. CASE UNCHANGED wireState /\ Charged
    <2>1. UNCHANGED <<pod, daemon, topology, removing, asked, queue, wires, cached, deployed, todo>>
          /\ used'["env"] \in Nat /\ used'["env"] >= used["env"]
      BY <1>7 DEF wireState, Charged, UsedOK
    <2>2. ReadyData' = ReadyData
      BY <2>1, ReadyDataSame
    <2>3. PlaceCore => PlaceCore'
      BY <2>1, <2>2 DEF PlaceCore, ResolvingInv, PlacedInv, CachedInv, ResolvedInv, DeployedInv, FindsNothing, At, Unused, Answered, JobsOf
    <2> QED BY <1>1, <2>1, <2>3
  <1> QED BY <1>2, <1>3, <1>4, <1>5, <1>6, <1>7 DEF WireStep, System

\* Initially nothing is placed anywhere.
LEMMA InitPlace == Init => HeldInv /\ StableInv /\ PlaceInv
  <1>1. Init => HeldInv
    BY DEF Init, HeldInv
  <1>2. Init => StableInv
    BY ProcsDisjoint DEF Init, StableInv, ApiInv, UnderwayInv
  <1>3. Init => PlaceInv
    <2> SUFFICES ASSUME Init PROVE PlaceInv
      OBVIOUS
    <2>1. Unused
      BY ProcsDisjoint DEF Init, Unused
    <2>2. PlacedInv
      BY ProcsDisjoint DEF Init, PlacedInv
    <2> QED BY <2>1, <2>2, ProcsDisjoint DEF Init, PlaceInv, ResolvingInv, CachedInv, At
  <1> QED BY <1>1, <1>2, <1>3

\* A wire whose endpoints are OK was answered so by the daemons of their hosts.
LEMMA DeployedFollows ==
    ASSUME PlaceInv, used["env"] <= 1
    PROVE  ReportedIsDeployed
  <1> SUFFICES ASSUME cached # NoWire, ~asked, StatusOK(wires[cached]),
                      NEW e \in Ep, wires[cached].host[e] \in Hosts
               PROVE  wires[cached].host[e] \in deployed
    BY DEF ReportedIsDeployed
  <1>1. PICK o : o = wires[cached]
    OBVIOUS
  <1>2. PICK d : d = ReadyData
    OBVIOUS
  <1>3. ResolvedInv(o) /\ DeployedInv(o)
    BY <1>1 DEF PlaceInv, CachedInv
  <1>4. o.host = d
    BY <1>1, <1>2, <1>3 DEF ResolvedInv, NoHosts
  <1>5. \A x \in Ep : o.state[x] = "Created"
    BY <1>1, <1>3 DEF DeployedInv, StatusOK
  <1>6. \A x \in Ep : d[x] \in Hosts => d[x] \in deployed \/ (x = 1 /\ d[0] = d[1])
    BY <1>2, <1>3, <1>4, <1>5 DEF DeployedInv
  <1>7. 0 \in Ep
    BY DEF Ep
  <1> QED BY <1>1, <1>4, <1>6, <1>7

\* The wire reconciler relies on the status: before a WireDelete, with pods and daemons that
\* stay and a topology that changed at most once, a wire whose status is OK is carried by
\* the daemon of every host its endpoints are on.
THEOREM ReportedAreDeployed ==
    ASSUME Steady
    PROVE  Spec => [](used["env"] <= 1 => ReportedIsDeployed)
  <1>1. NoDeletions
    BY DEF Steady, NoDeletions
  <1>2. IInv /\ HeldInv /\ StableInv /\ PlaceInv /\ [Next]_vars => HeldInv' /\ StableInv' /\ PlaceInv'
    BY <1>1, NextHeld, NextStable, NextPlace, NextIsWireStep
  <1>3. PlaceInv => (used["env"] <= 1 => ReportedIsDeployed)
    BY DeployedFollows
  <1> QED BY Invariance, InitPlace, <1>2, <1>3, PTL DEF Spec

----------------------------------------------------------------------------
(* The Link reconciler and the wire controller *)

\* What a step of the two does to the wire controller.
LEMMA LinkIsWireStep ==
    ASSUME IInv, [LinkNext]_allVars
    PROVE  WireStep
  <1> USE DEF cacheVars, workerVars, wireVars
  <1>0. TypeOK
    BY DEF IInv
  <1>1. used' = used => Charged
    BY <1>0 DEF Charged, UsedOK, TypeOK
  <1>2. ASSUME NEW c, MayFail(c), Spend("fail") PROVE Charged
    <2>1. UsedOK'
      BY <1>0, <1>2, SpendFail
    <2>2. used'["env"] = used["env"] /\ used["env"] \in Nat
      BY <1>0, <1>2 DEF Spend, TypeOK
    <2> QED BY <2>1, <2>2 DEF Charged
  <1>3. ASSUME used["env"] < MaxEnv, Spend("env") PROVE Charged
    BY <1>0, <1>3, ConstantsAssumption DEF Charged, UsedOK, Spend, TypeOK
  <1>4. ASSUME Charged, UNCHANGED wireState PROVE WireStep
    BY <1>4 DEF WireStep
  <1>5. CASE ReconcileGet
    <2>1. UNCHANGED wireState /\ (used' = used \/ (MayFail("call") /\ Spend("fail")))
      BY <1>5 DEF ReconcileGet, wireState
    <2> QED BY <1>1, <1>2, <1>4, <2>1
  <1>6. CASE CallWireDelete
    <2>1. used' = used /\ (WireDelete \/ UNCHANGED wireState)
      BY <1>6 DEF CallWireDelete, wireState
    <2> QED BY <1>1, <2>1 DEF WireStep
  <1>7. CASE CallWireCreate
    <2>1. used' = used /\ WireUpSert
      BY <1>7 DEF CallWireCreate
    <2> QED BY <1>1, <2>1 DEF WireStep
  <1>8. CASE RemoveFinalizer \/ Wired \/ FinalizerRefused \/ CallReturns \/ UNCHANGED allVars
    <2>1. UNCHANGED vars
      BY <1>8 DEF RemoveFinalizer, Wired, FinalizerRefused, CallReturns, allVars
    <2> QED BY <1>1, <1>4, <2>1 DEF vars, wireState
  <1>9. CASE CallFails
    <2>1. UNCHANGED wireState /\ MayFail("call") /\ Spend("fail")
      BY <1>9 DEF CallFails, wireState
    <2> QED BY <1>2, <1>4, <2>1
  <1>10. CASE DeleteLink \/ FlipReady
    <2>1. UNCHANGED wireState /\ (used' = used \/ (used["env"] < MaxEnv /\ Spend("env")))
      BY <1>10 DEF DeleteLink, FlipReady, wireState
    <2> QED BY <1>1, <1>3, <1>4, <2>1
  <1>11. CASE System \/ Environment
    BY <1>11 DEF WireStep
  <1> QED BY <1>5, <1>6, <1>7, <1>8, <1>9, <1>10, <1>11 DEF LinkNext, ReconcileStep

\* The reconciler's own variables keep their types.
LEMMA LinkTypeStep ==
    ASSUME LinkTypeOK, IInv', [LinkNext]_allVars
    PROVE  LinkTypeOK'
  <1> USE DEF LinkTypeOK, Views
  <1>1. TypeOK'
    BY DEF IInv
  <1>2. LinkView \in Views /\ WireStatus \in {"NotFound", "OK", "NOK"} /\ Stale \in BOOLEAN
    BY DEF LinkView, WireStatus, Stale
  <1>3. ASSUME NEW c \in {"Unknown", "Wiring", "Failed", "Wired"}, NEW b \in BOOLEAN, SetCondition(c, b)
        PROVE  wiring' \in {"Unknown", "Wiring", "Failed", "Wired"} /\ pending' \in BOOLEAN
    BY <1>3 DEF SetCondition
  <1>4. CASE ReconcileGet
    BY <1>1, <1>2, <1>4 DEF ReconcileGet
  <1>5. CASE CallWireDelete
    BY <1>1, <1>5 DEF CallWireDelete
  <1>6. CASE RemoveFinalizer
    <2>1. wiring' \in {"Unknown", "Wiring", "Failed", "Wired"} /\ pending' \in BOOLEAN
      BY <1>3, <1>6 DEF RemoveFinalizer
    <2> QED BY <1>1, <1>6, <2>1 DEF RemoveFinalizer
  <1>7. CASE CallWireCreate
    BY <1>1, <1>7 DEF CallWireCreate
  <1>8. CASE Wired
    <2>1. wiring' \in {"Unknown", "Wiring", "Failed", "Wired"} /\ pending' \in BOOLEAN
      BY <1>3, <1>8 DEF Wired
    <2> QED BY <1>1, <1>8, <2>1 DEF Wired
  <1>9. CASE FinalizerRefused
    BY <1>1, <1>9 DEF FinalizerRefused
  <1>10. CASE CallFails
    <2>1. wiring' \in {"Unknown", "Wiring", "Failed", "Wired"} /\ pending' \in BOOLEAN
      BY <1>3, <1>10 DEF CallFails
    <2> QED BY <1>1, <1>10, <2>1 DEF CallFails
  <1>11. CASE CallReturns
    <2>1. wiring' \in {"Unknown", "Wiring", "Failed", "Wired"} /\ pending' \in BOOLEAN
      <3>1. CASE view = "ready" /\ seen = "calling"
        BY <1>11, <3>1 DEF CallReturns
      <3>2. CASE ~(view = "ready" /\ seen = "calling")
        <4> DEFINE c == IF seen = "refused" THEN "Failed"
                        ELSE IF view = "deleting" THEN "Unknown" ELSE "Wiring"
        <4>1. SetCondition(c, TRUE) /\ c \in {"Unknown", "Wiring", "Failed", "Wired"}
          BY <1>11, <3>2 DEF CallReturns
        <4> HIDE DEF c
        <4> QED BY <1>3, <4>1
      <3> QED BY <3>1, <3>2
    <2> QED BY <1>1, <1>11, <2>1 DEF CallReturns
  <1>12. CASE Beside
    BY <1>1, <1>12 DEF Beside
  <1>13. CASE DeleteLink \/ FlipReady
    BY <1>1, <1>13 DEF DeleteLink, FlipReady
  <1>14. CASE UNCHANGED allVars
    BY <1>1, <1>14 DEF allVars, linkVars
  <1> QED BY <1>4, <1>5, <1>6, <1>7, <1>8, <1>9, <1>10, <1>11, <1>12, <1>13, <1>14 DEF LinkNext, ReconcileStep

\* The wire controller's inductive invariant holds with the reconciler as its client.
THEOREM LinkInvariance == LinkSpec => []IInv
  <1>1. LinkInit => IInv
    BY InitInv DEF LinkInit
  <1>2. IInv /\ [LinkNext]_allVars => IInv'
    BY NextInv, LinkIsWireStep
  <1> QED BY <1>1, <1>2, PTL DEF LinkSpec

\* The variables of the reconciler and of the wire controller keep their types.
THEOREM LinkTypeCorrect == LinkSpec => []LinkTypeOK
  <1>1. LinkInit => LinkTypeOK
    BY InitInv DEF LinkInit, LinkTypeOK, IInv, Views
  <1>2. LinkTypeOK /\ IInv' /\ [LinkNext]_allVars => LinkTypeOK'
    BY LinkTypeStep
  <1> QED BY LinkInvariance, <1>1, <1>2, PTL DEF LinkSpec

\* A wire that the reconciler did not ask to delete keeps its VXLAN id.
THEOREM LinkClaimIsKept == LinkSpec => []ClaimKept
  <1>1. IInv => ClaimKept
    BY DEF IInv, UnaskedInv, ClaimKept
  <1> QED BY LinkInvariance, <1>1, PTL

----------------------------------------------------------------------------
(* A wire over one host is held by the finalizer *)

DeleteCall == [op |-> "wireDelete", origin |-> "api"]

\* The only worker of a wire whose endpoints are on one host.
NearWorker == <<pod[0], WorkerOf(pod[0])>>

\* An endpoint is on its pod's host or on none.
NearHosts(d, P) == \A e \in Ep : d[e] \in {P[e], Peer, NoHost}

\* An endpoint whose status is OK ignores the answers of workers.
NearWire(o, P) ==
    NearHosts(o.host, P) /\ \A e \in Ep : o.ok[e] => o.state[e] \in {"Created", "Deleted"}

\* What WireUpSert and WireDelete have ahead of them once the caches are read, with the
\* pods P, the worker k and n Wire objects.
PlainJob(j, P, k, n) ==
    /\ j.op \in {"resolve", "event", "write", "send", "settle"}
    /\ j.op = "resolve" => NearHosts(j.data, P)
    /\ j.op = "send" => j.worker = k
    /\ j.op = "settle" => j.w = n
PlainJobs(P, k, n) == {j \in Jobs : PlainJob(j, P, k, n)}

\* The gRPC handler allocates only where there is no wire, and drops only a finished one.
ServingInv ==
    \/ todo[Api] \in {<<[op |-> "claim"], UpSertCall>>, <<[op |-> "insert"], UpSertCall>>}
       /\ cached = NoWire
    \/ todo[Api] \in {<<[op |-> "setDesired", to |-> "create"], UpSertCall>>, <<UpSertCall>>,
                      <<[op |-> "setDesired", to |-> "delete"], DeleteCall>>, <<DeleteCall>>}
    \/ todo[Api] \in Seq(PlainJobs(pod, NearWorker, Len(wires)))
    \/ /\ At(Api, "forget") /\ Tail(todo[Api]) \in Seq(PlainJobs(pod, NearWorker, Len(wires)))
       /\ cached # NoWire => Finished(wires[cached])

\* The last Wire object is the only one in use, and one worker serves it.  What this
\* worker is about to put back is cached, or will be dropped.
NearInv ==
    /\ \A i \in 1 .. Len(wires) : NearWire(wires[i], pod)
    /\ cached \in {NoWire, Len(wires)} /\ deployed \subseteq {pod[0]}
    /\ \A k \in Workers :
          /\ k # NearWorker => queue[k] = <<>> /\ todo[k] = <<>>
          /\ Len(todo[k]) <= 1
          /\ At(k, "settle") =>
                Head(todo[k]).w = cached \/ Finished(wires[Head(todo[k]).w])

\* The reconciler waits for its call, and what it calls for is under its finalizer.
FinalizerInv ==
    /\ cached # NoWire \/ todo[Api] # <<>> => finalizer
    /\ seen = "NotFound" => cached = NoWire

WaitInv == seen \notin {"calling", "refused"} => todo[Api] = <<>>

HoldInv == WaitInv /\ (Colocated => ServingInv /\ NearInv /\ FinalizerInv)

\* The cached wire exists.
LEMMA WireCached ==
    ASSUME IInv, cached # NoWire
    PROVE  cached \in 1 .. Len(wires) /\ cached \in Wires /\ wires[cached] \in WireObjects
  <1>1. wires \in Seq(WireObjects) /\ Len(wires) <= MaxWires /\ cached \in 1 .. Len(wires)
    BY DEF IInv, TypeOK, NoWire
  <1> QED BY <1>1, ConstantsAssumption DEF Wires

\* A transition keeps an endpoint where it is and its status honest; the answer of a worker
\* does nothing to a finished wire.
LEMMA NearTransition ==
    ASSUME NEW o \in WireObjects, NEW e \in Ep, NEW t \in EpStates \cup {Ignored}, NEW P, NearWire(o, P)
    PROVE  NearWire(Transition(o, e, t), P)
  <1>1. PICK n : n = Transition(o, e, t)
    OBVIOUS
  <1>2. /\ n.host = o.host
        /\ \A x \in Ep : x # e \/ t = Ignored => n.state[x] = o.state[x] /\ n.ok[x] = o.ok[x]
        /\ t # Ignored => n.state[e] = t /\ (n.ok[e] <=> t \in {"Created", "Deleted"})
    BY <1>1, TransitionFields
  <1>3. \A x \in Ep : n.ok[x] => n.state[x] \in {"Created", "Deleted"}
    BY <1>2 DEF NearWire
  <1> QED BY <1>1, <1>2, <1>3 DEF NearWire

LEMMA FinishedStays ==
    ASSUME NEW o \in WireObjects, NEW P, NearWire(o, P), Finished(o), NEW e \in Ep,
           NEW ev \in Answers, NEW same \in BOOLEAN
    PROVE  Transition(o, e, Target(o.state[e], ev, same)) = o
  <1>1. o.state[e] \in {"Created", "Deleted"}
    BY DEF NearWire, Finished, StatusOK
  <1>2. Target(o.state[e], ev, same) = Ignored
    BY <1>1 DEF Target, Answers, DeletedHandleEvent, CreatedHandleEvent, Ignored
  <1> QED BY <1>2 DEF Transition

\* What HandleEvent does to the cached wire o: it becomes n, the writes js may follow, and the
\* settlement does.
WritesFor(w) == {j \in Jobs : j.op = "write" /\ j.task.w = w}

EventEffect(p, j, o, n, js) ==
    /\ wires' = [wires EXCEPT ![cached] = n]
    /\ n.desired = o.desired /\ n.host = o.host
    /\ \A P : NearWire(o, P) => NearWire(n, P)
    /\ Continue(p, js \o <<[op |-> "settle", w |-> cached]>>)
    /\ j.ev # "resolutionFailed" =>
          /\ n = Transition(o, j.ep, Target(o.state[j.ep], j.ev, j.same))
          /\ js = Generated(cached, j.ep, Target(o.state[j.ep], j.ev, j.same))
    /\ p \in Workers => js = <<>>

LEMMA EventCases ==
    ASSUME IInv, NEW p \in Procs, HandleEvent(p), cached # NoWire,
           NEW j, j = Head(todo[p]), NEW o, o = wires[cached]
    PROVE  /\ todo[p] # <<>> /\ j.op = "event" /\ j.ev \in Events /\ j.ep \in Ep /\ j.same \in BOOLEAN
           /\ p \in Workers => j.ev \in Answers
           /\ \E n \in WireObjects, js \in Seq(WritesFor(cached)) : EventEffect(p, j, o, n, js)
  <1>1. todo[p] # <<>> /\ j.op = "event"
    BY DEF HandleEvent, At
  <1>2. j \in AllowedAt(p, Len(wires), asked)
    BY <1>1, HeadAllowed
  <1>3. j.ev \in Events /\ j.ep \in Ep /\ j.same \in BOOLEAN /\ (p \in Workers => j.ev \in Answers)
    BY <1>1, <1>2, JobFields DEF AllowedAt, WorkerJob
  <1>4. cached \in Wires /\ o \in WireObjects
    BY WireCached
  <1> DEFINE t1 == OwnTarget(o, j)
             t2 == PeerTarget(o, j)
             a == Transition(o, j.ep, t1)
             n == Transition(a, 1 - j.ep, t2)
             g1 == Generated(cached, j.ep, t1)
             g2 == Generated(cached, 1 - j.ep, t2)
             st == [op |-> "settle", w |-> cached]
  <1>5. wires' = [wires EXCEPT ![cached] = n] /\ Continue(p, g1 \o g2 \o <<st>>)
    BY DEF HandleEvent
  <1>6. o.state[j.ep] \in EpStates /\ o.state[1 - j.ep] \in EpStates /\ 1 - j.ep \in Ep
    BY <1>3, <1>4 DEF WireObjects, Ep
  <1>7. t1 = Target(o.state[j.ep], j.ev, j.same) /\ t1 \in EpStates \cup {Ignored}
    BY <1>3, <1>6, TargetType DEF OwnTarget
  <1>8. t2 \in EpStates \cup {Ignored} /\ (j.ev # "resolutionFailed" => t2 = Ignored)
    BY <1>6, TargetType DEF PeerTarget, Propagates
  <1> HIDE DEF t1, t2
  <1>9. a \in WireObjects /\ a.desired = o.desired /\ a.host = o.host
        /\ \A P : NearWire(o, P) => NearWire(a, P)
    <2>1. a \in WireObjects /\ a.desired = o.desired
      BY <1>3, <1>4, <1>7, TransitionType
    <2>2. a.host = o.host
      BY <1>3, <1>4, <1>7, TransitionFields
    <2>3. \A P : NearWire(o, P) => NearWire(a, P)
      BY <1>3, <1>4, <1>7, NearTransition
    <2> QED BY <2>1, <2>2, <2>3
  <1> HIDE DEF a
  <1>10. n \in WireObjects /\ n.desired = a.desired /\ n.host = a.host
         /\ \A P : NearWire(a, P) => NearWire(n, P)
    BY <1>6, <1>8, <1>9, TransitionType, TransitionFields, NearTransition
  <1>11. t2 = Ignored => n = a /\ g2 = <<>>
    BY DEF Transition, Generated, GeneratedAction, Ignored
  <1>12. ASSUME NEW e \in Ep, NEW t PROVE Generated(cached, e, t) \in Seq(WritesFor(cached))
    <2>1. CASE Generated(cached, e, t) = <<>>
      BY <2>1
    <2>2. CASE Generated(cached, e, t) # <<>>
      <3>1. PICK task \in Tasks : /\ task.w = cached
                                  /\ Generated(cached, e, t) = <<[op |-> "write", task |-> task]>>
        BY <1>4, <2>2, GeneratedType
      <3>2. [op |-> "write", task |-> task] \in WritesFor(cached)
        BY <3>1, JobKinds DEF WritesFor
      <3> QED BY <3>1, <3>2, ShortSeqs
    <2> QED BY <2>1, <2>2
  <1>13. g1 \in Seq(WritesFor(cached)) /\ g2 \in Seq(WritesFor(cached))
    BY <1>3, <1>6, <1>12
  <1>14. p \in Workers => g1 = <<>>
    <2> SUFFICES ASSUME p \in Workers PROVE g1 = <<>>
      OBVIOUS
    <2>1. GeneratedAction(t1) = Ignored
      BY <1>3, <1>6, <1>7, AnswerGeneratesNothing
    <2> QED BY <2>1 DEF Generated
  <1>15. j.ev \in Answers => j.ev # "resolutionFailed"
    BY DEF Answers
  <1> HIDE DEF n, g1, g2, st
  <1> DEFINE js == g1 \o g2
  <1>16. js \in Seq(WritesFor(cached)) /\ (g2 = <<>> => js = g1)
    BY <1>13, ConcatEmptySeq
  <1>17. Continue(p, js \o <<st>>)
    BY <1>5
  <1>18. /\ n.desired = o.desired /\ n.host = o.host /\ \A P : NearWire(o, P) => NearWire(n, P)
    BY <1>9, <1>10
  <1>19. j.ev # "resolutionFailed" => n = a /\ js = g1
    BY <1>8, <1>11, <1>16
  <1>20. p \in Workers => js = <<>>
    BY <1>3, <1>14, <1>15, <1>19
  <1> HIDE DEF js
  <1>21. j.ev # "resolutionFailed" =>
             /\ n = Transition(o, j.ep, Target(o.state[j.ep], j.ev, j.same))
             /\ js = Generated(cached, j.ep, Target(o.state[j.ep], j.ev, j.same))
    BY <1>7, <1>19 DEF a, g1
  <1>22. EventEffect(p, j, o, n, js)
    BY <1>5, <1>17, <1>18, <1>20, <1>21 DEF EventEffect, st
  <1> QED BY <1>1, <1>3, <1>10, <1>16, <1>22

\* Where WireUpSert or WireDelete is, by its next call.
LEMMA ServingCases ==
    ASSUME ServingInv, todo[Api] # <<>>, NEW j, j = Head(todo[Api]),
           NEW S, S = PlainJobs(pod, NearWorker, Len(wires))
    PROVE  /\ j.op \in {"claim", "insert", "setDesired", "wireCreate", "wireDelete", "resolve",
                        "event", "write", "send", "settle", "forget"}
           /\ j.op \in {"claim", "insert"} => cached = NoWire /\ todo[Api] = <<j, UpSertCall>>
           /\ j.op = "setDesired" => \/ todo[Api] = <<j, UpSertCall>>
                                     \/ todo[Api] = <<j, DeleteCall>>
           /\ j.op \in {"wireCreate", "wireDelete"} => todo[Api] = <<j>>
           /\ j.op \in {"resolve", "event", "write", "send", "settle"} =>
                 todo[Api] \in Seq(S) /\ PlainJob(j, pod, NearWorker, Len(wires))
           /\ j.op \in {"resolve", "event", "write", "send", "settle", "forget"} =>
                 Tail(todo[Api]) \in Seq(S)
           /\ j.op = "forget" /\ cached # NoWire => Finished(wires[cached])
  <1> DEFINE cl == [op |-> "claim"]
             ins == [op |-> "insert"]
             sc == [op |-> "setDesired", to |-> "create"]
             sd == [op |-> "setDesired", to |-> "delete"]
  <1>1. /\ cl.op = "claim" /\ ins.op = "insert" /\ sc.op = "setDesired" /\ sd.op = "setDesired"
        /\ UpSertCall.op = "wireCreate" /\ DeleteCall.op = "wireDelete"
    BY DEF UpSertCall, DeleteCall
  <1>2. \/ todo[Api] \in {<<cl, UpSertCall>>, <<ins, UpSertCall>>} /\ cached = NoWire
        \/ todo[Api] \in {<<sc, UpSertCall>>, <<sd, DeleteCall>>}
        \/ todo[Api] \in {<<UpSertCall>>, <<DeleteCall>>}
        \/ todo[Api] \in Seq(S)
        \/ j.op = "forget" /\ Tail(todo[Api]) \in Seq(S) /\ (cached # NoWire => Finished(wires[cached]))
    BY DEF ServingInv, At
  <1> HIDE DEF cl, ins, sc, sd
  <1>3. CASE todo[Api] \in {<<cl, UpSertCall>>, <<ins, UpSertCall>>} /\ cached = NoWire
    <2>1. j \in {cl, ins} /\ todo[Api] = <<j, UpSertCall>>
      BY <1>3
    <2> QED BY <1>1, <1>3, <2>1
  <1>4. CASE todo[Api] \in {<<sc, UpSertCall>>, <<sd, DeleteCall>>}
    <2>1. j \in {sc, sd} /\ (todo[Api] = <<j, UpSertCall>> \/ todo[Api] = <<j, DeleteCall>>)
      BY <1>4
    <2> QED BY <1>1, <2>1
  <1>5. CASE todo[Api] \in {<<UpSertCall>>, <<DeleteCall>>}
    <2>1. j \in {UpSertCall, DeleteCall} /\ todo[Api] = <<j>>
      BY <1>5
    <2> QED BY <1>1, <2>1
  <1>6. CASE todo[Api] \in Seq(S)
    <2>1. j \in S /\ Tail(todo[Api]) \in Seq(S)
      BY <1>6
    <2>2. PlainJob(j, pod, NearWorker, Len(wires))
      BY <2>1 DEF PlainJobs
    <2>3. j.op \in {"resolve", "event", "write", "send", "settle"}
      BY <2>2 DEF PlainJob
    <2> QED BY <1>6, <2>1, <2>2, <2>3
  <1>7. CASE j.op = "forget" /\ Tail(todo[Api]) \in Seq(S) /\ (cached # NoWire => Finished(wires[cached]))
    BY <1>7
  <1> QED BY <1>2, <1>3, <1>4, <1>5, <1>6, <1>7

\* The worker of a wire over one host stays the same.
LEMMA NearWorkerSame ==
    ASSUME UNCHANGED <<pod, worker>>
    PROVE  NearWorker' = NearWorker
  BY DEF NearWorker, WorkerOf

\* A step that is not the handler's, and leaves the cache alone or empties it.
LEMMA ServingKept ==
    ASSUME ServingInv, UNCHANGED <<pod, worker>>, todo'[Api] = todo[Api], Len(wires') = Len(wires),
           cached' # NoWire => /\ cached' = cached
                               /\ Finished(wires[cached]) => Finished(wires'[cached])
    PROVE  ServingInv'
  <1>1. NearWorker' = NearWorker
    BY NearWorkerSame
  <1>2. PICK S : S = PlainJobs(pod, NearWorker, Len(wires))
    OBVIOUS
  <1>3. PlainJobs(pod, NearWorker, Len(wires))' = S
    BY <1>1, <1>2
  <1> QED BY <1>2, <1>3 DEF ServingInv, At

\* A step of the handler among the calls after the resolution.
LEMMA PlainContinue ==
    ASSUME TypeOK, UNCHANGED <<pod, worker>>, Len(wires') = Len(wires),
           NEW S, S = PlainJobs(pod, NearWorker, Len(wires)),
           NEW js \in Seq(S), Tail(todo[Api]) \in Seq(S), Continue(Api, js)
    PROVE  ServingInv'
  <1>1. todo'[Api] = js \o Tail(todo[Api])
    BY ProcsDisjoint DEF Continue, TypeOK
  <1>2. todo'[Api] \in Seq(S)
    BY <1>1
  <1>3. PlainJobs(pod, NearWorker, Len(wires))' = S
    BY NearWorkerSame
  <1> QED BY <1>2, <1>3 DEF ServingInv

\* A step of the handler: the workers' calls are the same.
LEMMA NearKept ==
    ASSUME IInv, NearInv, UNCHANGED <<pod, worker, deployed>>,
           \A q \in Procs : q # Api => todo'[q] = todo[q],
           \A k \in Workers : k # NearWorker => queue'[k] = queue[k],
           \A i \in 1 .. Len(wires') : NearWire(wires'[i], pod),
           cached' \in {NoWire, Len(wires')},
           \A w \in 1 .. Len(wires) :
               w = cached \/ Finished(wires[w]) => w = cached' \/ Finished(wires'[w])
    PROVE  NearInv'
  <1>1. NearWorker' = NearWorker
    BY NearWorkerSame
  <1>2. \A i \in 1 .. Len(wires') : NearWire(wires'[i], pod')
    OBVIOUS
  <1>3. ASSUME NEW k \in Workers
        PROVE  /\ k # NearWorker => queue'[k] = <<>> /\ todo'[k] = <<>>
               /\ Len(todo'[k]) <= 1
               /\ At(k, "settle")' =>
                     Head(todo'[k]).w = cached' \/ Finished(wires'[Head(todo'[k]).w])
    <2>1. k \in Procs /\ todo'[k] = todo[k]
      BY ProcsDisjoint
    <2>2. k # NearWorker => queue'[k] = <<>> /\ todo'[k] = <<>>
      BY <2>1 DEF NearInv
    <2>3. Len(todo'[k]) <= 1
      BY <2>1 DEF NearInv
    <2>4. ASSUME At(k, "settle")'
          PROVE  Head(todo'[k]).w = cached' \/ Finished(wires'[Head(todo'[k]).w])
      <3>1. At(k, "settle") /\ todo[k] # <<>> /\ Head(todo[k]).op = "settle"
        BY <2>1, <2>4 DEF At
      <3>2. Head(todo[k]).w = cached \/ Finished(wires[Head(todo[k]).w])
        BY <3>1 DEF NearInv
      <3>3. Head(todo[k]).w \in Wires /\ Head(todo[k]).w <= Len(wires)
        BY <2>1, <3>1, HeadAllowed, JobFields DEF AllowedAt, RefersUpTo
      <3>4. Head(todo[k]).w \in 1 .. Len(wires)
        BY <3>3, ConstantsAssumption DEF Wires, IInv, TypeOK
      <3> QED BY <2>1, <3>2, <3>4
    <2> QED BY <2>2, <2>3, <2>4
  <1>4. deployed' \subseteq {pod'[0]}
    BY DEF NearInv
  <1> QED BY <1>1, <1>2, <1>3, <1>4 DEF NearInv

\* What a resolution finds is on the pods' hosts.
LEMMA ResolvedNear == NearHosts(resolveWire, pod)
  <1>1. \A e \in Ep : resolveEndpoint(e) \in {pod[e], Peer, NoHost}
    BY DEF resolveEndpoint
  <1> QED BY <1>1 DEF resolveWire, NearHosts

\* The calls of WireUpSert and WireDelete up to the resolution.
LEMMA NearOpening ==
    ASSUME IInv, ServingInv, NearInv,
           \/ Claim(Api) \/ Insert(Api) \/ SetDesiredAction(Api)
           \/ ResolveForCreate(Api) \/ ResolveForDelete(Api)
    PROVE  ServingInv' /\ NearInv'
  <1> USE DEF cacheVars, workerVars, wireVars
  <1>0. TypeOK /\ Api \in Procs /\ todo \in [Procs -> Seq(Jobs)] /\ wires \in Seq(WireObjects)
        /\ Len(wires) \in Nat /\ cached \in {NoWire, Len(wires)}
        /\ \A i \in 1 .. Len(wires) : NearWire(wires[i], pod)
    BY ProcsDisjoint DEF IInv, TypeOK, NearInv
  <1>1. PICK j : j = Head(todo[Api])
    OBVIOUS
  <1>2. /\ \A js : Continue(Api, js) => todo'[Api] = js \o Tail(todo[Api])
        /\ todo[Api] # <<>> /\ \A q \in Procs : q # Api => todo'[q] = todo[q]
    <2>1. Step(Api)
      BY DEF Step
    <2> QED BY <1>0, <2>1, StepAlone DEF Continue
  <1>3. UNCHANGED <<pod, worker, deployed, queue>>
    BY DEF Claim, Insert, SetDesiredAction, ResolveForCreate, ResolveForDelete
  <1>4. ASSUME UNCHANGED <<wires, cached>> PROVE NearInv'
    BY <1>0, <1>2, <1>3, <1>4, NearKept
  <1>5. CASE Claim(Api)
    <2>1. j.op = "claim" /\ UNCHANGED <<wires, cached>>
      BY <1>1, <1>5 DEF Claim, At
    <2>2. cached = NoWire /\ todo[Api] = <<j, UpSertCall>>
      BY <1>1, <1>2, <2>1, ServingCases
    <2>3. CASE Continue(Api, <<[op |-> "insert"]>>)
      <3> DEFINE a == [op |-> "insert"]
      <3>1. todo'[Api] = <<a>> \o Tail(todo[Api])
        BY <1>2, <2>3
      <3> HIDE DEF a
      <3>2. todo'[Api] = <<a, UpSertCall>>
        BY <2>2, <3>1, AfterFirst
      <3>3. ServingInv'
        BY <2>1, <2>2, <3>2 DEF ServingInv, a
      <3> QED BY <1>4, <2>1, <3>3
    <2>4. CASE todo' = [todo EXCEPT ![Api] = <<>>]
      <3>1. todo'[Api] = <<>>
        BY <1>0, <2>4
      <3>2. todo'[Api] \in Seq(PlainJobs(pod, NearWorker, Len(wires))')
        BY <3>1
      <3>3. ServingInv'
        BY <3>2 DEF ServingInv
      <3> QED BY <1>4, <2>1, <3>3
    <2> QED BY <1>5, <2>3, <2>4 DEF Claim
  <1>6. CASE Insert(Api)
    <2>1. j.op = "insert" /\ wires' = Append(wires, NewWire) /\ cached' = Len(wires) + 1
          /\ Continue(Api, <<>>)
      BY <1>1, <1>6 DEF Insert, At
    <2>2. cached = NoWire /\ todo[Api] = <<j, UpSertCall>>
      BY <1>1, <1>2, <2>1, ServingCases
    <2>3. todo'[Api] = <<UpSertCall>>
      BY <1>2, <2>1, <2>2, AfterFirst
    <2>4. NewWire \in WireObjects /\ NearWire(NewWire, pod)
      BY DEF NewWire, NearWire, NearHosts, WireObjects, EpStates, Data
    <2>5. Len(wires') = Len(wires) + 1 /\ wires'[Len(wires) + 1] = NewWire
          /\ \A i \in 1 .. Len(wires) : wires'[i] = wires[i]
      BY <1>0, <2>1, <2>4
    <2>6. \A i \in 1 .. Len(wires') : NearWire(wires'[i], pod)
      <3>1. \A i \in 1 .. Len(wires') : i \in 1 .. Len(wires) \/ i = Len(wires) + 1
        BY <1>0, <2>5
      <3> QED BY <1>0, <2>4, <2>5, <3>1
    <2>7. \A w \in 1 .. Len(wires) :
              w = cached \/ Finished(wires[w]) => w = cached' \/ Finished(wires'[w])
      BY <1>0, <2>2, <2>5 DEF NoWire
    <2>8. NearInv'
      BY <1>2, <1>3, <2>1, <2>5, <2>6, <2>7, NearKept
    <2>9. ServingInv'
      BY <2>3 DEF ServingInv
    <2> QED BY <2>8, <2>9
  <1>7. CASE SetDesiredAction(Api)
    <2>1. j.op = "setDesired" /\ cached' = cached /\ Continue(Api, <<>>) /\ j \in Jobs
          /\ wires' = IF cached = NoWire THEN wires ELSE [wires EXCEPT ![cached].desired = j.to]
      BY <1>1, <1>2, <1>7, HeadAllowed, <1>0 DEF SetDesiredAction, At, AllowedAt
    <2>2. todo[Api] = <<j, UpSertCall>> \/ todo[Api] = <<j, DeleteCall>>
      BY <1>1, <1>2, <2>1, ServingCases
    <2>3. todo'[Api] = <<UpSertCall>> \/ todo'[Api] = <<DeleteCall>>
      <3>1. todo'[Api] = <<>> \o Tail(todo[Api])
        BY <1>2, <2>1
      <3>2. CASE todo[Api] = <<j, UpSertCall>>
        BY <3>1, <3>2, AfterFirst
      <3>3. CASE todo[Api] = <<j, DeleteCall>>
        BY <3>1, <3>3, AfterFirst
      <3> QED BY <2>2, <3>2, <3>3
    <2>4. ServingInv'
      BY <2>3 DEF ServingInv
    <2>5. CASE cached = NoWire
      BY <1>4, <2>1, <2>4, <2>5
    <2>6. CASE cached # NoWire
      <3>1. cached \in 1 .. Len(wires) /\ wires[cached] \in WireObjects
        BY <2>6, WireCached
      <3>2. PICK n : n = [wires[cached] EXCEPT !.desired = j.to]
        OBVIOUS
      <3>3. wires' = [wires EXCEPT ![cached] = n]
        BY <2>1, <2>6, <3>2
      <3>4. Len(wires') = Len(wires) /\ wires'[cached] = n
            /\ \A i \in 1 .. Len(wires) : i # cached => wires'[i] = wires[i]
        BY <1>0, <3>1, <3>3
      <3>5. NearWire(n, pod)
        BY <1>0, <3>1, <3>2, OtherFields DEF NearWire
      <3>6. \A i \in 1 .. Len(wires') : NearWire(wires'[i], pod)
        BY <1>0, <3>4, <3>5
      <3>7. NearInv'
        BY <1>0, <1>2, <1>3, <2>1, <3>4, <3>6, NearKept
      <3> QED BY <2>4, <3>7
    <2> QED BY <2>5, <2>6
  <1>8. CASE ResolveForCreate(Api) \/ ResolveForDelete(Api)
    <2> DEFINE r == [op |-> "resolve", data |-> resolveWire]
               S == PlainJobs(pod, NearWorker, Len(wires))
    <2>1. PICK cs \in Seq(RequestEvents) : Continue(Api, <<r>> \o cs)
      <3>1. resolveWire \in [Ep -> Data]
        BY <1>0, resolveWireType
      <3> QED BY <1>8, <3>1, CallsType DEF ResolveForCreate, ResolveForDelete
    <2>2. j.op \in {"wireCreate", "wireDelete"} /\ UNCHANGED <<wires, cached>>
      BY <1>1, <1>8 DEF ResolveForCreate, ResolveForDelete, At
    <2>3. todo[Api] = <<j>>
      BY <1>1, <1>2, <2>2, ServingCases
    <2>4. r \in S
      <3>1. resolveWire \in [Ep -> Data] /\ r \in Jobs /\ r.op = "resolve" /\ r.data = resolveWire
        BY <1>0, resolveWireType, JobKinds
      <3> QED BY <3>1, ResolvedNear DEF PlainJobs, PlainJob
    <2>5. cs \in Seq(S)
      <3>1. RequestEvents \subseteq S
        BY DEF RequestEvents, PlainJobs, PlainJob
      <3> QED BY <3>1, SeqMono
    <2> HIDE DEF r, S
    <2>6. <<r>> \o cs \in Seq(S)
      BY <2>4, <2>5
    <2>7. Tail(todo[Api]) \in Seq(S)
      <3>1. Tail(todo[Api]) = <<>> /\ <<>> \in Seq(S)
        BY <2>3
      <3> QED BY <3>1, Zenon
    <2>8. ServingInv'
      BY <1>0, <1>3, <2>1, <2>2, <2>6, <2>7, PlainContinue DEF S
    <2> QED BY <1>4, <2>2, <2>8
  <1> QED BY <1>5, <1>6, <1>7, <1>8

\* A call put before others.
LEMMA ConsSeq ==
    ASSUME NEW a, NEW S, NEW u \in Seq(S)
    PROVE  <<a>> \o u # <<>> /\ Head(<<a>> \o u) = a /\ Tail(<<a>> \o u) = u
  <1> DEFINE v == <<a>> \o u
             T == S \cup {a}
  <1>1. u \in Seq(T)
    OBVIOUS
  <1>2. v \in Seq(T) /\ Len(v) = 1 + Len(u) /\ Head(v) = a /\ v # <<>>
    BY <1>1
  <1>3. Tail(v) \in Seq(T) /\ Len(Tail(v)) = Len(u) /\ \A i \in 1 .. Len(u) : Tail(v)[i] = u[i]
    BY <1>1, <1>2
  <1>4. Tail(v) = u
    <2> HIDE DEF v, T
    <2> QED BY <1>1, <1>3, SeqEqual
  <1> QED BY <1>2, <1>4

\* Replacing the cached wire, or one that stays finished, by one on the same hosts.
LEMMA NearReplace ==
    ASSUME IInv, NearInv, NEW w \in 1 .. Len(wires), NEW n,
           wires' = [wires EXCEPT ![w] = n], NearWire(n, pod),
           w = cached \/ (Finished(wires[w]) => Finished(n))
    PROVE  /\ Len(wires') = Len(wires)
           /\ \A i \in 1 .. Len(wires') : NearWire(wires'[i], pod)
           /\ \A i \in 1 .. Len(wires) :
                 i = cached \/ Finished(wires[i]) => i = cached \/ Finished(wires'[i])
  <1>1. wires \in Seq(WireObjects) /\ \A i \in 1 .. Len(wires) : NearWire(wires[i], pod)
    BY DEF IInv, TypeOK, NearInv
  <1>2. Len(wires') = Len(wires) /\ wires'[w] = n
        /\ \A i \in 1 .. Len(wires) : i # w => wires'[i] = wires[i]
    BY <1>1
  <1> QED BY <1>1, <1>2

\* HandleEvent of the gRPC handler.
LEMMA NearEvent ==
    ASSUME IInv, ServingInv, NearInv, HandleEvent(Api)
    PROVE  ServingInv' /\ NearInv'
  <1> USE DEF cacheVars, workerVars
  <1>0. TypeOK /\ Api \in Procs /\ Api \notin Workers /\ cached \in {NoWire, Len(wires)}
        /\ \A i \in 1 .. Len(wires) : NearWire(wires[i], pod)
    BY ProcsDisjoint DEF IInv, NearInv
  <1>1. PICK S : S = PlainJobs(pod, NearWorker, Len(wires))
    OBVIOUS
  <1>2. todo[Api] # <<>> /\ Head(todo[Api]).op = "event" /\ UNCHANGED <<pod, worker, deployed, queue, cached>>
    BY DEF HandleEvent, At
  <1>3. Tail(todo[Api]) \in Seq(S) /\ \A q \in Procs : q # Api => todo'[q] = todo[q]
    <2>1. Step(Api)
      BY DEF Step
    <2> QED BY <1>0, <1>1, <1>2, <2>1, ServingCases, StepAlone
  <1>4. CASE cached = NoWire
    <2>1. Continue(Api, <<>>) /\ wires' = wires
      BY <1>4 DEF HandleEvent
    <2>2. ServingInv'
      BY <1>0, <1>1, <1>2, <1>3, <2>1, PlainContinue, ShortSeqs
    <2>3. NearInv'
      BY <1>0, <1>2, <1>3, <2>1, NearKept
    <2> QED BY <2>2, <2>3
  <1>5. CASE cached # NoWire
    <2> DEFINE st == [op |-> "settle", w |-> cached]
    <2>0. PICK n \in WireObjects, js \in Seq(WritesFor(cached)) :
              EventEffect(Api, Head(todo[Api]), wires[cached], n, js)
      BY <1>0, <1>5, EventCases
    <2>1. /\ wires' = [wires EXCEPT ![cached] = n]
          /\ \A P : NearWire(wires[cached], P) => NearWire(n, P)
          /\ Continue(Api, js \o <<st>>)
      BY <2>0 DEF EventEffect
    <2>2. cached \in 1 .. Len(wires) /\ cached \in Wires /\ NearWire(wires[cached], pod)
      BY <1>0, <1>5, WireCached
    <2>3. /\ Len(wires') = Len(wires)
          /\ \A i \in 1 .. Len(wires') : NearWire(wires'[i], pod)
          /\ \A i \in 1 .. Len(wires) :
                i = cached \/ Finished(wires[i]) => i = cached \/ Finished(wires'[i])
      BY <2>1, <2>2, NearReplace
    <2>4. NearInv'
      BY <1>0, <1>2, <1>3, <2>3, NearKept
    <2>5. js \in Seq(S) /\ st \in S
      <3>1. WritesFor(cached) \subseteq S
        BY <1>1 DEF WritesFor, PlainJobs, PlainJob
      <3>2. st \in Jobs /\ st.op = "settle" /\ st.w = Len(wires)
        BY <1>0, <1>5, <2>2, JobKinds
      <3>3. st \in S
        BY <1>1, <3>2 DEF PlainJobs, PlainJob
      <3> QED BY <3>1, <3>3, SeqMono
    <2> HIDE DEF st
    <2>6. js \o <<st>> \in Seq(S)
      BY <2>5
    <2>7. ServingInv'
      BY <1>0, <1>1, <1>2, <1>3, <2>1, <2>3, <2>6, PlainContinue
    <2> QED BY <2>4, <2>7
  <1> QED BY <1>4, <1>5

\* A task waits for the only worker there is.
LEMMA NearWrite ==
    ASSUME IInv, Colocated, ServingInv, NearInv, WriteEvent(Api) \/ Send(Api)
    PROVE  ServingInv' /\ NearInv'
  <1> USE DEF cacheVars, workerVars, wireVars
  <1>0. TypeOK /\ Api \in Procs /\ cached \in {NoWire, Len(wires)}
        /\ queue \in [Workers -> Seq(Tasks)] /\ wires \in Seq(WireObjects)
        /\ \A i \in 1 .. Len(wires) : NearWire(wires[i], pod)
    BY ProcsDisjoint DEF IInv, TypeOK, NearInv
  <1>1. PICK S : S = PlainJobs(pod, NearWorker, Len(wires))
    OBVIOUS
  <1>2. PICK j : j = Head(todo[Api])
    OBVIOUS
  <1>3. todo[Api] # <<>> /\ j.op \in {"write", "send"} /\ UNCHANGED <<pod, worker, deployed, cached>>
    BY <1>2 DEF WriteEvent, Send, At
  <1>4. /\ Tail(todo[Api]) \in Seq(S) /\ PlainJob(j, pod, NearWorker, Len(wires))
        /\ \A q \in Procs : q # Api => todo'[q] = todo[q]
    <2>1. Step(Api)
      BY DEF Step
    <2> QED BY <1>0, <1>1, <1>2, <1>3, <2>1, ServingCases, StepAlone
  <1>5. <<>> \in Seq(S)
    OBVIOUS
  <1>6. ASSUME wires' = wires, \A k \in Workers : k # NearWorker => queue'[k] = queue[k]
        PROVE  NearInv'
    BY <1>0, <1>3, <1>4, <1>6, NearKept
  <1>7. CASE Send(Api)
    <2>0. wires' = wires /\ Continue(Api, <<>>) /\ j.op = "send"
          /\ queue' = [queue EXCEPT ![j.worker] = Append(@, j.task)]
      BY <1>2, <1>7 DEF Send, At
    <2>1. j.worker = NearWorker
      BY <1>4, <2>0 DEF PlainJob
    <2>2. ServingInv'
      BY <1>0, <1>1, <1>3, <1>4, <1>5, <2>0, PlainContinue
    <2>3. \A k \in Workers : k # NearWorker => queue'[k] = queue[k]
      BY <1>0, <2>0, <2>1
    <2> QED BY <1>6, <2>0, <2>2, <2>3
  <1>8. CASE WriteEvent(Api)
    <2> DEFINE t == Head(todo[Api]).task
               h == wires[t.w].host[t.ep]
               k == <<h, WorkerOf(h)>>
    <2>4. /\ Head(todo[Api]).op = "write"
          /\ \/ h = NoHost /\ Continue(Api, <<>>) /\ UNCHANGED <<wires, queue>>
             \/ /\ wires' = [wires EXCEPT ![t.w] =
                               Transition(@, t.ep, Target(@.state[t.ep], "failed", FALSE))]
                /\ Continue(Api, <<>>) /\ UNCHANGED queue
             \/ /\ WorkerOf(h) # 0 /\ queue' = [queue EXCEPT ![k] = Append(@, t)]
                /\ Continue(Api, <<>>) /\ UNCHANGED wires
             \/ /\ WorkerOf(h) # 0 /\ Continue(Api, <<[op |-> "send", worker |-> k, task |-> t]>>)
                /\ UNCHANGED <<wires, queue>>
      BY <1>8, WriteCases
    <2>1. t = j.task
      BY <1>2
    <2>2. h = wires[t.w].host[t.ep]
      OBVIOUS
    <2>3. k = <<h, WorkerOf(h)>>
      OBVIOUS
    <2> HIDE DEF t, h, k
    <2>5. t \in Tasks /\ t.w \in 1 .. Len(wires) /\ t.ep \in Ep
      <3>1. t \in Tasks /\ t.w <= Len(wires)
        BY <1>0, <1>2, <1>3, <2>1, <2>4, HeadAllowed, JobFields DEF AllowedAt, RefersUpTo
      <3>2. t.w \in Wires /\ t.ep \in Ep /\ Len(wires) \in Nat
        BY <1>0, <3>1 DEF Tasks
      <3> QED BY <3>1, <3>2, ConstantsAssumption DEF Wires
    <2>6. WorkerOf(h) # 0 => k = NearWorker /\ k \in Workers
      <3> SUFFICES ASSUME WorkerOf(h) # 0 PROVE k = NearWorker /\ k \in Workers
        OBVIOUS
      <3>1. h \in Hosts /\ h \in {pod[t.ep], Peer, NoHost}
        BY <1>0, <2>2, <2>5 DEF WorkerOf, NearWire, NearHosts
      <3>2. pod[t.ep] = pod[0]
        BY <2>5 DEF Colocated, Ep
      <3>3. h = pod[0]
        BY <3>1, <3>2, ConstantsAssumption
      <3> QED BY <1>0, <2>3, <3>3, WorkerOfType DEF NearWorker
    <2>7. CASE Continue(Api, <<>>) /\ UNCHANGED <<wires, queue>>
      <3>1. ServingInv'
        BY <1>0, <1>1, <1>3, <1>4, <1>5, <2>7, PlainContinue
      <3> QED BY <1>6, <2>7, <3>1
    <2>8. CASE /\ wires' = [wires EXCEPT ![t.w] =
                              Transition(@, t.ep, Target(@.state[t.ep], "failed", FALSE))]
               /\ Continue(Api, <<>>) /\ UNCHANGED queue
      <3>1. PICK o : o = wires[t.w]
        OBVIOUS
      <3>2. PICK n : n = Transition(o, t.ep, Target(o.state[t.ep], "failed", FALSE))
        OBVIOUS
      <3>3. wires' = [wires EXCEPT ![t.w] = n]
        BY <2>8, <3>1, <3>2
      <3>4. o \in WireObjects /\ NearWire(o, pod)
        BY <1>0, <2>5, <3>1
      <3>5. Target(o.state[t.ep], "failed", FALSE) \in EpStates \cup {Ignored}
        BY <2>5, <3>4, TargetType DEF WireObjects
      <3>6. NearWire(n, pod) /\ (Finished(o) => n = o)
        BY <2>5, <3>2, <3>4, <3>5, NearTransition, FinishedStays DEF Answers
      <3>7. /\ Len(wires') = Len(wires)
            /\ \A i \in 1 .. Len(wires') : NearWire(wires'[i], pod)
            /\ \A i \in 1 .. Len(wires) :
                  i = cached \/ Finished(wires[i]) => i = cached \/ Finished(wires'[i])
        BY <2>5, <3>1, <3>3, <3>6, NearReplace
      <3>8. NearInv'
        BY <1>0, <1>3, <1>4, <2>8, <3>7, NearKept
      <3>9. ServingInv'
        BY <1>0, <1>1, <1>3, <1>4, <1>5, <2>8, <3>7, PlainContinue
      <3> QED BY <3>8, <3>9
    <2>9. CASE /\ WorkerOf(h) # 0 /\ queue' = [queue EXCEPT ![k] = Append(@, t)]
               /\ Continue(Api, <<>>) /\ UNCHANGED wires
      <3>1. ServingInv'
        BY <1>0, <1>1, <1>3, <1>4, <1>5, <2>9, PlainContinue
      <3>2. \A x \in Workers : x # NearWorker => queue'[x] = queue[x]
        BY <1>0, <2>6, <2>9
      <3> QED BY <1>6, <2>9, <3>1, <3>2
    <2>10. CASE /\ WorkerOf(h) # 0 /\ Continue(Api, <<[op |-> "send", worker |-> k, task |-> t]>>)
                /\ UNCHANGED <<wires, queue>>
      <3> DEFINE sj == [op |-> "send", worker |-> k, task |-> t]
      <3>1. sj \in Jobs /\ sj.op = "send" /\ sj.worker = NearWorker
        BY <2>5, <2>6, <2>10, JobKinds
      <3> HIDE DEF sj
      <3>2. sj \in S
        BY <1>1, <3>1 DEF PlainJobs, PlainJob
      <3>3. <<sj>> \in Seq(S) /\ Continue(Api, <<sj>>)
        BY <2>10, <3>2, ShortSeqs DEF sj
      <3>4. ServingInv'
        BY <1>0, <1>1, <1>3, <1>4, <2>10, <3>3, PlainContinue
      <3> QED BY <1>6, <2>10, <3>4
    <2> QED BY <2>4, <2>7, <2>8, <2>9, <2>10
  <1> QED BY <1>7, <1>8

\* The resolution, the settlement and the removal from the cache.
LEMMA NearClosing ==
    ASSUME IInv, ServingInv, NearInv, Resolve(Api) \/ Settle(Api) \/ Forget(Api)
    PROVE  ServingInv' /\ NearInv'
  <1> USE DEF cacheVars, workerVars, wireVars
  <1>0. TypeOK /\ Api \in Procs /\ cached \in {NoWire, Len(wires)} /\ wires \in Seq(WireObjects)
        /\ todo \in [Procs -> Seq(Jobs)] /\ \A i \in 1 .. Len(wires) : NearWire(wires[i], pod)
    BY ProcsDisjoint DEF IInv, TypeOK, NearInv
  <1>1. PICK S : S = PlainJobs(pod, NearWorker, Len(wires))
    OBVIOUS
  <1>2. PICK j : j = Head(todo[Api])
    OBVIOUS
  <1>3. todo[Api] # <<>> /\ j.op \in {"resolve", "settle", "forget"} /\ UNCHANGED <<pod, worker, deployed, queue>>
    BY <1>2 DEF Resolve, Settle, Forget, At
  <1>4. /\ Tail(todo[Api]) \in Seq(S)
        /\ j.op # "forget" => PlainJob(j, pod, NearWorker, Len(wires))
        /\ j.op = "forget" /\ cached # NoWire => Finished(wires[cached])
        /\ \A q \in Procs : q # Api => todo'[q] = todo[q]
    <2>1. Step(Api)
      BY DEF Step
    <2> QED BY <1>0, <1>1, <1>2, <1>3, <2>1, ServingCases, StepAlone
  <1>5. <<>> \in Seq(S)
    OBVIOUS
  <1>6. CASE Resolve(Api)
    <2>1. j.op = "resolve" /\ cached' = cached /\ Continue(Api, <<>>)
          /\ wires' = IF cached = NoWire THEN wires ELSE [wires EXCEPT ![cached].host = j.data]
      BY <1>2, <1>6 DEF Resolve, At
    <2>2. NearHosts(j.data, pod)
      BY <1>4, <2>1 DEF PlainJob
    <2>3. /\ Len(wires') = Len(wires)
          /\ \A i \in 1 .. Len(wires') : NearWire(wires'[i], pod)
          /\ \A i \in 1 .. Len(wires) :
                i = cached \/ Finished(wires[i]) => i = cached \/ Finished(wires'[i])
      <3>1. CASE cached = NoWire
        BY <1>0, <2>1, <3>1
      <3>2. CASE cached # NoWire
        <4>1. PICK n : n = [wires[cached] EXCEPT !.host = j.data]
          OBVIOUS
        <4>2. cached \in 1 .. Len(wires) /\ wires[cached] \in WireObjects
          BY <3>2, WireCached
        <4>3. NearWire(n, pod)
          BY <1>0, <2>2, <4>1, <4>2, OtherFields DEF NearWire
        <4>4. wires' = [wires EXCEPT ![cached] = n]
          BY <2>1, <3>2, <4>1
        <4> QED BY <4>2, <4>3, <4>4, NearReplace
      <3> QED BY <3>1, <3>2
    <2>4. ServingInv'
      BY <1>0, <1>1, <1>3, <1>4, <1>5, <2>1, <2>3, PlainContinue
    <2>5. NearInv'
      BY <1>0, <1>3, <1>4, <2>1, <2>3, NearKept
    <2> QED BY <2>4, <2>5
  <1>7. CASE Settle(Api)
    <2>1. j.op = "settle" /\ wires' = wires
      BY <1>2, <1>7 DEF Settle, At
    <2>2. j.w = Len(wires) /\ j.w \in Wires
      <3>1. j \in Jobs
        BY <1>0, <1>2, <1>3, HeadAllowed DEF AllowedAt
      <3> QED BY <1>4, <2>1, <3>1, JobFields DEF PlainJob
    <2>3. \/ cached' = cached /\ Continue(Api, <<>>)
          \/ cached' = cached /\ Finished(wires[j.w]) /\ Continue(Api, <<[op |-> "forget"]>>)
          \/ cached' = j.w /\ Continue(Api, <<>>)
      BY <1>2, <1>7 DEF Settle
    <2>4. \A i \in 1 .. Len(wires) : i = cached => i = cached'
      BY <1>0, <2>2, <2>3 DEF NoWire
    <2>5. NearInv'
      BY <1>0, <1>3, <1>4, <2>1, <2>2, <2>3, <2>4, NearKept
    <2>6. CASE Continue(Api, <<>>)
      <3>1. ServingInv'
        BY <1>0, <1>1, <1>3, <1>4, <1>5, <2>1, <2>6, PlainContinue
      <3> QED BY <2>5, <3>1
    <2>7. CASE cached' = cached /\ Finished(wires[j.w]) /\ Continue(Api, <<[op |-> "forget"]>>)
      <3> DEFINE f == [op |-> "forget"]
      <3>1. f.op = "forget" /\ todo'[Api] = <<f>> \o Tail(todo[Api])
        BY <1>0, <2>7 DEF Continue
      <3> HIDE DEF f
      <3>2. Tail(todo[Api]) \in Seq(S)
        BY <1>4
      <3>3. todo'[Api] # <<>> /\ Head(todo'[Api]) = f /\ Tail(todo'[Api]) \in Seq(S)
        BY <3>1, <3>2, ConsSeq
      <3>4. PlainJobs(pod, NearWorker, Len(wires))' = S
        BY <1>1, <1>3, <2>1, NearWorkerSame
      <3>5. cached' # NoWire => Finished(wires'[cached'])
        BY <1>0, <2>1, <2>2, <2>7
      <3>6. At(Api, "forget")'
        BY <3>1, <3>3 DEF At
      <3>7. ServingInv'
        BY <3>3, <3>4, <3>5, <3>6 DEF ServingInv
      <3> QED BY <2>5, <3>7
    <2> QED BY <2>3, <2>6, <2>7
  <1>8. CASE Forget(Api)
    <2>1. j.op = "forget" /\ wires' = wires /\ cached' = NoWire /\ Continue(Api, <<>>)
      BY <1>2, <1>8 DEF Forget, At
    <2>2. ServingInv'
      BY <1>0, <1>1, <1>3, <1>4, <1>5, <2>1, PlainContinue
    <2>3. \A w \in 1 .. Len(wires) :
              w = cached \/ Finished(wires[w]) => w = cached' \/ Finished(wires'[w])
      BY <1>4, <2>1 DEF NoWire
    <2>4. NearInv'
      BY <1>0, <1>3, <1>4, <2>1, <2>3, NearKept
    <2> QED BY <2>2, <2>4
  <1> QED BY <1>6, <1>7, <1>8

\* A worker's call: what is ahead of it afterwards is at most one call.
LEMMA NearAfter ==
    ASSUME IInv, NearInv, UNCHANGED <<pod, worker>>, NEW k \in Workers, k = NearWorker,
           deployed' \subseteq {pod[0]},
           \A x \in Workers : x # k => queue'[x] = queue[x] /\ todo'[x] = todo[x],
           \A i \in 1 .. Len(wires') : NearWire(wires'[i], pod),
           cached' \in {NoWire, Len(wires')},
           \/ todo'[k] = <<>>
           \/ \E j : todo'[k] = <<j>> /\ (j.op = "settle" => j.w = cached')
    PROVE  NearInv'
  <1>1. NearWorker' = NearWorker
    BY NearWorkerSame
  <1>2. ASSUME NEW x \in Workers, x # k
        PROVE  queue'[x] = <<>> /\ todo'[x] = <<>>
    BY <1>2 DEF NearInv
  <1>3. /\ Len(todo'[k]) <= 1
        /\ At(k, "settle")' => Head(todo'[k]).w = cached'
    <2>1. CASE todo'[k] = <<>>
      BY <2>1 DEF At
    <2>2. CASE \E j : todo'[k] = <<j>> /\ (j.op = "settle" => j.w = cached')
      <3>1. PICK j : todo'[k] = <<j>> /\ (j.op = "settle" => j.w = cached')
        BY <2>2
      <3>2. Len(todo'[k]) = 1 /\ Head(todo'[k]) = j
        BY <3>1
      <3> QED BY <3>1, <3>2 DEF At
    <2> QED BY <2>1, <2>2
  <1>4. ASSUME NEW x \in Workers
        PROVE  /\ x # NearWorker' => queue'[x] = <<>> /\ todo'[x] = <<>>
               /\ Len(todo'[x]) <= 1
               /\ At(x, "settle")' =>
                     Head(todo'[x]).w = cached' \/ Finished(wires'[Head(todo'[x]).w])
    <2>1. CASE x = k
      BY <1>1, <1>3, <2>1
    <2>2. CASE x # k
      BY <1>1, <1>2, <2>2 DEF At
    <2> QED BY <2>1, <2>2
  <1> QED BY <1>4 DEF NearInv

\* A worker reports an answer, settles or drops the wire.
LEMMA NearWorkerStep ==
    ASSUME IInv, ServingInv, NearInv, NEW k \in Workers, Step(k)
    PROVE  ServingInv' /\ NearInv' /\ (cached' # NoWire => cached' = cached)
  <1> USE DEF cacheVars, workerVars, wireVars
  <1>0. TypeOK /\ k \in Procs /\ k # Api /\ Api \in Procs /\ todo \in [Procs -> Seq(Jobs)]
        /\ cached \in {NoWire, Len(wires)} /\ deployed \subseteq {pod[0]} /\ wires \in Seq(WireObjects)
        /\ \A i \in 1 .. Len(wires) : NearWire(wires[i], pod)
    BY ProcsDisjoint DEF IInv, TypeOK, NearInv
  <1>1. todo[k] # <<>> /\ \A q \in Procs : q # k => todo'[q] = todo[q]
    BY <1>0, StepAlone
  <1>2. PICK j : j = Head(todo[k])
    OBVIOUS
  <1>3. j.op \in {"event", "settle", "forget"} /\ j \in Jobs
        /\ (j.op = "settle" => j.w \in Wires /\ j.w <= Len(wires))
    BY <1>0, <1>1, <1>2, HeadAllowed, JobFields DEF AllowedAt, WorkerJob, RefersUpTo
  <1>4. k = NearWorker /\ Len(todo[k]) <= 1
    BY <1>1 DEF NearInv
  <1>5. Tail(todo[k]) = <<>>
    <2>1. todo[k] \in Seq(Jobs)
      BY <1>0
    <2>2. Len(todo[k]) \in Nat /\ Len(todo[k]) # 0
      BY <1>1, <2>1, EmptySeq
    <2>3. Tail(todo[k]) \in Seq(Jobs) /\ Len(Tail(todo[k])) = Len(todo[k]) - 1
      BY <1>1, <2>1
    <2> QED BY <1>4, <2>2, <2>3, EmptySeq
  <1>6. \A js \in Seq(Jobs) : Continue(k, js) => todo'[k] = js
    <2> SUFFICES ASSUME NEW js \in Seq(Jobs), Continue(k, js) PROVE todo'[k] = js
      OBVIOUS
    <2>1. todo'[k] = js \o Tail(todo[k])
      BY <1>0 DEF Continue
    <2> QED BY <1>5, <2>1, ConcatEmptySeq
  <1>7. /\ todo'[Api] = todo[Api] /\ <<>> \in Seq(Jobs) /\ Workers \subseteq Procs
        /\ \A x \in Workers : x # k => todo'[x] = todo[x]
    BY <1>0, <1>1, ProcsDisjoint
  <1>8. HandleEvent(k) \/ Settle(k) \/ Forget(k)
    BY <1>2, <1>3 DEF Step, At, Claim, Insert, SetDesiredAction, ResolveForCreate, ResolveForDelete,
       Resolve, UnResolve, WriteEvent, Send, Reconcile, StartWorker
  <1>9. UNCHANGED <<pod, worker, deployed, queue>>
    BY <1>8 DEF HandleEvent, Settle, Forget
  <1>10. CASE HandleEvent(k) /\ cached = NoWire
    <2>1. todo'[k] = <<>> /\ UNCHANGED <<wires, cached>>
      BY <1>6, <1>7, <1>10 DEF HandleEvent
    <2>2. ServingInv'
      BY <1>7, <1>9, <2>1, ServingKept
    <2>3. NearInv'
      BY <1>0, <1>4, <1>7, <1>9, <2>1, NearAfter
    <2> QED BY <2>1, <2>2, <2>3
  <1>11. CASE HandleEvent(k) /\ cached # NoWire
    <2> DEFINE st == [op |-> "settle", w |-> cached]
    <2>1. PICK o : o = wires[cached]
      OBVIOUS
    <2>2. j.ev \in Answers /\ j.ep \in Ep /\ j.same \in BOOLEAN
      BY <1>0, <1>2, <1>11, EventCases
    <2>3. j.ev # "resolutionFailed"
      BY <2>2 DEF Answers
    <2>4. PICK n \in WireObjects, js \in Seq(WritesFor(cached)) : EventEffect(k, j, o, n, js)
      BY <1>0, <1>2, <1>11, <2>1, EventCases
    <2>5. /\ wires' = [wires EXCEPT ![cached] = n]
          /\ \A P : NearWire(o, P) => NearWire(n, P)
          /\ Continue(k, js \o <<st>>) /\ js = <<>>
          /\ n = Transition(o, j.ep, Target(o.state[j.ep], j.ev, j.same))
      BY <2>3, <2>4 DEF EventEffect
    <2>6. cached \in 1 .. Len(wires) /\ cached \in Wires /\ o \in WireObjects /\ NearWire(o, pod)
      BY <1>0, <1>11, <2>1, WireCached
    <2>7. Finished(o) => n = o
      BY <2>2, <2>5, <2>6, FinishedStays
    <2>8. /\ Len(wires') = Len(wires) /\ wires'[cached] = n /\ cached' = cached
          /\ \A i \in 1 .. Len(wires') : NearWire(wires'[i], pod)
      <3>1. /\ Len(wires') = Len(wires)
            /\ \A i \in 1 .. Len(wires') : NearWire(wires'[i], pod)
        BY <2>5, <2>6, NearReplace
      <3>2. wires'[cached] = n
        BY <1>0, <2>5, <2>6
      <3> QED BY <1>11, <3>1, <3>2 DEF HandleEvent
    <2>9. ServingInv'
      BY <1>7, <1>9, <2>1, <2>7, <2>8, ServingKept
    <2>10. st \in Jobs /\ st.w = cached
      BY <2>6, JobKinds
    <2> HIDE DEF st
    <2>11. todo'[k] = <<st>>
      <3>1. <<st>> \in Seq(Jobs)
        BY <2>10
      <3>2. Continue(k, <<st>>)
        BY <2>5, <3>1, ConcatEmptySeq
      <3> QED BY <1>6, <3>1, <3>2
    <2>12. NearInv'
      BY <1>0, <1>4, <1>7, <1>9, <2>8, <2>10, <2>11, NearAfter
    <2> QED BY <2>8, <2>9, <2>12
  <1>12. CASE Settle(k)
    <2>1. j.op = "settle" /\ At(k, "settle") /\ wires' = wires
      BY <1>2, <1>12 DEF Settle, At
    <2>2. j.w = cached \/ Finished(wires[j.w])
      BY <1>2, <2>1 DEF NearInv
    <2>3. cached' = cached /\ (Continue(k, <<>>) \/ Continue(k, <<[op |-> "forget"]>>))
      BY <1>2, <1>12, <2>2 DEF Settle
    <2>4. \/ todo'[k] = <<>>
          \/ \E x : todo'[k] = <<x>> /\ (x.op = "settle" => x.w = cached')
      <3> DEFINE f == [op |-> "forget"]
      <3>1. f \in Jobs /\ f.op = "forget"
        BY JobKinds
      <3>2. Continue(k, <<>>) \/ Continue(k, <<f>>)
        BY <2>3
      <3> HIDE DEF f
      <3>3. <<f>> \in Seq(Jobs)
        BY <3>1
      <3>4. todo'[k] = <<>> \/ todo'[k] = <<f>>
        BY <1>6, <1>7, <3>2, <3>3
      <3> QED BY <3>1, <3>4
    <2>5. ServingInv'
      BY <1>7, <1>9, <2>1, <2>3, ServingKept
    <2>6. NearInv'
      BY <1>0, <1>4, <1>7, <1>9, <2>1, <2>3, <2>4, NearAfter
    <2> QED BY <2>3, <2>5, <2>6
  <1>13. CASE Forget(k)
    <2>1. wires' = wires /\ cached' = NoWire /\ todo'[k] = <<>>
      BY <1>6, <1>7, <1>13 DEF Forget
    <2>2. ServingInv'
      BY <1>7, <1>9, <2>1, ServingKept
    <2>3. NearInv'
      BY <1>0, <1>4, <1>7, <1>9, <2>1, NearAfter
    <2> QED BY <2>1, <2>2, <2>3
  <1> QED BY <1>8, <1>10, <1>11, <1>12, <1>13

\* A worker's turn is that of the only worker.
LEMMA NearTurn ==
    ASSUME IInv, ServingInv, NearInv, NEW k \in Workers, WorkerTurn(k)
    PROVE  ServingInv' /\ NearInv' /\ cached' = cached /\ todo'[Api] = todo[Api]
  <1> USE DEF cacheVars, wireVars
  <1>0. TypeOK /\ k \in Procs /\ k # Api /\ Api \in Procs /\ Workers \subseteq Procs
        /\ todo \in [Procs -> Seq(Jobs)] /\ queue \in [Workers -> Seq(Tasks)]
        /\ cached \in {NoWire, Len(wires)} /\ deployed \subseteq {pod[0]}
        /\ \A i \in 1 .. Len(wires) : NearWire(wires[i], pod)
    BY ProcsDisjoint DEF IInv, TypeOK, NearInv
  <1>1. queue[k] # <<>> /\ UNCHANGED <<pod, worker, wires, cached>>
        /\ queue' = [queue EXCEPT ![k] = Tail(@)]
    BY DEF WorkerTurn, Receives
  <1>2. k = NearWorker
    BY <1>1 DEF NearInv
  <1>3. k[1] = pod[0]
    BY <1>2 DEF NearWorker
  <1>4. deployed' \subseteq {pod[0]}
    <2>1. Effect(k[1], Head(queue[k]).act) \subseteq {pod[0]}
      BY <1>0, <1>3 DEF Effect
    <2> QED BY <1>0, <2>1 DEF WorkerTurn, Outcomes
  <1>5. PICK ev : todo' = [todo EXCEPT ![k] = <<Event(ev, Head(queue[k]).ep, FALSE, FALSE)>>]
    BY DEF WorkerTurn
  <1> DEFINE j == Event(ev, Head(queue[k]).ep, FALSE, FALSE)
  <1>6. todo' = [todo EXCEPT ![k] = <<j>>] /\ j.op = "event"
    BY <1>5 DEF Event
  <1> HIDE DEF j
  <1>7. todo'[k] = <<j>> /\ todo'[Api] = todo[Api]
        /\ \A x \in Workers : x # k => queue'[x] = queue[x] /\ todo'[x] = todo[x]
    BY <1>0, <1>1, <1>6
  <1>8. ServingInv'
    BY <1>1, <1>7, ServingKept
  <1>9. NearInv'
    BY <1>0, <1>1, <1>2, <1>4, <1>6, <1>7, NearAfter
  <1> QED BY <1>1, <1>7, <1>8, <1>9

\* The reconciler's calls start from an idle handler.
LEMMA NearCalls ==
    ASSUME IInv, NearInv, WireUpSert \/ WireDelete
    PROVE  ServingInv' /\ NearInv' /\ cached' = cached
  <1> USE DEF cacheVars, workerVars, wireVars
  <1>0. Api \in Procs /\ todo \in [Procs -> Seq(Jobs)]
        /\ cached \in {NoWire, Len(wires)} /\ \A i \in 1 .. Len(wires) : NearWire(wires[i], pod)
    BY ProcsDisjoint DEF IInv, TypeOK, NearInv
  <1>1. UNCHANGED <<pod, worker, deployed, queue, wires, cached>>
    BY DEF WireUpSert, WireDelete
  <1>2. \E s : /\ todo' = [todo EXCEPT ![Api] = s]
               /\ \/ s = <<[op |-> "claim"], UpSertCall>> /\ cached = NoWire
                  \/ s = <<[op |-> "setDesired", to |-> "create"], UpSertCall>>
                  \/ s = <<[op |-> "setDesired", to |-> "delete"], DeleteCall>>
    BY DEF WireUpSert, WireDelete, UpSertCall, DeleteCall
  <1>3. /\ \/ todo'[Api] = <<[op |-> "claim"], UpSertCall>> /\ cached = NoWire
           \/ todo'[Api] = <<[op |-> "setDesired", to |-> "create"], UpSertCall>>
           \/ todo'[Api] = <<[op |-> "setDesired", to |-> "delete"], DeleteCall>>
        /\ \A q \in Procs : q # Api => todo'[q] = todo[q]
    BY <1>0, <1>2
  <1>4. ServingInv'
    BY <1>1, <1>3 DEF ServingInv
  <1>5. NearInv'
    BY <1>0, <1>1, <1>3, NearKept
  <1> QED BY <1>1, <1>4, <1>5

\* Every step of the handler or of a worker.
LEMMA NearStep ==
    ASSUME IInv, Colocated, ServingInv, NearInv, NEW p \in {Api} \cup Workers, Step(p)
    PROVE  ServingInv' /\ NearInv'
  <1>1. CASE p \in Workers
    BY <1>1, NearWorkerStep
  <1>2. CASE p = Api
    <2>1. TypeOK /\ Api \in Procs
      BY ProcsDisjoint DEF IInv
    <2>2. todo[Api] # <<>>
      BY <1>2, <2>1, StepAlone
    <2>3. Head(todo[Api]).op \notin {"unresolve", "reconcile", "startWorker"}
      BY <2>2, ServingCases
    <2>4. ~(UnResolve(Api) \/ Reconcile(Api) \/ StartWorker(Api))
      BY <2>3 DEF UnResolve, Reconcile, StartWorker, At
    <2> QED BY <1>2, <2>4, NearOpening, NearEvent, NearWrite, NearClosing DEF Step
  <1> QED BY <1>1, <1>2

\* What is not touched stays as it is.
LEMMA NearSame ==
    ASSUME UNCHANGED <<pod, worker, queue, wires, cached, deployed, todo>>
    PROVE  /\ Colocated' <=> Colocated
           /\ ServingInv => ServingInv'
           /\ NearInv => NearInv'
  <1>1. NearWorker' = NearWorker
    BY NearWorkerSame
  <1>2. ServingInv => ServingInv'
    BY ServingKept
  <1>3. NearInv => NearInv'
    BY <1>1 DEF NearInv, NearWire, NearHosts, At, Finished, StatusOK
  <1> QED BY <1>2, <1>3 DEF Colocated

\* While pods and daemons stay, the finalizer holds what the reconciler asked for.
LEMMA NextHold ==
    ASSUME Steady \/ used'["env"] = 0, IInv, StableInv, PlaceInv, HoldInv, [LinkNext]_allVars
    PROVE  HoldInv'
  <1> USE DEF cacheVars, workerVars, wireVars
  <1>0. /\ TypeOK /\ todo \in [Procs -> Seq(Jobs)] /\ Api \in Procs /\ removing = <<>>
        /\ \A q \in Callbacks : todo[q] = <<>>
        /\ Colocated => ServingInv /\ NearInv
    BY ProcsDisjoint DEF IInv, TypeOK, StableInv, PlaceInv, HoldInv
  <1>1. ASSUME UNCHANGED <<pod, worker, queue, wires, cached, deployed, todo>>, WaitInv',
               Colocated => FinalizerInv'
        PROVE  HoldInv'
    BY <1>0, <1>1, NearSame DEF HoldInv
  <1>2. CASE ReconcileGet
    <2>1. UNCHANGED <<pod, worker, queue, wires, cached, deployed, todo, finalizer>>
          /\ seen = "idle" /\ (seen' = seen \/ seen' = WireStatus)
      BY <1>2 DEF ReconcileGet
    <2>2. todo[Api] = <<>>
      BY <2>1 DEF HoldInv, WaitInv
    <2>3. WireStatus = "NotFound" => cached = NoWire
      BY DEF WireStatus
    <2> QED BY <1>1, <2>1, <2>2, <2>3 DEF HoldInv, WaitInv, FinalizerInv
  <1>3. CASE CallWireDelete
    <2>1. UNCHANGED <<finalizer, pod, cached>> /\ seen' = "calling" /\ seen \in {"OK", "NOK"}
          /\ (WireDelete \/ UNCHANGED <<pod, worker, queue, wires, cached, deployed, todo>>)
      <3>1. UNCHANGED finalizer /\ seen' = "calling" /\ seen \in {"OK", "NOK"}
            /\ (WireDelete \/ UNCHANGED <<pod, worker, queue, wires, cached, deployed, todo>>)
        BY <1>3 DEF CallWireDelete, Got
      <3> QED BY <3>1 DEF WireDelete
    <2>2. WaitInv'
      BY <2>1 DEF WaitInv
    <2>3. todo[Api] = <<>>
      BY <2>1 DEF HoldInv, WaitInv
    <2>4. CASE WireDelete
      <3>1. cached # NoWire
        BY <2>4 DEF WireDelete
      <3>2. Colocated => FinalizerInv'
        BY <2>1, <3>1 DEF HoldInv, FinalizerInv
      <3>3. Colocated => ServingInv' /\ NearInv'
        BY <1>0, <2>4, NearCalls
      <3> QED BY <2>1, <2>2, <3>2, <3>3 DEF HoldInv, Colocated
    <2>5. CASE UNCHANGED <<pod, worker, queue, wires, cached, deployed, todo>>
      BY <1>1, <2>1, <2>2, <2>5 DEF HoldInv, FinalizerInv
    <2> QED BY <2>1, <2>4, <2>5
  <1>4. CASE CallWireCreate
    <2>1. finalizer' = TRUE /\ seen' = "calling" /\ WireUpSert
      BY <1>4 DEF CallWireCreate
    <2>2. WaitInv' /\ FinalizerInv'
      BY <2>1 DEF WaitInv, FinalizerInv
    <2>3. Colocated => ServingInv' /\ NearInv'
      BY <1>0, <2>1, NearCalls
    <2>4. pod' = pod
      BY <2>1 DEF WireUpSert
    <2> QED BY <2>2, <2>3, <2>4 DEF HoldInv, Colocated
  <1>5. CASE RemoveFinalizer
    <2>1. UNCHANGED vars /\ seen = "NotFound" /\ seen' = "idle"
      BY <1>5 DEF RemoveFinalizer
    <2>2. todo[Api] = <<>> /\ (Colocated => cached = NoWire)
      BY <2>1 DEF HoldInv, WaitInv, FinalizerInv
    <2> QED BY <1>1, <2>1, <2>2 DEF vars, WaitInv, FinalizerInv
  <1>6. CASE Wired \/ FinalizerRefused
    <2>1. UNCHANGED vars /\ seen \in {"NotFound", "OK", "NOK"} /\ seen' = "idle" /\ (finalizer => finalizer')
      <3>1. CASE Wired
        BY <3>1 DEF Wired, Got
      <3>2. CASE FinalizerRefused
        BY <3>2 DEF FinalizerRefused, Got
      <3> QED BY <1>6, <3>1, <3>2
    <2>2. todo[Api] = <<>>
      BY <2>1 DEF HoldInv, WaitInv
    <2> QED BY <1>1, <2>1, <2>2 DEF vars, HoldInv, WaitInv, FinalizerInv
  <1>7. CASE CallFails
    <2>1. /\ UNCHANGED <<pod, worker, queue, wires, cached, deployed, todo>>
          /\ seen \in {"NotFound", "OK", "NOK"} /\ seen' = "idle" /\ (finalizer => finalizer')
      BY <1>7 DEF CallFails, Got
    <2>2. todo[Api] = <<>>
      BY <2>1 DEF HoldInv, WaitInv
    <2> QED BY <1>1, <2>1, <2>2 DEF HoldInv, WaitInv, FinalizerInv
  <1>8. CASE CallReturns
    <2>1. UNCHANGED vars /\ seen' = "idle" /\ UNCHANGED finalizer /\ todo[Api] = <<>>
      BY <1>8 DEF CallReturns
    <2> QED BY <1>1, <2>1 DEF vars, HoldInv, WaitInv, FinalizerInv
  <1>9. CASE DeleteLink \/ FlipReady \/ UNCHANGED allVars
    <2>1. UNCHANGED <<pod, worker, queue, wires, cached, deployed, todo, seen, finalizer>>
      BY <1>9 DEF DeleteLink, FlipReady, allVars, vars, linkVars
    <2> QED BY <1>1, <2>1 DEF HoldInv, WaitInv, FinalizerInv
  <1>10. ASSUME Beside PROVE UNCHANGED finalizer /\ (seen' = seen \/ seen' = "refused")
    BY <1>10 DEF Beside
  <1>11. ASSUME NEW p \in Procs, Step(p), Beside PROVE HoldInv'
    <2>1. todo[p] # <<>> /\ \A q \in Procs : q # p => todo'[q] = todo[q]
      BY <1>0, <1>11, StepAlone
    <2>2. p \in {Api} \cup Workers
      BY <1>0, <2>1 DEF Procs
    <2>3. todo'[Api] # <<>> => todo[Api] # <<>>
      BY <1>0, <2>1
    <2>4. WaitInv'
      <3> SUFFICES ASSUME seen' \notin {"calling", "refused"} PROVE todo'[Api] = <<>>
        BY DEF WaitInv
      <3>1. seen' = seen
        BY <1>10, <1>11
      <3> QED BY <2>3, <3>1 DEF HoldInv, WaitInv
    <2>5. pod' = pod
      BY <1>11 DEF Step, Claim, Insert, SetDesiredAction, ResolveForCreate, ResolveForDelete, Resolve,
         UnResolve, HandleEvent, WriteEvent, Send, Settle, Forget, Reconcile, StartWorker
    <2>6. ASSUME Colocated PROVE FinalizerInv'
      <3>1. finalizer' = finalizer /\ (cached # NoWire \/ todo[Api] # <<>> => finalizer)
        BY <1>10, <1>11, <2>6 DEF HoldInv, FinalizerInv
      <3>2. CASE p = Api
        <4>1. finalizer' /\ seen' # "NotFound"
          BY <1>10, <1>11, <2>1, <3>1, <3>2 DEF HoldInv, WaitInv
        <4> QED BY <4>1 DEF FinalizerInv
      <3>3. CASE p \in Workers
        <4>1. cached' # NoWire => cached' = cached
          BY <1>0, <1>11, <2>6, <3>3, NearWorkerStep
        <4>2. seen' = "NotFound" => cached' = NoWire
          BY <1>10, <1>11, <2>6, <4>1 DEF HoldInv, FinalizerInv
        <4> QED BY <2>3, <3>1, <4>1, <4>2 DEF FinalizerInv
      <3> QED BY <2>2, <3>2, <3>3
    <2>7. Colocated => ServingInv' /\ NearInv'
      BY <1>0, <1>11, <2>2, NearStep
    <2> QED BY <2>4, <2>5, <2>6, <2>7 DEF HoldInv, Colocated
  <1>12. ASSUME NEW k \in Workers, WorkerTurn(k), Beside PROVE HoldInv'
    <2>1. \E s : todo' = [todo EXCEPT ![k] = s]
      BY <1>12 DEF WorkerTurn
    <2>2. todo'[Api] = todo[Api] /\ UNCHANGED <<pod, cached>>
      BY <1>0, <1>12, <2>1, ProcsDisjoint DEF WorkerTurn
    <2>3. WaitInv' /\ (Colocated => FinalizerInv')
      BY <1>10, <1>12, <2>2 DEF HoldInv, WaitInv, FinalizerInv
    <2>4. Colocated => ServingInv' /\ NearInv'
      BY <1>0, <1>12, NearTurn
    <2> QED BY <2>2, <2>3, <2>4 DEF HoldInv, Colocated
  <1>13. CASE CallbackDone
    BY <1>0, <1>13 DEF CallbackDone
  <1>14. CASE Environment /\ Beside
    <2>1. Steady
      BY <1>0, <1>14, EnvironmentCounts
    <2>2. PICK v : TopologyChange(v)
      BY <1>14, <2>1 DEF Environment, Steady, EnvStep, PodUpsert, PodDelete, DaemonUpsert, DaemonDelete,
         NodeUpsert, NodeDelete
    <2>3. UNCHANGED <<pod, worker, queue, wires, cached, deployed, todo>>
      BY <2>2 DEF TopologyChange
    <2> QED BY <1>1, <1>10, <1>14, <2>3 DEF HoldInv, WaitInv, FinalizerInv
  <1> QED BY <1>2, <1>3, <1>4, <1>5, <1>6, <1>7, <1>8, <1>9, <1>11, <1>12, <1>13, <1>14
          DEF LinkNext, ReconcileStep, System

\* Initially nothing is held, and nothing needs to be.
LEMMA InitHold == LinkInit => HeldInv /\ StableInv /\ PlaceInv /\ HoldInv
  <1> SUFFICES ASSUME LinkInit PROVE HeldInv /\ StableInv /\ PlaceInv /\ HoldInv
    OBVIOUS
  <1>1. Init /\ seen = "idle" /\ Api \in Procs /\ Workers \subseteq Procs
    BY ProcsDisjoint DEF LinkInit
  <1>2. todo[Api] = <<>> /\ wires = <<>> /\ Len(wires) = 0 /\ cached = NoWire /\ deployed = {}
        /\ \A k \in Workers : todo[k] = <<>> /\ queue[k] = <<>>
    BY <1>1 DEF Init
  <1>3. ServingInv /\ FinalizerInv /\ WaitInv
    BY <1>1, <1>2 DEF ServingInv, FinalizerInv, WaitInv
  <1>4. NearInv
    BY <1>2 DEF NearInv, NoWire, At
  <1> QED BY <1>1, <1>3, <1>4, InitPlace DEF HoldInv

\* As long as pods, daemons and nodes stay, what follows a wire does so with the reconciler as
\* the client, too.
THEOREM LinkSteadyInvariance ==
    ASSUME Steady
    PROVE  LinkSpec => [](IInv /\ HeldInv /\ StableInv /\ PlaceInv /\ HoldInv)
  <1>1. NoDeletions
    BY DEF Steady, NoDeletions
  <1>2. IInv /\ HeldInv /\ StableInv /\ PlaceInv /\ HoldInv /\ [LinkNext]_allVars =>
            HeldInv' /\ StableInv' /\ PlaceInv' /\ HoldInv'
    BY <1>1, LinkIsWireStep, NextHeld, NextStable, NextPlace, NextHold
  <1> QED BY LinkInvariance, InitHold, <1>2, PTL DEF LinkSpec

\* A cached wire over one host is held by the finalizer of its Link, whenever the Link changes
\* or is deleted and whatever answers arrive late, as long as pods, daemons and nodes stay.
THEOREM LinksAreHeld ==
    ASSUME Steady
    PROVE  LinkSpec => []HeldByFinalizer
  <1>1. LinkSpec => [](IInv /\ HeldInv /\ StableInv /\ PlaceInv /\ HoldInv)
    BY LinkSteadyInvariance
  <1>2. HoldInv => HeldByFinalizer
    BY DEF HoldInv, FinalizerInv, HeldByFinalizer
  <1> QED BY <1>1, <1>2, PTL

\* With the reconciler as the client, an endpoint in Creating or Deleting has its daemon call or
\* the answer to it still on the way, until the reconciler asks for the deletion of the wire.
THEOREM LinkOngoingAreUnderway ==
    ASSUME Steady
    PROVE  LinkSpec => []OngoingIsUnderway
  <1>1. LinkSpec => [](IInv /\ HeldInv /\ StableInv /\ PlaceInv /\ HoldInv)
    BY LinkSteadyInvariance
  <1>2. IInv /\ HeldInv /\ StableInv => OngoingIsUnderway
    BY UnderwayFollows
  <1> QED BY <1>1, <1>2, PTL

\* ... and with at most one change of the topology or of the Link, a wire whose status is OK,
\* which the reconciler reports as Wired, is carried by the daemons of its hosts.
THEOREM LinkReportedAreDeployed ==
    ASSUME Steady
    PROVE  LinkSpec => [](used["env"] <= 1 => ReportedIsDeployed)
  <1>1. LinkSpec => [](IInv /\ HeldInv /\ StableInv /\ PlaceInv /\ HoldInv)
    BY LinkSteadyInvariance
  <1>2. PlaceInv => (used["env"] <= 1 => ReportedIsDeployed)
    BY DeployedFollows
  <1> QED BY <1>1, <1>2, PTL

----------------------------------------------------------------------------
(* ... and a Link that is deleted at rest leaves nothing *)

\* A wire that is deployed is resolved, and where an endpoint is created or being created,
\* it has a host.
SettledInv ==
    /\ deployed # {} => cached # NoWire /\ wires[cached].host = ReadyData
    /\ cached # NoWire => \A e \in Ep :
          wires[cached].state[e] \in {"Creating", "Created"} => ReadyData[e] \in Hosts

\* Before the deletion.
PresentInv ==
    /\ ~asked /\ (seen # "idle" => view = "ready")
    /\ wiring = "Wired" \/ seen = "OK" => cached # NoWire
    /\ SettledInv

\* What the deletion has ahead of it: d is what the wire resolves to, n the last Wire object.
DropJob(j, d, n) ==
    /\ j.op \in {"resolve", "event", "write", "send", "settle", "forget"}
    /\ j.op = "resolve" => j.data = d
    /\ j.op = "event" => j.ev = "delete" /\ d[j.ep] \in Hosts /\ (j.ep = 0 => ~j.same)
    /\ j.op \in {"write", "send"} => /\ j.task.act = "delete" /\ j.task.w = n
                                    /\ d[j.task.ep] \in Hosts
    /\ j.op = "send" => d[j.task.ep] = j.worker[1]
DropJobs(d, n) == {j \in Jobs : DropJob(j, d, n)}
DropTasks(h, d, n) == {t \in Tasks : t.act = "delete" /\ t.w = n /\ d[t.ep] = h}

DropCall == <<[op |-> "setDesired", to |-> "delete"], DeleteCall>>
Dropping(d) ==
    {<<>>, DropCall, <<DeleteCall>>,
     <<[op |-> "resolve", data |-> d]>> \o DeleteCalls(d), DeleteCalls(d)}

\* WireDelete has not reached the first endpoint.
Untouched(o, d) ==
    /\ Unused /\ o.state[0] = "Created" /\ d[0] \in Hosts
    /\ todo[Api] \in Dropping(d)

\* A wire that is deployed is still there, and nobody has a reason to drop it.
CarriedInv(o, d) ==
    /\ o.host = d
    /\ o.ok[0] => Untouched(o, d)
    /\ \A k \in Workers : At(k, "event") => Head(todo[k]).ev # "deleted"

\* The deletion has only deletes ahead of it, and lets go of the wire last.
DropInv ==
    /\ todo[Api] \in {DropCall, <<DeleteCall>>} \/ todo[Api] \in Seq(DropJobs(ReadyData, Len(wires)))
    /\ \A k \in Workers :
          /\ queue[k] \in Seq(DropTasks(k[1], ReadyData, Len(wires)))
          /\ At(k, "event") => Head(todo[k]).ev \in {"deleted", "failed"}
          /\ At(k, "settle") => Head(todo[k]).w = Len(wires)
    /\ deployed # {} \/ claimed => cached # NoWire /\ \A p \in Procs : ~At(p, "forget")
    /\ deployed # {} => CarriedInv(wires[cached], ReadyData)

\* ... and the Link goes after the wire.
GoingInv ==
    /\ seen # "idle" => view = "deleting"
    /\ deployed # {} \/ claimed => seen # "NotFound" /\ link # "gone"
    /\ DropInv

\* As long as nothing changes but the Link.
CalmInv ==
    used["env"] = 0 =>
        /\ topology = "ready" /\ ready
        /\ HeldInv /\ StableInv /\ PlaceInv /\ HoldInv
        /\ link = "present" => PresentInv
        /\ link # "present" /\ Colocated => GoingInv

\* What becomes of the states when the event is no deletion.
LEMMA TargetUp ==
    ASSUME NEW s \in EpStates, NEW ev \in Events, ev # "delete", NEW same \in BOOLEAN
    PROVE  Target(s, ev, same) \in {"Creating", "Created"} =>
               ev = "create" \/ (ev = "created" /\ s = "Creating")
  BY DEF Target, EpStates, Events, Answers, Requests, DeletingHandleEvent, DeletedHandleEvent,
         FailedHandleEvent, Ignored, CreatingHandleEvent, CreatedHandleEvent,
         ResolutionFailedHandleEvent, CreateOr, DeleteOr

\* The cached wire is replaced by one on the same hosts, or by one that is newly resolved.
LEMMA SettledReplace ==
    ASSUME SettledInv, cached # NoWire, cached' = cached, deployed' = deployed,
           NEW d, d = ReadyData, ReadyData' = d,
           NEW o, o = wires[cached], NEW n, n = wires'[cached],
           n.host = o.host \/ n.host = d,
           \A e \in Ep : n.state[e] \in {"Creating", "Created"} =>
               o.state[e] \in {"Creating", "Created"} \/ d[e] \in Hosts
    PROVE  SettledInv'
  BY DEF SettledInv

\* An answer, or the event of a create, leaves the wire where it is.
LEMMA SettledEvent ==
    ASSUME IInv, HeldInv, ApiInv, PlaceCore, SettledInv, topology = "ready", ~asked,
           UNCHANGED <<pod, daemon>>, NEW p \in {Api} \cup Workers, HandleEvent(p)
    PROVE  SettledInv'
  <1>0. PICK d : d = ReadyData
    OBVIOUS
  <1>1. ReadyData' = d
    BY <1>0, ReadyDataSame
  <1>2. p \in Procs /\ cached' = cached /\ deployed' = deployed /\ wires \in Seq(WireObjects)
    BY ProcsDisjoint DEF HandleEvent, IInv, TypeOK
  <1>3. CASE cached = NoWire
    BY <1>2, <1>3 DEF SettledInv
  <1>4. CASE cached # NoWire
    <2>1. PICK j : j = Head(todo[p])
      OBVIOUS
    <2>2. PICK o : o = wires[cached]
      OBVIOUS
    <2>3. PICK t : t = OwnTarget(o, j)
      OBVIOUS
    <2>4. /\ todo[p] # <<>> /\ j \in HeldJobs /\ j.op = "event" /\ j.ev \in Events
          /\ j.ep \in Ep /\ j.same \in BOOLEAN
          /\ o \in WireObjects /\ cached \in 1 .. Len(wires)
          /\ o.state[j.ep] \in EpStates /\ t = Target(o.state[j.ep], j.ev, j.same)
          /\ t \in EpStates \cup {Ignored}
          /\ wires' = [wires EXCEPT ![cached] = Transition(o, j.ep, t)]
      <3>1. p \in Procs
        BY <1>2
      <3> QED BY <1>4, <2>1, <2>2, <2>3, <3>1, HeldEventCases, ZenonT(60)
    <2>5. PICK n : n = Transition(o, j.ep, t)
      OBVIOUS
    <2>6. wires'[cached] = n
      BY <1>2, <2>4, <2>5
    <2>7. /\ n.host = o.host
          /\ \A e \in Ep : e # j.ep \/ t = Ignored => n.state[e] = o.state[e]
          /\ t # Ignored => n.state[j.ep] = t
      BY <2>4, <2>5, TransitionFields
    <2>8. t \in {"Creating", "Created"} =>
              j.ev = "create" \/ (j.ev = "created" /\ o.state[j.ep] = "Creating")
      <3>1. j.ev # "delete"
        BY <2>4 DEF HeldJobs, HeldJob
      <3> QED BY <2>4, <3>1, TargetUp
    <2>9. j.ev = "create" => d[j.ep] \in Hosts
      <3> SUFFICES ASSUME j.ev = "create" PROVE d[j.ep] \in Hosts
        OBVIOUS
      <3>1. j.ev \notin Answers
        BY DEF Answers
      <3>2. p = Api
        BY <1>2, <2>1, <2>4, <3>1, HeadAllowed DEF AllowedAt, WorkerJob
      <3>3. todo[Api] \in Seq(CallsOver(wires[cached].host))
        BY <2>1, <2>4, <3>2, ApiCases
      <3>4. j \in CallsOver(o.host)
        BY <2>1, <2>2, <2>4, <3>2, <3>3, HeadIn
      <3>5. o.host[j.ep] \in Hosts
        BY <2>4, <3>4 DEF CallsOver, CreateCall
      <3>6. ResolvedInv(o)
        BY <1>4, <2>2 DEF PlaceCore, CachedInv
      <3>7. o.host = ReadyData
        BY <2>4, <3>5, <3>6 DEF ResolvedInv, NoHosts
      <3> QED BY <1>0, <3>5, <3>7
    <2>10. \A e \in Ep : n.state[e] \in {"Creating", "Created"} =>
               o.state[e] \in {"Creating", "Created"} \/ d[e] \in Hosts
      BY <2>4, <2>7, <2>8, <2>9
    <2> QED BY <1>0, <1>1, <1>2, <1>4, <2>2, <2>6, <2>7, <2>10, SettledReplace
  <1> QED BY <1>3, <1>4

\* The calls of WireUpSert leave the wire where it is or resolve it as the caches say.
LEMMA SettledCalls ==
    ASSUME IInv, HeldInv, ApiInv, PlaceCore, SettledInv, topology = "ready", ~asked,
           UNCHANGED <<pod, daemon>>,
           \/ Claim(Api) \/ Insert(Api) \/ SetDesiredAction(Api)
           \/ ResolveForCreate(Api) \/ Resolve(Api) \/ WriteEvent(Api) \/ Send(Api)
    PROVE  SettledInv'
  <1> USE DEF wireVars
  <1>0. PICK d : d = ReadyData
    OBVIOUS
  <1>1. ReadyData' = d
    BY <1>0, ReadyDataSame
  <1>2. Api \in Procs /\ deployed' = deployed /\ wires \in Seq(WireObjects)
    BY ProcsDisjoint DEF IInv, TypeOK, Claim, Insert, SetDesiredAction, ResolveForCreate, Resolve,
       WriteEvent, Send
  <1>3. ASSUME UNCHANGED <<wires, cached>> PROVE SettledInv'
    BY <1>0, <1>1, <1>2, <1>3 DEF SettledInv
  <1>4. CASE Claim(Api) \/ ResolveForCreate(Api) \/ Send(Api)
    BY <1>3, <1>4 DEF Claim, ResolveForCreate, Send
  <1>5. CASE Insert(Api)
    <2>1. todo[Api] # <<>> /\ Head(todo[Api]).op = "insert" /\ cached' = Len(wires) + 1
          /\ wires' = Append(wires, NewWire)
      BY <1>5 DEF Insert, At
    <2>2. cached = NoWire
      <3> SUFFICES ASSUME cached # NoWire PROVE FALSE
        OBVIOUS
      <3>1. todo[Api] \in Seq(Unclaiming)
        BY DEF IInv, UnaskedInv
      <3> QED BY <2>1, <3>1, HeadIn DEF Unclaiming
    <2>3. deployed' = {}
      BY <1>2, <2>2 DEF SettledInv
    <2>4. wires'[cached'] = NewWire
      BY <1>2, <2>1
    <2>5. \A e \in Ep : NewWire.state[e] = "Deleted"
      BY DEF NewWire
    <2> QED BY <2>3, <2>4, <2>5 DEF SettledInv
  <1>6. CASE SetDesiredAction(Api) \/ Resolve(Api)
    <2>1. PICK j : j = Head(todo[Api])
      OBVIOUS
    <2>2. cached' = cached /\ todo[Api] # <<>>
          /\ (cached = NoWire => wires' = wires)
          /\ (cached # NoWire =>
                \/ wires' = [wires EXCEPT ![cached].desired = j.to]
                \/ wires' = [wires EXCEPT ![cached].host = j.data] /\ j.op = "resolve")
      BY <1>6, <2>1 DEF SetDesiredAction, Resolve, At
    <2>3. CASE cached # NoWire
      <3>1. PICK o : o = wires[cached]
        OBVIOUS
      <3>2. cached \in 1 .. Len(wires) /\ o \in WireObjects
        BY <2>3, <3>1, WireCached
      <3>3. \/ wires' = [wires EXCEPT ![cached] = [o EXCEPT !.desired = j.to]]
            \/ wires' = [wires EXCEPT ![cached] = [o EXCEPT !.host = j.data]] /\ j.op = "resolve"
        BY <2>2, <2>3, <3>1
      <3>4. \/ wires'[cached] = [o EXCEPT !.desired = j.to]
            \/ wires'[cached] = [o EXCEPT !.host = j.data] /\ j.op = "resolve"
        BY <1>2, <3>2, <3>3
      <3>5. PICK n : n = wires'[cached]
        OBVIOUS
      <3>6. n.state = o.state /\ (n.host = o.host \/ (n.host = j.data /\ j.op = "resolve"))
        <4>1. /\ [o EXCEPT !.desired = j.to].state = o.state /\ [o EXCEPT !.desired = j.to].host = o.host
              /\ [o EXCEPT !.host = j.data].state = o.state /\ [o EXCEPT !.host = j.data].host = j.data
          BY <3>2, OtherFields
        <4>2. CASE n = [o EXCEPT !.desired = j.to]
          BY <4>1, <4>2
        <4>3. CASE n = [o EXCEPT !.host = j.data] /\ j.op = "resolve"
          BY <4>1, <4>3
        <4> QED BY <3>4, <3>5, <4>2, <4>3
      <3>7. j.op = "resolve" => j.data = d
        BY <1>0, <2>1, <2>2 DEF PlaceCore, ResolvingInv, At
      <3> QED BY <1>0, <1>1, <1>2, <2>2, <2>3, <3>1, <3>5, <3>6, <3>7, SettledReplace
    <2> QED BY <1>3, <2>2, <2>3
  <1>7. CASE WriteEvent(Api)
    <2> DEFINE t == Head(todo[Api]).task
    <2>1. cached' = cached /\ todo[Api] # <<>> /\ Head(todo[Api]).op = "write"
          /\ \/ wires' = wires
             \/ wires' = [wires EXCEPT ![t.w] =
                             Transition(@, t.ep, Target(@.state[t.ep], "failed", FALSE))]
      BY <1>7, WriteCases DEF WriteEvent
    <2>2. t \in Tasks /\ t.w <= Len(wires)
      BY <1>2, <2>1, HeadAllowed, JobFields DEF AllowedAt, RefersUpTo
    <2> HIDE DEF t
    <2>3. t.w \in Wires /\ t.ep \in Ep
      BY <2>2 DEF Tasks
    <2>4. t.w = cached /\ cached # NoWire /\ cached \in 1 .. Len(wires) /\ wires[cached] \in WireObjects
      BY <2>2, <2>3, OnlyWire
    <2>5. PICK o : o = wires[cached]
      OBVIOUS
    <2>6. PICK x : x = Target(o.state[t.ep], "failed", FALSE)
      OBVIOUS
    <2>7. o.state[t.ep] \in EpStates
      BY <2>3, <2>4, <2>5 DEF WireObjects
    <2>8. x \in EpStates \cup {Ignored} /\ x \notin {"Creating", "Created"}
      <3>1. "failed" \in Events /\ "failed" # "delete"
        BY DEF Events, Answers
      <3> QED BY <2>6, <2>7, <3>1, TargetType, TargetUp
    <2>9. wires' = wires \/ wires' = [wires EXCEPT ![cached] = Transition(o, t.ep, x)]
      BY <2>1, <2>4, <2>5, <2>6
    <2>10. PICK n : n = Transition(o, t.ep, x)
      OBVIOUS
    <2>11. /\ n.host = o.host
           /\ \A e \in Ep : e # t.ep \/ x = Ignored => n.state[e] = o.state[e]
           /\ x # Ignored => n.state[t.ep] = x
      BY <2>3, <2>4, <2>5, <2>8, <2>10, TransitionFields
    <2>12. CASE wires' = [wires EXCEPT ![cached] = Transition(o, t.ep, x)]
      <3>1. wires'[cached] = n
        BY <1>2, <2>4, <2>10, <2>12
      <3>2. \A e \in Ep : n.state[e] \in {"Creating", "Created"} => o.state[e] \in {"Creating", "Created"}
        BY <2>3, <2>8, <2>11
      <3> QED BY <1>0, <1>1, <1>2, <2>1, <2>4, <2>5, <2>11, <3>1, <3>2, SettledReplace
    <2> QED BY <1>3, <2>1, <2>9, <2>12
  <1> QED BY <1>4, <1>5, <1>6, <1>7

\* A daemon call is made for a wire that is resolved.
LEMMA SettledTurn ==
    ASSUME IInv, PlaceCore, SettledInv, topology = "ready",
           UNCHANGED <<pod, daemon>>, NEW k \in Workers, WorkerTurn(k)
    PROVE  SettledInv'
  <1>1. queue[k] # <<>> /\ UNCHANGED <<wires, cached>>
    BY DEF WorkerTurn, Receives, wireVars
  <1>2. ~Unused
    BY <1>1 DEF Unused
  <1>3. cached # NoWire /\ wires[cached].host = ReadyData
    BY <1>2 DEF PlaceCore, CachedInv, ResolvedInv
  <1>4. ReadyData' = ReadyData
    BY ReadyDataSame
  <1> QED BY <1>1, <1>3, <1>4 DEF SettledInv

\* Before a deletion a step of a goroutine leaves a deployed wire where it is.
LEMMA SettledStep ==
    ASSUME IInv, HeldInv, ApiInv, PlaceCore, SettledInv, topology = "ready", ~asked,
           UNCHANGED <<pod, daemon>>, NEW p \in {Api} \cup Workers, Step(p)
    PROVE  SettledInv'
  <1>1. p \in Procs /\ (cached # NoWire => cached' = cached)
    <2>1. p \in Procs
      BY ProcsDisjoint
    <2>2. WireStep
      BY <2>1 DEF WireStep, System
    <2> QED BY <2>1, <2>2, KeptStep
  <1>2. CASE Settle(p)
    <2>1. todo[p] # <<>> /\ Head(todo[p]).op = "settle" /\ UNCHANGED <<wires, deployed>>
      BY <1>2 DEF Settle, At
    <2>2. Head(todo[p]).w \in Wires /\ Head(todo[p]).w <= Len(wires)
      BY <1>1, <2>1, HeadAllowed, JobFields DEF AllowedAt, RefersUpTo
    <2>3. cached # NoWire
      BY <2>2, OnlyWire
    <2> QED BY <1>1, <2>1, <2>3, ReadyDataSame DEF SettledInv
  <1> QED BY <1>2, StepKinds, SettledEvent, SettledCalls

\* Changes are counted, so none has happened where none has yet.
LEMMA CalmBefore ==
    ASSUME IInv, WireStep, used'["env"] = 0
    PROVE  used["env"] = 0
  <1>0. TypeOK /\ used \in [{"api", "env", "fail"} -> Nat]
    BY DEF IInv, TypeOK
  <1>1. CASE Charged
    BY <1>0, <1>1 DEF Charged
  <1>2. CASE Environment
    BY <1>0, <1>2, EnvironmentCounts
  <1>3. CASE System
    <2>1. used' = used \/ Spend("fail")
      BY <1>3 DEF System, Step, Claim, Insert, SetDesiredAction, ResolveForCreate, ResolveForDelete,
         Resolve, UnResolve, HandleEvent, WriteEvent, Send, Settle, Forget, Reconcile, StartWorker,
         WorkerTurn, CallbackDone
    <2> QED BY <1>0, <2>1 DEF Spend
  <1> QED BY <1>1, <1>2, <1>3 DEF WireStep

\* The steps that remain when nothing changes but the Link.
LEMMA CalmKinds ==
    ASSUME IInv, StableInv, PlaceInv, used["env"] = 0, used'["env"] = 0, [LinkNext]_allVars
    PROVE  /\ UNCHANGED <<pod, daemon, topology, ready>>
           /\ \/ ReconcileStep
              \/ \E p \in {Api} \cup Workers : Step(p) /\ Beside
              \/ \E k \in Workers : WorkerTurn(k) /\ Beside
              \/ DeleteLink /\ Quiet /\ seen = "idle" /\ wiring = "Wired"
              \/ UNCHANGED allVars
  <1> USE DEF cacheVars
  <1>0. TypeOK /\ removing = <<>> /\ \A q \in Callbacks : todo[q] = <<>>
    BY DEF IInv, PlaceInv, StableInv
  <1>1. ~Spend("env")
    BY DEF Spend, IInv, TypeOK
  <1>2. CASE ReconcileStep
    <2>1. UNCHANGED <<pod, daemon, topology, ready>>
      BY <1>2 DEF ReconcileStep, ReconcileGet, CallWireDelete, RemoveFinalizer, CallWireCreate, Wired,
         FinalizerRefused, CallFails, CallReturns, WireUpSert, WireDelete, vars
    <2> QED BY <1>2, <2>1
  <1>3. CASE System /\ Beside
    <2>1. ~CallbackDone
      BY <1>0 DEF CallbackDone
    <2>2. ASSUME NEW p \in Procs, Step(p) PROVE p \in {Api} \cup Workers
      BY <1>0, <2>2, StepAlone DEF Procs
    <2>3. UNCHANGED <<pod, daemon, topology, ready>>
      BY <1>3, <2>1 DEF System, Beside, Step, Claim, Insert, SetDesiredAction, ResolveForCreate,
         ResolveForDelete, Resolve, UnResolve, HandleEvent, WriteEvent, Send, Settle, Forget, Reconcile,
         StartWorker, WorkerTurn
    <2> QED BY <1>3, <2>1, <2>2, <2>3 DEF System
  <1>4. CASE Environment
    BY <1>0, <1>4, EnvironmentCounts
  <1>5. CASE DeleteLink
    BY <1>1, <1>5 DEF DeleteLink
  <1>6. CASE FlipReady
    BY <1>1, <1>6 DEF FlipReady
  <1>7. CASE UNCHANGED allVars
    BY <1>7 DEF allVars, vars, linkVars
  <1> QED BY <1>2, <1>3, <1>4, <1>5, <1>6, <1>7 DEF LinkNext

\* A step that leaves the wires and the daemons alone.
LEMMA SettledSame ==
    ASSUME SettledInv, UNCHANGED <<pod, daemon, wires, cached, deployed>>
    PROVE  SettledInv'
  BY ReadyDataSame DEF SettledInv

\* Before the deletion of its Link a wire is not dropped.
LEMMA PresentStep ==
    ASSUME IInv, HeldInv, StableInv, PlaceInv, WaitInv, PresentInv, topology = "ready", ready,
           used["env"] = 0, used'["env"] = 0, link = "present", link' = "present", [LinkNext]_allVars
    PROVE  PresentInv'
  <1> USE DEF cacheVars, wireVars
  <1>0. /\ UNCHANGED <<pod, daemon, topology>> /\ ~asked /\ SettledInv
        /\ (seen # "idle" => view = "ready") /\ (wiring = "Wired" \/ seen = "OK" => cached # NoWire)
        /\ ApiInv /\ PlaceCore
    <2>1. UNCHANGED <<pod, daemon, topology>>
      BY CalmKinds
    <2>2. ~asked
      BY DEF PresentInv
    <2>3. ApiInv /\ PlaceCore
      BY <2>2 DEF StableInv, PlaceInv, PlaceCore
    <2> QED BY <2>1, <2>3 DEF PresentInv
  <1>1. WireStep
    BY LinkIsWireStep
  <1>2. cached # NoWire => cached' = cached
    BY <1>0, <1>1, KeptStep
  <1>3. ASSUME NEW c, NEW b, SetCondition(c, b) PROVE wiring' \in {wiring, c}
    BY <1>3 DEF SetCondition
  <1>4. ASSUME seen' = "idle", wiring' = "Wired" => cached # NoWire, UNCHANGED <<wires, cached, deployed, asked>>
        PROVE  PresentInv'
    BY <1>0, <1>4, SettledSame DEF PresentInv
  <1>5. CASE ReconcileGet
    <2>1. /\ seen = "idle" /\ view' = "ready" /\ (seen' = seen \/ seen' = WireStatus)
          /\ wiring' \in {wiring, "Failed"} /\ UNCHANGED <<wires, cached, deployed, asked>>
      BY <1>5 DEF ReconcileGet, LinkView
    <2>2. seen' = "OK" => cached # NoWire
      BY <2>1 DEF WireStatus
    <2> QED BY <1>0, <2>1, <2>2, SettledSame DEF PresentInv
  <1>6. CASE CallWireDelete \/ RemoveFinalizer
    BY <1>0, <1>6 DEF CallWireDelete, RemoveFinalizer, Got
  <1>7. CASE CallWireCreate
    <2>1. seen' = "calling" /\ UNCHANGED <<wiring, view, wires, cached, deployed, asked>> /\ view = "ready"
      BY <1>7 DEF CallWireCreate, WireUpSert
    <2> QED BY <1>0, <2>1, SettledSame DEF PresentInv
  <1>8. CASE Wired
    BY <1>0, <1>4, <1>8 DEF Wired, vars
  <1>9. CASE FinalizerRefused
    BY <1>0, <1>4, <1>9 DEF FinalizerRefused, vars
  <1>10. CASE CallFails
    <2>1. wiring' \in {wiring, "Failed"} /\ seen' = "idle" /\ UNCHANGED <<wires, cached, deployed, asked>>
      BY <1>3, <1>10 DEF CallFails
    <2> QED BY <1>0, <1>4, <2>1
  <1>11. CASE CallReturns
    <2>1. wiring' \in {wiring, "Failed", "Unknown", "Wiring"}
      <3>1. CASE view = "ready" /\ seen = "calling"
        BY <1>11, <3>1 DEF CallReturns
      <3>2. CASE ~(view = "ready" /\ seen = "calling")
        <4>1. PICK c \in {"Failed", "Unknown", "Wiring"} : SetCondition(c, TRUE)
          BY <1>11, <3>2 DEF CallReturns
        <4> QED BY <1>3, <4>1
      <3> QED BY <3>1, <3>2
    <2>2. seen' = "idle" /\ UNCHANGED <<wires, cached, deployed, asked>>
      BY <1>11 DEF CallReturns, vars
    <2> QED BY <1>0, <1>4, <2>1, <2>2
  <1>12. ASSUME Beside, asked' = asked, SettledInv' PROVE PresentInv'
    <2>1. UNCHANGED <<wiring, view>> /\ (seen' = seen \/ (seen' = "refused" /\ At(Api, "claim")))
      BY <1>12 DEF Beside
    <2>2. At(Api, "claim") => seen \in {"calling", "refused"}
      BY DEF At, WaitInv
    <2>3. seen' # "idle" => view' = "ready"
      BY <1>0, <2>1, <2>2
    <2>4. wiring' = "Wired" \/ seen' = "OK" => cached' # NoWire
      BY <1>0, <1>2, <2>1
    <2> QED BY <1>0, <1>12, <2>3, <2>4 DEF PresentInv
  <1>13. ASSUME NEW p \in {Api} \cup Workers, Step(p), Beside PROVE PresentInv'
    <2>1. asked' = asked
      BY <1>13 DEF Step, Claim, Insert, SetDesiredAction, ResolveForCreate, ResolveForDelete, Resolve,
         UnResolve, HandleEvent, WriteEvent, Send, Settle, Forget, Reconcile, StartWorker
    <2> QED BY <1>0, <1>12, <1>13, <2>1, SettledStep
  <1>14. ASSUME NEW k \in Workers, WorkerTurn(k), Beside PROVE PresentInv'
    <2>1. asked' = asked
      BY <1>14 DEF WorkerTurn
    <2> QED BY <1>0, <1>12, <1>14, <2>1, SettledTurn
  <1>15. CASE DeleteLink
    BY <1>15 DEF DeleteLink
  <1>16. CASE UNCHANGED allVars
    <2>1. UNCHANGED <<wires, cached, deployed, asked, seen, view, wiring>>
      BY <1>16 DEF allVars, vars, linkVars
    <2> QED BY <1>0, <2>1, SettledSame DEF PresentInv
  <1> QED BY <1>5, <1>6, <1>7, <1>8, <1>9, <1>10, <1>11, <1>13, <1>14, <1>15, <1>16, CalmKinds DEF ReconcileStep

\* The Link is deleted: its finalizer holds it, and the deletion has yet to start.
LEMMA GoingStart ==
    ASSUME IInv, PlaceInv, HoldInv, PresentInv, Colocated, used["env"] = 0,
           DeleteLink, Quiet, seen = "idle", wiring = "Wired"
    PROVE  GoingInv'
  <1>1. UNCHANGED <<pod, daemon, queue, wires, cached, deployed, claimed, todo, seen>>
        /\ link' = IF finalizer THEN "deleting" ELSE "gone"
    BY DEF DeleteLink, cacheVars, workerVars, wireVars
  <1>2. ReadyData' = ReadyData
    BY <1>1, ReadyDataSame
  <1>3. cached # NoWire /\ finalizer
    BY DEF PresentInv, HoldInv, FinalizerInv
  <1>4. /\ \A p \in Procs : todo[p] = <<>> /\ \A k \in Workers : queue[k] = <<>>
        /\ Api \in Procs /\ Workers \subseteq Procs
    BY ProcsDisjoint DEF Quiet
  <1>5. ASSUME deployed # {} PROVE CarriedInv(wires[cached], ReadyData)
    <2>1. PICK o : o = wires[cached]
      OBVIOUS
    <2>2. PICK d : d = ReadyData
      OBVIOUS
    <2>3. o.host = d /\ (o.state[0] = "Created" => d[0] \in Hosts)
      BY <1>3, <1>5, <2>1, <2>2 DEF PresentInv, SettledInv, Ep
    <2>4. o.ok[0] => o.state[0] = "Created"
      <3>1. DeployedInv(o)
        BY <1>3, <2>1 DEF PlaceInv, PresentInv, CachedInv
      <3> QED BY <3>1 DEF DeployedInv, Ep
    <2>5. Unused
      BY <1>4 DEF Unused
    <2>6. todo[Api] \in Dropping(d)
      BY <1>4 DEF Dropping
    <2>7. o.ok[0] => Untouched(o, d)
      BY <2>3, <2>4, <2>5, <2>6 DEF Untouched
    <2>8. CarriedInv(o, d)
      BY <1>4, <2>3, <2>7 DEF CarriedInv, At
    <2> QED BY <2>1, <2>2, <2>8
  <1>6. ASSUME deployed' # {} PROVE CarriedInv(wires[cached], ReadyData)'
    <2>1. CarriedInv(wires[cached], ReadyData)
      BY <1>1, <1>5, <1>6
    <2> QED BY <1>1, <1>2, <2>1 DEF CarriedInv, Untouched, Unused, At
  <1>7. todo'[Api] \in Seq(DropJobs(ReadyData, Len(wires))')
    <2>1. todo'[Api] = <<>>
      BY <1>1, <1>4
    <2>2. \A S : <<>> \in Seq(S)
      OBVIOUS
    <2> QED BY <2>1, <2>2, Zenon
  <1>8. DropInv'
    BY <1>1, <1>3, <1>4, <1>6, <1>7 DEF DropInv, At
  <1> QED BY <1>1, <1>3, <1>8 DEF GoingInv

\* What comes after the call at hand.
FirstDrops(d, n) == {j \in DropJobs(d, n) : j.op # "forget"}

\* Sequences over two sets.
LEMMA SeqBoth ==
    ASSUME NEW S, NEW T, NEW s \in Seq(S), s \in Seq(T)
    PROVE  s \in Seq(S \cap T)
  OBVIOUS

\* The events of a delete, in order.
LEMMA DeleteCallsDrop ==
    ASSUME NEW d \in [Ep -> Data], NEW n
    PROVE  /\ DeleteCalls(d) \in Seq(FirstDrops(d, n)) /\ DeleteCalls(d) \in Seq(RequestEvents)
           /\ d[0] \in Hosts => DeleteCalls(d) # <<>> /\ Head(DeleteCalls(d)).ep = 0
  <1> DEFINE b == (d[0] = d[1])
             e0 == Event("delete", 0, FALSE, FALSE)
             e1 == Event("delete", 1, b, FALSE)
             F == FirstDrops(d, n)
             d0 == IF d[0] \in Hosts THEN <<e0>> ELSE <<>>
             d1 == IF d[1] \in Hosts THEN <<e1>> ELSE <<>>
  <1>0. b \in BOOLEAN
    OBVIOUS
  <1> HIDE DEF b
  <1>1. e0 \in Jobs /\ e1 \in Jobs
    BY <1>0, JobKinds DEF Events, Requests, Ep
  <1>2. /\ e0.op = "event" /\ e0.ev = "delete" /\ e0.ep = 0 /\ ~e0.same
        /\ e1.op = "event" /\ e1.ev = "delete" /\ e1.ep = 1
    BY DEF Event
  <1>3. DeleteCalls(d) = d0 \o d1
    BY DEF DeleteCalls, b
  <1> HIDE DEF e0, e1
  <1>4. (d[0] \in Hosts => e0 \in F) /\ (d[1] \in Hosts => e1 \in F)
    BY <1>1, <1>2 DEF FirstDrops, DropJobs, DropJob
  <1> HIDE DEF F
  <1>5. d0 \in Seq(F) /\ d1 \in Seq(F)
    BY <1>4, ShortSeqs
  <1>6. DeleteCalls(d) \in Seq(F)
    <2> HIDE DEF d0, d1
    <2> QED BY <1>3, <1>5
  <1>7. ASSUME d[0] \in Hosts PROVE DeleteCalls(d) # <<>> /\ Head(DeleteCalls(d)).ep = 0
    <2>1. DeleteCalls(d) = <<e0>> \o d1
      BY <1>3, <1>7
    <2> HIDE DEF d1
    <2>2. DeleteCalls(d) # <<>> /\ Head(DeleteCalls(d)) = e0
      BY <1>5, <2>1, ConsSeq
    <2> QED BY <1>2, <2>2
  <1>8. DeleteCalls(d) \in Seq(RequestEvents)
    BY CallsType
  <1> QED BY <1>6, <1>7, <1>8 DEF F

\* A WireDelete that has not reached the first endpoint, by its next call.
LEMMA DroppingHead ==
    ASSUME NEW d \in [Ep -> Data], d[0] \in Hosts, NEW s \in Dropping(d), s # <<>>,
           NEW j, j = Head(s)
    PROVE  /\ j.op \in {"setDesired", "wireDelete", "resolve", "event"}
           /\ j.op = "event" => j.ep = 0
           /\ j.op = "resolve" => Tail(s) = DeleteCalls(d)
  <1> DEFINE c == [op |-> "setDesired", to |-> "delete"]
             r == [op |-> "resolve", data |-> d]
  <1>1. c.op = "setDesired" /\ r.op = "resolve" /\ DeleteCall.op = "wireDelete"
    BY DEF DeleteCall
  <1>2. \/ s = <<c, DeleteCall>> \/ s = <<DeleteCall>>
        \/ s = <<r>> \o DeleteCalls(d) \/ s = DeleteCalls(d)
    BY DEF Dropping, DropCall
  <1> HIDE DEF c, r
  <1>3. CASE s = <<c, DeleteCall>> \/ s = <<DeleteCall>>
    <2>1. j = c \/ j = DeleteCall
      BY <1>3
    <2> QED BY <1>1, <2>1
  <1>4. CASE s = <<r>> \o DeleteCalls(d)
    <2>1. j = r /\ Tail(s) = DeleteCalls(d)
      BY <1>4, DeleteCallsDrop, ConsSeq
    <2> QED BY <1>1, <2>1
  <1>5. CASE s = DeleteCalls(d)
    <2>1. s \in Seq(RequestEvents) /\ j.ep = 0
      BY <1>5, DeleteCallsDrop
    <2>2. j \in RequestEvents
      BY <2>1
    <2> QED BY <2>1, <2>2 DEF RequestEvents
  <1> QED BY <1>2, <1>3, <1>4, <1>5

\* Where the deletion is, by its next call.
LEMMA DropCases ==
    ASSUME ServingInv, DropInv, todo[Api] # <<>>, NEW j, j = Head(todo[Api]),
           NEW d, d = ReadyData, NEW n, n = Len(wires)
    PROVE  /\ j.op \in {"setDesired", "wireDelete", "resolve", "event", "write", "send", "settle", "forget"}
           /\ j.op = "setDesired" => todo[Api] = DropCall
           /\ j.op = "wireDelete" => todo[Api] = <<DeleteCall>>
           /\ j.op \notin {"setDesired", "wireDelete"} =>
                 DropJob(j, d, n) /\ Tail(todo[Api]) \in Seq(FirstDrops(d, n))
  <1> DEFINE c == [op |-> "setDesired", to |-> "delete"]
  <1>1. c.op = "setDesired" /\ DeleteCall.op = "wireDelete" /\ DropCall = <<c, DeleteCall>>
    BY DEF DeleteCall, DropCall
  <1> HIDE DEF c
  <1>2. CASE todo[Api] = DropCall
    <2>1. j = c
      BY <1>1, <1>2
    <2> QED BY <1>1, <1>2, <2>1
  <1>3. CASE todo[Api] = <<DeleteCall>>
    <2>1. j = DeleteCall
      BY <1>3
    <2> QED BY <1>1, <1>3, <2>1
  <1>4. CASE todo[Api] \in Seq(DropJobs(d, n))
    <2>1. j \in DropJobs(d, n) /\ Tail(todo[Api]) \in Seq(DropJobs(d, n))
      BY <1>4
    <2>2. DropJob(j, d, n)
      BY <2>1 DEF DropJobs
    <2>3. j.op \in {"resolve", "event", "write", "send", "settle", "forget"}
      BY <2>2 DEF DropJob
    <2>4. PICK S : S = PlainJobs(pod, NearWorker, Len(wires))
      OBVIOUS
    <2>5. Tail(todo[Api]) \in Seq(S)
      BY <2>3, <2>4, ServingCases
    <2>6. Tail(todo[Api]) \in Seq(S \cap DropJobs(d, n))
      BY <2>1, <2>5, SeqBoth
    <2>7. S \cap DropJobs(d, n) \subseteq FirstDrops(d, n)
      BY <2>4 DEF PlainJobs, PlainJob, FirstDrops
    <2>8. Tail(todo[Api]) \in Seq(FirstDrops(d, n))
      BY <2>6, <2>7, SeqMono
    <2> QED BY <2>2, <2>3, <2>8
  <1> QED BY <1>2, <1>3, <1>4 DEF DropInv

\* A deployed wire whose first endpoint is OK has not been touched.
LEMMA TouchedOnce ==
    ASSUME IInv, DropInv, deployed # {}, wires[cached].ok[0], NEW d, d = ReadyData
    PROVE  /\ Unused /\ wires[cached].state[0] = "Created" /\ d[0] \in Hosts /\ todo[Api] \in Dropping(d)
           /\ todo[Api] # <<>> =>
                 /\ Head(todo[Api]).op \in {"setDesired", "wireDelete", "resolve", "event"}
                 /\ Head(todo[Api]).op = "event" => Head(todo[Api]).ep = 0
                 /\ Head(todo[Api]).op = "resolve" => Tail(todo[Api]) = DeleteCalls(d)
  <1>1. Untouched(wires[cached], d)
    BY DEF DropInv, CarriedInv
  <1>2. Unused /\ wires[cached].state[0] = "Created" /\ d[0] \in Hosts /\ todo[Api] \in Dropping(d)
    BY <1>1 DEF Untouched
  <1>3. d \in [Ep -> Data]
    BY DEF ReadyData, ReadyHost, Data
  <1> QED BY <1>2, <1>3, DroppingHead

\* A step of goroutine p during the deletion.
LEMMA DropKept ==
    ASSUME IInv, DropInv, UNCHANGED <<pod, daemon>>, NEW d, d = ReadyData,
           NEW n, n = Len(wires), n = Len(wires'),
           NEW p \in {Api} \cup Workers, \A q \in Procs : q # p => todo'[q] = todo[q],
           \A k \in Workers : queue'[k] \in Seq(DropTasks(k[1], d, n)),
           p = Api => todo'[Api] \in {DropCall, <<DeleteCall>>} \/ todo'[Api] \in Seq(DropJobs(d, n)),
           p \in Workers => /\ At(p, "event")' => Head(todo'[p]).ev \in {"deleted", "failed"}
                            /\ At(p, "settle")' => Head(todo'[p]).w = n,
           deployed' \subseteq deployed, claimed' => claimed,
           deployed' # {} \/ claimed' => cached' = cached /\ ~At(p, "forget")',
           NEW o, o = wires'[cached],
           deployed' # {} => /\ o.host = d /\ (o.ok[0] => Untouched(o, d)')
                             /\ p \in Workers /\ At(p, "event")' => Head(todo'[p]).ev # "deleted"
    PROVE  DropInv'
  <1>1. ReadyData' = d
    BY ReadyDataSame
  <1>2. p \in Procs /\ Api \in Procs /\ Api \notin Workers /\ Workers \subseteq Procs
    BY ProcsDisjoint
  <1>3. todo'[Api] \in {DropCall, <<DeleteCall>>} \/ todo'[Api] \in Seq(DropJobs(d, n))
    BY <1>2 DEF DropInv
  <1>4. ASSUME NEW k \in Workers
        PROVE  /\ At(k, "event")' => Head(todo'[k]).ev \in {"deleted", "failed"}
               /\ At(k, "settle")' => Head(todo'[k]).w = n
    <2>1. CASE k = p
      BY <2>1
    <2>2. CASE k # p
      BY <1>2, <2>2 DEF DropInv, At
    <2> QED BY <2>1, <2>2
  <1>5. deployed' # {} => deployed # {}
    OBVIOUS
  <1>6. ASSUME deployed' # {} \/ claimed'
        PROVE  cached' # NoWire /\ \A q \in Procs : ~At(q, "forget")'
    <2>1. cached # NoWire /\ \A q \in Procs : ~At(q, "forget")
      BY <1>5, <1>6 DEF DropInv
    <2>2. ASSUME NEW q \in Procs PROVE ~At(q, "forget")'
      <3>1. CASE q = p
        BY <1>6, <3>1
      <3>2. CASE q # p
        BY <2>1, <3>2 DEF At
      <3> QED BY <3>1, <3>2
    <2> QED BY <1>6, <2>1, <2>2
  <1>7. ASSUME deployed' # {}
        PROVE  CarriedInv(o, d)' /\ o = wires'[cached']
    <2>1. \A k \in Workers : At(k, "event")' => Head(todo'[k]).ev # "deleted"
      <3> SUFFICES ASSUME NEW k \in Workers, At(k, "event")' PROVE Head(todo'[k]).ev # "deleted"
        OBVIOUS
      <3>1. CASE k = p
        BY <1>7, <3>1
      <3>2. CASE k # p
        BY <1>2, <1>5, <1>7, <3>2 DEF DropInv, CarriedInv, At
      <3> QED BY <3>1, <3>2
    <2> QED BY <1>7, <2>1 DEF CarriedInv
  <1>8. deployed' # {} => CarriedInv(wires[cached], ReadyData)'
    BY <1>1, <1>7
  <1> QED BY <1>1, <1>3, <1>4, <1>6, <1>8 DEF DropInv

\* What a call of WireDelete leaves of it.
LEMMA DropContinue ==
    ASSUME TypeOK, NEW d, NEW n, NEW js \in Seq(FirstDrops(d, n)), Continue(Api, js),
           Tail(todo[Api]) \in Seq(FirstDrops(d, n))
    PROVE  todo'[Api] \in Seq(DropJobs(d, n)) /\ ~At(Api, "forget")'
  <1>1. todo'[Api] = js \o Tail(todo[Api])
    BY ProcsDisjoint DEF Continue, TypeOK
  <1>2. todo'[Api] \in Seq(FirstDrops(d, n))
    BY <1>1
  <1>3. FirstDrops(d, n) \subseteq DropJobs(d, n)
    BY DEF FirstDrops
  <1>4. todo'[Api] # <<>> => Head(todo'[Api]).op # "forget"
    <2> SUFFICES ASSUME todo'[Api] # <<>> PROVE Head(todo'[Api]).op # "forget"
      OBVIOUS
    <2>1. Head(todo'[Api]) \in FirstDrops(d, n)
      BY <1>2, HeadIn
    <2> QED BY <2>1 DEF FirstDrops
  <1> QED BY <1>2, <1>3, <1>4, SeqMono DEF At

\* The wire that a deletion is about, while there is something to delete.
LEMMA DropWire ==
    ASSUME IInv, NearInv, DropInv, deployed # {} \/ claimed
    PROVE  /\ cached # NoWire /\ cached = Len(wires) /\ cached \in 1 .. Len(wires)
           /\ wires[cached] \in WireObjects /\ \A p \in Procs : ~At(p, "forget")
           /\ deployed # {} => wires[cached].host = ReadyData
  <1>1. cached # NoWire /\ \A p \in Procs : ~At(p, "forget")
    BY DEF DropInv
  <1>2. cached = Len(wires)
    BY <1>1 DEF NearInv
  <1>3. deployed # {} => wires[cached].host = ReadyData
    BY DEF DropInv, CarriedInv
  <1> QED BY <1>1, <1>2, <1>3, WireCached

\* WireDelete up to the resolution, which finds what the caches say.
LEMMA DropOpening ==
    ASSUME IInv, ServingInv, NearInv, DropInv, topology = "ready", UNCHANGED <<pod, daemon>>,
           SetDesiredAction(Api) \/ ResolveForDelete(Api) \/ Resolve(Api)
    PROVE  DropInv'
  <1> USE DEF cacheVars, workerVars, wireVars
  <1>0. TypeOK /\ Api \in Procs /\ Api \notin Workers /\ todo \in [Procs -> Seq(Jobs)]
        /\ wires \in Seq(WireObjects) /\ \A k \in Workers : queue[k] \in Seq(DropTasks(k[1], ReadyData, Len(wires)))
    BY ProcsDisjoint DEF IInv, TypeOK, DropInv
  <1>1. PICK d : d = ReadyData
    OBVIOUS
  <1>2. PICK n : n = Len(wires)
    OBVIOUS
  <1>3. PICK j : j = Head(todo[Api])
    OBVIOUS
  <1>4. d \in [Ep -> Data]
    BY <1>1 DEF ReadyData, ReadyHost, Data
  <1>5. todo[Api] # <<>> /\ \A q \in Procs : q # Api => todo'[q] = todo[q]
    <2>1. Step(Api)
      BY DEF Step
    <2> QED BY <1>0, <2>1, StepAlone
  <1>6. UNCHANGED <<deployed, queue, cached, claimed>>
    BY DEF SetDesiredAction, ResolveForDelete, Resolve
  <1>7. deployed # {} => wires[cached].host = d /\ wires[cached] \in WireObjects /\ cached \in 1 .. Len(wires)
    BY <1>1, DropWire
  <1>8. wires[cached].ok[0] /\ deployed # {} =>
            /\ Unused /\ wires[cached].state[0] = "Created" /\ d[0] \in Hosts
            /\ j.op = "resolve" => Tail(todo[Api]) = DeleteCalls(d)
    BY <1>1, <1>3, <1>5, TouchedOnce
  <1>9. Unused => Unused'
    BY <1>0, <1>5, <1>6, ProcsDisjoint DEF Unused
  <1>10. ASSUME n = Len(wires'), ~At(Api, "forget")',
                todo'[Api] \in {DropCall, <<DeleteCall>>} \/ todo'[Api] \in Seq(DropJobs(d, n)),
                NEW o, o = wires'[cached],
                deployed # {} => /\ o.host = d /\ o.ok = wires[cached].ok /\ o.state = wires[cached].state
                                 /\ wires[cached].ok[0] => todo'[Api] \in Dropping(d)
         PROVE  DropInv'
    <2>1. deployed # {} => o.host = d /\ (o.ok[0] => Untouched(o, d)')
      BY <1>8, <1>9, <1>10 DEF Untouched
    <2> QED BY <1>0, <1>1, <1>2, <1>5, <1>6, <1>10, <2>1, DropKept
  <1>11. CASE SetDesiredAction(Api)
    <2>1. j.op = "setDesired" /\ Continue(Api, <<>>)
          /\ wires' = IF cached = NoWire THEN wires ELSE [wires EXCEPT ![cached].desired = j.to]
      BY <1>3, <1>11 DEF SetDesiredAction, At
    <2>2. todo[Api] = DropCall
      BY <1>3, <1>5, <2>1, DropCases
    <2>3. todo'[Api] = <<DeleteCall>>
      <3> DEFINE c == [op |-> "setDesired", to |-> "delete"]
      <3>1. todo'[Api] = <<>> \o Tail(<<c, DeleteCall>>)
        BY <1>0, <2>1, <2>2 DEF Continue, DropCall
      <3> HIDE DEF c
      <3> QED BY <3>1, AfterFirst
    <2>4. ~At(Api, "forget")' /\ todo'[Api] \in Dropping(d)
      BY <2>3 DEF At, DeleteCall, Dropping
    <2>5. n = Len(wires')
      BY <1>0, <1>2, <2>1
    <2>6. PICK o : o = wires'[cached]
      OBVIOUS
    <2>7. deployed # {} => o.host = d /\ o.ok = wires[cached].ok /\ o.state = wires[cached].state
      <3> SUFFICES ASSUME deployed # {}
                   PROVE  o.host = d /\ o.ok = wires[cached].ok /\ o.state = wires[cached].state
        OBVIOUS
      <3>1. PICK c : c = wires[cached]
        OBVIOUS
      <3>2. c \in WireObjects /\ c.host = d
        BY <1>7, <3>1
      <3> DEFINE x == [c EXCEPT !.desired = j.to]
      <3>3. o = x \/ o = c
        BY <1>0, <1>7, <2>1, <2>6, <3>1
      <3>4. x.host = c.host /\ x.ok = c.ok /\ x.state = c.state
        BY <3>2, OtherFields
      <3> HIDE DEF x
      <3> QED BY <3>1, <3>2, <3>3, <3>4
    <2> QED BY <1>10, <2>3, <2>4, <2>5, <2>6, <2>7
  <1>12. CASE ResolveForDelete(Api)
    <2> DEFINE r == [op |-> "resolve", data |-> d]
               s == <<r>> \o DeleteCalls(d)
    <2>1. j.op = "wireDelete" /\ wires' = wires
      BY <1>3, <1>12 DEF ResolveForDelete, At
    <2>2. todo[Api] = <<DeleteCall>>
      BY <1>3, <1>5, <2>1, DropCases
    <2>3. resolveWire = d
      BY <1>1, ResolveWireIs
    <2>4. Continue(Api, s)
      BY <1>12, <2>3 DEF ResolveForDelete
    <2>5. r \in FirstDrops(d, n) /\ r.op = "resolve"
      <3>1. r \in Jobs /\ r.op = "resolve" /\ r.data = d
        BY <1>4, JobKinds
      <3> QED BY <3>1 DEF FirstDrops, DropJobs, DropJob
    <2> HIDE DEF r
    <2>6. s \in Seq(FirstDrops(d, n))
      <3>1. DeleteCalls(d) \in Seq(FirstDrops(d, n))
        BY <1>4, DeleteCallsDrop
      <3> QED BY <2>5, <3>1
    <2>7. s \in Dropping(d)
      BY DEF Dropping, r
    <2> HIDE DEF s
    <2>8. FirstDrops(d, n) \subseteq Jobs
      BY DEF FirstDrops, DropJobs
    <2>9. todo'[Api] = s
      <3>1. s \in Seq(Jobs)
        BY <2>6, <2>8, SeqMono
      <3>2. todo'[Api] = s \o Tail(<<DeleteCall>>)
        BY <1>0, <2>2, <2>4 DEF Continue
      <3> QED BY <3>1, <3>2, AfterOnly
    <2>10. todo'[Api] \in Seq(DropJobs(d, n)) /\ ~At(Api, "forget")'
      <3>1. Tail(todo[Api]) = <<>> /\ <<>> \in Seq(FirstDrops(d, n))
        BY <2>2
      <3> QED BY <1>0, <2>4, <2>6, <3>1, DropContinue
    <2> QED BY <1>2, <1>7, <1>10, <2>1, <2>7, <2>9, <2>10
  <1>13. CASE Resolve(Api)
    <2>1. j.op = "resolve" /\ Continue(Api, <<>>)
          /\ wires' = IF cached = NoWire THEN wires ELSE [wires EXCEPT ![cached].host = j.data]
      BY <1>3, <1>13 DEF Resolve, At
    <2>2. DropJob(j, d, n) /\ Tail(todo[Api]) \in Seq(FirstDrops(d, n))
      BY <1>1, <1>2, <1>3, <1>5, <2>1, DropCases
    <2>3. j.data = d
      BY <2>1, <2>2 DEF DropJob
    <2>4. todo'[Api] \in Seq(DropJobs(d, n)) /\ ~At(Api, "forget")'
      BY <1>0, <2>1, <2>2, DropContinue, ShortSeqs
    <2>5. n = Len(wires')
      BY <1>0, <1>2, <2>1
    <2>6. PICK o : o = wires'[cached]
      OBVIOUS
    <2>7. deployed # {} => o.host = d /\ o.ok = wires[cached].ok /\ o.state = wires[cached].state
      <3> SUFFICES ASSUME deployed # {}
                   PROVE  o.host = d /\ o.ok = wires[cached].ok /\ o.state = wires[cached].state
        OBVIOUS
      <3>1. PICK c : c = wires[cached]
        OBVIOUS
      <3>2. c \in WireObjects /\ c.host = d
        BY <1>7, <3>1
      <3> DEFINE x == [c EXCEPT !.host = j.data]
      <3>3. o = x \/ o = c
        BY <1>0, <1>7, <2>1, <2>6, <3>1
      <3>4. x.host = j.data /\ x.ok = c.ok /\ x.state = c.state
        BY <3>2, OtherFields
      <3> HIDE DEF x
      <3> QED BY <2>3, <3>1, <3>2, <3>3, <3>4
    <2>8. deployed # {} /\ wires[cached].ok[0] => todo'[Api] \in Dropping(d)
      <3> SUFFICES ASSUME deployed # {}, wires[cached].ok[0] PROVE todo'[Api] \in Dropping(d)
        OBVIOUS
      <3>1. todo'[Api] = <<>> \o DeleteCalls(d)
        BY <1>0, <1>8, <2>1 DEF Continue
      <3>2. todo'[Api] = DeleteCalls(d)
        BY <1>4, <3>1, DeleteCallsDrop, ConcatEmptySeq
      <3> QED BY <3>2 DEF Dropping
    <2> QED BY <1>10, <2>4, <2>5, <2>6, <2>7, <2>8
  <1> QED BY <1>11, <1>12, <1>13

\* What a delete, or the failure of one, makes of a state.
LEMMA TargetDown ==
    ASSUME NEW s \in EpStates, NEW same \in BOOLEAN
    PROVE  /\ Target(s, "delete", same) \in {"Deleting", "Deleted", Ignored}
           /\ ~same => Target(s, "delete", same) # "Deleted"
           /\ s = "Created" => Target(s, "delete", same) # Ignored
           /\ Target(s, "failed", same) \in {"Failed", Ignored}
  BY DEF Target, EpStates, DeletingHandleEvent, DeletedHandleEvent, FailedHandleEvent, Ignored,
         CreatingHandleEvent, CreatedHandleEvent, ResolutionFailedHandleEvent, CreateOr, DeleteOr

\* A DeleteEvent: the first endpoint is no longer OK.
LEMMA DropEvent ==
    ASSUME IInv, ServingInv, NearInv, DropInv, UNCHANGED <<pod, daemon>>, HandleEvent(Api)
    PROVE  DropInv'
  <1> USE DEF cacheVars, workerVars
  <1>0. TypeOK /\ Api \in Procs /\ Api \notin Workers /\ wires \in Seq(WireObjects)
        /\ \A k \in Workers : queue[k] \in Seq(DropTasks(k[1], ReadyData, Len(wires)))
    BY ProcsDisjoint DEF IInv, TypeOK, DropInv
  <1>1. PICK d : d = ReadyData
    OBVIOUS
  <1>2. PICK n : n = Len(wires)
    OBVIOUS
  <1>3. PICK j : j = Head(todo[Api])
    OBVIOUS
  <1>4. todo[Api] # <<>> /\ j.op = "event" /\ UNCHANGED <<deployed, queue, cached, claimed>>
        /\ \A q \in Procs : q # Api => todo'[q] = todo[q]
    <2>1. Step(Api)
      BY DEF Step
    <2>2. todo[Api] # <<>> /\ \A q \in Procs : q # Api => todo'[q] = todo[q]
      BY <1>0, <2>1, StepAlone
    <2> QED BY <1>3, <2>2 DEF HandleEvent, At
  <1>5. DropJob(j, d, n) /\ Tail(todo[Api]) \in Seq(FirstDrops(d, n))
    BY <1>1, <1>2, <1>3, <1>4, DropCases
  <1>6. j.ev = "delete" /\ d[j.ep] \in Hosts /\ (j.ep = 0 => ~j.same)
    BY <1>4, <1>5 DEF DropJob
  <1>7. CASE cached = NoWire
    <2>1. Continue(Api, <<>>) /\ wires' = wires
      BY <1>7 DEF HandleEvent
    <2>2. todo'[Api] \in Seq(DropJobs(d, n)) /\ ~At(Api, "forget")'
      BY <1>0, <1>5, <2>1, DropContinue, ShortSeqs
    <2>3. deployed = {}
      BY <1>7 DEF DropInv
    <2> QED BY <1>0, <1>1, <1>2, <1>4, <2>1, <2>2, <2>3, DropKept
  <1>8. CASE cached # NoWire
    <2>1. PICK o : o = wires[cached]
      OBVIOUS
    <2>2. cached = n /\ cached \in 1 .. Len(wires) /\ cached \in Wires /\ o \in WireObjects
      BY <1>2, <1>8, <2>1, WireCached DEF NearInv
    <2>3. j.ep \in Ep /\ j.same \in BOOLEAN
      BY <1>0, <1>3, <1>8, EventCases
    <2> DEFINE t == Target(o.state[j.ep], "delete", j.same)
               st == [op |-> "settle", w |-> cached]
    <2>4. PICK m \in WireObjects, js \in Seq(WritesFor(cached)) :
              EventEffect(Api, j, o, m, js)
      BY <1>0, <1>3, <1>8, <2>1, EventCases
    <2>5. /\ wires' = [wires EXCEPT ![cached] = m] /\ m.host = o.host
          /\ Continue(Api, js \o <<st>>)
          /\ m = Transition(o, j.ep, t) /\ js = Generated(cached, j.ep, t)
      BY <1>6, <2>4 DEF EventEffect
    <2>6. /\ t \in {"Deleting", "Deleted", Ignored} /\ (j.ep = 0 => t # "Deleted")
          /\ (j.ep = 0 /\ o.state[0] = "Created" => t = "Deleting")
          /\ o.state[j.ep] \in EpStates
      BY <1>6, <2>2, <2>3, TargetDown DEF WireObjects
    <2> HIDE DEF t
    <2>7. n = Len(wires') /\ wires'[cached] = m
      BY <1>0, <1>2, <2>2, <2>5
    <2>8. js \in Seq(FirstDrops(d, n))
      <3>1. CASE GeneratedAction(t) = Ignored
        BY <2>5, <3>1, ShortSeqs DEF Generated
      <3>2. CASE GeneratedAction(t) # Ignored
        <4> DEFINE task == [act |-> "delete", ep |-> j.ep, w |-> cached]
                   wr == [op |-> "write", task |-> task]
        <4>1. GeneratedAction(t) = "delete"
          BY <2>6, <3>2 DEF GeneratedAction, Ignored
        <4>2. js = <<wr>>
          BY <2>5, <4>1 DEF Generated, Ignored
        <4>3. task \in Tasks /\ task.act = "delete" /\ task.ep = j.ep /\ task.w = n
          BY <2>2, <2>3 DEF Tasks, WorkerActions
        <4> HIDE DEF task
        <4>4. wr \in Jobs /\ wr.op = "write" /\ wr.task = task
          BY <4>3, JobKinds
        <4> HIDE DEF wr
        <4>5. wr \in FirstDrops(d, n)
          BY <1>6, <4>3, <4>4 DEF FirstDrops, DropJobs, DropJob
        <4> QED BY <4>2, <4>5, ShortSeqs
      <3> QED BY <3>1, <3>2
    <2>9. st \in FirstDrops(d, n)
      <3>1. st \in Jobs /\ st.op = "settle"
        BY <2>2, JobKinds
      <3> QED BY <3>1 DEF FirstDrops, DropJobs, DropJob
    <2> HIDE DEF st
    <2>10. js \o <<st>> \in Seq(FirstDrops(d, n))
      BY <2>8, <2>9
    <2>11. todo'[Api] \in Seq(DropJobs(d, n)) /\ ~At(Api, "forget")'
      BY <1>0, <1>5, <2>5, <2>10, DropContinue
    <2>12. ASSUME deployed # {} PROVE m.host = d /\ ~m.ok[0]
      <3>1. m.host = d
        BY <1>1, <2>1, <2>5, <2>12, DropWire
      <3>2. o.ok[0] => j.ep = 0 /\ o.state[0] = "Created"
        BY <1>1, <1>3, <1>4, <2>1, <2>12, TouchedOnce
      <3>3. t \in EpStates \cup {Ignored}
        BY <2>6 DEF EpStates
      <3>4. /\ 0 # j.ep \/ t = Ignored => m.ok[0] = o.ok[0]
            /\ j.ep = 0 /\ t # Ignored => (m.ok[0] <=> t \in {"Created", "Deleted"})
        <4>1. 0 \in Ep
          BY DEF Ep
        <4> QED BY <2>2, <2>3, <2>5, <3>3, <4>1, TransitionFields
      <3>5. CASE j.ep = 0 /\ t # Ignored
        BY <2>6, <3>1, <3>4, <3>5
      <3>6. CASE j.ep # 0 \/ t = Ignored
        BY <2>6, <3>1, <3>2, <3>4, <3>6 DEF Ignored
      <3> QED BY <3>1, <3>5, <3>6
    <2> QED BY <1>0, <1>1, <1>2, <1>4, <2>7, <2>11, <2>12, DropKept
  <1> QED BY <1>7, <1>8

\* The failure of an action leaves a status that is not OK as it is.
LEMMA FailedKeeps ==
    ASSUME NEW o \in WireObjects, NEW e \in Ep, NEW same \in BOOLEAN
    PROVE  LET m == Transition(o, e, Target(o.state[e], "failed", same))
           IN  m.host = o.host /\ (m.ok[0] => o.ok[0])
  <1> DEFINE t == Target(o.state[e], "failed", same)
             m == Transition(o, e, t)
  <1>1. t \in {"Failed", Ignored}
    <2>1. o.state[e] \in EpStates
      BY DEF WireObjects
    <2> QED BY <2>1, TargetDown
  <1> HIDE DEF t
  <1>2. t \in EpStates \cup {Ignored} /\ 0 \in Ep
    BY <1>1 DEF EpStates, Ep
  <1>3. /\ m.host = o.host
        /\ 0 # e \/ t = Ignored => m.ok[0] = o.ok[0]
        /\ 0 = e /\ t # Ignored => (m.ok[0] <=> t \in {"Created", "Deleted"})
    BY <1>2, TransitionFields
  <1> HIDE DEF m
  <1>4. m.host = o.host /\ (m.ok[0] => o.ok[0])
    BY <1>1, <1>3
  <1> QED BY <1>4, Zenon DEF m, t

\* A delete is written to the worker of the host that the endpoint is on.
LEMMA DropWrite ==
    ASSUME IInv, ServingInv, NearInv, DropInv, UNCHANGED <<pod, daemon>>, WriteEvent(Api) \/ Send(Api)
    PROVE  DropInv' /\ UNCHANGED <<deployed, claimed>>
  <1> USE DEF cacheVars, workerVars, wireVars
  <1>0. TypeOK /\ Api \in Procs /\ Api \notin Workers /\ wires \in Seq(WireObjects)
        /\ queue \in [Workers -> Seq(Tasks)]
        /\ \A k \in Workers : queue[k] \in Seq(DropTasks(k[1], ReadyData, Len(wires)))
    BY ProcsDisjoint DEF IInv, TypeOK, DropInv
  <1>1. PICK d : d = ReadyData
    OBVIOUS
  <1>2. PICK n : n = Len(wires)
    OBVIOUS
  <1>3. PICK j : j = Head(todo[Api])
    OBVIOUS
  <1>4. todo[Api] # <<>> /\ j.op \in {"write", "send"} /\ UNCHANGED <<deployed, cached, claimed>>
        /\ \A q \in Procs : q # Api => todo'[q] = todo[q]
    <2>1. Step(Api)
      BY DEF Step
    <2>2. todo[Api] # <<>> /\ \A q \in Procs : q # Api => todo'[q] = todo[q]
      BY <1>0, <2>1, StepAlone
    <2> QED BY <1>3, <2>2 DEF WriteEvent, Send, At
  <1>5. DropJob(j, d, n) /\ Tail(todo[Api]) \in Seq(FirstDrops(d, n))
    BY <1>1, <1>2, <1>3, <1>4, DropCases
  <1> DEFINE t == Head(todo[Api]).task
  <1>6. t = j.task
    BY <1>3
  <1> HIDE DEF t
  <1>7. /\ t.act = "delete" /\ t.w = n /\ d[t.ep] \in Hosts
        /\ j.op = "send" => d[t.ep] = j.worker[1]
    BY <1>4, <1>5, <1>6 DEF DropJob
  <1>8. t \in Tasks /\ t.ep \in Ep /\ (j.op = "send" => j.worker \in Workers) /\ n \in 1 .. Len(wires)
    <2>1. j \in Jobs /\ t.w <= Len(wires)
      BY <1>0, <1>3, <1>4, <1>6, HeadAllowed DEF AllowedAt, RefersUpTo
    <2>2. t \in Tasks /\ (j.op = "send" => j.worker \in Workers)
      BY <1>4, <1>6, <2>1, JobFields
    <2>3. t.w \in Wires /\ t.ep \in Ep
      BY <2>2 DEF Tasks
    <2> QED BY <1>0, <1>2, <1>7, <2>2, <2>3, ConstantsAssumption DEF Wires
  <1>9. deployed # {} => cached = n /\ wires[cached].host = d /\ ~wires[cached].ok[0]
    <2> SUFFICES ASSUME deployed # {}
                 PROVE  cached = n /\ wires[cached].host = d /\ ~wires[cached].ok[0]
      OBVIOUS
    <2>1. cached = n /\ wires[cached].host = d
      BY <1>1, <1>2, DropWire
    <2>2. ~wires[cached].ok[0]
      BY <1>1, <1>3, <1>4, TouchedOnce
    <2> QED BY <2>1, <2>2
  <1>10. ASSUME NEW js \in Seq(FirstDrops(d, n)), Continue(Api, js), n = Len(wires'),
                \A k \in Workers : queue'[k] \in Seq(DropTasks(k[1], d, n)),
                NEW o, o = wires'[cached], deployed # {} => o.host = d /\ ~o.ok[0]
         PROVE  DropInv'
    <2>1. todo'[Api] \in Seq(DropJobs(d, n)) /\ ~At(Api, "forget")'
      BY <1>0, <1>5, <1>10, DropContinue
    <2> QED BY <1>0, <1>1, <1>2, <1>4, <1>10, <2>1, DropKept
  <1>11. <<>> \in Seq(FirstDrops(d, n))
    <2>1. \A S : <<>> \in Seq(S)
      OBVIOUS
    <2> QED BY <2>1, Zenon
  <1>12. ASSUME NEW k \in Workers, k[1] = d[t.ep], queue' = [queue EXCEPT ![k] = Append(@, t)]
         PROVE  \A x \in Workers : queue'[x] \in Seq(DropTasks(x[1], d, n))
    <2> SUFFICES ASSUME NEW x \in Workers PROVE queue'[x] \in Seq(DropTasks(x[1], d, n))
      OBVIOUS
    <2>1. queue[x] \in Seq(DropTasks(x[1], d, n))
      BY <1>0, <1>1, <1>2
    <2>2. CASE x # k
      BY <1>0, <1>12, <2>1, <2>2
    <2>3. CASE x = k
      <3>1. t \in DropTasks(x[1], d, n)
        BY <1>7, <1>8, <1>12, <2>3 DEF DropTasks
      <3>2. queue'[x] = Append(queue[x], t)
        BY <1>0, <1>12, <2>3
      <3> QED BY <2>1, <3>1, <3>2
    <2> QED BY <2>2, <2>3
  <1>13. CASE Send(Api)
    <2>1. wires' = wires /\ Continue(Api, <<>>) /\ j.op = "send"
          /\ queue' = [queue EXCEPT ![j.worker] = Append(@, t)]
      BY <1>3, <1>13 DEF Send, At, t
    <2>2. \A x \in Workers : queue'[x] \in Seq(DropTasks(x[1], d, n))
      BY <1>7, <1>8, <1>12, <2>1
    <2> QED BY <1>2, <1>4, <1>9, <1>10, <1>11, <2>1, <2>2
  <1>14. CASE WriteEvent(Api)
    <2> DEFINE h == wires[t.w].host[t.ep]
               k == <<h, WorkerOf(h)>>
    <2>3. \/ Continue(Api, <<>>) /\ UNCHANGED <<wires, queue>>
          \/ /\ wires' = [wires EXCEPT ![t.w] =
                            Transition(@, t.ep, Target(@.state[t.ep], "failed", FALSE))]
             /\ Continue(Api, <<>>) /\ UNCHANGED queue
          \/ /\ WorkerOf(h) # 0 /\ queue' = [queue EXCEPT ![k] = Append(@, t)]
             /\ Continue(Api, <<>>) /\ UNCHANGED wires
          \/ /\ WorkerOf(h) # 0 /\ Continue(Api, <<[op |-> "send", worker |-> k, task |-> t]>>)
             /\ UNCHANGED <<wires, queue>>
      BY <1>14, WriteCases DEF t
    <2>1. h = wires[t.w].host[t.ep]
      OBVIOUS
    <2>2. k = <<h, WorkerOf(h)>>
      OBVIOUS
    <2> HIDE DEF h, k
    <2>4. WorkerOf(h) # 0 => k[1] = d[t.ep] /\ k \in Workers
      <3> SUFFICES ASSUME WorkerOf(h) # 0 PROVE k[1] = d[t.ep] /\ k \in Workers
        OBVIOUS
      <3>1. NearWire(wires[n], pod)
        BY <1>8 DEF NearInv
      <3>2. h \in Hosts /\ h \in {pod[t.ep], Peer, NoHost}
        BY <1>7, <1>8, <2>1, <3>1 DEF WorkerOf, NearWire, NearHosts
      <3>3. h = pod[t.ep]
        BY <3>2, ConstantsAssumption
      <3>4. d[t.ep] = pod[t.ep]
        BY <1>1, <1>7, <1>8, ConstantsAssumption DEF ReadyData, ReadyHost
      <3> QED BY <1>0, <2>2, <3>2, <3>3, <3>4, WorkerOfType
    <2>5. \A x \in Workers : queue[x] \in Seq(DropTasks(x[1], d, n))
      BY <1>0, <1>1, <1>2
    <2>6. CASE Continue(Api, <<>>) /\ UNCHANGED <<wires, queue>>
      BY <1>2, <1>4, <1>9, <1>10, <1>11, <2>5, <2>6
    <2>7. CASE /\ wires' = [wires EXCEPT ![t.w] =
                              Transition(@, t.ep, Target(@.state[t.ep], "failed", FALSE))]
               /\ Continue(Api, <<>>) /\ UNCHANGED queue
      <3>1. PICK o : o = wires[t.w]
        OBVIOUS
      <3>2. PICK m : m = Transition(o, t.ep, Target(o.state[t.ep], "failed", FALSE))
        OBVIOUS
      <3>3. wires' = [wires EXCEPT ![t.w] = m]
        BY <2>7, <3>1, <3>2
      <3>4. o \in WireObjects
        BY <1>0, <1>7, <1>8, <3>1
      <3>5. m.host = o.host /\ (m.ok[0] => o.ok[0])
        <4>1. t.ep \in Ep /\ FALSE \in BOOLEAN
          BY <1>8
        <4> QED BY <3>2, <3>4, <4>1, FailedKeeps, Zenon
      <3>6. n = Len(wires') /\ wires'[n] = m
        BY <1>0, <1>2, <1>7, <1>8, <3>3
      <3>7. PICK x : x = wires'[cached]
        OBVIOUS
      <3>8. deployed # {} => x.host = d /\ ~x.ok[0]
        BY <1>7, <1>9, <3>1, <3>5, <3>6, <3>7
      <3> QED BY <1>4, <1>10, <1>11, <2>5, <2>7, <3>6, <3>7, <3>8
    <2>8. CASE /\ WorkerOf(h) # 0 /\ queue' = [queue EXCEPT ![k] = Append(@, t)]
               /\ Continue(Api, <<>>) /\ UNCHANGED wires
      <3>1. \A x \in Workers : queue'[x] \in Seq(DropTasks(x[1], d, n))
        BY <1>12, <2>4, <2>8
      <3> QED BY <1>2, <1>4, <1>9, <1>10, <1>11, <2>8, <3>1
    <2>9. CASE /\ WorkerOf(h) # 0 /\ Continue(Api, <<[op |-> "send", worker |-> k, task |-> t]>>)
               /\ UNCHANGED <<wires, queue>>
      <3> DEFINE sj == [op |-> "send", worker |-> k, task |-> t]
      <3>1. sj \in Jobs /\ sj.op = "send" /\ sj.worker = k /\ sj.task = t
        BY <1>8, <2>4, <2>9, JobKinds
      <3>2. Continue(Api, <<sj>>) /\ UNCHANGED <<wires, queue>>
        BY <2>9
      <3> HIDE DEF sj
      <3>3. sj \in FirstDrops(d, n)
        BY <1>7, <2>4, <2>9, <3>1 DEF FirstDrops, DropJobs, DropJob
      <3>4. <<sj>> \in Seq(FirstDrops(d, n))
        BY <3>3, ShortSeqs
      <3> QED BY <1>2, <1>4, <1>9, <1>10, <2>5, <3>2, <3>4
    <2> QED BY <2>3, <2>6, <2>7, <2>8, <2>9
  <1> QED BY <1>4, <1>13, <1>14

\* The claim is given back, and the wire dropped, only when no daemon carries it.
LEMMA DropClosing ==
    ASSUME IInv, ServingInv, NearInv, DropInv, UNCHANGED <<pod, daemon>>, Settle(Api) \/ Forget(Api)
    PROVE  DropInv' /\ deployed' = deployed /\ (claimed' => claimed)
  <1> USE DEF cacheVars, workerVars, wireVars
  <1>0. TypeOK /\ Api \in Procs /\ Api \notin Workers /\ todo \in [Procs -> Seq(Jobs)]
        /\ \A k \in Workers : queue[k] \in Seq(DropTasks(k[1], ReadyData, Len(wires)))
    BY ProcsDisjoint DEF IInv, TypeOK, DropInv
  <1>1. PICK d : d = ReadyData
    OBVIOUS
  <1>2. PICK n : n = Len(wires)
    OBVIOUS
  <1>3. PICK j : j = Head(todo[Api])
    OBVIOUS
  <1>4. todo[Api] # <<>> /\ j.op \in {"settle", "forget"} /\ UNCHANGED <<deployed, queue, wires>>
        /\ \A q \in Procs : q # Api => todo'[q] = todo[q]
    <2>1. Step(Api)
      BY DEF Step
    <2>2. todo[Api] # <<>> /\ \A q \in Procs : q # Api => todo'[q] = todo[q]
      BY <1>0, <2>1, StepAlone
    <2> QED BY <1>3, <2>2 DEF Settle, Forget, At
  <1>5. DropJob(j, d, n) /\ Tail(todo[Api]) \in Seq(FirstDrops(d, n))
    BY <1>1, <1>2, <1>3, <1>4, DropCases
  <1>6. deployed # {} => wires[cached].host = d /\ ~wires[cached].ok[0]
    <2> SUFFICES ASSUME deployed # {} PROVE wires[cached].host = d /\ ~wires[cached].ok[0]
      OBVIOUS
    <2>1. wires[cached].host = d
      BY <1>1, DropWire
    <2>2. ~wires[cached].ok[0]
      BY <1>1, <1>3, <1>4, TouchedOnce
    <2> QED BY <2>1, <2>2
  <1>7. deployed # {} \/ claimed => cached = n
    BY <1>2, DropWire
  <1>8. \A k \in Workers : queue'[k] \in Seq(DropTasks(k[1], d, n))
    BY <1>0, <1>1, <1>2, <1>4
  <1>9. ASSUME todo'[Api] \in Seq(DropJobs(d, n)), claimed' => claimed,
               deployed' # {} \/ claimed' => cached' = cached /\ ~At(Api, "forget")'
        PROVE  DropInv'
    <2>1. PICK o : o = wires'[cached]
      OBVIOUS
    <2>2. deployed' # {} => o.host = d /\ ~o.ok[0]
      BY <1>4, <1>6, <2>1
    <2> QED BY <1>0, <1>1, <1>2, <1>4, <1>8, <1>9, <2>1, <2>2, DropKept
  <1>10. Continue(Api, <<>>) => todo'[Api] \in Seq(DropJobs(d, n)) /\ ~At(Api, "forget")'
    <2>1. \A S : <<>> \in Seq(S)
      OBVIOUS
    <2>2. <<>> \in Seq(FirstDrops(d, n))
      BY <2>1, Zenon
    <2> QED BY <1>0, <1>5, <2>2, DropContinue
  <1>11. CASE Forget(Api)
    <2>1. At(Api, "forget") /\ Continue(Api, <<>>) /\ claimed' = claimed
      BY <1>11 DEF Forget
    <2>2. deployed = {} /\ ~claimed
      BY <1>0, <2>1 DEF DropInv
    <2> QED BY <1>4, <1>9, <1>10, <2>1, <2>2
  <1>12. CASE Settle(Api)
    <2>1. j.op = "settle"
      BY <1>3, <1>12 DEF Settle, At
    <2>2. j.w = n
      <3>1. PlainJob(j, pod, NearWorker, Len(wires))
        BY <1>3, <1>4, <2>1, ServingCases
      <3> QED BY <1>2, <2>1, <3>1 DEF PlainJob
    <2>3. Finished(wires[n]) => deployed = {}
      <3> SUFFICES ASSUME Finished(wires[n]), deployed # {} PROVE FALSE
        OBVIOUS
      <3>1. wires[n].ok[0]
        BY DEF Finished, StatusOK, Ep
      <3> QED BY <1>6, <1>7, <3>1
    <2>4. \/ Finished(wires[n]) /\ claimed' = FALSE /\ Continue(Api, <<[op |-> "forget"]>>)
          \/ cached' = cached /\ claimed' \in {claimed, FALSE} /\ Continue(Api, <<>>)
          \/ cached' = n /\ claimed' = claimed /\ Continue(Api, <<>>)
      BY <1>3, <1>12, <2>2 DEF Settle
    <2>5. CASE Finished(wires[n]) /\ claimed' = FALSE /\ Continue(Api, <<[op |-> "forget"]>>)
      <3> DEFINE f == [op |-> "forget"]
      <3>1. f \in Jobs /\ f.op = "forget" /\ Continue(Api, <<f>>)
        BY <2>5, JobKinds
      <3> HIDE DEF f
      <3>2. f \in DropJobs(d, n)
        BY <3>1 DEF DropJobs, DropJob
      <3>3. todo'[Api] = <<f>> \o Tail(todo[Api])
        BY <1>0, <3>1 DEF Continue
      <3>4. Tail(todo[Api]) \in Seq(DropJobs(d, n))
        BY <1>5, SeqMono DEF FirstDrops
      <3>5. todo'[Api] \in Seq(DropJobs(d, n))
        BY <3>2, <3>3, <3>4
      <3> QED BY <1>4, <1>9, <2>3, <2>5, <3>5
    <2>6. CASE cached' = cached /\ claimed' \in {claimed, FALSE} /\ Continue(Api, <<>>)
      <3>1. claimed' => claimed
        BY <2>6
      <3> QED BY <1>4, <1>9, <1>10, <2>6, <3>1
    <2>7. CASE cached' = n /\ claimed' = claimed /\ Continue(Api, <<>>)
      BY <1>4, <1>7, <1>9, <1>10, <2>7
    <2> QED BY <2>4, <2>5, <2>6, <2>7
  <1> QED BY <1>11, <1>12

\* A worker's answer does not make a deployed wire look deleted.
LEMMA DropWorkerStep ==
    ASSUME IInv, ServingInv, NearInv, DropInv, UNCHANGED <<pod, daemon>>, NEW k \in Workers, Step(k)
    PROVE  DropInv' /\ deployed' = deployed /\ (claimed' => claimed)
  <1> USE DEF cacheVars, workerVars, wireVars
  <1>0. TypeOK /\ k \in Procs /\ k # Api /\ Api \in Procs /\ todo \in [Procs -> Seq(Jobs)]
        /\ k \in {Api} \cup Workers /\ wires \in Seq(WireObjects)
        /\ \A x \in Workers : queue[x] \in Seq(DropTasks(x[1], ReadyData, Len(wires)))
    BY ProcsDisjoint DEF IInv, TypeOK, DropInv
  <1>1. PICK d : d = ReadyData
    OBVIOUS
  <1>2. PICK n : n = Len(wires)
    OBVIOUS
  <1>3. PICK j : j = Head(todo[k])
    OBVIOUS
  <1>4. todo[k] # <<>> /\ \A q \in Procs : q # k => todo'[q] = todo[q]
    BY <1>0, StepAlone
  <1>5. j.op \in {"event", "settle", "forget"} /\ Len(todo[k]) <= 1
    BY <1>0, <1>3, <1>4, HeadAllowed DEF AllowedAt, WorkerJob, NearInv
  <1>6. \A js \in Seq(Jobs) : Continue(k, js) => todo'[k] = js
    <2> SUFFICES ASSUME NEW js \in Seq(Jobs), Continue(k, js) PROVE todo'[k] = js
      OBVIOUS
    <2>1. todo[k] \in Seq(Jobs)
      BY <1>0
    <2>2. Len(todo[k]) \in Nat /\ Len(todo[k]) # 0
      BY <1>4, <2>1, EmptySeq
    <2>3. Tail(todo[k]) \in Seq(Jobs) /\ Len(Tail(todo[k])) = Len(todo[k]) - 1
      BY <1>4, <2>1
    <2>4. Tail(todo[k]) = <<>>
      BY <1>5, <2>2, <2>3, EmptySeq
    <2>5. todo'[k] = js \o Tail(todo[k])
      BY <1>0 DEF Continue
    <2> QED BY <2>4, <2>5, ConcatEmptySeq
  <1>7. HandleEvent(k) \/ Settle(k) \/ Forget(k)
    BY <1>3, <1>5 DEF Step, At, Claim, Insert, SetDesiredAction, ResolveForCreate, ResolveForDelete,
       Resolve, UnResolve, WriteEvent, Send, Reconcile, StartWorker
  <1>8. UNCHANGED <<deployed, queue>>
    BY <1>7 DEF HandleEvent, Settle, Forget
  <1>9. /\ \A x \in Workers : queue'[x] \in Seq(DropTasks(x[1], d, n))
        /\ todo'[k] = <<>> => ~At(k, "event")' /\ ~At(k, "settle")' /\ ~At(k, "forget")'
        /\ <<>> \in Seq(Jobs)
    BY <1>0, <1>1, <1>2, <1>8 DEF At
  <1>10. deployed # {} => wires[cached].host = d /\ ~wires[cached].ok[0]
    <2> SUFFICES ASSUME deployed # {} PROVE wires[cached].host = d /\ ~wires[cached].ok[0]
      OBVIOUS
    <2>1. wires[cached].host = d
      BY <1>1, DropWire
    <2>2. ~Unused
      BY <1>4 DEF Unused
    <2> QED BY <1>1, <2>1, <2>2, TouchedOnce
  <1>11. deployed # {} \/ claimed => cached = n
    BY <1>2, DropWire
  <1>12. ASSUME n = Len(wires'), ~At(k, "event")', At(k, "settle")' => Head(todo'[k]).w = n,
                claimed' => claimed, deployed' # {} \/ claimed' => cached' = cached /\ ~At(k, "forget")',
                NEW o, o = wires'[cached], deployed # {} => o.host = d /\ ~o.ok[0]
         PROVE  DropInv'
    BY <1>0, <1>1, <1>2, <1>4, <1>8, <1>9, <1>12, DropKept
  <1>13. CASE HandleEvent(k) /\ cached = NoWire
    <2>1. Continue(k, <<>>) /\ UNCHANGED <<wires, cached, claimed>>
      BY <1>13 DEF HandleEvent
    <2>2. todo'[k] = <<>>
      BY <1>6, <1>9, <2>1
    <2>3. n = Len(wires') /\ wires'[cached] = wires[cached]
      BY <1>2, <2>1
    <2> QED BY <1>8, <1>9, <1>10, <1>12, <2>1, <2>2, <2>3
  <1>14. CASE HandleEvent(k) /\ cached # NoWire
    <2> DEFINE st == [op |-> "settle", w |-> cached]
    <2>1. PICK o : o = wires[cached]
      OBVIOUS
    <2>2. j.op = "event" /\ At(k, "event") /\ UNCHANGED <<cached, claimed>>
      BY <1>3, <1>14 DEF HandleEvent, At
    <2>3. j.ev \in {"deleted", "failed"} /\ (deployed # {} => j.ev # "deleted")
      BY <1>3, <2>2 DEF DropInv, CarriedInv
    <2>4. j.ep \in Ep /\ j.same \in BOOLEAN
      BY <1>0, <1>3, <1>14, EventCases
    <2>5. PICK m \in WireObjects, js \in Seq(WritesFor(cached)) : EventEffect(k, j, o, m, js)
      BY <1>0, <1>3, <1>14, <2>1, EventCases
    <2>6. /\ wires' = [wires EXCEPT ![cached] = m] /\ Continue(k, js \o <<st>>) /\ js = <<>>
          /\ m = Transition(o, j.ep, Target(o.state[j.ep], j.ev, j.same))
      BY <2>3, <2>5 DEF EventEffect
    <2>7. cached = n /\ cached \in 1 .. Len(wires) /\ cached \in Wires /\ o \in WireObjects
      BY <1>2, <1>14, <2>1, WireCached DEF NearInv
    <2>8. n = Len(wires') /\ wires'[cached] = m
      BY <1>0, <1>2, <2>6, <2>7
    <2>9. st \in Jobs /\ st.op = "settle" /\ st.w = cached
      BY <2>7, JobKinds
    <2> HIDE DEF st
    <2>10. todo'[k] = <<st>>
      <3>1. <<st>> \in Seq(Jobs)
        BY <2>9
      <3>2. Continue(k, <<st>>)
        BY <2>6, <3>1, ConcatEmptySeq
      <3> QED BY <1>6, <3>1, <3>2
    <2>11. Head(todo'[k]) = st
      BY <2>10
    <2>12. ~At(k, "event")' /\ ~At(k, "forget")' /\ (At(k, "settle")' => Head(todo'[k]).w = n)
      BY <2>7, <2>9, <2>11 DEF At
    <2>13. ASSUME deployed # {} PROVE m.host = d /\ ~m.ok[0]
      <3>1. m = Transition(o, j.ep, Target(o.state[j.ep], "failed", j.same))
        BY <2>3, <2>6, <2>13
      <3>2. m.host = o.host /\ (m.ok[0] => o.ok[0])
        <4>1. o \in WireObjects /\ j.ep \in Ep /\ j.same \in BOOLEAN
          BY <2>4, <2>7
        <4> DEFINE x == Transition(o, j.ep, Target(o.state[j.ep], "failed", j.same))
        <4>2. x.host = o.host /\ (x.ok[0] => o.ok[0])
          BY <4>1, FailedKeeps
        <4>3. m = x
          BY <3>1
        <4> HIDE DEF x
        <4> QED BY <4>2, <4>3
      <3> QED BY <1>10, <2>1, <2>13, <3>2
    <2> QED BY <1>8, <1>12, <2>2, <2>8, <2>12, <2>13
  <1>15. CASE Settle(k)
    <2>1. j.op = "settle" /\ At(k, "settle") /\ wires' = wires
      BY <1>3, <1>15 DEF Settle, At
    <2>2. j.w = n
      BY <1>2, <1>3, <2>1 DEF DropInv
    <2>3. Finished(wires[n]) => deployed = {}
      <3> SUFFICES ASSUME Finished(wires[n]), deployed # {} PROVE FALSE
        OBVIOUS
      <3>1. wires[n].ok[0]
        BY DEF Finished, StatusOK, Ep
      <3> QED BY <1>10, <1>11, <3>1
    <2>4. \/ Finished(wires[n]) /\ claimed' = FALSE /\ Continue(k, <<[op |-> "forget"]>>)
          \/ cached' = cached /\ claimed' \in {claimed, FALSE} /\ Continue(k, <<>>)
          \/ cached' = n /\ claimed' = claimed /\ Continue(k, <<>>)
      BY <1>3, <1>15, <2>2 DEF Settle
    <2>5. n = Len(wires') /\ wires'[cached] = wires[cached]
      BY <1>2, <2>1
    <2>6. CASE Finished(wires[n]) /\ claimed' = FALSE /\ Continue(k, <<[op |-> "forget"]>>)
      <3> DEFINE f == [op |-> "forget"]
      <3>1. f \in Jobs /\ f.op = "forget" /\ Continue(k, <<f>>)
        BY <2>6, JobKinds
      <3> HIDE DEF f
      <3>2. <<f>> \in Seq(Jobs)
        BY <3>1
      <3>3. todo'[k] = <<f>>
        BY <1>6, <3>1, <3>2
      <3>4. ~At(k, "event")' /\ ~At(k, "settle")'
        BY <3>1, <3>3 DEF At
      <3> QED BY <1>8, <1>12, <2>3, <2>5, <2>6, <3>4
    <2>7. CASE cached' = cached /\ claimed' \in {claimed, FALSE} /\ Continue(k, <<>>)
      <3>1. claimed' => claimed
        BY <2>7
      <3>2. todo'[k] = <<>>
        BY <1>6, <1>9, <2>7
      <3> QED BY <1>8, <1>9, <1>10, <1>12, <2>5, <2>7, <3>1, <3>2
    <2>8. CASE cached' = n /\ claimed' = claimed /\ Continue(k, <<>>)
      <3>1. todo'[k] = <<>>
        BY <1>6, <1>9, <2>8
      <3> QED BY <1>8, <1>9, <1>10, <1>11, <1>12, <2>5, <2>8, <3>1
    <2> QED BY <2>4, <2>6, <2>7, <2>8
  <1>16. CASE Forget(k)
    <2>1. At(k, "forget") /\ Continue(k, <<>>) /\ claimed' = claimed /\ wires' = wires
      BY <1>16 DEF Forget
    <2>2. deployed = {} /\ ~claimed
      BY <1>0, <2>1 DEF DropInv
    <2>3. todo'[k] = <<>> /\ n = Len(wires')
      BY <1>2, <1>6, <1>9, <2>1
    <2> QED BY <1>8, <1>9, <1>12, <2>1, <2>2, <2>3
  <1> QED BY <1>7, <1>13, <1>14, <1>15, <1>16

\* A delete that the daemon answers takes the wire from the only host that carries it.
LEMMA DropTurn ==
    ASSUME IInv, NearInv, DropInv, UNCHANGED <<pod, daemon>>, NEW k \in Workers, WorkerTurn(k)
    PROVE  DropInv' /\ deployed' \subseteq deployed /\ claimed' = claimed
  <1> USE DEF cacheVars, workerVars, wireVars
  <1>0. TypeOK /\ k \in Procs /\ k # Api /\ Workers \subseteq Procs /\ k \in {Api} \cup Workers
        /\ todo \in [Procs -> Seq(Jobs)] /\ queue \in [Workers -> Seq(Tasks)] /\ deployed \subseteq {pod[0]}
        /\ \A x \in Workers : queue[x] \in Seq(DropTasks(x[1], ReadyData, Len(wires)))
    BY ProcsDisjoint DEF IInv, TypeOK, DropInv, NearInv
  <1>1. PICK d : d = ReadyData
    OBVIOUS
  <1>2. PICK n : n = Len(wires)
    OBVIOUS
  <1>3. PICK t : t = Head(queue[k])
    OBVIOUS
  <1>4. queue[k] # <<>> /\ UNCHANGED <<wires, cached, claimed>> /\ queue' = [queue EXCEPT ![k] = Tail(@)]
    BY DEF WorkerTurn, Receives
  <1>5. t.act = "delete" /\ t.w = n /\ d[t.ep] = k[1]
    <2>1. queue[k] \in Seq(DropTasks(k[1], d, n))
      BY <1>0, <1>1, <1>2
    <2>2. t \in DropTasks(k[1], d, n)
      BY <1>3, <1>4, <2>1, HeadIn
    <2> QED BY <2>2 DEF DropTasks
  <1>6. Effect(k[1], t.act) = {}
    <2>1. k = NearWorker
      BY <1>4 DEF NearInv
    <2>2. k[1] = pod[0]
      BY <2>1 DEF NearWorker
    <2> QED BY <1>0, <1>5, <2>2 DEF Effect
  <1>7. \A x \in Workers : queue'[x] \in Seq(DropTasks(x[1], d, n))
    <2> SUFFICES ASSUME NEW x \in Workers PROVE queue'[x] \in Seq(DropTasks(x[1], d, n))
      OBVIOUS
    <2>1. queue[x] \in Seq(DropTasks(x[1], d, n))
      BY <1>0, <1>1, <1>2
    <2>2. CASE x # k
      BY <1>0, <1>4, <2>1, <2>2
    <2>3. CASE x = k
      <3>1. queue'[x] = Tail(queue[x])
        BY <1>0, <1>4, <2>3
      <3>2. \A S, s : s \in Seq(S) /\ s # <<>> => Tail(s) \in Seq(S)
        OBVIOUS
      <3> QED BY <1>4, <2>1, <2>3, <3>1, <3>2, Zenon
    <2> QED BY <2>2, <2>3
  <1>8. deployed # {} => wires[cached].host = d /\ ~wires[cached].ok[0] /\ cached = n
    <2> SUFFICES ASSUME deployed # {} PROVE wires[cached].host = d /\ ~wires[cached].ok[0] /\ cached = n
      OBVIOUS
    <2>1. wires[cached].host = d /\ cached = n
      BY <1>1, <1>2, DropWire
    <2>2. ~Unused
      BY <1>4 DEF Unused
    <2> QED BY <1>1, <2>1, <2>2, TouchedOnce
  <1>9. PICK ev : /\ todo' = [todo EXCEPT ![k] = <<Event(ev, t.ep, FALSE, FALSE)>>]
                  /\ \/ ev = "deleted" /\ deployed' = {}
                     \/ ev = "failed" /\ deployed' \subseteq deployed
    <2>1. CASE /\ deployed' \in Outcomes(k[1], t)
               /\ todo' = [todo EXCEPT ![k] = <<Event(Answer(t.act), t.ep, FALSE, FALSE)>>]
      <3>1. Answer(t.act) = "deleted"
        BY <1>5 DEF Answer
      <3>2. deployed' = {}
        BY <1>5, <1>6, <1>8, <2>1 DEF Outcomes
      <3> QED BY <2>1, <3>1, <3>2
    <2>2. CASE /\ deployed' \in {deployed, Effect(k[1], t.act)}
               /\ todo' = [todo EXCEPT ![k] = <<Event("failed", t.ep, FALSE, FALSE)>>]
      BY <1>6, <2>2
    <2> QED BY <1>3, <2>1, <2>2 DEF WorkerTurn
  <1> DEFINE j == Event(ev, t.ep, FALSE, FALSE)
  <1>10. todo' = [todo EXCEPT ![k] = <<j>>] /\ j.op = "event" /\ j.ev = ev
    BY <1>9 DEF Event
  <1> HIDE DEF j
  <1>11. todo'[k] = <<j>> /\ Head(todo'[k]) = j /\ \A q \in Procs : q # k => todo'[q] = todo[q]
    BY <1>0, <1>10
  <1>12. /\ At(k, "event")' => Head(todo'[k]).ev \in {"deleted", "failed"}
         /\ ~At(k, "settle")' /\ ~At(k, "forget")'
         /\ deployed' # {} => Head(todo'[k]).ev # "deleted"
    BY <1>9, <1>10, <1>11 DEF At
  <1>13. PICK o : o = wires'[cached]
    OBVIOUS
  <1>14. deployed' # {} => o.host = d /\ ~o.ok[0]
    BY <1>4, <1>8, <1>9, <1>13
  <1>15. deployed' \subseteq deployed /\ n = Len(wires')
    BY <1>2, <1>4, <1>9
  <1>16. DropInv'
    BY <1>0, <1>1, <1>2, <1>4, <1>7, <1>11, <1>12, <1>13, <1>14, <1>15, DropKept
  <1> QED BY <1>4, <1>15, <1>16

\* Every step of the wire controller keeps the deletion on its way.
LEMMA DropStep ==
    ASSUME IInv, ServingInv, NearInv, DropInv, topology = "ready", UNCHANGED <<pod, daemon>>,
           \/ \E p \in {Api} \cup Workers : Step(p)
           \/ \E k \in Workers : WorkerTurn(k)
    PROVE  DropInv' /\ deployed' \subseteq deployed /\ (claimed' => claimed) /\ ~At(Api, "claim")
  <1>1. ~At(Api, "claim")
    <2>1. todo[Api] # <<>> => Head(todo[Api]).op # "claim"
      BY DropCases
    <2> QED BY <2>1 DEF At
  <1>2. CASE \E k \in Workers : WorkerTurn(k)
    BY <1>1, <1>2, DropTurn
  <1>3. CASE \E k \in Workers : Step(k)
    BY <1>1, <1>3, DropWorkerStep
  <1>4. CASE Step(Api)
    <2>1. todo[Api] # <<>>
      BY <1>4, ProcsDisjoint, StepAlone DEF IInv
    <2>2. Head(todo[Api]).op \in {"setDesired", "wireDelete", "resolve", "event", "write", "send", "settle", "forget"}
      BY <2>1, DropCases
    <2>3. \/ SetDesiredAction(Api) \/ ResolveForDelete(Api) \/ Resolve(Api) \/ HandleEvent(Api)
          \/ WriteEvent(Api) \/ Send(Api) \/ Settle(Api) \/ Forget(Api)
      BY <1>4, <2>2 DEF Step, At, Claim, Insert, ResolveForCreate, UnResolve, Reconcile, StartWorker
    <2>4. CASE SetDesiredAction(Api) \/ ResolveForDelete(Api) \/ Resolve(Api)
      <3>1. UNCHANGED <<deployed, claimed>>
        BY <2>4 DEF SetDesiredAction, ResolveForDelete, Resolve, wireVars
      <3>2. DropInv'
        BY <2>4, DropOpening
      <3> QED BY <1>1, <3>1, <3>2
    <2>5. CASE HandleEvent(Api)
      <3>1. UNCHANGED <<deployed, claimed>>
        BY <2>5 DEF HandleEvent
      <3>2. DropInv'
        BY <2>5, DropEvent
      <3> QED BY <1>1, <3>1, <3>2
    <2>6. CASE WriteEvent(Api) \/ Send(Api)
      BY <1>1, <2>6, DropWrite
    <2>7. CASE Settle(Api) \/ Forget(Api)
      BY <1>1, <2>7, DropClosing
    <2> QED BY <2>3, <2>4, <2>5, <2>6, <2>7
  <1> QED BY <1>2, <1>3, <1>4

\* A step that leaves the wire controller alone.
LEMMA DropSame ==
    ASSUME DropInv, UNCHANGED <<pod, daemon, queue, wires, cached, claimed, deployed, todo>>
    PROVE  DropInv'
  <1>1. ReadyData' = ReadyData
    BY ReadyDataSame
  <1>2. deployed' # {} => CarriedInv(wires[cached], ReadyData)'
    BY <1>1 DEF DropInv, CarriedInv, Untouched, Unused, At
  <1> QED BY <1>1, <1>2 DEF DropInv, At

\* The reconciler asks for the deletion.
LEMMA DropStart ==
    ASSUME IInv, DropInv, UNCHANGED <<pod, daemon>>, WireDelete
    PROVE  DropInv' /\ UNCHANGED <<deployed, claimed>>
  <1> USE DEF cacheVars, workerVars, wireVars
  <1> DEFINE c == [op |-> "setDesired", to |-> "delete"]
  <1>0. Api \in Procs /\ Api \notin Workers /\ Workers \subseteq Procs /\ todo \in [Procs -> Seq(Jobs)]
        /\ \A k \in Workers : queue[k] \in Seq(DropTasks(k[1], ReadyData, Len(wires)))
    BY ProcsDisjoint DEF IInv, TypeOK, DropInv
  <1>1. PICK d : d = ReadyData
    OBVIOUS
  <1>2. PICK n : n = Len(wires)
    OBVIOUS
  <1>3. UNCHANGED <<queue, wires, cached, claimed, deployed>> /\ todo[Api] = <<>>
        /\ todo' = [todo EXCEPT ![Api] = DropCall]
    BY DEF WireDelete, DropCall, DeleteCall
  <1>4. todo'[Api] = DropCall /\ \A q \in Procs : q # Api => todo'[q] = todo[q]
    BY <1>0, <1>3
  <1>5. ~At(Api, "forget")'
    <2>1. DropCall = <<c, DeleteCall>> /\ c.op = "setDesired"
      BY DEF DropCall
    <2> HIDE DEF c
    <2>2. Head(todo'[Api]) = c
      BY <1>4, <2>1
    <2> QED BY <2>1, <2>2 DEF At
  <1>6. PICK o : o = wires'[cached]
    OBVIOUS
  <1>7. deployed' # {} => o.host = d /\ (o.ok[0] => Untouched(o, d)')
    <2> SUFFICES ASSUME deployed # {} PROVE o.host = d /\ (o.ok[0] => Untouched(o, d)')
      BY <1>3
    <2>1. CarriedInv(wires[cached], d)
      BY <1>1 DEF DropInv
    <2>2. o = wires[cached]
      BY <1>3, <1>6
    <2>3. o.host = d /\ (o.ok[0] => Unused /\ o.state[0] = "Created" /\ d[0] \in Hosts)
      BY <2>1, <2>2 DEF CarriedInv, Untouched
    <2>4. Unused => Unused'
      BY <1>0, <1>3, <1>4 DEF Unused
    <2>5. todo'[Api] \in Dropping(d)
      BY <1>4 DEF Dropping
    <2> QED BY <2>3, <2>4, <2>5 DEF Untouched
  <1>8. n = Len(wires') /\ \A k \in Workers : queue'[k] \in Seq(DropTasks(k[1], d, n))
    BY <1>0, <1>1, <1>2, <1>3
  <1>9. DropInv'
    BY <1>0, <1>1, <1>2, <1>3, <1>4, <1>5, <1>6, <1>7, <1>8, DropKept
  <1> QED BY <1>3, <1>9

\* The Link goes when its wire has.
LEMMA GoingStep ==
    ASSUME IInv, LinkTypeOK, StableInv, PlaceInv, HoldInv, Colocated, GoingInv, link # "present",
           topology = "ready", used["env"] = 0, used'["env"] = 0, [LinkNext]_allVars
    PROVE  GoingInv'
  <1> USE DEF cacheVars, workerVars, wireVars
  <1>0. /\ ServingInv /\ NearInv /\ DropInv /\ (seen # "idle" => view = "deleting")
        /\ (deployed # {} \/ claimed => seen # "NotFound" /\ link # "gone")
    BY DEF HoldInv, GoingInv
  <1>1. UNCHANGED <<pod, daemon>>
    BY CalmKinds
  <1>2. ASSUME UNCHANGED <<queue, wires, cached, claimed, deployed, todo, link>>, seen' = "idle"
        PROVE  GoingInv'
    BY <1>0, <1>1, <1>2, DropSame DEF GoingInv
  <1>3. CASE ReconcileGet
    <2>1. UNCHANGED <<queue, wires, cached, claimed, deployed, todo, link>> /\ seen = "idle"
          /\ view' = LinkView /\ (seen' = seen \/ (seen' = WireStatus /\ link # "gone"))
      BY <1>3 DEF ReconcileGet
    <2>2. CASE seen' = seen
      BY <1>2, <2>1, <2>2
    <2>3. CASE seen' = WireStatus /\ link # "gone"
      <3>1. view' = "deleting"
        BY <2>1, <2>3 DEF LinkView, LinkTypeOK
      <3>2. deployed # {} \/ claimed => seen' # "NotFound"
        BY <1>0, <2>3 DEF DropInv, WireStatus
      <3> QED BY <1>0, <1>1, <2>1, <2>3, <3>1, <3>2, DropSame DEF GoingInv
    <2> QED BY <2>1, <2>2, <2>3
  <1>4. CASE CallWireDelete
    <2>1. seen' = "calling" /\ seen # "idle" /\ UNCHANGED <<link, view>>
          /\ (WireDelete \/ UNCHANGED <<queue, wires, cached, claimed, deployed, todo>>)
      BY <1>4 DEF CallWireDelete, Got
    <2>2. DropInv' /\ UNCHANGED <<deployed, claimed>>
      BY <1>0, <1>1, <2>1, DropSame, DropStart
    <2> QED BY <1>0, <2>1, <2>2 DEF GoingInv
  <1>5. CASE RemoveFinalizer
    <2>1. UNCHANGED vars /\ seen = "NotFound" /\ seen' = "idle"
      BY <1>5 DEF RemoveFinalizer
    <2>2. UNCHANGED <<queue, wires, cached, claimed, deployed, todo>>
      BY <2>1 DEF vars
    <2>3. deployed' = {} /\ ~claimed'
      BY <1>0, <2>1, <2>2
    <2> QED BY <1>0, <1>1, <2>1, <2>2, <2>3, DropSame DEF GoingInv
  <1>6. CASE CallWireCreate \/ Wired
    BY <1>0, <1>6 DEF CallWireCreate, Wired, Got
  <1>7. CASE FinalizerRefused \/ CallFails \/ CallReturns
    BY <1>2, <1>7 DEF FinalizerRefused, CallFails, CallReturns, vars
  <1>8. ASSUME Beside, \/ \E p \in {Api} \cup Workers : Step(p)
                       \/ \E k \in Workers : WorkerTurn(k)
        PROVE  GoingInv'
    <2>1. DropInv' /\ deployed' \subseteq deployed /\ (claimed' => claimed) /\ ~At(Api, "claim")
      BY <1>0, <1>1, <1>8, DropStep
    <2>2. UNCHANGED <<seen, view, link>>
      BY <1>8, <2>1 DEF Beside
    <2>3. deployed' # {} \/ claimed' => deployed # {} \/ claimed
      BY <2>1
    <2> QED BY <1>0, <2>1, <2>2, <2>3 DEF GoingInv
  <1>9. CASE DeleteLink
    BY <1>9 DEF DeleteLink
  <1>10. CASE UNCHANGED allVars
    <2>1. UNCHANGED <<queue, wires, cached, claimed, deployed, todo, seen, view, link>>
      BY <1>10 DEF allVars, vars, linkVars
    <2> QED BY <1>0, <1>1, <2>1, DropSame DEF GoingInv
  <1> QED BY <1>3, <1>4, <1>5, <1>6, <1>7, <1>8, <1>9, <1>10, CalmKinds DEF ReconcileStep

\* Before and during the deletion, as long as nothing else changes.
LEMMA NextCalm ==
    ASSUME IInv, LinkTypeOK, CalmInv, [LinkNext]_allVars
    PROVE  CalmInv'
  <1> SUFFICES ASSUME used'["env"] = 0
               PROVE  /\ topology' = "ready" /\ ready'
                      /\ HeldInv' /\ StableInv' /\ PlaceInv' /\ HoldInv'
                      /\ link' = "present" => PresentInv'
                      /\ link' # "present" /\ Colocated' => GoingInv'
    BY DEF CalmInv
  <1>1. WireStep
    BY LinkIsWireStep
  <1>2. used["env"] = 0
    BY <1>1, CalmBefore
  <1>3. topology = "ready" /\ ready /\ HeldInv /\ StableInv /\ PlaceInv /\ HoldInv
        /\ (link = "present" => PresentInv) /\ (link # "present" /\ Colocated => GoingInv)
    BY <1>2 DEF CalmInv
  <1>4. HeldInv' /\ StableInv' /\ PlaceInv' /\ HoldInv'
    BY <1>1, <1>3, NextHeld, NextStable, NextPlace, NextHold
  <1>5. UNCHANGED <<pod, topology, ready>>
    BY <1>2, <1>3, CalmKinds
  <1>6. link' = "present" => PresentInv'
    <2> SUFFICES ASSUME link' = "present" PROVE PresentInv'
      OBVIOUS
    <2>1. link = "present"
      BY DEF LinkNext, ReconcileStep, ReconcileGet, CallWireDelete, RemoveFinalizer, CallWireCreate, Wired,
         FinalizerRefused, CallFails, CallReturns, Beside, DeleteLink, FlipReady, allVars, linkVars
    <2> QED BY <1>2, <1>3, <2>1, PresentStep DEF HoldInv
  <1>7. link' # "present" /\ Colocated' => GoingInv'
    <2> SUFFICES ASSUME link' # "present", Colocated' PROVE GoingInv'
      OBVIOUS
    <2>1. Colocated
      BY <1>5 DEF Colocated
    <2>2. CASE link # "present"
      BY <1>2, <1>3, <2>1, <2>2, GoingStep
    <2>3. CASE link = "present"
      <3>1. DeleteLink /\ Quiet /\ seen = "idle" /\ wiring = "Wired"
        <4>1. ReconcileStep => link' = link
          BY <1>3, <2>3 DEF ReconcileStep, ReconcileGet, CallWireDelete, RemoveFinalizer, CallWireCreate, Wired,
             FinalizerRefused, CallFails, CallReturns, PresentInv, Got
        <4>2. Beside => link' = link
          BY DEF Beside
        <4>3. UNCHANGED allVars => link' = link
          BY DEF allVars, linkVars
        <4> QED BY <1>2, <1>3, <2>3, <4>1, <4>2, <4>3, CalmKinds
      <3> QED BY <1>2, <1>3, <2>1, <2>3, <3>1, GoingStart
    <2> QED BY <2>2, <2>3
  <1> QED BY <1>3, <1>4, <1>5, <1>6, <1>7

\* Initially the Link is there and nothing is deployed.
LEMMA InitCalm == LinkInit => CalmInv
  <1> SUFFICES ASSUME LinkInit PROVE CalmInv
    OBVIOUS
  <1>1. HeldInv /\ StableInv /\ PlaceInv /\ HoldInv
    BY InitHold
  <1>2. topology = "ready" /\ ready /\ link = "present" /\ ~asked /\ seen = "idle"
        /\ wiring = "Unknown" /\ cached = NoWire /\ deployed = {}
    BY DEF LinkInit, Init
  <1> QED BY <1>1, <1>2 DEF CalmInv, PresentInv, SettledInv

\* When a Link over one host that was deleted at rest is gone, no daemon carries its wire and
\* no VXLAN id is left behind, however the daemons and the stores fail in between.
THEOREM DestroyedAreUndeployed == LinkSpec => []DestroyedIsUndeployed
  <1>1. IInv /\ LinkTypeOK /\ CalmInv /\ [LinkNext]_allVars => CalmInv'
    BY NextCalm
  <1>2. CalmInv => DestroyedIsUndeployed
    BY DEF CalmInv, GoingInv, DestroyedIsUndeployed, Calm
  <1> QED BY LinkInvariance, LinkTypeCorrect, InitCalm, <1>1, <1>2, PTL DEF LinkSpec

============================================================================
