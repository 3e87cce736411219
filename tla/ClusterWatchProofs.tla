------------------------- MODULE ClusterWatchProofs -------------------------
(***************************************************************************)
(* Theorems about ClusterWatch, for any clusters, objects and number of    *)
(* instances.                                                              *)
(*                                                                         *)
(* The cluster controller: a cluster is in the cache only while its secret *)
(* has the finalizer, so a secret cannot go before the cluster has.        *)
(*                                                                         *)
(* The caches: whoever is about to write an outdated entry runs and has a  *)
(* request to read again, unless it was stopped in the middle, and then    *)
(* the object is one of the missed.                                        *)
(***************************************************************************)
EXTENDS ClusterWatch, TLAPS

----------------------------------------------------------------------------
(* The inductive invariant *)

Turns == [of : Clusters \cup {None}, read : Secrets, at : Steps]

Types ==
    /\ secret \in [Clusters -> Secrets] /\ due \subseteq Clusters /\ turn \in Turns
    /\ cluster \in [Clusters -> 0 .. MaxInstances]
    /\ ofInst \in [Instances -> Clusters \cup {None}]
    /\ running \subseteq Instances \X Kinds
    /\ obj \in [Objects -> ObjStates \cup {"never"}] /\ pending \subseteq Instances \X Objects
    /\ job \in [Instances \X Objects -> Jobs \cup {Idle}]
    /\ cache \in [Keys -> Entries \cup {None}]
    /\ worker \in [Clusters -> Entries \cup {None}]
    /\ broken \subseteq Instances /\ missed \subseteq Objects

\* No reconciler of instance i runs.
Stopped(i) == \A k \in Kinds : <<i, k>> \notin running

\* What was read of the secret is current, or there is a request.  The finalizer a
\* reconcile has seen or set stays; the delete of a cluster has stopped its instance.
TurnInv ==
    LET c == turn.of
        r == turn.read
    IN turn.at # "done" =>
        /\ c \in Clusters
        /\ r.st = secret[c].st \/ c \in due
        /\ \/ r.st = "good" /\ turn.at \in {"finalizer", "apply", "upsert", "start"}
           \/ r.st = "bad" /\ turn.at \in {"finalizer", "stop", "service", "topologies", "entry"}
           \/ /\ r.st = "deleting" /\ secret[c].st = "deleting"
              /\ turn.at \in {"stop", "service", "topologies", "entry", "release"}
        /\ r.st # "deleting" /\ (r.fin \/ turn.at # "finalizer")
             => secret[c].fin /\ secret[c].st # "absent"
        /\ turn.at = "release" => cluster[c] = 0
        /\ turn.at \in {"start", "service", "topologies", "entry"}
             => cluster[c] # 0 /\ Stopped(cluster[c])

\* Cluster c is being reconciled, and its secret was st.
Under(c, st) == turn.at # "done" /\ turn.of = c /\ turn.read.st = st

\* The instance runs, or the code has logged why not.
Up(i) == i # 0 /\ (i \in broken \/ \A k \in Kinds : <<i, k>> \in running)

\* A cluster is there only under the finalizer.
ClusterInv(c) ==
    /\ cluster[c] # 0 => /\ ofInst[cluster[c]] = c
                         /\ secret[c].fin /\ secret[c].st # "absent"
    /\ secret[c].st = "deleting" => c \in due \/ Under(c, "deleting")
    /\ secret[c].st = "bad" => c \in due \/ Under(c, "bad") \/ cluster[c] = 0
    /\ secret[c].st = "good" => c \in due \/ Under(c, "good") \/ Up(cluster[c])

\* Only who runs gets requests.  Who runs and has read an object before it changed
\* will read it again.
WatchInv(i, o) ==
    /\ <<i, o>> \in pending => i \in Watchers(o)
    /\ job[<<i, o>>] # Idle =>
         /\ ofInst[i] = ClusterOf[o]
         /\ job[<<i, o>>].op = "host" => KindOf[o] = "node"
         /\ o \notin missed => /\ <<i, KindOf[o]>> \in running
                               /\ job[<<i, o>>].seen = obj[o] \/ <<i, o>> \in pending

\* An entry is under a key of its object.
OwnerInv(k) ==
    cache[k] # None => \/ KeyOf[cache[k].of] = k
                       \/ KindOf[cache[k].of] = "node" /\ HostKeyOf[cache[k].of] = k

\* The entry is what the object asks for, or nobody watches it.
Right(o, k, new) ==
    /\ Gone(o) => cache[k] = None \/ cache[k].of # o
    /\ There(o) /\ cache[k] # None /\ cache[k].of = o => cache[k] = new
    /\ There(o) /\ Alone(o, k) /\ <<cluster[ClusterOf[o]], KindOf[o]>> \in running => cache[k] = new

\* The reconciler has yet to write what it has seen, under the first key.
Unwritten(i, o) ==
    LET j == job[<<i, o>>] IN
    \/ j # Idle /\ j.op \in {"lookup", "first"}
    \/ j # Idle /\ j.op = "second" /\ ~Caches(KindOf[o], j.seen)

OwnInv(o) ==
    o \notin missed =>
      \/ \E i \in Instances : <<i, o>> \in pending \/ Unwritten(i, o)
      \/ Right(o, KeyOf[o], EntryOf(o, obj[o]))

HostInv(o) ==
    o \notin missed /\ KindOf[o] = "node" =>
      \/ \E i \in Instances : <<i, o>> \in pending \/ job[<<i, o>>] # Idle
      \/ Right(o, HostKeyOf[o], HostEntryOf(o, obj[o]))

\* The cluster has had one instance.
Single(c) == \A i, j \in Instances : ofInst[i] = c /\ ofInst[j] = c => i = j

\* A write of the service is done and its callback is not.
Calling(i, o) ==
    /\ job[<<i, o>>] # Idle /\ job[<<i, o>>].op = "second"
    /\ Caches("svc", job[<<i, o>>].seen)

\* Between the two the worker is the one for what was there before, if that is no change.
CallInv(i, o) ==
    LET j == job[<<i, o>>]
        w == worker[ClusterOf[o]]
    IN
    /\ j # Idle /\ j.op = "first" => j.old = None \/ w = j.old
    /\ Calling(i, o) =>
         /\ cache[KeyOf[o]] \in {None, EntryOf(o, j.seen)}
         /\ j.old = EntryOf(o, j.seen) => w = EntryOf(o, j.seen)

WorkerInv(o) ==
    KindOf[o] = "svc" /\ Single(ClusterOf[o]) =>
      /\ \/ \E i \in Instances : Calling(i, o)
         \/ cache[KeyOf[o]] = None
         \/ worker[ClusterOf[o]] = cache[KeyOf[o]]
      /\ \A i \in Instances : CallInv(i, o)

CtlInv == TurnInv /\ \A c \in Clusters : ClusterInv(c)
RunInv == \A r \in running : ofInst[r[1]] # None
ObsInv == \A i \in Instances, o \in Objects : WatchInv(i, o)
KeyInv == \A k \in Keys : OwnerInv(k)
DataInv == \A o \in Objects : OwnInv(o) /\ HostInv(o)
WorkInv == \A o \in Objects : WorkerInv(o)

IInv == Types /\ CtlInv /\ RunInv /\ ObsInv /\ KeyInv /\ DataInv /\ WorkInv

----------------------------------------------------------------------------
(* Types *)

LEMMA FollowingType ==
    ASSUME NEW st, NEW at
    PROVE  Following(st, at) \in Steps
  BY DEF Following, Steps

LEMMA TurnType ==
    ASSUME turn \in Turns
    PROVE  /\ turn.of \in Clusters \cup {None} /\ turn.read \in Secrets /\ turn.at \in Steps
           /\ turn.read.st \in {"absent", "bad", "good", "deleting"} /\ turn.read.fin \in BOOLEAN
           /\ \A s \in Steps : [turn EXCEPT !.at = s] \in Turns
           /\ NoTurn \in Turns
  <1>1. /\ turn.of \in Clusters \cup {None} /\ turn.read \in Secrets /\ turn.at \in Steps
        /\ \A s \in Steps : [turn EXCEPT !.at = s] \in Turns
    BY DEF Turns
  <1>2. turn.read.st \in {"absent", "bad", "good", "deleting"} /\ turn.read.fin \in BOOLEAN
    BY <1>1 DEF Secrets
  <1>3. NoTurn \in Turns
    BY DEF NoTurn, NoSecret, Secrets, Turns, Steps
  <1> QED
    BY <1>1, <1>2, <1>3

\* The fields of the turn after a step that leads on.
LEMMA AdvanceType ==
    ASSUME turn \in Turns, Advance
    PROVE  /\ turn' \in Turns /\ turn'.of = turn.of /\ turn'.read = turn.read
           /\ turn'.at = Following(turn.read.st, turn.at)
  BY FollowingType, TurnType DEF Advance, Turns

LEMMA EntryType ==
    ASSUME NEW o \in Objects, NEW s \in ObjStates, Caches(KindOf[o], s)
    PROVE  /\ EntryOf(o, s) \in Entries /\ HostEntryOf(o, s) \in Entries
           /\ EntryOf(o, s) # None /\ HostEntryOf(o, s) # None
           /\ EntryOf(o, s).of = o /\ HostEntryOf(o, s).of = o
  BY NoEntryAssumption DEF EntryOf, HostEntryOf, Entries, Caches, Ready

LEMMA JobType ==
    ASSUME Types, NEW i \in Instances, NEW o \in Objects, job[<<i, o>>].op # "idle"
    PROVE  /\ job[<<i, o>>] # Idle /\ job[<<i, o>>] \in Jobs
           /\ job[<<i, o>>].op \in {"lookup", "first", "second", "host"}
           /\ job[<<i, o>>].seen \in ObjStates /\ job[<<i, o>>].old \in Entries \cup {None}
  <1>1. job[<<i, o>>] \in Jobs \cup {Idle}
    BY DEF Types
  <1>2. job[<<i, o>>] # Idle
    BY DEF Idle
  <1>3. job[<<i, o>>] \in Jobs
    BY <1>1, <1>2
  <1> QED
    BY <1>2, <1>3 DEF Jobs

LEMMA KeyType ==
    ASSUME NEW o \in Objects
    PROVE  KeyOf[o] \in Keys /\ HostKeyOf[o] \in Keys
  BY DEF Keys

LEMMA KindType ==
    ASSUME NEW o \in Objects
    PROVE  KindOf[o] \in Kinds /\ ClusterOf[o] \in Clusters /\ ClusterOf[o] # None
  BY ClusterWatchAssumption

LEMMA TypesInit == CWInit => Types
  <1> SUFFICES ASSUME CWInit PROVE Types
    OBVIOUS
  <1>1. NoTurn \in Turns
    BY DEF NoTurn, NoSecret, Secrets, Turns, Steps
  <1>2. cluster \in [Clusters -> 0 .. MaxInstances]
    BY ClusterWatchAssumption DEF CWInit
  <1> QED
    BY <1>1, <1>2, ClusterWatchAssumption DEF CWInit, Types

\* Whoever is in the middle of a reconcile has a cluster.
LEMMA Busy ==
    ASSUME Types, TurnInv, turn.at # "done"
    PROVE  /\ turn.of \in Clusters /\ turn.of # None
           /\ secret[turn.of] \in Secrets /\ cluster[turn.of] \in 0 .. MaxInstances
           /\ cluster[turn.of] # 0 => cluster[turn.of] \in Instances
           /\ due \cup {turn.of} \subseteq Clusters
  BY ClusterWatchAssumption DEF Types, TurnInv, Instances

LEMMA CancelType ==
    ASSUME Types, NEW i, Cancel(i)
    PROVE  /\ running' \subseteq Instances \X Kinds /\ running' \subseteq running
           /\ pending' \subseteq Instances \X Objects /\ pending' \subseteq pending
           /\ missed' \subseteq Objects /\ missed \subseteq missed'
  BY DEF Types, Cancel

LEMMA TypesControl ==
    ASSUME Types, TurnInv, Control
    PROVE  Types'
  <1>1. ASSUME NEW c \in Clusters, Reconcile(c) PROVE Types'
    <2>1. secret[c] \in Secrets
      BY DEF Types
    <2>2. turn' \in Turns
      BY <1>1, <2>1, FollowingType DEF Reconcile, Turns
    <2> QED
      BY <1>1, <2>2 DEF Reconcile, Types, seen
  <1>2. CASE AddFinalizer
    <2>1. turn.at # "done" /\ turn \in Turns
      BY <1>2 DEF AddFinalizer, Types
    <2>2. turn' \in Turns /\ due' \subseteq Clusters
      BY <1>2, <2>1, TurnType, AdvanceType, Busy DEF AddFinalizer, Types, Fails
    <2>3. secret' \in [Clusters -> Secrets]
      <3>1. CASE UNCHANGED secret
        BY <3>1 DEF Types
      <3>2. CASE secret' = [secret EXCEPT ![turn.of].fin = TRUE]
        <4>1. [secret[turn.of] EXCEPT !.fin = TRUE] \in Secrets
          BY <2>1, Busy DEF Secrets
        <4> QED
          BY <3>2, <4>1 DEF Types
      <3> QED
        BY <1>2, <3>1, <3>2 DEF AddFinalizer
    <2> QED
      BY <1>2, <2>2, <2>3 DEF AddFinalizer, Types, seen
  <1>3. CASE Apply
    <2>1. turn.at # "done" /\ turn \in Turns
      BY <1>3 DEF Apply, Types
    <2>2. turn' \in Turns /\ due' \subseteq Clusters
      BY <1>3, <2>1, TurnType, AdvanceType, Busy DEF Apply, Types, Fails
    <2> QED
      BY <1>3, <2>2 DEF Apply, Types, seen
  <1>4. CASE Upsert
    <2>1. turn.at # "done" /\ turn \in Turns
      BY <1>4 DEF Upsert, Types
    <2>2. turn' \in Turns /\ turn.of \in Clusters
      BY <1>4, <2>1, AdvanceType, Busy DEF Upsert
    <2>3. \A i \in Instances : i \in 0 .. MaxInstances
      BY ClusterWatchAssumption DEF Instances
    <2> QED
      BY <1>4, <2>2, <2>3 DEF Upsert, Types, seen
  <1>5. CASE Start
    <2>1. turn.at # "done" /\ turn \in Turns /\ cluster[turn.of] \in Instances
      BY <1>5, Busy DEF Start, Types, TurnInv
    <2>2. turn' \in Turns
      BY <1>5, <2>1, AdvanceType DEF Start
    <2>3. /\ running' \subseteq Instances \X Kinds /\ pending' \subseteq Instances \X Objects
          /\ broken' \subseteq Instances
      BY <1>5, <2>1 DEF Start, StartKinds, Prefixes, Kinds, Pairs, Types
    <2> QED
      BY <1>5, <2>2, <2>3 DEF Start, Types
  <1>6. CASE Stop
    <2>1. turn.at # "done" /\ turn \in Turns
      BY <1>6 DEF Stop, Types
    <2>2. turn' \in Turns
      BY <1>6, <2>1, TurnType, FollowingType, AdvanceType DEF Stop
    <2>3. /\ running' \subseteq Instances \X Kinds /\ pending' \subseteq Instances \X Objects
          /\ missed' \subseteq Objects
      BY <1>6, CancelType DEF Stop, Types
    <2> QED
      BY <1>6, <2>2, <2>3 DEF Stop, Types
  <1>7. CASE DeleteService
    <2>1. turn.at # "done" /\ turn \in Turns
      BY <1>7 DEF DeleteService, Types
    <2>2. turn' \in Turns /\ turn.of \in Clusters
      BY <1>7, <2>1, AdvanceType, Busy DEF DeleteService
    <2>3. worker' \in [Clusters -> Entries \cup {None}]
      <3>1. \A o \in Objects : KeyOf[o] \in Keys
        BY KeyType
      <3> QED
        BY <1>7, <2>2, <3>1 DEF DeleteService, Types
    <2> QED
      BY <1>7, <2>2, <2>3 DEF DeleteService, Types
  <1>8. CASE DeleteTopologies
    <2>1. turn' \in Turns
      BY <1>8, AdvanceType DEF DeleteTopologies, Types
    <2> QED
      BY <1>8, <2>1 DEF DeleteTopologies, Types
  <1>9. CASE DeleteEntry
    <2>1. turn.at # "done" /\ turn \in Turns
      BY <1>9 DEF DeleteEntry, Types
    <2>2. turn' \in Turns /\ turn.of \in Clusters /\ 0 \in 0 .. MaxInstances
      BY <1>9, <2>1, AdvanceType, Busy, ClusterWatchAssumption DEF DeleteEntry
    <2> QED
      BY <1>9, <2>2 DEF DeleteEntry, Types, seen
  <1>10. CASE RemoveFinalizer
    <2>1. turn.at # "done" /\ turn \in Turns
      BY <1>10 DEF RemoveFinalizer, Types
    <2>2. turn' \in Turns /\ due' \subseteq Clusters
      BY <1>10, <2>1, TurnType, AdvanceType, Busy DEF RemoveFinalizer, Types, Fails
    <2>3. NoSecret \in Secrets
      BY DEF NoSecret, Secrets
    <2> QED
      BY <1>10, <2>2, <2>3 DEF RemoveFinalizer, Types, seen
  <1> QED
    BY <1>1, <1>2, <1>3, <1>4, <1>5, <1>6, <1>7, <1>8, <1>9, <1>10 DEF Control

LEMMA TypesRest ==
    ASSUME Types
    PROVE  /\ \A i \in Instances : Crash(i) => Types'
           /\ \A c \in Clusters : SecretChange(c) => Types'
           /\ \A o \in Objects : ObjectChange(o) => Types'
  <1>1. ASSUME NEW i \in Instances, Crash(i) PROVE Types'
    BY <1>1, CancelType DEF Crash, Types
  <1>2. ASSUME NEW c \in Clusters, SecretChange(c) PROVE Types'
    <2>1. secret[c] \in Secrets /\ NoSecret \in Secrets
      BY DEF Types, NoSecret, Secrets
    <2>2. \A st \in {"bad", "good", "deleting"} : [secret[c] EXCEPT !.st = st] \in Secrets
      BY <2>1 DEF Secrets
    <2>3. secret' \in [Clusters -> Secrets]
      <3>1. CASE \E st \in {"bad", "good"} \ {secret[c].st} : secret' = [secret EXCEPT ![c].st = st]
        BY <2>2, <3>1 DEF Types
      <3>2. CASE secret' = [secret EXCEPT ![c] = IF secret[c].fin THEN [@ EXCEPT !.st = "deleting"]
                                                ELSE NoSecret]
        BY <2>1, <2>2, <3>2 DEF Types
      <3> QED
        BY <1>2, <3>1, <3>2 DEF SecretChange
    <2> QED
      BY <1>2, <2>3 DEF SecretChange, Types, seen
  <1>3. ASSUME NEW o \in Objects, ObjectChange(o) PROVE Types'
    <2>1. pending' \subseteq Instances \X Objects /\ missed' \subseteq Objects
      <3>1. \A i \in Watchers(o) : i \in Instances
        BY DEF Watchers
      <3>2. {<<i, o>> : i \in Watchers(o)} \subseteq Instances \X Objects
        BY <3>1
      <3>3. missed' = missed \/ missed' = missed \cup {o}
        BY <1>3 DEF ObjectChange
      <3> QED
        BY <1>3, <3>2, <3>3 DEF ObjectChange, Types
    <2>2. obj' \in [Objects -> ObjStates \cup {"never"}]
      BY <1>3 DEF ObjectChange, Types
    <2> QED
      BY <1>3, <2>1, <2>2 DEF ObjectChange, Types
  <1> QED
    BY <1>1, <1>2, <1>3

LEMMA TypesWatch ==
    ASSUME Types, NEW i \in Instances, NEW o \in Objects, Watch(i, o)
    PROVE  Types'
  <1> DEFINE j == job[<<i, o>>]
  <1>1. KeyOf[o] \in Keys /\ HostKeyOf[o] \in Keys /\ ClusterOf[o] \in Clusters
    BY KeyType, KindType
  <1>2. CASE Read(i, o)
    <2>1. obj[o] \in ObjStates \cup {"never"}
      BY DEF Types
    <2>2. Uncaches(KindOf[o], obj[o]) \/ Caches(KindOf[o], obj[o]) => obj[o] \in ObjStates
      BY <2>1 DEF Uncaches, Caches, Ready
    <2>3. Uncaches(KindOf[o], obj[o]) \/ Caches(KindOf[o], obj[o])
            => [op |-> "lookup", seen |-> obj[o], old |-> None] \in Jobs
      BY <2>2 DEF Jobs
    <2>4. job' \in [Instances \X Objects -> Jobs \cup {Idle}]
      BY <1>2, <2>3 DEF Read, Types
    <2> QED
      BY <1>2, <2>4 DEF Read, Types, ctl
  <1>3. CASE Lookup(i, o)
    <2>1. j \in Jobs /\ cache[KeyOf[o]] \in Entries \cup {None}
      BY <1>1, <1>3, JobType DEF Lookup, Types
    <2>2. [j EXCEPT !.op = "first", !.old = cache[KeyOf[o]]] \in Jobs
      BY <2>1 DEF Jobs
    <2>3. job' \in [Instances \X Objects -> Jobs \cup {Idle}]
      BY <1>3, <2>2 DEF Lookup, Types
    <2> QED
      BY <1>3, <2>3 DEF Lookup, Types, ctl
  <1>4. CASE First(i, o)
    <2>1. j \in Jobs /\ j.seen \in ObjStates /\ j.old \in Entries \cup {None}
      BY <1>4, JobType DEF First
    <2>2. [j EXCEPT !.op = "second"] \in Jobs
      BY <2>1 DEF Jobs
    <2>3. job' \in [Instances \X Objects -> Jobs \cup {Idle}]
      BY <1>4, <2>2 DEF First, Types
    <2>4. cache' \in [Keys -> Entries \cup {None}] /\ worker' \in [Clusters -> Entries \cup {None}]
      BY <1>1, <1>4, <2>1, EntryType DEF First, Types, Callback
    <2> QED
      BY <1>4, <2>3, <2>4 DEF First, Types, ctl
  <1>5. CASE Second(i, o)
    <2>1. j \in Jobs /\ j.seen \in ObjStates /\ j.old \in Entries \cup {None}
      BY <1>5, JobType DEF Second
    <2>2. [j EXCEPT !.op = "host"] \in Jobs
      BY <2>1 DEF Jobs
    <2>3. job' \in [Instances \X Objects -> Jobs \cup {Idle}]
      BY <1>5, <2>2 DEF Second, Types
    <2>4. Caches(KindOf[o], j.seen) => EntryOf(o, j.seen) \in Entries
      BY <2>1, EntryType
    <2>5. worker' \in [Clusters -> Entries \cup {None}]
      BY <1>1, <1>5, <2>4 DEF Second, Types, Callback
    <2>6. cache' \in [Keys -> Entries \cup {None}]
      BY <1>1, <1>5 DEF Second, Types
    <2> QED
      BY <1>5, <2>3, <2>5, <2>6 DEF Second, Types, ctl
  <1>6. CASE Host(i, o)
    <2>1. j.seen \in ObjStates
      BY <1>6, JobType DEF Host
    <2>2. cache' \in [Keys -> Entries \cup {None}]
      BY <1>1, <1>6, <2>1, EntryType DEF Host, Types
    <2> QED
      BY <1>6, <2>2 DEF Host, Types, ctl
  <1> QED
    BY <1>2, <1>3, <1>4, <1>5, <1>6 DEF Watch

----------------------------------------------------------------------------
(* The cluster controller *)

LEMMA CtlInit == CWInit => CtlInv /\ RunInv
  <1> SUFFICES ASSUME CWInit PROVE CtlInv /\ RunInv
    OBVIOUS
  <1>1. TurnInv
    BY DEF CWInit, NoTurn, TurnInv
  <1>2. ASSUME NEW c \in Clusters PROVE ClusterInv(c)
    BY DEF CWInit, ClusterInv
  <1> QED
    BY <1>1, <1>2 DEF CtlInv, RunInv, CWInit

\* The reconcile of one cluster is no matter of another.
LEMMA OtherCluster ==
    ASSUME NEW c \in Clusters, ClusterInv(c), c # turn.of \/ turn.at = "done",
           secret'[c] = secret[c], cluster'[c] = cluster[c], c \in due => c \in due',
           cluster[c] # 0 => ofInst'[cluster[c]] = ofInst[cluster[c]],
           Up(cluster[c]) => Up(cluster[c])'
    PROVE  ClusterInv(c)'
  BY DEF ClusterInv, Under, Up

LEMMA CtlReconcile ==
    ASSUME Types, CtlInv, NEW c \in Clusters, Reconcile(c)
    PROVE  CtlInv'
  <1>1. /\ turn'.of = c /\ turn'.read = secret[c]
        /\ turn'.at = Following(secret[c].st, "read") /\ turn.at = "done"
        /\ UNCHANGED <<secret, cluster, ofInst, running, broken>> /\ due' = due \ {c}
    BY DEF Reconcile, seen
  <1>2. secret[c].st \in {"absent", "bad", "good", "deleting"}
    BY DEF Types, Secrets
  <1>3. TurnInv'
    BY <1>1, <1>2 DEF TurnInv, Following
  <1>4. ASSUME NEW d \in Clusters PROVE ClusterInv(d)'
    <2>1. ClusterInv(d)
      BY DEF CtlInv
    <2>2. CASE d # c
      BY <1>1, <2>1, <2>2, OtherCluster DEF Up
    <2>3. CASE d = c
      BY <1>1, <1>2, <2>1, <2>3 DEF ClusterInv, Under, Following
    <2> QED
      BY <2>2, <2>3
  <1> QED
    BY <1>3, <1>4 DEF CtlInv

\* A reconcile that ends on an error is repeated.
LEMMA CtlFails ==
    ASSUME Types, CtlInv, turn.at # "done", turn' = NoTurn, due' = due \cup {turn.of},
           UNCHANGED <<secret, cluster, ofInst, running, broken>>
    PROVE  CtlInv'
  <1>1. TurnInv'
    BY DEF TurnInv, NoTurn
  <1>2. ASSUME NEW d \in Clusters PROVE ClusterInv(d)'
    <2>1. ClusterInv(d)
      BY DEF CtlInv
    <2>2. CASE d # turn.of
      BY <2>1, <2>2, OtherCluster DEF Up
    <2>3. CASE d = turn.of
      BY <2>1, <2>3 DEF ClusterInv
    <2> QED
      BY <2>2, <2>3
  <1> QED
    BY <1>1, <1>2 DEF CtlInv

LEMMA CtlAddFinalizer ==
    ASSUME Types, CtlInv, AddFinalizer
    PROVE  CtlInv'
  <1> DEFINE c == turn.of
  <1>1. turn.at = "finalizer" /\ UNCHANGED <<cluster, ofInst, running, broken>>
    BY DEF AddFinalizer, seen
  <1>2. turn \in Turns /\ TurnInv /\ ClusterInv(c) /\ c \in Clusters
    BY <1>1, Busy DEF CtlInv, Types
  <1>3. turn.read.st \in {"good", "bad"}
    BY <1>1, <1>2 DEF TurnInv
  <1>4. CASE turn.read.fin /\ Advance /\ UNCHANGED <<secret, due, used>>
    <2>1. turn'.of = c /\ turn'.read = turn.read /\ turn'.at = Following(turn.read.st, "finalizer")
      BY <1>1, <1>2, <1>4, AdvanceType
    <2>2. TurnInv'
      BY <1>1, <1>2, <1>3, <1>4, <2>1 DEF TurnInv, Following
    <2>3. ASSUME NEW d \in Clusters PROVE ClusterInv(d)'
      <3>1. ClusterInv(d)
        BY DEF CtlInv
      <3> QED
        BY <1>1, <1>3, <1>4, <2>1, <3>1 DEF ClusterInv, Under, Following, Up
    <2> QED
      BY <2>2, <2>3 DEF CtlInv
  <1>5. CASE ~turn.read.fin /\ Fails /\ UNCHANGED secret
    BY <1>1, <1>5, CtlFails DEF Fails
  <1>6. CASE c \in due /\ turn' = NoTurn /\ UNCHANGED <<secret, due>>
    <2>1. due' = due \cup {c}
      BY <1>6
    <2> QED
      BY <1>1, <1>6, <2>1, CtlFails
  <1>7. CASE /\ c \notin due /\ secret' = [secret EXCEPT ![c].fin = TRUE]
             /\ due' = due \cup {c} /\ Advance
    <2>1. turn'.of = c /\ turn'.read = turn.read /\ turn'.at = Following(turn.read.st, "finalizer")
      BY <1>1, <1>2, <1>7, AdvanceType
    <2>2. /\ secret'[c].st = secret[c].st /\ secret'[c].fin
          /\ \A d \in Clusters : d # c => secret'[d] = secret[d]
      BY <1>2, <1>7 DEF Types, Secrets
    <2>3. secret[c].st = turn.read.st
      BY <1>1, <1>2, <1>7 DEF TurnInv
    <2>4. TurnInv'
      BY <1>1, <1>2, <1>3, <1>7, <2>1, <2>2, <2>3 DEF TurnInv, Following
    <2>5. ASSUME NEW d \in Clusters PROVE ClusterInv(d)'
      <3>1. ClusterInv(d)
        BY DEF CtlInv
      <3>2. CASE d # c
        BY <1>1, <1>7, <2>2, <3>1, <3>2, OtherCluster DEF Up
      <3>3. CASE d = c
        BY <1>1, <1>7, <2>2, <3>1, <3>3 DEF ClusterInv
      <3> QED
        BY <3>2, <3>3
    <2> QED
      BY <2>4, <2>5 DEF CtlInv
  <1> QED
    BY <1>4, <1>5, <1>6, <1>7 DEF AddFinalizer

LEMMA CtlApply ==
    ASSUME Types, CtlInv, Apply
    PROVE  CtlInv'
  <1>1. turn.at = "apply" /\ UNCHANGED <<secret, cluster, ofInst, running, broken>>
    BY DEF Apply, seen
  <1>2. turn \in Turns /\ TurnInv
    BY DEF CtlInv, Types
  <1>3. CASE Fails
    BY <1>1, <1>3, CtlFails DEF Fails
  <1>4. CASE Advance /\ UNCHANGED due
    <2>1. turn'.of = turn.of /\ turn'.read = turn.read /\ turn'.at = Following(turn.read.st, "apply")
      BY <1>1, <1>2, <1>4, AdvanceType
    <2>2. TurnInv'
      BY <1>1, <1>2, <1>4, <2>1 DEF TurnInv, Following
    <2>3. ASSUME NEW d \in Clusters PROVE ClusterInv(d)'
      <3>1. ClusterInv(d)
        BY DEF CtlInv
      <3> QED
        BY <1>1, <1>4, <2>1, <3>1 DEF ClusterInv, Under, Following, Up
    <2> QED
      BY <2>2, <2>3 DEF CtlInv
  <1> QED
    BY <1>3, <1>4 DEF Apply

LEMMA CtlUpsert ==
    ASSUME Types, CtlInv, RunInv, Upsert
    PROVE  CtlInv' /\ RunInv'
  <1> DEFINE c == turn.of
  <1>1. turn.at = "upsert" /\ UNCHANGED <<secret, due, running, broken>>
    BY DEF Upsert, seen
  <1>2. turn \in Turns /\ TurnInv /\ c \in Clusters /\ c # None
    BY <1>1, Busy DEF CtlInv, Types
  <1>3. PICK i \in Instances : /\ ofInst[i] = None /\ ofInst' = [ofInst EXCEPT ![i] = c]
                               /\ cluster' = [cluster EXCEPT ![c] = i]
    BY DEF Upsert
  <1>4. /\ cluster'[c] = i /\ \A d \in Clusters : d # c => cluster'[d] = cluster[d]
        /\ ofInst'[i] = c /\ \A j \in Instances : j # i => ofInst'[j] = ofInst[j]
        /\ i # 0
    BY <1>2, <1>3 DEF Types, Instances
  <1>5. turn'.of = c /\ turn'.read = turn.read /\ turn'.at = "start"
    BY <1>1, <1>2, AdvanceType DEF Upsert, Following
  <1>6. \A k \in Kinds : <<i, k>> \notin running
    BY <1>3 DEF RunInv
  <1>7. TurnInv'
    BY <1>1, <1>2, <1>4, <1>5, <1>6 DEF TurnInv, Stopped
  <1>8. ASSUME NEW d \in Clusters PROVE ClusterInv(d)'
    <2>1. ClusterInv(d)
      BY DEF CtlInv
    <2>2. CASE d # c
      <3>1. cluster[d] # 0 => cluster[d] # i /\ cluster[d] \in Instances
        BY <1>3, <2>1, ClusterWatchAssumption DEF ClusterInv, Types, Instances
      <3> QED
        BY <1>1, <1>4, <2>1, <2>2, <3>1, OtherCluster DEF Up
    <2>3. CASE d = c
      <3>1. turn.read.st = "good" /\ secret[c].fin /\ secret[c].st # "absent"
        BY <1>1, <1>2 DEF TurnInv
      <3>2. turn.read.st = secret[c].st \/ c \in due
        BY <1>1, <1>2 DEF TurnInv
      <3> QED
        BY <1>1, <1>4, <1>5, <2>3, <3>1, <3>2 DEF ClusterInv, Under
    <2> QED
      BY <2>2, <2>3
  <1>9. RunInv'
    BY <1>1, <1>2, <1>4 DEF RunInv, Types
  <1> QED
    BY <1>7, <1>8, <1>9 DEF CtlInv

LEMMA CtlStart ==
    ASSUME Types, CtlInv, RunInv, Start
    PROVE  CtlInv' /\ RunInv'
  <1> DEFINE c == turn.of
             i == cluster[c]
  <1>1. turn.at = "start" /\ UNCHANGED <<secret, due, cluster, ofInst>>
    BY DEF Start
  <1>2. turn \in Turns /\ TurnInv /\ c \in Clusters /\ c # None /\ i # 0 /\ i \in Instances
    BY <1>1, Busy DEF CtlInv, Types, TurnInv
  <1>3. turn'.of = c /\ turn'.read = turn.read /\ turn'.at = "done"
    BY <1>1, <1>2, AdvanceType DEF Start, Following
  <1>4. /\ (\A k \in Kinds : <<i, k>> \in running') \/ i \in broken'
        /\ running \subseteq running' /\ broken \subseteq broken'
        /\ \A r \in running' : r \in running \/ r[1] = i
    BY DEF Start, StartKinds
  <1>5. TurnInv'
    BY <1>3 DEF TurnInv
  <1>6. ASSUME NEW d \in Clusters PROVE ClusterInv(d)'
    <2>1. ClusterInv(d)
      BY DEF CtlInv
    <2>2. CASE d # c
      BY <1>1, <1>4, <2>1, <2>2, OtherCluster DEF Up
    <2>3. CASE d = c
      <3>1. turn.read.st = "good" /\ (turn.read.st = secret[c].st \/ c \in due)
        BY <1>1, <1>2 DEF TurnInv
      <3>2. Up(cluster[d])'
        BY <1>1, <1>2, <1>4, <2>3 DEF Up
      <3> QED
        BY <1>1, <1>2, <2>1, <2>3, <3>1, <3>2 DEF ClusterInv
    <2> QED
      BY <2>2, <2>3
  <1>7. RunInv'
    <2>1. ofInst[i] = c
      BY <1>2 DEF CtlInv, ClusterInv
    <2> QED
      BY <1>1, <1>2, <1>4, <2>1 DEF RunInv
  <1> QED
    BY <1>5, <1>6, <1>7 DEF CtlInv

\* The cluster of another secret keeps its instance when one is cancelled.
LEMMA CtlCancel ==
    ASSUME Types, NEW i \in Instances, Cancel(i)
    PROVE  /\ \A j \in Instances : j # i => (Up(j) /\ UNCHANGED broken => Up(j)')
           /\ \A k \in Kinds : <<i, k>> \notin running'
           /\ \A j \in Instances, k \in Kinds :
                j # i => (<<j, k>> \in running' <=> <<j, k>> \in running)
           /\ RunInv /\ UNCHANGED ofInst => RunInv'
  BY DEF Cancel, Up, RunInv

LEMMA CtlCrash ==
    ASSUME Types, CtlInv, RunInv, NEW i \in Instances, Crash(i)
    PROVE  CtlInv' /\ RunInv'
  <1>1. /\ Cancel(i) /\ broken' = broken \cup {i}
        /\ UNCHANGED <<secret, due, turn, cluster, ofInst>>
    BY DEF Crash
  <1>2. running' \subseteq running
    BY <1>1, CancelType
  <1>3. TurnInv'
    BY <1>1, <1>2 DEF CtlInv, TurnInv, Stopped
  <1>4. ASSUME NEW d \in Clusters PROVE ClusterInv(d)'
    <2>1. ClusterInv(d)
      BY DEF CtlInv
    <2>2. Up(cluster[d]) => Up(cluster[d])'
      <3>1. CASE cluster[d] = i
        BY <1>1, <3>1 DEF Up
      <3>2. CASE cluster[d] # i
        BY <1>1, <3>2 DEF Up, Cancel
      <3> QED
        BY <3>1, <3>2
    <2> QED
      BY <1>1, <2>1, <2>2 DEF ClusterInv, Under
  <1> QED
    BY <1>1, <1>3, <1>4, CtlCancel DEF CtlInv

LEMMA CtlStop ==
    ASSUME Types, CtlInv, RunInv, Stop
    PROVE  CtlInv' /\ RunInv'
  <1> DEFINE c == turn.of
             i == cluster[c]
  <1>1. turn.at = "stop" /\ UNCHANGED <<secret, due, cluster, ofInst, broken>>
    BY DEF Stop
  <1>2. /\ turn \in Turns /\ TurnInv /\ c \in Clusters /\ ClusterInv(c)
        /\ turn.read.st \in {"bad", "deleting"}
    BY <1>1, Busy DEF CtlInv, Types, TurnInv
  <1>3. CASE i = 0 /\ turn' = [turn EXCEPT !.at = Following(turn.read.st, "entry")]
             /\ UNCHANGED running
    <2>1. turn'.of = c /\ turn'.read = turn.read /\ turn'.at = Following(turn.read.st, "entry")
      BY <1>2, <1>3 DEF Turns
    <2>2. TurnInv'
      BY <1>1, <1>2, <1>3, <2>1 DEF TurnInv, Following
    <2>3. ASSUME NEW d \in Clusters PROVE ClusterInv(d)'
      <3>1. ClusterInv(d)
        BY DEF CtlInv
      <3>2. CASE d # c
        BY <1>1, <1>3, <3>1, <3>2, OtherCluster DEF Up
      <3>3. CASE d = c
        BY <1>1, <1>2, <1>3, <2>1, <3>1, <3>3 DEF ClusterInv, Under, Following, TurnInv
      <3> QED
        BY <3>2, <3>3
    <2> QED
      BY <1>1, <1>3, <2>2, <2>3 DEF CtlInv, RunInv
  <1>4. CASE i # 0 /\ Cancel(i) /\ Advance
    <2>1. turn'.of = c /\ turn'.read = turn.read /\ turn'.at = "service"
      BY <1>1, <1>2, <1>4, AdvanceType DEF Following
    <2>2. i \in Instances /\ ofInst[i] = c
      BY <1>1, <1>2, <1>4, Busy DEF ClusterInv, CtlInv
    <2>3. \A k \in Kinds : <<i, k>> \notin running'
      BY <1>4, <2>2, CtlCancel
    <2>4. TurnInv'
      BY <1>1, <1>2, <1>4, <2>1, <2>3 DEF TurnInv, Stopped
    <2>5. ASSUME NEW d \in Clusters PROVE ClusterInv(d)'
      <3>1. ClusterInv(d)
        BY DEF CtlInv
      <3>2. CASE d # c
        <4>1. cluster[d] # 0 => cluster[d] # i
          BY <2>2, <3>1, <3>2 DEF ClusterInv
        <4>2. Up(cluster[d]) => Up(cluster[d])'
          BY <1>1, <1>4, <4>1 DEF Up, Cancel
        <4> QED
          BY <1>1, <3>1, <3>2, <4>2, OtherCluster
      <3>3. CASE d = c
        BY <1>1, <1>2, <1>4, <2>1, <3>1, <3>3 DEF ClusterInv, Under, TurnInv
      <3> QED
        BY <3>2, <3>3
    <2>6. RunInv'
      BY <1>1, <1>4, <2>2, CtlCancel
    <2> QED
      BY <2>4, <2>5, <2>6 DEF CtlInv
  <1> QED
    BY <1>3, <1>4 DEF Stop

\* The steps between the stop of an instance and the delete of its entry.
LEMMA CtlDrop ==
    ASSUME Types, CtlInv, RunInv, Advance, turn.at \in {"service", "topologies"},
           UNCHANGED <<secret, due, cluster, ofInst, running, broken>>
    PROVE  CtlInv' /\ RunInv'
  <1>1. turn \in Turns /\ TurnInv
    BY DEF CtlInv, Types
  <1>2. /\ turn'.of = turn.of /\ turn'.read = turn.read
        /\ turn'.at = Following(turn.read.st, turn.at)
    BY <1>1, AdvanceType
  <1>3. TurnInv'
    BY <1>1, <1>2 DEF TurnInv, Following, Stopped
  <1>4. ASSUME NEW d \in Clusters PROVE ClusterInv(d)'
    <2>1. ClusterInv(d)
      BY DEF CtlInv
    <2> QED
      BY <1>2, <2>1 DEF ClusterInv, Under, Following, Up
  <1> QED
    BY <1>3, <1>4 DEF CtlInv, RunInv

LEMMA CtlDeleteEntry ==
    ASSUME Types, CtlInv, DeleteEntry
    PROVE  CtlInv'
  <1> DEFINE c == turn.of
  <1>1. turn.at = "entry" /\ UNCHANGED <<secret, due, ofInst, running, broken>>
    BY DEF DeleteEntry, seen
  <1>2. turn \in Turns /\ TurnInv /\ c \in Clusters /\ turn.read.st \in {"bad", "deleting"}
    BY <1>1, Busy DEF CtlInv, Types, TurnInv
  <1>3. /\ turn'.of = c /\ turn'.read = turn.read
        /\ turn'.at = Following(turn.read.st, "entry")
    BY <1>1, <1>2, AdvanceType DEF DeleteEntry
  <1>4. cluster'[c] = 0 /\ \A d \in Clusters : d # c => cluster'[d] = cluster[d]
    BY <1>2 DEF DeleteEntry, Types
  <1>5. TurnInv'
    BY <1>1, <1>2, <1>3, <1>4 DEF TurnInv, Following
  <1>6. ASSUME NEW d \in Clusters PROVE ClusterInv(d)'
    <2>1. ClusterInv(d)
      BY DEF CtlInv
    <2>2. CASE d # c
      BY <1>1, <1>4, <2>1, <2>2, OtherCluster DEF Up
    <2>3. CASE d = c
      BY <1>1, <1>2, <1>3, <1>4, <2>1, <2>3 DEF ClusterInv, Under, Following, TurnInv
    <2> QED
      BY <2>2, <2>3
  <1> QED
    BY <1>5, <1>6 DEF CtlInv

LEMMA CtlRemoveFinalizer ==
    ASSUME Types, CtlInv, RemoveFinalizer
    PROVE  CtlInv'
  <1> DEFINE c == turn.of
  <1>1. turn.at = "release" /\ UNCHANGED <<cluster, ofInst, running, broken>>
    BY DEF RemoveFinalizer, seen
  <1>2. turn \in Turns /\ TurnInv /\ c \in Clusters /\ cluster[c] = 0
    BY <1>1, Busy DEF CtlInv, Types, TurnInv
  <1>3. CASE Fails /\ UNCHANGED secret
    BY <1>1, <1>3, CtlFails DEF Fails
  <1>4. CASE secret' = [secret EXCEPT ![c] = NoSecret] /\ due' = due \cup {c} /\ Advance
    <2>1. turn'.at = "done"
      BY <1>1, <1>2, <1>4, AdvanceType DEF Following
    <2>2. TurnInv'
      BY <2>1 DEF TurnInv
    <2>3. ASSUME NEW d \in Clusters PROVE ClusterInv(d)'
      <3>1. ClusterInv(d)
        BY DEF CtlInv
      <3>2. CASE d # c
        <4>1. secret'[d] = secret[d]
          BY <1>4, <3>2 DEF Types
        <4> QED
          BY <1>1, <1>4, <3>1, <3>2, <4>1, OtherCluster DEF Up
      <3>3. CASE d = c
        <4>1. secret'[c] = NoSecret
          BY <1>2, <1>4 DEF Types
        <4> QED
          BY <1>1, <1>2, <3>3, <4>1 DEF ClusterInv, NoSecret
      <3> QED
        BY <3>2, <3>3
    <2> QED
      BY <2>2, <2>3 DEF CtlInv
  <1> QED
    BY <1>3, <1>4 DEF RemoveFinalizer

LEMMA CtlSecretChange ==
    ASSUME Types, CtlInv, NEW c \in Clusters, SecretChange(c)
    PROVE  CtlInv'
  <1>1. /\ UNCHANGED <<turn, cluster, ofInst, running, broken>> /\ due' = due \cup {c}
        /\ secret[c].st # "deleting" /\ secret[c] \in Secrets
    BY DEF SecretChange, seen, Types
  <1>2. \A d \in Clusters : d # c => secret'[d] = secret[d]
    BY DEF SecretChange, Types
  <1>3. secret[c].fin /\ secret[c].st # "absent" => secret'[c].fin /\ secret'[c].st # "absent"
    BY <1>1 DEF SecretChange, Types, Secrets
  <1>4. TurnInv'
    BY <1>1, <1>2, <1>3 DEF CtlInv, TurnInv, Stopped
  <1>5. ASSUME NEW d \in Clusters PROVE ClusterInv(d)'
    <2>1. ClusterInv(d)
      BY DEF CtlInv
    <2>2. CASE d # c
      BY <1>1, <1>2, <2>1, <2>2 DEF ClusterInv, Under, Up
    <2>3. CASE d = c
      BY <1>1, <1>3, <2>1, <2>3 DEF ClusterInv
    <2> QED
      BY <2>2, <2>3
  <1> QED
    BY <1>4, <1>5 DEF CtlInv

\* The watchers and the clusters leave the cluster controller alone.
LEMMA CtlFrame ==
    ASSUME CtlInv, RunInv,
           UNCHANGED <<secret, due, turn, cluster, ofInst, running, broken>>
    PROVE  CtlInv' /\ RunInv'
  <1>1. TurnInv'
    BY DEF CtlInv, TurnInv, Stopped
  <1>2. ASSUME NEW d \in Clusters PROVE ClusterInv(d)'
    <2>1. ClusterInv(d)
      BY DEF CtlInv
    <2> QED
      BY <2>1 DEF ClusterInv, Under, Up
  <1> QED
    BY <1>1, <1>2 DEF CtlInv, RunInv

----------------------------------------------------------------------------
(* The reconcilers: who is told and who has read what *)

LEMMA ObsInit == CWInit => ObsInv /\ KeyInv
  BY DEF CWInit, ObsInv, WatchInv, KeyInv, OwnerInv, Idle

LEMMA ObsFrame ==
    ASSUME ObsInv, KeyInv,
           UNCHANGED <<ofInst, running, obj, pending, job, cache, missed>>
    PROVE  ObsInv' /\ KeyInv'
  BY DEF ObsInv, WatchInv, Watchers, KeyInv, OwnerInv

LEMMA KeyFrame ==
    ASSUME KeyInv, UNCHANGED cache
    PROVE  KeyInv'
  BY DEF KeyInv, OwnerInv

LEMMA ObsUpsert ==
    ASSUME Types, CtlInv, ObsInv, Upsert
    PROVE  ObsInv'
  <1>1. PICK i \in Instances : ofInst[i] = None /\ ofInst' = [ofInst EXCEPT ![i] = turn.of]
    BY DEF Upsert
  <1>2. \A j \in Instances : j # i => ofInst'[j] = ofInst[j]
    BY <1>1 DEF Types
  <1>3. UNCHANGED <<running, obj, pending, job, missed>>
    BY DEF Upsert, seen
  <1>4. ASSUME NEW j \in Instances, NEW o \in Objects PROVE WatchInv(j, o)'
    <2>1. WatchInv(j, o) /\ ClusterOf[o] # None
      BY KindType DEF ObsInv
    <2>2. CASE j # i
      BY <1>2, <1>3, <2>1, <2>2 DEF WatchInv, Watchers
    <2>3. CASE j = i
      BY <1>1, <1>3, <2>1, <2>3 DEF WatchInv, Watchers
    <2> QED
      BY <2>2, <2>3
  <1> QED
    BY <1>4 DEF ObsInv

LEMMA ObsStart ==
    ASSUME Types, CtlInv, ObsInv, Start
    PROVE  ObsInv'
  <1> DEFINE i == cluster[turn.of]
  <1>1. UNCHANGED <<ofInst, obj, job, missed>> /\ running \subseteq running'
    BY DEF Start, StartKinds
  <1>2. ASSUME NEW j \in Instances, NEW o \in Objects PROVE WatchInv(j, o)'
    <2>1. WatchInv(j, o)
      BY DEF ObsInv
    <2>2. <<j, o>> \in pending' => <<j, o>> \in pending \/ j \in Watchers(o)'
      <3>1. PICK ks : StartKinds(i, ks)
        BY DEF Start
      <3>2. ASSUME <<j, o>> \in pending', <<j, o>> \notin pending PROVE j \in Watchers(o)'
        <4>1. <<j, o>> \in Pairs /\ j = i /\ KindOf[o] \in ks
          BY <3>1, <3>2 DEF StartKinds
        <4>2. ofInst[j] = ClusterOf[o] /\ <<j, KindOf[o]>> \in running'
          BY <3>1, <4>1 DEF StartKinds, Pairs
        <4> QED
          BY <1>1, <4>2 DEF Watchers
      <3> QED
        BY <3>2
    <2>3. pending \subseteq pending'
      BY DEF Start, StartKinds
    <2> QED
      BY <1>1, <2>1, <2>2, <2>3 DEF WatchInv, Watchers
  <1> QED
    BY <1>2 DEF ObsInv

LEMMA ObsCancel ==
    ASSUME Types, ObsInv, NEW i \in Instances, Cancel(i), UNCHANGED <<ofInst, obj, job>>
    PROVE  ObsInv'
  <1>1. ASSUME NEW j \in Instances, NEW o \in Objects PROVE WatchInv(j, o)'
    <2>1. WatchInv(j, o) /\ missed \subseteq missed' /\ KindOf[o] \in Kinds
      BY CancelType, KindType DEF ObsInv
    <2>2. CASE j = i
      <3>1. <<j, o>> \notin pending' /\ (job[<<j, o>>] # Idle => o \in missed')
        BY <2>2 DEF Cancel
      <3> QED
        BY <2>1, <3>1 DEF WatchInv
    <2>3. CASE j # i
      <3>1. /\ <<j, o>> \in pending' <=> <<j, o>> \in pending
            /\ <<j, KindOf[o]>> \in running' <=> <<j, KindOf[o]>> \in running
        BY <2>3 DEF Cancel
      <3> QED
        BY <2>1, <3>1 DEF WatchInv, Watchers
    <2> QED
      BY <2>2, <2>3
  <1> QED
    BY <1>1 DEF ObsInv

LEMMA ObsObjectChange ==
    ASSUME Types, ObsInv, NEW p \in Objects, ObjectChange(p)
    PROVE  ObsInv'
  <1>1. /\ UNCHANGED <<ofInst, running, job>> /\ missed \subseteq missed'
        /\ pending' = pending \cup {<<i, p>> : i \in Watchers(p)}
        /\ \A o \in Objects : o # p => obj'[o] = obj[o]
    BY DEF ObjectChange, Types
  <1>2. ASSUME NEW j \in Instances, NEW o \in Objects PROVE WatchInv(j, o)'
    <2>1. WatchInv(j, o) /\ Watchers(o)' = Watchers(o)
      BY <1>1 DEF ObsInv, Watchers
    <2>2. <<j, o>> \in pending' => <<j, o>> \in pending \/ j \in Watchers(o)
      BY <1>1
    <2>3. CASE o # p
      BY <1>1, <2>1, <2>2, <2>3 DEF WatchInv
    <2>4. CASE o = p
      <3>1. j \in Watchers(o) => <<j, o>> \in pending'
        BY <1>1, <2>4
      <3>2. job[<<j, o>>] # Idle /\ o \notin missed => j \in Watchers(o)
        BY <2>1 DEF WatchInv, Watchers
      <3> QED
        BY <1>1, <2>1, <2>2, <3>1, <3>2 DEF WatchInv
    <2> QED
      BY <2>3, <2>4
  <1> QED
    BY <1>2 DEF ObsInv

\* The reconciler of another object, or of another instance.
LEMMA ObsOther ==
    ASSUME Types, ObsInv, NEW i \in Instances, NEW p \in Objects, Watch(i, p)
    PROVE  /\ UNCHANGED <<ofInst, running, obj, missed, cluster>>
           /\ pending' \subseteq pending
           /\ \A j \in Instances, o \in Objects : <<j, o>> # <<i, p>> =>
                /\ job'[<<j, o>>] = job[<<j, o>>]
                /\ <<j, o>> \in pending' <=> <<j, o>> \in pending
                /\ WatchInv(j, o)'
  <1>1. UNCHANGED <<ofInst, running, obj, missed, cluster>>
    BY DEF Watch, Read, Lookup, First, Second, Host, ctl
  <1>2. pending' = pending \/ pending' = pending \ {<<i, p>>}
    BY DEF Watch, Read, Lookup, First, Second, Host
  <1>3. \E x : job' = [job EXCEPT ![<<i, p>>] = x]
    BY DEF Watch, Read, Lookup, First, Second, Host
  <1>4. ASSUME NEW j \in Instances, NEW o \in Objects, <<j, o>> # <<i, p>>
        PROVE  /\ job'[<<j, o>>] = job[<<j, o>>]
               /\ <<j, o>> \in pending' <=> <<j, o>> \in pending
    <2>1. <<j, o>> \in Instances \X Objects
      OBVIOUS
    <2>2. job'[<<j, o>>] = job[<<j, o>>]
      BY <1>3, <1>4, <2>1 DEF Types
    <2> QED
      BY <1>2, <1>4, <2>2
  <1>5. ASSUME NEW j \in Instances, NEW o \in Objects, <<j, o>> # <<i, p>>
        PROVE  WatchInv(j, o)'
    <2>1. WatchInv(j, o)
      BY DEF ObsInv
    <2>2. /\ job'[<<j, o>>] = job[<<j, o>>]
          /\ <<j, o>> \in pending' <=> <<j, o>> \in pending
      BY <1>4, <1>5
    <2> QED
      BY <1>1, <2>1, <2>2 DEF WatchInv, Watchers
  <1> QED
    BY <1>1, <1>2, <1>4, <1>5

\* The step of a reconciler: what becomes of its job.
LEMMA JobStep ==
    ASSUME Types, NEW i \in Instances, NEW p \in Objects, Watch(i, p)
    PROVE  LET j == job[<<i, p>>]
               n == job'[<<i, p>>]
           IN \/ /\ Read(i, p) /\ j = Idle /\ <<i, p>> \in pending
                 /\ \/ n = [op |-> "lookup", seen |-> obj[p], old |-> None]
                    \/ /\ n = Idle
                       /\ ~Uncaches(KindOf[p], obj[p]) /\ ~Caches(KindOf[p], obj[p])
              \/ /\ Lookup(i, p) /\ j # Idle /\ j.op = "lookup" /\ pending' = pending
                 /\ \/ n = Idle
                    \/ n # Idle /\ n.op = "first" /\ n.seen = j.seen /\ n.old = cache[KeyOf[p]]
              \/ /\ First(i, p) /\ j # Idle /\ j.op = "first" /\ pending' = pending
                 /\ n # Idle /\ n.op = "second" /\ n.seen = j.seen /\ n.old = j.old
              \/ /\ Second(i, p) /\ j # Idle /\ j.op = "second" /\ pending' = pending
                 /\ \/ n = Idle /\ KindOf[p] # "node"
                    \/ n # Idle /\ n.op = "host" /\ n.seen = j.seen /\ KindOf[p] = "node"
              \/ /\ Host(i, p) /\ j # Idle /\ j.op = "host" /\ pending' = pending
                 /\ n = Idle
  <1> DEFINE j == job[<<i, p>>]
             n == job'[<<i, p>>]
  <1>0. <<i, p>> \in DOMAIN job
    BY DEF Types
  <1>1. CASE Read(i, p)
    BY <1>0, <1>1 DEF Read
  <1>2. CASE Lookup(i, p)
    <2>1. j # Idle /\ j \in Jobs /\ j.op = "lookup" /\ pending' = pending
      BY <1>2, JobType DEF Lookup
    <2>2. n = Idle \/ n = [j EXCEPT !.op = "first", !.old = cache[KeyOf[p]]]
      BY <1>0, <1>2 DEF Lookup
    <2> QED
      BY <1>2, <2>1, <2>2 DEF Jobs, Idle
  <1>3. CASE First(i, p)
    <2>1. j # Idle /\ j \in Jobs /\ j.op = "first" /\ pending' = pending
      BY <1>3, JobType DEF First
    <2>2. n = [j EXCEPT !.op = "second"]
      BY <1>0, <1>3 DEF First
    <2> QED
      BY <1>3, <2>1, <2>2 DEF Jobs, Idle
  <1>4. CASE Second(i, p)
    <2>1. j # Idle /\ j \in Jobs /\ j.op = "second" /\ pending' = pending
      BY <1>4, JobType DEF Second
    <2>2. n = IF KindOf[p] = "node" THEN [j EXCEPT !.op = "host"] ELSE Idle
      BY <1>0, <1>4 DEF Second
    <2> QED
      BY <1>4, <2>1, <2>2 DEF Jobs, Idle
  <1>5. CASE Host(i, p)
    <2>1. j # Idle /\ j.op = "host" /\ pending' = pending
      BY <1>5, JobType DEF Host
    <2> QED
      BY <1>0, <1>5, <2>1 DEF Host
  <1> QED
    BY <1>1, <1>2, <1>3, <1>4, <1>5 DEF Watch

LEMMA ObsWatch ==
    ASSUME Types, ObsInv, NEW i \in Instances, NEW p \in Objects, Watch(i, p)
    PROVE  ObsInv'
  <1>1. /\ UNCHANGED <<ofInst, running, obj, missed>> /\ pending' \subseteq pending
        /\ \A j \in Instances, o \in Objects : <<j, o>> # <<i, p>> => WatchInv(j, o)'
    BY ObsOther
  <1>2. WatchInv(i, p)
    BY DEF ObsInv
  <1>3. WatchInv(i, p)'
    <2>1. Watchers(p)' = Watchers(p)
      BY <1>1 DEF Watchers
    <2>2. CASE Read(i, p) /\ <<i, p>> \in pending
      <3>1. \/ job'[<<i, p>>] = [op |-> "lookup", seen |-> obj[p], old |-> None]
            \/ job'[<<i, p>>] = Idle
        BY <2>2 DEF Read, Types
      <3> QED
        BY <1>1, <1>2, <2>1, <2>2, <3>1 DEF WatchInv, Watchers
    <2>3. CASE /\ job[<<i, p>>] # Idle /\ pending' = pending
               /\ \/ job'[<<i, p>>] = Idle
                  \/ /\ job'[<<i, p>>].seen = job[<<i, p>>].seen
                     /\ job'[<<i, p>>].op = "host" => KindOf[p] = "node"
      BY <1>1, <1>2, <2>1, <2>3 DEF WatchInv
    <2> QED
      BY <2>2, <2>3, JobStep
  <1> QED
    BY <1>1, <1>3 DEF ObsInv

\* A cell of the cache after the step of a reconciler.
LEMMA CacheStep ==
    ASSUME Types, ObsInv, NEW i \in Instances, NEW p \in Objects, Watch(i, p), NEW k \in Keys
    PROVE  \/ cache'[k] = cache[k]
           \/ /\ k = KeyOf[p] /\ (First(i, p) \/ Second(i, p))
              /\ cache'[k] = None \/ (cache'[k] # None /\ cache'[k].of = p)
           \/ /\ k = HostKeyOf[p] /\ Host(i, p) /\ KindOf[p] = "node"
              /\ cache'[k] = None \/ (cache'[k] # None /\ cache'[k].of = p)
  <1> DEFINE j == job[<<i, p>>]
  <1>1. CASE Read(i, p) \/ Lookup(i, p)
    BY <1>1 DEF Read, Lookup
  <1>2. CASE First(i, p)
    <2>1. j.seen \in ObjStates
      BY <1>2, JobType DEF First
    <2>2. cache' = cache \/ /\ Caches(KindOf[p], j.seen)
                            /\ cache' = [cache EXCEPT ![KeyOf[p]] = EntryOf(p, j.seen)]
      BY <1>2 DEF First
    <2>3. Caches(KindOf[p], j.seen) => EntryOf(p, j.seen) # None /\ EntryOf(p, j.seen).of = p
      BY <2>1, EntryType
    <2> QED
      BY <1>2, <2>2, <2>3 DEF Types
  <1>3. CASE Second(i, p)
    BY <1>3 DEF Second, Types
  <1>4. CASE Host(i, p)
    <2>1. j.seen \in ObjStates /\ j # Idle /\ j.op = "host" /\ KindOf[p] = "node"
      BY <1>4, JobType DEF Host, ObsInv, WatchInv
    <2>2. cache' = [cache EXCEPT ![HostKeyOf[p]] =
                      IF Caches(KindOf[p], j.seen) THEN HostEntryOf(p, j.seen) ELSE None]
      BY <1>4 DEF Host
    <2>3. Caches(KindOf[p], j.seen) => HostEntryOf(p, j.seen) # None /\ HostEntryOf(p, j.seen).of = p
      BY <2>1, EntryType
    <2> QED
      BY <1>4, <2>1, <2>2, <2>3 DEF Types
  <1> QED
    BY <1>1, <1>2, <1>3, <1>4 DEF Watch

LEMMA KeyWatch ==
    ASSUME Types, ObsInv, KeyInv, NEW i \in Instances, NEW p \in Objects, Watch(i, p)
    PROVE  KeyInv'
  <1>1. ASSUME NEW k \in Keys PROVE OwnerInv(k)'
    BY CacheStep DEF KeyInv, OwnerInv
  <1> QED
    BY <1>1 DEF KeyInv

----------------------------------------------------------------------------
(* The caches *)

LEMMA DataInit == CWInit => DataInv
  <1> SUFFICES ASSUME CWInit, NEW o \in Objects PROVE OwnInv(o) /\ HostInv(o)
    BY DEF DataInv
  <1>1. cache[KeyOf[o]] = None /\ cache[HostKeyOf[o]] = None /\ running = {}
    BY KeyType DEF CWInit
  <1> QED
    BY <1>1 DEF OwnInv, HostInv, Right

\* The step leaves the cell alone, or takes another entry than the one of the object
\* there, which nobody has to keep.
Harmless(o, k) ==
    \/ cache'[k] = cache[k]
    \/ /\ cache'[k] = None \/ cache'[k].of # o
       /\ ~Alone(o, k) \/ <<cluster'[ClusterOf[o]], KindOf[o]>> \notin running'

LEMMA DataFrame ==
    ASSUME NEW o \in Objects, OwnInv(o), HostInv(o),
           obj'[o] = obj[o], missed \subseteq missed',
           There(o) /\ <<cluster'[ClusterOf[o]], KindOf[o]>> \in running'
             => \/ <<cluster[ClusterOf[o]], KindOf[o]>> \in running
                \/ \E i \in Instances : <<i, o>> \in pending',
           \A i \in Instances : job'[<<i, o>>] = job[<<i, o>>],
           \A i \in Instances : <<i, o>> \in pending => <<i, o>> \in pending' \/ o \in missed',
           Harmless(o, KeyOf[o]), KindOf[o] = "node" => Harmless(o, HostKeyOf[o])
    PROVE  OwnInv(o)' /\ HostInv(o)'
  <1>1. There(o)' <=> There(o)
    BY DEF There
  <1>2. Gone(o)' <=> Gone(o)
    BY DEF Gone
  <1>3. \A i \in Instances : Unwritten(i, o) => Unwritten(i, o)'
    BY DEF Unwritten
  <1>4. ASSUME Right(o, KeyOf[o], EntryOf(o, obj[o])),
               \A i \in Instances : <<i, o>> \notin pending'
        PROVE  Right(o, KeyOf[o], EntryOf(o, obj[o]))'
    <2>1. EntryOf(o, obj[o])' = EntryOf(o, obj[o])
      BY DEF EntryOf
    <2> QED
      BY <1>1, <1>2, <1>4, <2>1 DEF Right, Harmless
  <1>5. ASSUME Right(o, HostKeyOf[o], HostEntryOf(o, obj[o])), KindOf[o] = "node",
               \A i \in Instances : <<i, o>> \notin pending'
        PROVE  Right(o, HostKeyOf[o], HostEntryOf(o, obj[o]))'
    <2>1. HostEntryOf(o, obj[o])' = HostEntryOf(o, obj[o])
      BY DEF HostEntryOf
    <2> QED
      BY <1>1, <1>2, <1>5, <2>1 DEF Right, Harmless
  <1>6. OwnInv(o)'
    BY <1>3, <1>4 DEF OwnInv
  <1>7. HostInv(o)'
    BY <1>5 DEF HostInv
  <1> QED
    BY <1>6, <1>7

\* Nothing the watchers see has changed.
LEMMA DataQuiet ==
    ASSUME DataInv, UNCHANGED <<cluster, running, obj, pending, job, cache, missed>>
    PROVE  DataInv'
  <1> SUFFICES ASSUME NEW o \in Objects PROVE OwnInv(o)' /\ HostInv(o)'
    BY DEF DataInv
  <1>1. OwnInv(o) /\ HostInv(o)
    BY DEF DataInv
  <1>2. Harmless(o, KeyOf[o]) /\ Harmless(o, HostKeyOf[o])
    BY DEF Harmless
  <1> QED
    BY <1>1, <1>2, DataFrame

LEMMA DataUpsert ==
    ASSUME Types, CtlInv, RunInv, DataInv, Upsert
    PROVE  DataInv'
  <1> SUFFICES ASSUME NEW o \in Objects PROVE OwnInv(o)' /\ HostInv(o)'
    BY DEF DataInv
  <1>1. OwnInv(o) /\ HostInv(o)
    BY DEF DataInv
  <1>2. UNCHANGED <<running, obj, pending, job, cache, missed>>
    BY DEF Upsert, seen
  <1>3. Harmless(o, KeyOf[o]) /\ Harmless(o, HostKeyOf[o])
    BY <1>2 DEF Harmless
  <1>4. <<cluster'[ClusterOf[o]], KindOf[o]>> \in running'
          => <<cluster[ClusterOf[o]], KindOf[o]>> \in running
    <2>1. PICK i \in Instances : ofInst[i] = None /\ cluster' = [cluster EXCEPT ![turn.of] = i]
      BY DEF Upsert
    <2>2. <<i, KindOf[o]>> \notin running
      BY <2>1 DEF RunInv
    <2>3. cluster'[ClusterOf[o]] = cluster[ClusterOf[o]] \/ cluster'[ClusterOf[o]] = i
      BY <2>1, KindType DEF Types
    <2> QED
      BY <1>2, <2>2, <2>3
  <1> QED
    BY <1>1, <1>2, <1>3, <1>4, DataFrame

LEMMA DataStart ==
    ASSUME Types, CtlInv, DataInv, Start
    PROVE  DataInv'
  <1> SUFFICES ASSUME NEW o \in Objects PROVE OwnInv(o)' /\ HostInv(o)'
    BY DEF DataInv
  <1> DEFINE i == cluster[turn.of]
             c == ClusterOf[o]
  <1>1. OwnInv(o) /\ HostInv(o) /\ c \in Clusters /\ ClusterInv(c)
    BY KindType DEF DataInv, CtlInv
  <1>2. UNCHANGED <<cluster, ofInst, obj, job, cache, missed>> /\ turn.at = "start"
    BY DEF Start
  <1>3. Harmless(o, KeyOf[o]) /\ Harmless(o, HostKeyOf[o])
    BY <1>2 DEF Harmless
  <1>4. /\ i # 0 /\ i \in Instances /\ Stopped(i) /\ turn.of \in Clusters
        /\ ofInst[i] = turn.of
    BY <1>2, Busy DEF CtlInv, TurnInv, ClusterInv
  <1>5. PICK ks : StartKinds(i, ks)
    BY DEF Start
  <1>6. ASSUME There(o), <<cluster'[c], KindOf[o]>> \in running',
               <<cluster[c], KindOf[o]>> \notin running
        PROVE  <<i, o>> \in pending'
    <2>1. cluster[c] = i /\ KindOf[o] \in ks
      BY <1>2, <1>5, <1>6 DEF StartKinds
    <2>2. ofInst[i] = c
      BY <1>1, <1>4, <2>1 DEF ClusterInv
    <2>3. obj[o] \notin {"absent", "never"}
      BY <1>6 DEF There, Ready
    <2> QED
      BY <1>4, <1>5, <2>1, <2>2, <2>3 DEF StartKinds, Pairs
  <1>7. pending \subseteq pending'
    BY <1>5 DEF StartKinds
  <1>8. There(o) /\ <<cluster'[c], KindOf[o]>> \in running'
             => \/ <<cluster[c], KindOf[o]>> \in running
                \/ \E j \in Instances : <<j, o>> \in pending'
    BY <1>4, <1>6
  <1> QED
    BY <1>1, <1>2, <1>3, <1>7, <1>8, DataFrame

LEMMA DataCancel ==
    ASSUME Types, DataInv, NEW i \in Instances, Cancel(i), UNCHANGED <<cluster, obj, job, cache>>
    PROVE  DataInv'
  <1> SUFFICES ASSUME NEW o \in Objects PROVE OwnInv(o)' /\ HostInv(o)'
    BY DEF DataInv
  <1>1. OwnInv(o) /\ HostInv(o) /\ running' \subseteq running /\ missed \subseteq missed'
    BY CancelType DEF DataInv
  <1>2. Harmless(o, KeyOf[o]) /\ Harmless(o, HostKeyOf[o])
    BY DEF Harmless
  <1>3. \A j \in Instances : <<j, o>> \in pending => <<j, o>> \in pending' \/ o \in missed'
    BY DEF Cancel
  <1> QED
    BY <1>1, <1>2, <1>3, DataFrame

LEMMA DataDeleteEntry ==
    ASSUME Types, CtlInv, DataInv, DeleteEntry
    PROVE  DataInv'
  <1> SUFFICES ASSUME NEW o \in Objects PROVE OwnInv(o)' /\ HostInv(o)'
    BY DEF DataInv
  <1>1. OwnInv(o) /\ HostInv(o)
    BY DEF DataInv
  <1>2. UNCHANGED <<running, obj, pending, job, cache, missed>>
    BY DEF DeleteEntry, seen
  <1>3. Harmless(o, KeyOf[o]) /\ Harmless(o, HostKeyOf[o])
    BY <1>2 DEF Harmless
  <1>4. <<cluster'[ClusterOf[o]], KindOf[o]>> \in running'
          => <<cluster[ClusterOf[o]], KindOf[o]>> \in running
    <2>1. <<0, KindOf[o]>> \notin running
      BY DEF Types, Instances
    <2>2. cluster'[ClusterOf[o]] = cluster[ClusterOf[o]] \/ cluster'[ClusterOf[o]] = 0
      BY KindType DEF Types, DeleteEntry
    <2> QED
      BY <1>2, <2>1, <2>2
  <1> QED
    BY <1>1, <1>2, <1>3, <1>4, DataFrame

\* The entries that go with a cluster are not missed by a running instance in the cache.
LEMMA DataDrop ==
    ASSUME Types, CtlInv, DataInv, KeyInv, DeleteService \/ DeleteTopologies
    PROVE  DataInv' /\ KeyInv'
  <1>1. /\ UNCHANGED <<cluster, running, obj, pending, job, missed>>
        /\ turn.at \in {"service", "topologies"}
    BY DEF DeleteService, DeleteTopologies
  <1>2. Stopped(cluster[turn.of])
    BY <1>1 DEF CtlInv, TurnInv
  <1>3. ASSUME NEW k \in Keys
        PROVE  \/ cache'[k] = cache[k]
               \/ /\ cache'[k] = None
                  /\ \E x \in Objects :
                       /\ k = KeyOf[x] /\ KindOf[x] \in {"ns", "svc"}
                       /\ ClusterOf[x] = turn.of
                            \/ (cache[k] # None /\ ClusterOf[cache[k].of] = turn.of)
    BY DEF DeleteService, DeleteTopologies, Types
  <1>4. KeyInv'
    BY <1>3 DEF KeyInv, OwnerInv
  <1>5. ASSUME NEW o \in Objects, NEW k \in Keys PROVE Harmless(o, k)
    <2>1. CASE cache'[k] = cache[k]
      BY <2>1 DEF Harmless
    <2>2. CASE /\ cache'[k] = None
               /\ \E x \in Objects :
                    /\ k = KeyOf[x] /\ KindOf[x] \in {"ns", "svc"}
                    /\ ClusterOf[x] = turn.of
                         \/ (cache[k] # None /\ ClusterOf[cache[k].of] = turn.of)
      <3>1. CASE ~Alone(o, k)
        BY <2>2, <3>1 DEF Harmless
      <3>2. CASE Alone(o, k)
        <4>1. k = KeyOf[o]
          BY <2>2, <3>2 DEF Alone
        <4>2. cache[k] # None => cache[k].of \in Objects
          BY DEF Types, Entries
        <4>3. cache[k] # None => cache[k].of = o
          BY <3>2, <4>2 DEF Alone, KeyInv, OwnerInv
        <4>4. ClusterOf[o] = turn.of
          BY <2>2, <3>2, <4>3 DEF Alone
        <4>5. <<cluster[ClusterOf[o]], KindOf[o]>> \notin running
          BY <1>2, <4>4, KindType DEF Stopped
        <4> QED
          BY <1>1, <2>2, <4>5 DEF Harmless
      <3> QED
        BY <3>1, <3>2
    <2> QED
      BY <1>3, <2>1, <2>2
  <1>6. ASSUME NEW o \in Objects PROVE OwnInv(o)' /\ HostInv(o)'
    <2>1. OwnInv(o) /\ HostInv(o) /\ Harmless(o, KeyOf[o]) /\ Harmless(o, HostKeyOf[o])
      BY <1>5, KeyType DEF DataInv
    <2> QED
      BY <1>1, <2>1, DataFrame
  <1> QED
    BY <1>4, <1>6 DEF DataInv

LEMMA DataObjectChange ==
    ASSUME Types, CtlInv, DataInv, NEW p \in Objects, ObjectChange(p)
    PROVE  DataInv'
  <1> SUFFICES ASSUME NEW o \in Objects PROVE OwnInv(o)' /\ HostInv(o)'
    BY DEF DataInv
  <1>1. OwnInv(o) /\ HostInv(o) /\ KeyOf[o] \in Keys /\ HostKeyOf[o] \in Keys
    BY KeyType DEF DataInv
  <1>2. /\ UNCHANGED <<cluster, ofInst, running, job, cache>> /\ missed \subseteq missed'
        /\ pending' = pending \cup {<<i, p>> : i \in Watchers(p)}
        /\ Watchers(p) = {} /\ Held(p) => p \in missed'
    BY DEF ObjectChange
  <1>3. CASE o # p
    <2>1. obj'[o] = obj[o]
      BY <1>3 DEF ObjectChange, Types
    <2>2. Harmless(o, KeyOf[o]) /\ Harmless(o, HostKeyOf[o])
      BY <1>2 DEF Harmless
    <2> QED
      BY <1>1, <1>2, <2>1, <2>2, DataFrame
  <1>4. CASE o = p /\ Watchers(p) # {}
    <2>1. PICK i \in Watchers(p) : <<i, o>> \in pending'
      BY <1>2, <1>4
    <2>2. i \in Instances
      BY <2>1 DEF Watchers
    <2> QED
      BY <2>1, <2>2 DEF OwnInv, HostInv
  <1>5. CASE o = p /\ Watchers(p) = {} /\ Held(p)
    BY <1>2, <1>5 DEF OwnInv, HostInv
  <1>6. CASE o = p /\ Watchers(p) = {} /\ ~Held(p)
    <2>1. \A k \in Keys : cache[k] = None \/ cache[k].of # o
      BY <1>6 DEF Held
    <2>2. <<cluster[ClusterOf[o]], KindOf[o]>> \notin running
      <3>1. SUFFICES ASSUME <<cluster[ClusterOf[o]], KindOf[o]>> \in running PROVE FALSE
        OBVIOUS
      <3>2. cluster[ClusterOf[o]] \in Instances /\ cluster[ClusterOf[o]] # 0
        BY <3>1 DEF Types, Instances
      <3>3. ofInst[cluster[ClusterOf[o]]] = ClusterOf[o]
        BY <3>2, KindType DEF CtlInv, ClusterInv
      <3> QED
        BY <1>6, <3>1, <3>2, <3>3 DEF Watchers
    <2> QED
      BY <1>1, <1>2, <2>1, <2>2 DEF OwnInv, HostInv, Right
  <1> QED
    BY <1>3, <1>4, <1>5, <1>6

LEMMA DataWatchOther ==
    ASSUME Types, ObsInv, DataInv, NEW i \in Instances, NEW p \in Objects, Watch(i, p),
           NEW o \in Objects, o # p
    PROVE  OwnInv(o)' /\ HostInv(o)'
  <1>1. OwnInv(o) /\ HostInv(o) /\ KeyOf[o] \in Keys /\ HostKeyOf[o] \in Keys
    BY KeyType DEF DataInv
  <1>2. UNCHANGED <<running, obj, missed, cluster>>
    BY ObsOther
  <1>3. \A j \in Instances : /\ job'[<<j, o>>] = job[<<j, o>>]
                             /\ <<j, o>> \in pending' <=> <<j, o>> \in pending
    BY ObsOther
  <1>4. ASSUME NEW k \in Keys PROVE Harmless(o, k)
    <2>1. CASE cache'[k] = cache[k]
      BY <2>1 DEF Harmless
    <2>2. CASE /\ k = KeyOf[p] \/ (k = HostKeyOf[p] /\ KindOf[p] = "node")
               /\ cache'[k] = None \/ (cache'[k] # None /\ cache'[k].of = p)
      BY <2>2 DEF Harmless, Alone
    <2> QED
      BY <2>1, <2>2, CacheStep
  <1>5. Harmless(o, KeyOf[o]) /\ Harmless(o, HostKeyOf[o])
    BY <1>1, <1>4
  <1> QED
    BY <1>1, <1>2, <1>3, <1>5, DataFrame

\* What an object asks for is what its reconciler writes.
LEMMA Asked ==
    ASSUME NEW p \in Objects
    PROVE  /\ There(p) <=> Caches(KindOf[p], obj[p])
           /\ Gone(p) => ~There(p) /\ Uncaches(KindOf[p], obj[p])
  BY DEF There, Gone, Caches, Uncaches, Ready

LEMMA DataWatchOwn ==
    ASSUME Types, ObsInv, KeyInv, DataInv, NEW i \in Instances, NEW p \in Objects, Watch(i, p)
    PROVE  OwnInv(p)'
  <1> DEFINE j == job[<<i, p>>]
             n == job'[<<i, p>>]
             k == KeyOf[p]
  <1>1. OwnInv(p) /\ k \in Keys /\ WatchInv(i, p)
    BY KeyType DEF DataInv, ObsInv
  <1>2. UNCHANGED <<running, obj, missed, cluster>>
    BY ObsOther
  <1>3. \A a \in Instances : a # i =>
          /\ job'[<<a, p>>] = job[<<a, p>>]
          /\ <<a, p>> \in pending' <=> <<a, p>> \in pending
    BY ObsOther
  <1>4. (There(p)' <=> There(p)) /\ (Gone(p)' <=> Gone(p)) /\ EntryOf(p, obj[p])' = EntryOf(p, obj[p])
    BY <1>2 DEF There, Gone, EntryOf
  <1>5. CASE p \in missed
    BY <1>2, <1>5 DEF OwnInv
  <1>6. CASE \E a \in Instances : a # i /\ (<<a, p>> \in pending \/ Unwritten(a, p))
    <2>1. \E a \in Instances : (<<a, p>> \in pending \/ Unwritten(a, p))'
      BY <1>3, <1>6 DEF Unwritten
    <2> QED
      BY <2>1 DEF OwnInv
  <1>7. CASE /\ p \notin missed
             /\ ~ \E a \in Instances : a # i /\ (<<a, p>> \in pending \/ Unwritten(a, p))
    <2>1. SUFFICES ASSUME <<i, p>> \notin pending', ~Unwritten(i, p)'
                   PROVE  Right(p, k, EntryOf(p, obj[p]))'
      BY DEF OwnInv
    <2>2. CASE Read(i, p)
      <3>1. n = Idle /\ ~Uncaches(KindOf[p], obj[p]) /\ ~Caches(KindOf[p], obj[p])
        <4>1. n # [op |-> "lookup", seen |-> obj[p], old |-> None]
          BY <2>1 DEF Unwritten, Idle
        <4>2. j = Idle /\ n # [op |-> "lookup", seen |-> obj[p], old |-> None]
          BY <2>2, <4>1 DEF Read
        <4> QED
          BY <4>2, JobStep
      <3>2. ~There(p) /\ ~Gone(p)
        BY <3>1, Asked
      <3> QED
        BY <1>4, <3>2 DEF Right
    <2>3. CASE Lookup(i, p)
      <3>1. /\ KindOf[p] = "ns" /\ cache[k] # None /\ ClusterOf[cache[k].of] # ClusterOf[p]
            /\ UNCHANGED cache
        <4>1. j \in Jobs /\ j.op = "lookup"
          BY <2>3, JobType DEF Lookup
        <4>2. /\ [j EXCEPT !.op = "first", !.old = cache[k]].op = "first"
              /\ [j EXCEPT !.op = "first", !.old = cache[k]] # Idle
          BY <4>1 DEF Jobs, Idle
        <4>a. n = Idle \/ n.op # "first"
          BY <2>1 DEF Unwritten
        <4>3. n # [j EXCEPT !.op = "first", !.old = cache[k]]
          BY <4>2, <4>a
        <4> QED
          BY <2>3, <4>3 DEF Lookup, Types
      <3>2. cache[k].of # p /\ cache[k].of \in Objects
        BY <1>1, <3>1 DEF Types, Entries
      <3>3. ~Alone(p, k)
        BY <1>1, <3>1, <3>2 DEF Alone, KeyInv, OwnerInv
      <3> QED
        BY <3>1, <3>2, <3>3 DEF Right
    <2>4. CASE First(i, p)
      <3>1. /\ j # Idle /\ n # Idle /\ n.op = "second" /\ n.seen = j.seen /\ pending' = pending
        BY <2>4, JobType, JobStep DEF First, Read, Lookup, Second, Host
      <3>2. Caches(KindOf[p], j.seen) /\ j.seen = obj[p]
        BY <1>1, <1>7, <2>1, <3>1 DEF Unwritten, WatchInv
      <3>3. cache'[k] = EntryOf(p, obj[p])
        BY <1>1, <2>4, <3>2 DEF First, Types
      <3>4. There(p) /\ ~Gone(p)
        BY <3>2, Asked
      <3> QED
        BY <1>4, <3>3, <3>4 DEF Right
    <2>5. CASE Second(i, p) /\ Caches(KindOf[p], j.seen)
      <3>1. j # Idle /\ j.op = "second" /\ pending' = pending /\ UNCHANGED cache
        BY <2>5, JobType DEF Second
      <3>2. Right(p, k, EntryOf(p, obj[p]))
        BY <1>1, <1>7, <2>1, <2>5, <3>1 DEF OwnInv, Unwritten
      <3> QED
        BY <1>2, <1>4, <3>1, <3>2 DEF Right
    <2>6. CASE Second(i, p) /\ ~Caches(KindOf[p], j.seen)
      <3>1. j # Idle /\ pending' = pending /\ cache'[k] = None
        BY <1>1, <2>6, JobType DEF Second, Types
      <3>2. j.seen = obj[p]
        BY <1>1, <1>7, <2>1, <3>1 DEF WatchInv
      <3>3. ~There(p)
        BY <2>6, <3>2, Asked
      <3> QED
        BY <1>4, <3>1, <3>3 DEF Right
    <2>7. CASE Host(i, p)
      <3>1. j # Idle /\ j.op = "host" /\ pending' = pending /\ KindOf[p] = "node"
        BY <1>1, <2>7, JobType DEF Host, WatchInv
      <3>2. cache'[k] = cache[k]
        BY <1>1, <2>7, <3>1, KeyAssumption DEF Host, Types
      <3>3. Right(p, k, EntryOf(p, obj[p]))
        BY <1>1, <1>7, <2>1, <3>1 DEF OwnInv, Unwritten
      <3> QED
        BY <1>2, <1>4, <3>2, <3>3 DEF Right
    <2> QED
      BY <2>2, <2>3, <2>4, <2>5, <2>6, <2>7 DEF Watch
  <1> QED
    BY <1>5, <1>6, <1>7

LEMMA DataWatchHost ==
    ASSUME Types, ObsInv, DataInv, NEW i \in Instances, NEW p \in Objects, Watch(i, p)
    PROVE  HostInv(p)'
  <1> DEFINE j == job[<<i, p>>]
             n == job'[<<i, p>>]
             k == HostKeyOf[p]
  <1>1. HostInv(p) /\ k \in Keys /\ WatchInv(i, p)
    BY KeyType DEF DataInv, ObsInv
  <1>2. UNCHANGED <<running, obj, missed, cluster>>
    BY ObsOther
  <1>3. (There(p)' <=> There(p)) /\ (Gone(p)' <=> Gone(p))
        /\ HostEntryOf(p, obj[p])' = HostEntryOf(p, obj[p])
    BY <1>2 DEF There, Gone, HostEntryOf
  <1>4. SUFFICES ASSUME p \notin missed, KindOf[p] = "node", <<i, p>> \notin pending', n = Idle
                 PROVE  Right(p, k, HostEntryOf(p, obj[p]))'
    BY <1>2 DEF HostInv
  <1>5. CASE Read(i, p)
    <2>1. ~Uncaches(KindOf[p], obj[p]) /\ ~Caches(KindOf[p], obj[p])
      <3>1. n # [op |-> "lookup", seen |-> obj[p], old |-> None]
        BY <1>4 DEF Idle
      <3>2. j = Idle
        BY <1>5 DEF Read
      <3> QED
        BY <3>1, <3>2, JobStep
    <2>2. ~There(p) /\ ~Gone(p)
      BY <2>1, Asked
    <2> QED
      BY <1>3, <2>2 DEF Right
  <1>6. CASE Host(i, p)
    <2>1. j # Idle /\ pending' = pending
      BY <1>6, JobType DEF Host
    <2>2. j.seen = obj[p]
      BY <1>1, <1>4, <2>1 DEF WatchInv
    <2>3. cache'[k] = IF Caches(KindOf[p], obj[p]) THEN HostEntryOf(p, obj[p]) ELSE None
      BY <1>1, <1>6, <2>2 DEF Host, Types
    <2> QED
      BY <1>3, <2>3, Asked DEF Right
  <1>7. ~Lookup(i, p) /\ ~First(i, p) /\ ~Second(i, p)
    <2>1. SUFFICES ASSUME Lookup(i, p) \/ First(i, p) \/ Second(i, p) PROVE FALSE
      OBVIOUS
    <2>2. CASE Lookup(i, p)
      <3>1. j \in Jobs
        BY <2>2, JobType DEF Lookup
      <3>2. [j EXCEPT !.op = "first", !.old = cache[KeyOf[p]]] # Idle
        BY <3>1 DEF Jobs, Idle
      <3> QED
        BY <1>4, <2>2, <3>2 DEF Lookup, Types
    <2>3. CASE First(i, p)
      <3>1. j \in Jobs
        BY <2>3, JobType DEF First
      <3>2. [j EXCEPT !.op = "second"] # Idle
        BY <3>1 DEF Jobs, Idle
      <3> QED
        BY <1>4, <2>3, <3>2 DEF First, Types
    <2>4. CASE Second(i, p)
      <3>1. j \in Jobs
        BY <2>4, JobType DEF Second
      <3>2. [j EXCEPT !.op = "host"] # Idle
        BY <3>1 DEF Jobs, Idle
      <3> QED
        BY <1>4, <2>4, <3>2 DEF Second, Types
    <2> QED
      BY <2>1, <2>2, <2>3, <2>4
  <1> QED
    BY <1>5, <1>6, <1>7 DEF Watch

LEMMA DataWatch ==
    ASSUME Types, ObsInv, KeyInv, DataInv, NEW i \in Instances, NEW p \in Objects, Watch(i, p)
    PROVE  DataInv'
  <1>1. ASSUME NEW o \in Objects PROVE OwnInv(o)' /\ HostInv(o)'
    <2>1. CASE o = p
      BY <2>1, DataWatchOwn, DataWatchHost
    <2>2. CASE o # p
      BY <2>2, DataWatchOther
    <2> QED
      BY <2>1, <2>2
  <1> QED
    BY <1>1 DEF DataInv

----------------------------------------------------------------------------
(* The workers *)

LEMMA WorkInit == CWInit => WorkInv
  BY KeyType DEF CWInit, WorkInv, WorkerInv, CallInv, Calling, Idle

LEMMA WorkFrame ==
    ASSUME NEW o \in Objects, WorkerInv(o), Single(ClusterOf[o])' => Single(ClusterOf[o]),
           \A i \in Instances : job'[<<i, o>>] = job[<<i, o>>],
           KindOf[o] = "svc" => /\ cache'[KeyOf[o]] = cache[KeyOf[o]]
                                /\ worker'[ClusterOf[o]] = worker[ClusterOf[o]]
    PROVE  WorkerInv(o)'
  BY DEF WorkerInv, CallInv, Calling

LEMMA WorkQuiet ==
    ASSUME WorkInv, UNCHANGED <<ofInst, job, cache, worker>>
    PROVE  WorkInv'
  <1>1. ASSUME NEW o \in Objects PROVE WorkerInv(o)'
    <2>1. WorkerInv(o) /\ (Single(ClusterOf[o])' => Single(ClusterOf[o]))
      BY DEF WorkInv, Single
    <2> QED
      BY <2>1, WorkFrame
  <1> QED
    BY <1>1 DEF WorkInv

LEMMA WorkUpsert ==
    ASSUME Types, WorkInv, Upsert
    PROVE  WorkInv'
  <1>1. UNCHANGED <<job, cache, worker>>
    BY DEF Upsert, seen
  <1>2. PICK i \in Instances : ofInst[i] = None /\ ofInst' = [ofInst EXCEPT ![i] = turn.of]
    BY DEF Upsert
  <1>3. ASSUME NEW o \in Objects PROVE WorkerInv(o)'
    <2>1. WorkerInv(o) /\ ClusterOf[o] # None
      BY KindType DEF WorkInv
    <2>2. \A a \in Instances : ofInst[a] = ClusterOf[o] => ofInst'[a] = ClusterOf[o]
      BY <1>2, <2>1 DEF Types
    <2>3. Single(ClusterOf[o])' => Single(ClusterOf[o])
      BY <2>2 DEF Single
    <2> QED
      BY <1>1, <2>1, <2>3, WorkFrame
  <1> QED
    BY <1>3 DEF WorkInv

\* The service of a cluster has its key for itself.
LEMMA OneService ==
    ASSUME NEW o \in Objects, KindOf[o] = "svc", NEW p \in Objects, p # o
    PROVE  /\ KeyOf[p] # KeyOf[o] /\ HostKeyOf[p] # KeyOf[o]
           /\ KindOf[p] = "svc" => ClusterOf[p] # ClusterOf[o]
  BY KeyAssumption

LEMMA WorkDrop ==
    ASSUME Types, ObsInv, WorkInv, turn.of \in Clusters, DeleteService \/ DeleteTopologies
    PROVE  WorkInv'
  <1>1. UNCHANGED <<ofInst, job>>
    BY DEF DeleteService, DeleteTopologies
  <1>2. ASSUME NEW o \in Objects PROVE WorkerInv(o)'
    <2> DEFINE k == KeyOf[o]
               c == ClusterOf[o]
    <2>1. /\ WorkerInv(o) /\ k \in Keys /\ c \in Clusters
          /\ (Single(ClusterOf[o])' => Single(ClusterOf[o]))
      BY <1>1, KeyType, KindType DEF WorkInv, Single
    <2>2. CASE KindOf[o] # "svc"
      BY <2>2 DEF WorkerInv
    <2>3. CASE KindOf[o] = "svc" /\ DeleteTopologies
      <3>1. \A x \in Objects : KindOf[x] = "ns" => KeyOf[x] # k
        BY <2>3, OneService
      <3>2. cache'[k] = cache[k] /\ UNCHANGED worker
        BY <2>1, <2>3, <3>1 DEF DeleteTopologies, Types
      <3> QED
        BY <1>1, <2>1, <3>2, WorkFrame
    <2>4. CASE KindOf[o] = "svc" /\ DeleteService /\ turn.of # c
      <3>1. \A x \in Objects : KindOf[x] = "svc" /\ ClusterOf[x] = turn.of => KeyOf[x] # k
        BY <2>4, OneService
      <3>2. cache'[k] = cache[k]
        BY <2>1, <2>4, <3>1 DEF DeleteService, Types
      <3>3. worker'[c] = worker[c]
        BY <2>1, <2>4 DEF DeleteService, Types
      <3> QED
        BY <1>1, <2>1, <3>2, <3>3, WorkFrame
    <2>5. CASE KindOf[o] = "svc" /\ DeleteService /\ turn.of = c
      <3>1. \A x \in Objects : KindOf[x] = "svc" /\ ClusterOf[x] = c => x = o
        BY <2>5, OneService
      <3>2. {KeyOf[x] : x \in {y \in Objects : KindOf[y] = "svc" /\ ClusterOf[y] = turn.of}} = {k}
        BY <2>5, <3>1
      <3>3. /\ cache'[k] = None
            /\ worker'[c] = IF cache[k] # None THEN cache[k] ELSE worker[c]
        BY <2>1, <2>5, <3>2 DEF DeleteService, Types
      <3>4. SUFFICES ASSUME Single(c) PROVE \A i \in Instances : CallInv(i, o)'
        BY <2>1, <3>3 DEF WorkerInv
      <3>5. ASSUME NEW i \in Instances PROVE CallInv(i, o)'
        <4>1. CallInv(i, o)
          BY <2>1, <2>5, <3>4 DEF WorkerInv
        <4>2. CASE Calling(i, o)
          BY <1>1, <3>3, <4>1, <4>2 DEF CallInv, Calling
        <4>3. CASE ~Calling(i, o) /\ \E a \in Instances : Calling(a, o)
          <5>1. PICK a \in Instances : Calling(a, o)
            BY <4>3
          <5>2. ofInst[a] = c /\ a # i
            BY <4>3, <5>1 DEF Calling, ObsInv, WatchInv
          <5>3. job[<<i, o>>] = Idle
            BY <3>4, <5>2 DEF ObsInv, WatchInv, Single
          <5> QED
            BY <1>1, <5>3 DEF CallInv, Calling
        <4>4. CASE ~ \E a \in Instances : Calling(a, o)
          <5>1. worker'[c] = worker[c]
            BY <2>1, <2>5, <3>3, <3>4, <4>4 DEF WorkerInv
          <5> QED
            BY <1>1, <3>3, <4>1, <4>4, <5>1 DEF CallInv, Calling
        <4> QED
          BY <4>2, <4>3, <4>4
      <3> QED
        BY <3>5
    <2> QED
      BY <2>2, <2>3, <2>4, <2>5
  <1> QED
    BY <1>2 DEF WorkInv

LEMMA WorkWatchOther ==
    ASSUME Types, ObsInv, WorkInv, NEW i \in Instances, NEW p \in Objects, Watch(i, p),
           NEW o \in Objects, o # p
    PROVE  WorkerInv(o)'
  <1>1. WorkerInv(o) /\ KeyOf[o] \in Keys /\ ClusterOf[o] \in Clusters
    BY KeyType, KindType DEF WorkInv
  <1>2. UNCHANGED ofInst /\ \A j \in Instances : job'[<<j, o>>] = job[<<j, o>>]
    BY ObsOther
  <1>3. ASSUME KindOf[o] = "svc"
        PROVE  /\ cache'[KeyOf[o]] = cache[KeyOf[o]]
               /\ worker'[ClusterOf[o]] = worker[ClusterOf[o]]
    <2>1. /\ KeyOf[p] # KeyOf[o] /\ HostKeyOf[p] # KeyOf[o]
          /\ KindOf[p] = "svc" => ClusterOf[p] # ClusterOf[o]
      BY <1>3, OneService
    <2>2. cache'[KeyOf[o]] = cache[KeyOf[o]]
      BY <1>1, <2>1, CacheStep
    <2>3. \/ UNCHANGED worker
          \/ KindOf[p] = "svc" /\ \E e : worker' = [worker EXCEPT ![ClusterOf[p]] = e]
      BY DEF Watch, Read, Lookup, First, Second, Host, Callback
    <2>4. worker'[ClusterOf[o]] = worker[ClusterOf[o]]
      BY <1>1, <2>1, <2>3 DEF Types
    <2> QED
      BY <2>2, <2>4
  <1>4. Single(ClusterOf[o])' => Single(ClusterOf[o])
    BY <1>2 DEF Single
  <1> QED
    BY <1>1, <1>2, <1>3, <1>4, WorkFrame

LEMMA WorkWatchOwn ==
    ASSUME Types, ObsInv, WorkInv, NEW i \in Instances, NEW p \in Objects, Watch(i, p)
    PROVE  WorkerInv(p)'
  <1> DEFINE j == job[<<i, p>>]
             n == job'[<<i, p>>]
             k == KeyOf[p]
             c == ClusterOf[p]
  <1>1. UNCHANGED ofInst /\ k \in Keys /\ c \in Clusters
    BY ObsOther, KeyType, KindType
  <1>2. SUFFICES ASSUME KindOf[p] = "svc", Single(c)
                 PROVE  /\ \/ \E a \in Instances : Calling(a, p)'
                           \/ cache'[k] = None \/ worker'[c] = cache'[k]
                        /\ \A a \in Instances : CallInv(a, p)'
    BY <1>1 DEF WorkerInv, Single
  <1>3. /\ \/ \E a \in Instances : Calling(a, p)
           \/ cache[k] = None \/ worker[c] = cache[k]
        /\ CallInv(i, p)
    BY <1>2 DEF WorkInv, WorkerInv
  <1>4. ofInst[i] = c
    <2>1. <<i, p>> \in pending \/ j # Idle
      BY JobStep
    <2> QED
      BY <2>1 DEF ObsInv, WatchInv, Watchers
  <1>5. \A a \in Instances : a # i => job[<<a, p>>] = Idle /\ job'[<<a, p>>] = Idle
    <2>1. \A a \in Instances : a # i => job[<<a, p>>] = Idle
      BY <1>2, <1>4 DEF ObsInv, WatchInv, Single
    <2> QED
      BY <2>1, ObsOther
  <1>6. \A a \in Instances : a # i => ~Calling(a, p) /\ CallInv(a, p)'
    BY <1>5 DEF Calling, CallInv
  <1>7. SUFFICES /\ Calling(i, p)' \/ cache'[k] = None \/ worker'[c] = cache'[k]
                 /\ CallInv(i, p)'
    BY <1>6
  <1>8. Calling(i, p) \/ cache[k] = None \/ worker[c] = cache[k]
    BY <1>3, <1>6
  <1>9. CASE Read(i, p)
    <2>1. UNCHANGED <<cache, worker>> /\ j = Idle
      BY <1>9 DEF Read
    <2>2. n = Idle \/ n = [op |-> "lookup", seen |-> obj[p], old |-> None]
      BY <1>9 DEF Read, Types
    <2> QED
      BY <1>8, <2>1, <2>2 DEF Calling, CallInv
  <1>10. CASE Lookup(i, p)
    <2>1. UNCHANGED <<cache, worker>> /\ j # Idle /\ j.op = "lookup"
      BY <1>10, JobType DEF Lookup
    <2>2. n = Idle \/ (n.op = "first" /\ n.old = cache[k])
      BY <2>1, <1>10, JobStep DEF Read, First, Second, Host
    <2> QED
      BY <1>8, <2>1, <2>2 DEF Calling, CallInv
  <1>11. CASE First(i, p)
    <2>1. j # Idle /\ j.op = "first" /\ (j.old = None \/ worker[c] = j.old)
      BY <1>3, <1>11, JobType DEF First, CallInv
    <2>2. n # Idle /\ n.op = "second" /\ n.seen = j.seen /\ n.old = j.old
      BY <2>1, <1>11, JobStep DEF Read, Lookup, Second, Host
    <2>3. CASE Caches("svc", j.seen)
      <3>1. cache'[k] = EntryOf(p, j.seen) /\ UNCHANGED worker
        BY <1>1, <1>2, <1>11, <2>3 DEF First, Types
      <3>2. EntryOf(p, j.seen) # None
        BY <1>2, <1>11, <2>3, EntryType, JobType DEF First
      <3> QED
        BY <2>1, <2>2, <2>3, <3>1, <3>2 DEF Calling, CallInv
    <2>4. CASE ~Caches("svc", j.seen)
      <3>1. cache' = cache /\ worker'[c] = worker[c]
        BY <1>1, <1>2, <1>11, <2>1, <2>4 DEF First, Callback, Types
      <3> QED
        BY <1>8, <2>1, <2>2, <2>4, <3>1 DEF Calling, CallInv
    <2> QED
      BY <2>3, <2>4
  <1>12. CASE Second(i, p)
    <2>1. j # Idle /\ j.op = "second"
      BY <1>12, JobType DEF Second
    <2>2. n = Idle
      BY <1>2, <2>1, <1>12, JobStep DEF Read, Lookup, First, Host
    <2>3. CASE Caches("svc", j.seen)
      <3>1. Calling(i, p)
        BY <2>1, <2>3 DEF Calling
      <3>2. cache[k] = None \/ cache[k] = EntryOf(p, j.seen)
        BY <1>3, <3>1 DEF CallInv
      <3>3. worker'[c] = EntryOf(p, j.seen) /\ UNCHANGED cache
        BY <1>1, <1>2, <1>3, <1>12, <2>3, <3>1 DEF Second, Callback, CallInv, Types
      <3> QED
        BY <2>2, <3>2, <3>3 DEF Calling, CallInv
    <2>4. CASE ~Caches("svc", j.seen)
      <3>1. cache'[k] = None
        BY <1>1, <1>2, <1>12, <2>4 DEF Second, Types
      <3> QED
        BY <2>2, <3>1 DEF Calling, CallInv
    <2> QED
      BY <2>3, <2>4
  <1>13. ~Host(i, p)
    BY <1>2, JobType DEF Host, ObsInv, WatchInv
  <1> QED
    BY <1>9, <1>10, <1>11, <1>12, <1>13 DEF Watch

LEMMA WorkWatch ==
    ASSUME Types, ObsInv, WorkInv, NEW i \in Instances, NEW p \in Objects, Watch(i, p)
    PROVE  WorkInv'
  <1>1. ASSUME NEW o \in Objects PROVE WorkerInv(o)'
    <2>1. CASE o = p
      BY <2>1, WorkWatchOwn
    <2>2. CASE o # p
      BY <2>2, WorkWatchOther
    <2> QED
      BY <2>1, <2>2
  <1> QED
    BY <1>1 DEF WorkInv

----------------------------------------------------------------------------
(* The invariant *)

LEMMA InitInv == CWInit => IInv
  BY TypesInit, CtlInit, ObsInit, DataInit, WorkInit DEF IInv

LEMMA ControlInv ==
    ASSUME IInv, Control
    PROVE  IInv'
  <1>0. /\ Types /\ TurnInv /\ CtlInv /\ RunInv /\ ObsInv /\ KeyInv /\ DataInv /\ WorkInv
        /\ Types'
    BY TypesControl DEF IInv, CtlInv
  <1>1. CASE \/ \E c \in Clusters : Reconcile(c)
             \/ AddFinalizer \/ Apply \/ RemoveFinalizer
    <2>1. UNCHANGED <<cluster, ofInst, running, obj, pending, job, cache, worker, missed>>
      BY <1>1 DEF Reconcile, AddFinalizer, Apply, RemoveFinalizer, seen
    <2>2. CtlInv'
      BY <1>0, <1>1, CtlReconcile, CtlAddFinalizer, CtlApply, CtlRemoveFinalizer
    <2>3. RunInv'
      BY <1>0, <2>1 DEF RunInv
    <2> QED
      BY <1>0, <2>1, <2>2, <2>3, ObsFrame, DataQuiet, WorkQuiet DEF IInv
  <1>2. CASE Upsert
    <2>1. UNCHANGED cache
      BY <1>2 DEF Upsert, seen
    <2> QED
      BY <1>0, <1>2, <2>1, CtlUpsert, ObsUpsert, KeyFrame, DataUpsert, WorkUpsert DEF IInv
  <1>3. CASE Start
    <2>1. UNCHANGED <<ofInst, job, cache, worker>>
      BY <1>3 DEF Start
    <2> QED
      BY <1>0, <1>3, <2>1, CtlStart, ObsStart, KeyFrame, DataStart, WorkQuiet DEF IInv
  <1>4. CASE Stop
    <2>1. UNCHANGED <<cluster, ofInst, obj, job, cache, worker>> /\ turn.at # "done"
      BY <1>4 DEF Stop
    <2>2. CASE cluster[turn.of] # 0 /\ Cancel(cluster[turn.of])
      <3>1. cluster[turn.of] \in Instances
        BY <1>0, <2>1, <2>2, Busy
      <3> QED
        BY <1>0, <1>4, <2>1, <2>2, <3>1, CtlStop, ObsCancel, KeyFrame, DataCancel, WorkQuiet
           DEF IInv
    <2>3. CASE UNCHANGED <<running, pending, missed>>
      BY <1>0, <1>4, <2>1, <2>3, CtlStop, ObsFrame, DataQuiet, WorkQuiet DEF IInv
    <2> QED
      BY <1>4, <2>2, <2>3 DEF Stop
  <1>5. CASE DeleteService \/ DeleteTopologies
    <2>1. /\ UNCHANGED <<secret, due, cluster, ofInst, running, obj, pending, job, broken, missed>>
          /\ Advance /\ turn.at \in {"service", "topologies"}
      BY <1>5 DEF DeleteService, DeleteTopologies
    <2>2. turn.of \in Clusters
      BY <1>0, <2>1, Busy
    <2>3. ObsInv'
      BY <1>0, <2>1 DEF ObsInv, WatchInv, Watchers
    <2> QED
      BY <1>0, <1>5, <2>1, <2>2, <2>3, CtlDrop, DataDrop, WorkDrop DEF IInv
  <1>6. CASE DeleteEntry
    <2>1. UNCHANGED <<ofInst, running, obj, pending, job, cache, worker, missed>>
      BY <1>6 DEF DeleteEntry, seen
    <2>2. RunInv'
      BY <1>0, <2>1 DEF RunInv
    <2> QED
      BY <1>0, <1>6, <2>1, <2>2, CtlDeleteEntry, ObsFrame, DataDeleteEntry, WorkQuiet DEF IInv
  <1> QED
    BY <1>1, <1>2, <1>3, <1>4, <1>5, <1>6 DEF Control

LEMMA NextInv == IInv /\ [CWNext]_vars => IInv'
  <1> SUFFICES ASSUME IInv, [CWNext]_vars PROVE IInv'
    OBVIOUS
  <1>0. Types /\ CtlInv /\ RunInv /\ ObsInv /\ KeyInv /\ DataInv /\ WorkInv
    BY DEF IInv
  <1>1. CASE Control
    BY <1>1, ControlInv
  <1>2. ASSUME NEW i \in Instances, Crash(i) PROVE IInv'
    <2>1. UNCHANGED <<cluster, ofInst, obj, job, cache, worker>> /\ Cancel(i)
      BY <1>2 DEF Crash
    <2>2. Types'
      BY <1>0, <1>2, TypesRest
    <2> QED
      BY <1>0, <1>2, <2>1, <2>2, CtlCrash, ObsCancel, KeyFrame, DataCancel, WorkQuiet DEF IInv
  <1>3. ASSUME NEW i \in Instances, NEW o \in Objects, Watch(i, o) PROVE IInv'
    <2>1. UNCHANGED <<secret, due, turn, cluster, ofInst, running, broken>>
      BY <1>3 DEF Watch, Read, Lookup, First, Second, Host, ctl
    <2> QED
      BY <1>0, <1>3, <2>1, TypesWatch, CtlFrame, ObsWatch, KeyWatch, DataWatch, WorkWatch DEF IInv
  <1>4. ASSUME NEW c \in Clusters, SecretChange(c) PROVE IInv'
    <2>1. UNCHANGED <<cluster, ofInst, running, obj, pending, job, cache, worker, missed>>
      BY <1>4 DEF SecretChange, seen
    <2>2. RunInv' /\ Types'
      BY <1>0, <1>4, <2>1, TypesRest DEF RunInv
    <2> QED
      BY <1>0, <1>4, <2>1, <2>2, CtlSecretChange, ObsFrame, DataQuiet, WorkQuiet DEF IInv
  <1>5. ASSUME NEW o \in Objects, ObjectChange(o) PROVE IInv'
    <2>1. UNCHANGED <<secret, due, turn, cluster, ofInst, running, job, cache, worker, broken>>
      BY <1>5 DEF ObjectChange
    <2>2. Types'
      BY <1>0, <1>5, TypesRest
    <2> QED
      BY <1>0, <1>5, <2>1, <2>2, CtlFrame, ObsObjectChange, KeyFrame, DataObjectChange, WorkQuiet
         DEF IInv
  <1>6. CASE UNCHANGED vars
    <2>1. UNCHANGED <<secret, due, turn, cluster, ofInst, running, obj, pending, job, cache,
                      worker, broken, missed>>
      BY <1>6 DEF vars
    <2>2. Types'
      BY <1>0, <2>1 DEF Types
    <2> QED
      BY <1>0, <2>1, <2>2, CtlFrame, ObsFrame, DataQuiet, WorkQuiet DEF IInv
  <1> QED
    BY <1>1, <1>2, <1>3, <1>4, <1>5, <1>6 DEF CWNext

\* Every state the cluster controller, its watchers and their failures lead to.
THEOREM InvariantHolds == CWSpec => []IInv
  BY InitInv, NextInv, PTL DEF CWSpec

----------------------------------------------------------------------------
(* What it implies *)

\* ClusterFollowsSecret: a cluster that the controller is done with is in the cluster
\* cache exactly if its secret has a usable kubeconfig, and its watchers run unless the
\* code has logged that they do not.  From the finalizer: a cluster is there only while
\* its secret cannot go.
THEOREM ClustersFollowSecrets == CWSpec => []ClusterFollowsSecret
  <1>1. IInv => ClusterFollowsSecret
    <2> SUFFICES ASSUME IInv, NEW c \in Clusters, Settled(c)
                 PROVE  IF secret[c].st = "good"
                        THEN /\ cluster[c] # 0
                             /\ \/ cluster[c] \in broken
                                \/ \A k \in Kinds : <<cluster[c], k>> \in running
                        ELSE cluster[c] = 0
      BY DEF ClusterFollowsSecret
    <2>1. ClusterInv(c) /\ secret[c].st \in {"absent", "bad", "good", "deleting"}
      BY DEF IInv, CtlInv, Types, Secrets
    <2>2. c \notin due /\ \A st : ~Under(c, st)
      BY DEF Settled, Under
    <2> QED
      BY <2>1, <2>2 DEF ClusterInv, Up
  <1> QED
    BY <1>1, InvariantHolds, PTL

\* CacheIsCurrent: once its watchers are at rest, an object that was not missed is in the
\* caches as it is, and one that is gone is not, however many instances of its cluster
\* write the same entry, and whatever other objects share its key.
THEOREM CachesAreCurrent == CWSpec => []CacheIsCurrent
  <1>1. IInv => CacheIsCurrent
    <2> SUFFICES ASSUME IInv, NEW o \in Objects, Quiet(o), o \notin missed,
                        <<cluster[ClusterOf[o]], KindOf[o]>> \in running
                 PROVE  /\ Current(o, KeyOf[o], EntryOf(o, obj[o]))
                        /\ KindOf[o] = "node" =>
                             Current(o, HostKeyOf[o], HostEntryOf(o, obj[o]))
      BY DEF CacheIsCurrent
    <2>1. OwnInv(o) /\ HostInv(o)
      BY DEF IInv, DataInv
    <2>2. ~ \E i \in Instances : <<i, o>> \in pending \/ Unwritten(i, o)
      BY DEF Quiet, Unwritten
    <2>3. ~ \E i \in Instances : <<i, o>> \in pending \/ job[<<i, o>>] # Idle
      BY DEF Quiet
    <2> QED
      BY <2>1, <2>2, <2>3 DEF OwnInv, HostInv, Right, Current
  <1> QED
    BY <1>1, InvariantHolds, PTL

\* WorkerFollowsService: while a cluster has had one instance, a service in the cache
\* has the worker for its address, whenever its reconciler is not in the middle.
THEOREM WorkersFollowServices == CWSpec => []WorkerFollowsService
  <1>1. IInv => WorkerFollowsService
    <2> SUFFICES ASSUME IInv, NEW o \in Objects, KindOf[o] = "svc",
                        \A i \in Instances : job[<<i, o>>] = Idle, Single(ClusterOf[o]),
                        cache[KeyOf[o]] # None
                 PROVE  worker[ClusterOf[o]] = cache[KeyOf[o]]
      BY DEF WorkerFollowsService, Single
    <2>1. WorkerInv(o)
      BY DEF IInv, WorkInv
    <2>2. \A i \in Instances : ~Calling(i, o)
      BY DEF Calling
    <2> QED
      BY <2>1, <2>2 DEF WorkerInv
  <1> QED
    BY <1>1, InvariantHolds, PTL
============================================================================
