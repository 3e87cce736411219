------------------------ MODULE EndpointClaimsProofs ------------------------
(***************************************************************************)
(* Theorems about EndpointClaims, for any Links, endpoints and clusters.   *)
(*                                                                         *)
(* A claim is written from a copy, so the argument rests on what an update *)
(* that is not refused knows: a copy that counts as the stored version     *)
(* shows the stored claim.  The rest says how far a reconcile has got.     *)
(***************************************************************************)
EXTENDS EndpointClaims, TLAPS

Copied == Owners \cup {None, Missing}

\* The reconcile a process runs.
LeaseJobs == [at : {"lease"}, o : Owners, left : Seq(Clusters)]
PlainJobs == [at : {"select", "unapply", "undo", "finish"}, o : Owners]
ClaimJobs == [at : {"claim", "drop"}, o : Owners, left : Seq(Endpoints), all : Seq(Endpoints)]
ReportJobs == [at : {"report"}, o : Owners, result : {"Ready", "Failed", "same"}]
Jobs == [at : {"idle"}] \cup LeaseJobs \cup PlainJobs \cup ClaimJobs \cup ReportJobs

Types ==
    /\ claim \in [Endpoints -> Owners \cup {None}]
    /\ cache \in [Procs -> [Endpoints -> Copied]] /\ view \in [Procs -> [Endpoints -> Copied]]
    /\ synced \in [Procs -> SUBSET Endpoints] /\ current \in [Copies -> SUBSET Endpoints]
    /\ pc \in [Procs -> Jobs]
    /\ phase \in [Owners -> {"new", "live", "deleting", "gone"}] /\ applied \subseteq Endpoints

\* A copy that is the stored version shows the stored claim.
CopyInv ==
    \A p \in Procs :
        /\ \A e \in synced[p] : cache[p][e] = claim[e]
        /\ \A e \in current[p] : view[p][e] = claim[e]

\* Of the endpoints in t, those before the ones in s, which are left, are o's.
Claimed(s, t, o, c) ==
    /\ Len(s) <= Len(t)
    /\ \A k \in 1 .. Len(s) : s[k] = t[k + (Len(t) - Len(s))]
    /\ \A k \in 1 .. Len(t) - Len(s) : c[t[k]] = o

Progress(j, c) == Claimed(j.left, j.all, j.o, c)

Wanted(o) == IF o = LI THEN applied ELSE Range(Req[o])

\* A process reconciles its own resources, and none that is gone but to report that it
\* has failed.
RunInv(p) == pc[p].at # "idle" =>
    /\ ProcOf(pc[p].o) = p
    /\ phase[pc[p].o] \in {"live", "deleting"} \/ (pc[p].at = "report" /\ pc[p].result # "Ready")

\* How far the reconcile of process p has got.
StageInv(p) == LET j == pc[p] IN
    /\ j.at \in {"claim", "drop"} => Progress(j, claim)
    /\ j.at \in {"claim", "drop"} /\ p = "links" => j.all = Req[j.o]
    /\ j.at = "drop" /\ p = "links" => j.left = <<>>
    /\ j.at = "unapply" => p = "interconnects"
    /\ j.at \in {"claim", "drop"} /\ p = "interconnects" =>
        \A k \in 1 .. Len(j.left) :
            j.left[k] \in current["selection"] => claim[j.left[k]] \in {None, LI}
    /\ j.at = "report" /\ j.result = "Ready" => \A e \in Wanted(j.o) : claim[e] = j.o
    /\ j.at = "finish" /\ j.o \notin missed =>
        \A e \in Endpoints : claim[e] = j.o => view[p][e] = j.o

\* What a resource has and uses.
OwnerInv(o) ==
    /\ phase[o] = "new" => \A e \in Endpoints : claim[e] # o
    /\ phase[o] = "gone" /\ o \notin missed => \A e \in Endpoints : claim[e] # o
    /\ phase[o] # "gone" /\ o \notin queue /\ (pc[ProcOf(o)] # Idle => pc[ProcOf(o)].o # o) =>
        \A e \in Uses(o) : claim[e] = o

IInv ==
    /\ Types /\ CopyInv
    /\ \A p \in Procs : RunInv(p) /\ StageInv(p)
    /\ \A o \in Owners : OwnerInv(o)

----------------------------------------------------------------------------
(* Reconciles *)

\* What the type of a job says of its fields.
LEMMA JobFields ==
    ASSUME NEW j \in Jobs
    PROVE  /\ j.at = "idle" <=> j = Idle
           /\ j.at # "idle" => j.o \in Owners
           /\ j.at = "lease" => j \in LeaseJobs
           /\ j.at \in {"claim", "drop"} => j \in ClaimJobs
           /\ j.at = "report" => j \in ReportJobs
           /\ j.at \in {"idle", "lease", "select", "unapply", "undo", "finish", "claim", "drop",
                       "report"}
  BY DEF Jobs, Idle, LeaseJobs, PlainJobs, ClaimJobs, ReportJobs

\* The jobs that the steps build.
LEMMA JobTypes ==
    /\ Idle \in Jobs
    /\ \A o \in Owners, x \in {"select", "unapply", "undo", "finish"} : [at |-> x, o |-> o] \in Jobs
    /\ \A o \in Owners, r \in {"Ready", "Failed", "same"} :
         [at |-> "report", o |-> o, result |-> r] \in Jobs
    /\ \A o \in Owners, s \in Seq(Clusters) : [at |-> "lease", o |-> o, left |-> s] \in Jobs
    /\ \A o \in Owners, s \in Seq(Endpoints), t \in Seq(Endpoints), x \in {"claim", "drop"} :
         [at |-> x, o |-> o, left |-> s, all |-> t] \in Jobs
  BY DEF Jobs, Idle, LeaseJobs, PlainJobs, ClaimJobs, ReportJobs

\* The first of the endpoints that are left has been claimed.
LEMMA ClaimedTail ==
    ASSUME NEW s \in Seq(Endpoints), NEW t \in Seq(Endpoints), NEW o, NEW c, NEW d,
           s # <<>>, Claimed(s, t, o, c), d[Head(s)] = o,
           \A e \in Endpoints : c[e] = o => d[e] = o
    PROVE  Claimed(Tail(s), t, o, d)
  <1> DEFINE r == Tail(s)
             m == Len(s)
             n == Len(t)
  <1>1. m \in Nat \ {0} /\ n \in Nat /\ m <= n
    BY DEF Claimed
  <1>2. /\ Head(s) = s[1] /\ Len(r) = m - 1
        /\ \A k \in 1 .. m - 1 : r[k] = s[k + 1]
    OBVIOUS
  <1>3. \A k \in 1 .. m : s[k] = t[k + (n - m)]
    BY DEF Claimed
  <1>4. \A k \in 1 .. n - m : c[t[k]] = o /\ t[k] \in Endpoints
    BY <1>1 DEF Claimed
  <1> HIDE DEF r, m, n
  <1>5. \A k \in 1 .. m - 1 : r[k] = t[k + (n - (m - 1))]
    <2> TAKE k \in 1 .. m - 1
    <2>1. r[k] = s[k + 1] /\ k + 1 \in 1 .. m
      BY <1>1, <1>2
    <2>2. s[k + 1] = t[(k + 1) + (n - m)]
      BY <1>3, <2>1
    <2>3. (k + 1) + (n - m) = k + (n - (m - 1))
      BY <1>1
    <2> QED BY <2>1, <2>2, <2>3
  <1>6. \A k \in 1 .. n - (m - 1) : d[t[k]] = o
    <2> TAKE k \in 1 .. n - (m - 1)
    <2>1. CASE k \in 1 .. n - m
      BY <1>4, <2>1
    <2>2. CASE k = 1 + (n - m)
      <3>1. s[1] = t[k]
        BY <1>1, <1>3, <2>2
      <3> QED BY <1>2, <3>1
    <2> QED BY <1>1, <2>1, <2>2
  <1> QED BY <1>1, <1>2, <1>5, <1>6 DEF Claimed, r, m, n

LEMMA NextEndpoint ==
    ASSUME NEW j \in ClaimJobs, j.left # <<>>, NEW n, n = [j EXCEPT !.left = Tail(@)]
    PROVE  /\ n \in ClaimJobs /\ n.at = j.at /\ n.o = j.o /\ n.all = j.all /\ n.left = Tail(j.left)
           /\ Head(j.left) \in Endpoints
           /\ \A c, d : /\ Progress(j, c) /\ d[Head(j.left)] = j.o
                        /\ \A e \in Endpoints : c[e] = j.o => d[e] = j.o
                        => Progress(n, d)
  <1>1. /\ j.left \in Seq(Endpoints) /\ j.all \in Seq(Endpoints) /\ j.o \in Owners
        /\ j.at \in {"claim", "drop"}
    BY DEF ClaimJobs
  <1>2. Tail(j.left) \in Seq(Endpoints) /\ Head(j.left) \in Endpoints
    BY <1>1
  <1>3. n \in ClaimJobs /\ n.at = j.at /\ n.o = j.o /\ n.all = j.all /\ n.left = Tail(j.left)
    BY <1>1, <1>2 DEF ClaimJobs
  <1>4. ASSUME NEW c, NEW d, Progress(j, c), d[Head(j.left)] = j.o,
               \A e \in Endpoints : c[e] = j.o => d[e] = j.o
        PROVE  Progress(n, d)
    <2>1. Claimed(j.left, j.all, j.o, c)
      BY <1>4 DEF Progress
    <2>2. Claimed(Tail(j.left), j.all, j.o, d)
      BY <1>1, <1>4, <2>1, ClaimedTail
    <2> QED BY <1>3, <2>2 DEF Progress
  <1> QED BY <1>2, <1>3, <1>4

LEMMA RangeInEndpoints ==
    /\ \A s \in Seq(Endpoints) : Range(s) \subseteq Endpoints /\ Range(s) = {s[k] : k \in 1 .. Len(s)}
    /\ \A l \in Links : Req[l] \in Seq(Endpoints) /\ Len(Req[l]) = 2 /\ Range(Req[l]) \subseteq Endpoints
  <1>1. \A s \in Seq(Endpoints) : Range(s) \subseteq Endpoints /\ Range(s) = {s[k] : k \in 1 .. Len(s)}
    BY DEF Range
  <1>2. ASSUME NEW l \in Links PROVE Req[l] \in Seq(Endpoints) /\ Len(Req[l]) = 2
    <2>1. Req[l] \in Endpoints \X Endpoints
      BY ClaimsAssumption
    <2>2. PICK e \in Endpoints, f \in Endpoints : Req[l] = <<e, f>>
      BY <2>1
    <2> QED BY <2>2
  <1> QED BY <1>1, <1>2

LEMMA OwnerOfProc ==
    \A o \in Owners : /\ ProcOf(o) \in Procs /\ o # None /\ o # Missing
                      /\ (ProcOf(o) = "interconnects" <=> o = LI) /\ (ProcOf(o) = "links" <=> o \in Links)
  BY ClaimsAssumption DEF ProcOf, Procs, Owners

----------------------------------------------------------------------------
(* Updates and copies *)

\* The copies of an endpoint whose claim changes are old.
LEMMA UpdateLemma ==
    ASSUME Types, NEW e \in Endpoints, NEW x \in Owners \cup {None}, Update(e, x)
    PROVE  /\ claim' \in [Endpoints -> Owners \cup {None}] /\ claim'[e] = x
           /\ \A f \in Endpoints : f # e => claim'[f] = claim[f]
           /\ synced' \in [Procs -> SUBSET Endpoints] /\ current' \in [Copies -> SUBSET Endpoints]
           /\ \A p \in Procs : \A f \in synced'[p] : f \in synced[p] /\ claim'[f] = claim[f]
           /\ \A c \in Copies : \A f \in current'[c] : f \in current[c] /\ claim'[f] = claim[f]
           /\ queue \subseteq queue'
  BY DEF Types, Update

\* A reconcile touches only the claims and the state of its own resource.
LEMMA FrameLemma ==
    ASSUME IInv, Types', CopyInv', NEW p \in Procs, NEW o \in Owners, ProcOf(o) = p,
           pc[p] = Idle \/ pc[p].o = o,
           \A q \in Procs \ {p} : pc'[q] = pc[q] /\ view'[q] = view[q],
           \A e \in Endpoints : claim'[e] = claim[e] \/ {claim[e], claim'[e]} \subseteq {None, o},
           \A x \in Owners \ {o} : /\ phase'[x] = phase[x] /\ (x \in ready' <=> x \in ready)
                                   /\ (x \in queue => x \in queue') /\ (x \in missed => x \in missed'),
           p = "links" => /\ applied' = applied
                          /\ \A e \in current'["selection"] :
                               e \in current["selection"] /\ claim'[e] = claim[e],
           RunInv(p)', StageInv(p)', OwnerInv(o)'
    PROVE  IInv'
  <1>1. ASSUME NEW q \in Procs, q # p PROVE RunInv(q)' /\ StageInv(q)'
    <2>1. RunInv(q) /\ StageInv(q) /\ pc'[q] = pc[q] /\ view'[q] = view[q] /\ pc[q] \in Jobs
      BY <1>1 DEF IInv, Types
    <2>2. CASE pc[q].at = "idle"
      BY <2>1, <2>2 DEF RunInv, StageInv
    <2>3. CASE pc[q].at # "idle"
      <3>1. pc[q].o \in Owners /\ pc[q].o # o /\ pc[q].o # None /\ ProcOf(pc[q].o) = q
        BY <1>1, <2>1, <2>3, JobFields, OwnerOfProc DEF RunInv
      <3>2. RunInv(q)'
        BY <2>1, <3>1 DEF RunInv
      <3>3. \A e \in Endpoints : claim'[e] = pc[q].o <=> claim[e] = pc[q].o
        BY <3>1
      <3>4. pc[q].at \in {"claim", "drop"} => Progress(pc[q], claim')
        <4> SUFFICES ASSUME pc[q].at \in {"claim", "drop"} PROVE Progress(pc[q], claim')
          OBVIOUS
        <4>1. pc[q].all \in Seq(Endpoints) /\ pc[q].left \in Seq(Endpoints)
          BY <2>1, JobFields DEF ClaimJobs
        <4>2. Len(pc[q].all) \in Nat /\ Len(pc[q].left) \in Nat /\ Progress(pc[q], claim)
          BY <2>1, <4>1 DEF StageInv
        <4>3. \A k \in 1 .. Len(pc[q].all) - Len(pc[q].left) : pc[q].all[k] \in Endpoints
          BY <4>1, <4>2
        <4> QED BY <3>3, <4>2, <4>3 DEF Progress, Claimed
      <3>5. q = "interconnects" => p = "links" /\ pc[q].o = LI
        BY <1>1, <3>1, OwnerOfProc DEF Procs
      <3>6. q = "links" => Wanted(pc[q].o)' = Wanted(pc[q].o)
        BY <2>1, <3>1, OwnerOfProc, ClaimsAssumption DEF Wanted
      <3>7. q = "interconnects" => Wanted(pc[q].o)' = Wanted(pc[q].o)
        BY <2>1, <3>5 DEF Wanted
      <3>8. pc[q].at = "report" /\ pc[q].result = "Ready"
              => \A e \in Wanted(pc[q].o)' : claim'[e] = pc[q].o
        <4>1. q = "links" \/ q = "interconnects"
          BY DEF Procs
        <4>2. Wanted(pc[q].o) \subseteq Endpoints
          BY <3>1, RangeInEndpoints DEF IInv, Types, Wanted, Owners
        <4>3. Wanted(pc[q].o)' = Wanted(pc[q].o)
          BY <3>6, <3>7, <4>1
        <4> QED BY <2>1, <3>3, <4>2, <4>3 DEF StageInv
      <3> QED
        BY <2>1, <3>1, <3>2, <3>3, <3>4, <3>5, <3>8 DEF StageInv
    <2> QED BY <2>2, <2>3
  <1>2. ASSUME NEW x \in Owners, x # o PROVE OwnerInv(x)'
    <2>1. OwnerInv(x) /\ ProcOf(x) \in Procs /\ x # None
      BY OwnerOfProc DEF IInv
    <2>2. \A e \in Endpoints : claim'[e] = x <=> claim[e] = x
      BY <1>2, <2>1
    <2>3. Uses(x)' = Uses(x) /\ Uses(x) \subseteq Endpoints
      <3>1. x = LI => applied' = applied
        BY <1>2, OwnerOfProc DEF Procs
      <3> QED BY <1>2, <3>1, RangeInEndpoints DEF IInv, Types, Uses, Owners
    <2>4. (x \notin queue /\ (pc[ProcOf(x)] # Idle => pc[ProcOf(x)].o # x))'
            => x \notin queue /\ (pc[ProcOf(x)] # Idle => pc[ProcOf(x)].o # x)
      <3>1. CASE ProcOf(x) = p
        BY <1>2, <3>1
      <3>2. CASE ProcOf(x) # p
        BY <1>2, <2>1, <3>2
      <3> QED BY <3>1, <3>2
    <2> QED BY <1>2, <2>1, <2>2, <2>3, <2>4 DEF OwnerInv
  <1> QED BY <1>1, <1>2 DEF IInv

\* A reconcile that goes on.
LEMMA RunLemma ==
    ASSUME IInv, NEW p \in Procs, pc[p].at \notin {"idle", "report"},
           NEW j \in Jobs, j.at # "idle", j.o = pc[p].o, Goto(p, j),
           claim' \in [Endpoints -> Owners \cup {None}], applied' \subseteq Endpoints,
           synced' \in [Procs -> SUBSET Endpoints], current' \in [Copies -> SUBSET Endpoints],
           view' \in [Procs -> [Endpoints -> Copied]], CopyInv',
           UNCHANGED <<cache, phase, ready, missed>>, queue \subseteq queue',
           \A q \in Procs \ {p} : view'[q] = view[q],
           \A e \in Endpoints : claim'[e] = claim[e] \/ {claim[e], claim'[e]} \subseteq {None, j.o},
           p = "links" => /\ applied' = applied
                          /\ \A e \in current'["selection"] :
                               e \in current["selection"] /\ claim'[e] = claim[e],
           StageInv(p)'
    PROVE  IInv'
  <1>1. pc[p] \in Jobs /\ RunInv(p) /\ pc \in [Procs -> Jobs]
    BY DEF IInv, Types
  <1>2. j.o \in Owners /\ ProcOf(j.o) = p /\ phase[j.o] \in {"live", "deleting"}
    BY <1>1, JobFields DEF RunInv
  <1>3. pc' \in [Procs -> Jobs] /\ pc'[p] = j /\ \A q \in Procs \ {p} : pc'[q] = pc[q]
    BY <1>1 DEF Goto
  <1>4. Types'
    BY <1>3 DEF IInv, Types
  <1>5. RunInv(p)'
    BY <1>2, <1>3 DEF RunInv
  <1>6. OwnerInv(j.o)'
    <2>1. pc'[p] # Idle
      BY <1>3 DEF Idle
    <2> QED BY <1>2, <1>3, <2>1 DEF OwnerInv
  <1> QED BY <1>1, <1>2, <1>3, <1>4, <1>5, <1>6, FrameLemma

\* What a release needs: the copies of the cache.
LEMMA CopiesLemma ==
    ASSUME IInv, NEW p \in Procs, UNCHANGED <<claim, cache, synced>>,
           GetClaimed(p) \/ DropCopies(p) \/ UNCHANGED <<view, current>>
    PROVE  /\ view' \in [Procs -> [Endpoints -> Copied]] /\ current' \in [Copies -> SUBSET Endpoints]
           /\ CopyInv' /\ \A q \in Procs \ {p} : view'[q] = view[q]
           /\ p = "links" => current'["selection"] = current["selection"]
  <1>1. /\ view \in [Procs -> [Endpoints -> Copied]] /\ current \in [Copies -> SUBSET Endpoints]
        /\ synced \in [Procs -> SUBSET Endpoints] /\ cache \in [Procs -> [Endpoints -> Copied]]
        /\ CopyInv /\ Procs \subseteq Copies /\ "selection" \notin Procs /\ "selection" \in Copies
    BY DEF IInv, Types, Copies, Procs
  <1>2. CASE GetClaimed(p)
    <2>1. /\ view'[p] = cache[p] /\ current'[p] = synced[p]
          /\ \A q \in Procs \ {p} : view'[q] = view[q] /\ current'[q] = current[q]
      BY <1>1, <1>2 DEF GetClaimed
    <2> QED BY <1>1, <1>2, <2>1 DEF GetClaimed, CopyInv
  <1>3. CASE DropCopies(p)
    <2>1. NoCopy \in [Endpoints -> Copied]
      BY DEF NoCopy, Copied
    <2>2. /\ current'[p] = {} /\ \A q \in Procs \ {p} : view'[q] = view[q] /\ current'[q] = current[q]
      BY <1>1, <1>3 DEF DropCopies
    <2> QED BY <1>1, <1>3, <2>1, <2>2 DEF DropCopies, CopyInv
  <1> QED BY <1>1, <1>2, <1>3 DEF CopyInv

\* The reconcile fails or is undone: its claims are as they were.
LEMMA AbortLemma ==
    ASSUME IInv, NEW p \in Procs, pc[p].at \notin {"idle", "report"}, Abort(p),
           UNCHANGED <<claim, synced, queue, cache, phase, ready, missed>>,
           applied' \subseteq Endpoints, p = "links" => applied' = applied
    PROVE  IInv'
  <1> DEFINE j == [at |-> IF p = "links" THEN "undo" ELSE "unapply", o |-> pc[p].o]
  <1>1. pc[p].o \in Owners /\ pc \in [Procs -> Jobs]
    BY JobFields DEF IInv, Types
  <1>2. /\ j \in Jobs /\ j.at \in {"undo", "unapply"} /\ j.o = pc[p].o /\ Goto(p, j)
        /\ j.at = "unapply" => p = "interconnects"
    BY <1>1, JobTypes DEF Abort, Procs
  <1> HIDE DEF j
  <1>3. GetClaimed(p) \/ UNCHANGED <<view, current>>
    BY DEF Abort
  <1>4. /\ view' \in [Procs -> [Endpoints -> Copied]] /\ current' \in [Copies -> SUBSET Endpoints]
        /\ CopyInv' /\ \A q \in Procs \ {p} : view'[q] = view[q]
        /\ p = "links" => current'["selection"] = current["selection"]
    BY <1>3, CopiesLemma
  <1>6. StageInv(p)'
    <2>1. pc'[p] = j
      BY <1>1, <1>2 DEF Goto
    <2> QED BY <1>2, <2>1 DEF StageInv
  <1>7. claim' \in [Endpoints -> Owners \cup {None}] /\ synced' \in [Procs -> SUBSET Endpoints]
    BY DEF IInv, Types
  <1> QED BY <1>2, <1>4, <1>6, <1>7, RunLemma

\* The reconcile ends with an error.
LEMMA ReportLemma ==
    ASSUME IInv, NEW p \in Procs, pc[p].at \notin {"idle", "report"}, NEW r \in {"Ready", "Failed", "same"},
           r = "Ready" => \A e \in Wanted(pc[p].o)' : claim[e] = pc[p].o,
           Report(p, pc[p].o, r), DropCopies(p) \/ UNCHANGED <<view, current>>,
           UNCHANGED <<claim, synced, queue, cache, phase, ready, missed>>,
           applied' \subseteq Endpoints, p = "links" => applied' = applied
    PROVE  IInv'
  <1> DEFINE j == [at |-> "report", o |-> pc[p].o, result |-> r]
  <1>1. pc[p].o \in Owners /\ pc \in [Procs -> Jobs]
    BY JobFields DEF IInv, Types
  <1>2. j \in Jobs /\ j.at = "report" /\ j.o = pc[p].o /\ j.result = r /\ Goto(p, j)
    BY <1>1, JobTypes DEF Report
  <1> HIDE DEF j
  <1>3. /\ view' \in [Procs -> [Endpoints -> Copied]] /\ current' \in [Copies -> SUBSET Endpoints]
        /\ CopyInv' /\ \A q \in Procs \ {p} : view'[q] = view[q]
        /\ p = "links" => current'["selection"] = current["selection"]
    BY CopiesLemma
  <1>4. StageInv(p)'
    <2>1. pc'[p] = j
      BY <1>1, <1>2 DEF Goto
    <2> QED BY <1>2, <2>1 DEF StageInv, Wanted
  <1>5. claim' \in [Endpoints -> Owners \cup {None}] /\ synced' \in [Procs -> SUBSET Endpoints]
    BY DEF IInv, Types
  <1> QED BY <1>2, <1>3, <1>4, <1>5, RunLemma

----------------------------------------------------------------------------
(* The steps of a reconcile *)

\* A claim is released from a current copy, which shows it.
LEMMA ReleaseStep ==
    ASSUME IInv, NEW p \in Procs, NEW e \in Endpoints, Release(p, e)
    PROVE  IInv' /\ (claim'[e] # claim[e] => claim'[e] = None /\ claim[e] = pc[p].o)
                 /\ \A f \in Endpoints : f # e => claim'[f] = claim[f]
  <1> DEFINE j == pc[p]
  <1>1. /\ j \in Jobs /\ j.at \in {"undo", "finish", "drop"} /\ view[p][e] = j.o
        /\ Types /\ CopyInv /\ StageInv(p) /\ pc \in [Procs -> Jobs]
        /\ UNCHANGED <<cache, phase, ready, applied, missed>> /\ applied' \subseteq Endpoints
    BY DEF IInv, Types, Release, ownVars
  <1>2. j.o \in Owners /\ j.o # None
    BY <1>1, JobFields, OwnerOfProc
  <1>3. CASE /\ ~Conflicts(e, current[p]) /\ Update(e, NilRef)
             /\ view' = [view EXCEPT ![p][e] = None] /\ UNCHANGED pc
    <2>1. e \in current[p] /\ claim[e] = j.o
      BY <1>1, <1>3 DEF Conflicts, CopyInv
    <2>2. /\ claim' \in [Endpoints -> Owners \cup {None}] /\ claim'[e] = None
          /\ \A f \in Endpoints : f # e => claim'[f] = claim[f]
          /\ synced' \in [Procs -> SUBSET Endpoints] /\ current' \in [Copies -> SUBSET Endpoints]
          /\ \A q \in Procs : \A f \in synced'[q] : f \in synced[q] /\ claim'[f] = claim[f]
          /\ \A c \in Copies : \A f \in current'[c] : f \in current[c] /\ claim'[f] = claim[f]
          /\ queue \subseteq queue'
      BY <1>1, <1>3, UpdateLemma DEF NilRef
    <2>3. /\ view' \in [Procs -> [Endpoints -> Copied]] /\ \A q \in Procs \ {p} : view'[q] = view[q]
          /\ \A f \in Endpoints : f # e => view'[p][f] = view[p][f]
      BY <1>1, <1>3 DEF Types, Copied
    <2>4. \A q \in Procs : \A f \in current'[q] : f # e /\ f \in Endpoints /\ f \in current[q]
      BY <1>2, <2>1, <2>2 DEF Copies
    <2>5. CopyInv'
      BY <1>1, <2>2, <2>3, <2>4 DEF CopyInv, Copies, Procs
    <2>6. StageInv(p)'
      <3>1. pc'[p] = j
        BY <1>3
      <3>2. CASE j.at = "finish"
        BY <1>1, <1>2, <2>2, <2>3, <3>1, <3>2 DEF StageInv
      <3>3. CASE j.at = "undo"
        BY <3>1, <3>3 DEF StageInv
      <3>4. CASE j.at = "drop"
        <4>1. /\ j.all \in Seq(Endpoints) /\ j.left \in Seq(Endpoints) /\ Progress(j, claim)
              /\ e \notin Range(j.all)
          BY <1>1, <3>4, JobFields DEF ClaimJobs, StageInv, Release
        <4>2. \A k \in 1 .. Len(j.all) : j.all[k] \in Endpoints /\ j.all[k] # e
          BY <4>1, RangeInEndpoints
        <4>3. Len(j.all) \in Nat /\ Len(j.left) \in Nat
          BY <4>1
        <4>4. Progress(j, claim')
          <5>1. \A k \in 1 .. Len(j.all) - Len(j.left) : claim'[j.all[k]] = claim[j.all[k]]
            <6> TAKE k \in 1 .. Len(j.all) - Len(j.left)
            <6>1. k \in 1 .. Len(j.all)
              BY <4>3
            <6>2. j.all[k] \in Endpoints /\ j.all[k] # e
              BY <4>2, <6>1
            <6> QED BY <2>2, <6>2
          <5> QED BY <4>1, <5>1 DEF Progress, Claimed
        <4>5. p = "interconnects" => \A k \in 1 .. Len(j.left) :
                 j.left[k] \in current'["selection"] => claim'[j.left[k]] \in {None, LI}
          BY <1>1, <2>2, <3>4 DEF StageInv, Copies
        <4> QED BY <1>1, <3>1, <3>4, <4>4, <4>5 DEF StageInv
      <3> QED BY <1>1, <3>2, <3>3, <3>4
    <2>7. Goto(p, j)
      BY <1>1, <1>3 DEF Goto
    <2>8. p = "links" => \A f \in current'["selection"] : f \in current["selection"] /\ claim'[f] = claim[f]
      BY <2>2 DEF Copies
    <2>9. applied' = applied /\ applied' \subseteq Endpoints
      BY <1>1, <1>3 DEF Types
    <2>10. \A f \in Endpoints : claim'[f] = claim[f] \/ {claim[f], claim'[f]} \subseteq {None, j.o}
      BY <2>1, <2>2
    <2>11. IInv'
      BY <1>1, <2>2, <2>3, <2>5, <2>6, <2>7, <2>8, <2>9, <2>10, RunLemma
    <2> QED BY <2>1, <2>2, <2>11
  <1>4. CASE Abort(p) /\ UNCHANGED <<claim, synced, queue>>
    BY <1>1, <1>4, AbortLemma
  <1>5. CASE ReleaseFails(p) /\ UNCHANGED <<claim, synced, queue, view, current>>
    <2>1. applied' \subseteq Endpoints
      BY <1>1, <1>5 DEF Types
    <2>2. PICK r \in {"Failed", "same"} : Report(p, pc[p].o, r)
      BY <1>5 DEF ReleaseFails
    <2> QED BY <1>1, <1>5, <2>1, <2>2, ReportLemma
  <1> QED BY <1>3, <1>4, <1>5 DEF Release

\* The lease of the next cluster is taken, or the reconcile fails.
LEMMA LeaseStep ==
    ASSUME IInv, NEW p \in Procs, AcquireLease(p)
    PROVE  IInv'
  <1> DEFINE j == pc[p]
  <1>1. /\ j \in LeaseJobs /\ Types /\ pc \in [Procs -> Jobs] /\ j.at = "lease" /\ RunInv(p)
        /\ UNCHANGED <<claim, synced, current, queue, cache, view, phase, ready, applied, missed>>
    BY JobFields DEF IInv, Types, AcquireLease, apiVars, ownVars
  <1>2. j.o \in Owners /\ j.left \in Seq(Clusters) /\ ProcOf(j.o) = p
    BY <1>1 DEF LeaseJobs, RunInv
  <1>3. CASE Report(p, j.o, "Failed")
    BY <1>1, <1>3, ReportLemma DEF Types
  <1>4. ASSUME NEW n \in Jobs, n.at # "idle", n.o = j.o, Goto(p, n),
               n.at = "claim" => /\ n.left = Req[j.o] /\ n.all = Req[j.o] /\ j.o \in Links
                                 /\ p = "links",
               n.at \notin {"drop", "report", "finish", "unapply"}
        PROVE  IInv'
    <2>1. pc'[p] = n
      BY <1>1, <1>4 DEF Goto
    <2>2. n.at = "claim" => Progress(n, claim')
      <3> SUFFICES ASSUME n.at = "claim" PROVE Progress(n, claim')
        OBVIOUS
      <3>1. n.left = Req[j.o] /\ n.all = Req[j.o] /\ Len(Req[j.o]) = 2
        BY <1>4, RangeInEndpoints
      <3> QED BY <3>1 DEF Progress, Claimed
    <2>3. StageInv(p)'
      BY <1>4, <2>1, <2>2 DEF StageInv
    <2>4. /\ view' \in [Procs -> [Endpoints -> Copied]] /\ current' \in [Copies -> SUBSET Endpoints]
          /\ CopyInv' /\ \A q \in Procs \ {p} : view'[q] = view[q]
      BY <1>1, CopiesLemma
    <2>5. /\ claim' \in [Endpoints -> Owners \cup {None}] /\ synced' \in [Procs -> SUBSET Endpoints]
          /\ applied' \subseteq Endpoints
      BY <1>1 DEF Types
    <2> QED BY <1>1, <1>4, <2>3, <2>4, <2>5, RunLemma
  <1>5. CASE Len(j.left) > 1 /\ Goto(p, [j EXCEPT !.left = Tail(@)])
    <2> DEFINE n == [j EXCEPT !.left = Tail(@)]
    <2>1. Tail(j.left) \in Seq(Clusters)
      BY <1>2, <1>5
    <2>2. n \in LeaseJobs /\ n.o = j.o /\ n.at = "lease"
      BY <1>1, <2>1 DEF LeaseJobs
    <2> HIDE DEF n
    <2>3. n \in Jobs
      BY <2>2 DEF Jobs
    <2> QED BY <1>4, <1>5, <2>2, <2>3 DEF n
  <1>6. CASE Goto(p, [at |-> "select", o |-> j.o])
    <2>1. [at |-> "select", o |-> j.o] \in Jobs
      BY <1>2, JobTypes
    <2> QED BY <1>4, <1>6, <2>1
  <1>7. CASE j.o # LI /\ Goto(p, [at |-> "claim", o |-> j.o, left |-> Req[j.o], all |-> Req[j.o]])
    <2> DEFINE n == [at |-> "claim", o |-> j.o, left |-> Req[j.o], all |-> Req[j.o]]
    <2>1. j.o \in Links /\ Req[j.o] \in Seq(Endpoints) /\ p = "links"
      BY <1>2, <1>7, RangeInEndpoints, OwnerOfProc DEF Owners
    <2>2. n \in Jobs /\ n.at = "claim" /\ n.o = j.o /\ n.left = Req[j.o] /\ n.all = Req[j.o]
      BY <1>2, <2>1, JobTypes
    <2> HIDE DEF n
    <2> QED BY <1>4, <1>7, <2>1, <2>2 DEF n
  <1> QED BY <1>3, <1>5, <1>6, <1>7 DEF AcquireLease

\* An endpoint that is free or the resource's own is claimed.
LEMMA ClaimLemma ==
    ASSUME IInv, NEW p \in Procs, pc[p].at \in {"claim", "drop"}, pc[p].left # <<>>,
           claim[Head(pc[p].left)] \in {None, pc[p].o}, Update(Head(pc[p].left), pc[p].o),
           Goto(p, [pc[p] EXCEPT !.left = Tail(@)]),
           UNCHANGED <<cache, view, phase, ready, missed, applied>>
    PROVE  IInv' /\ \A e \in Endpoints : claim'[e] = claim[e] \/ claim[e] = None
  <1> DEFINE j == pc[p]
             e == Head(j.left)
             n == [j EXCEPT !.left = Tail(@)]
  <1>1. j \in ClaimJobs /\ Types /\ CopyInv /\ StageInv(p) /\ pc \in [Procs -> Jobs]
    BY JobFields DEF IInv, Types
  <1>2. j.o \in Owners /\ j.left \in Seq(Endpoints)
    BY <1>1 DEF ClaimJobs
  <1>3. /\ n \in ClaimJobs /\ n.at = j.at /\ n.o = j.o /\ n.all = j.all /\ n.left = Tail(j.left)
        /\ e \in Endpoints
        /\ \A c, d : /\ Progress(j, c) /\ d[e] = j.o
                     /\ \A f \in Endpoints : c[f] = j.o => d[f] = j.o
                     => Progress(n, d)
    BY <1>1, NextEndpoint
  <1>4. /\ claim' \in [Endpoints -> Owners \cup {None}] /\ claim'[e] = j.o
        /\ \A f \in Endpoints : f # e => claim'[f] = claim[f]
        /\ synced' \in [Procs -> SUBSET Endpoints] /\ current' \in [Copies -> SUBSET Endpoints]
        /\ \A q \in Procs : \A f \in synced'[q] : f \in synced[q] /\ claim'[f] = claim[f]
        /\ \A c \in Copies : \A f \in current'[c] : f \in current[c] /\ claim'[f] = claim[f]
        /\ queue \subseteq queue'
    BY <1>1, <1>2, <1>3, UpdateLemma
  <1>5. Goto(p, n) /\ claim[e] \in {None, j.o}
    OBVIOUS
  <1> HIDE DEF n, e
  <1>6. pc'[p] = n /\ n \in Jobs
    BY <1>1, <1>3, <1>5 DEF Goto, Jobs
  <1>7. CopyInv'
    BY <1>1, <1>4 DEF CopyInv, Copies, Procs
  <1>8. StageInv(p)'
    <2>1. Progress(n, claim')
      BY <1>1, <1>3, <1>4 DEF StageInv
    <2>2. p = "links" => n.at = "claim" /\ n.all = Req[n.o]
      BY <1>1, <1>3 DEF StageInv
    <2>3. ASSUME p = "interconnects", NEW k \in 1 .. Len(n.left), n.left[k] \in current'["selection"]
          PROVE  claim'[n.left[k]] \in {None, LI}
      <3>1. k + 1 \in 1 .. Len(j.left) /\ n.left[k] = j.left[k + 1]
        BY <1>2, <1>3
      <3>2. n.left[k] \in current["selection"] /\ claim'[n.left[k]] = claim[n.left[k]]
        BY <1>4, <2>3 DEF Copies
      <3> QED BY <1>1, <2>3, <3>1, <3>2 DEF StageInv
    <2> QED BY <1>3, <1>6, <2>1, <2>2, <2>3 DEF StageInv
  <1>9. \A f \in Endpoints : claim'[f] = claim[f] \/ {claim[f], claim'[f]} \subseteq {None, n.o}
    BY <1>3, <1>4, <1>5
  <1>10. p = "links" => \A f \in current'["selection"] : f \in current["selection"] /\ claim'[f] = claim[f]
    BY <1>4 DEF Copies
  <1>11. view' \in [Procs -> [Endpoints -> Copied]] /\ applied' \subseteq Endpoints
    BY <1>1 DEF Types
  <1>12. IInv'
    BY <1>3, <1>4, <1>5, <1>6, <1>7, <1>8, <1>9, <1>10, <1>11, RunLemma
  <1> QED BY <1>4, <1>5, <1>12

\* The loops of Claim: the copy of the cache is current and shows no other owner.
LEMMA ClaimOneStep ==
    ASSUME IInv, ClaimOne
    PROVE  IInv' /\ \A e \in Endpoints : claim'[e] = claim[e] \/ claim[e] = None
  <1> DEFINE p == "links"
             o == pc[p].o
             e == Head(pc[p].left)
  <1>1. p \in Procs /\ pc[p].at = "claim" /\ pc[p].left # <<>> /\ CopyInv
    BY DEF Procs, ClaimOne, IInv
  <1>2. CASE /\ Fits(e, o) /\ Update(e, o) /\ Goto(p, [pc[p] EXCEPT !.left = Tail(@)])
             /\ UNCHANGED view
    <2>1. claim[e] \in {None, o}
      BY <1>1, <1>2 DEF Fits, GetEndpoint, Conflicts, CopyInv
    <2>2. UNCHANGED <<cache, view, phase, ready, missed, applied>>
      BY <1>2 DEF ClaimOne, ownVars
    <2> QED BY <1>1, <1>2, <2>1, <2>2, ClaimLemma
  <1>3. CASE Abort(p) /\ UNCHANGED <<claim, synced, queue>>
    BY <1>1, <1>3, AbortLemma DEF ClaimOne, ownVars, IInv, Types
  <1> QED BY <1>2, <1>3 DEF ClaimOne

\* The interconnect claims what it selected, unless the endpoint has changed since.
LEMMA ClaimSelectedStep ==
    ASSUME IInv, ClaimSelected
    PROVE  IInv' /\ \A e \in Endpoints : claim'[e] = claim[e] \/ claim[e] = None
  <1> DEFINE p == "interconnects"
             e == Head(pc[p].left)
  <1>1. /\ p \in Procs /\ pc[p].at = "drop" /\ pc[p].left # <<>> /\ StageInv(p) /\ RunInv(p)
        /\ pc[p] \in Jobs
    BY DEF Procs, ClaimSelected, IInv, Types
  <1>2. pc[p].o = LI /\ pc[p].left \in Seq(Endpoints)
    BY <1>1, JobFields, OwnerOfProc DEF RunInv, ClaimJobs
  <1>3. CASE /\ ~Conflicts(e, current["selection"]) /\ Update(e, LI)
             /\ Goto(p, [pc[p] EXCEPT !.left = Tail(@)]) /\ UNCHANGED view
    <2>1. e = pc[p].left[1] /\ 1 \in 1 .. Len(pc[p].left)
      BY <1>1, <1>2
    <2>2. claim[e] \in {None, LI}
      BY <1>1, <1>3, <2>1 DEF StageInv, Conflicts
    <2>3. UNCHANGED <<cache, view, phase, ready, missed, applied>>
      BY <1>3 DEF ClaimSelected, ownVars
    <2> QED BY <1>1, <1>2, <1>3, <2>2, <2>3, ClaimLemma
  <1>4. CASE Abort(p) /\ UNCHANGED <<claim, synced, queue>>
    BY <1>1, <1>4, AbortLemma DEF ClaimSelected, ownVars, IInv, Types
  <1> QED BY <1>3, <1>4 DEF ClaimSelected

\* Claims that are not needed any more are looked for after the claims are made.
LEMMA ClaimsDoneStep ==
    ASSUME IInv, ClaimsDone
    PROVE  IInv'
  <1> DEFINE p == "links"
             j == pc[p]
             n == [j EXCEPT !.at = "drop"]
  <1>1. /\ p \in Procs /\ j \in ClaimJobs /\ j.at = "claim" /\ j.left = <<>> /\ StageInv(p) /\ Types
        /\ pc \in [Procs -> Jobs]
    BY JobFields DEF Procs, ClaimsDone, IInv, Types
  <1>2. n \in ClaimJobs /\ n.at = "drop" /\ n.o = j.o /\ n.left = j.left /\ n.all = j.all
    BY <1>1 DEF ClaimJobs
  <1>3. /\ Goto(p, n) /\ GetClaimed(p)
        /\ UNCHANGED <<claim, cache, synced, queue, phase, ready, applied, missed>>
    BY DEF ClaimsDone, ownVars
  <1> HIDE DEF n
  <1>4. pc'[p] = n /\ n \in Jobs
    BY <1>1, <1>2, <1>3 DEF Goto, Jobs
  <1>5. StageInv(p)'
    BY <1>1, <1>2, <1>3, <1>4 DEF StageInv, Progress
  <1>6. /\ view' \in [Procs -> [Endpoints -> Copied]] /\ current' \in [Copies -> SUBSET Endpoints]
        /\ CopyInv' /\ \A q \in Procs \ {p} : view'[q] = view[q]
        /\ p = "links" => current'["selection"] = current["selection"]
    BY <1>1, <1>3, CopiesLemma
  <1>7. /\ claim' \in [Endpoints -> Owners \cup {None}] /\ synced' \in [Procs -> SUBSET Endpoints]
        /\ applied' \subseteq Endpoints
    BY <1>1, <1>3 DEF Types
  <1> QED BY <1>1, <1>2, <1>3, <1>4, <1>5, <1>6, <1>7, RunLemma

\* Both endpoints of a Link are claimed when it becomes Ready.
LEMMA LinkReadyStep ==
    ASSUME IInv, LinkReady
    PROVE  IInv'
  <1> DEFINE p == "links"
             j == pc[p]
  <1>1. /\ p \in Procs /\ j \in ClaimJobs /\ j.at = "drop" /\ StageInv(p) /\ RunInv(p) /\ Types
        /\ pc \in [Procs -> Jobs]
    BY JobFields DEF Procs, LinkReady, IInv, Types
  <1>2. /\ Report(p, j.o, "Ready")
        /\ UNCHANGED <<claim, synced, current, queue, cache, view, phase, ready, applied, missed>>
    BY DEF LinkReady, apiVars, ownVars
  <1>3. j.o \in Links /\ j.left = <<>> /\ j.all = Req[j.o]
    BY <1>1, OwnerOfProc DEF StageInv, RunInv, ClaimJobs
  <1>4. Req[j.o] \in Seq(Endpoints) /\ Len(Req[j.o]) = 2
    BY <1>3, RangeInEndpoints
  <1>5. \A k \in 1 .. 2 : claim[Req[j.o][k]] = j.o
    BY <1>1, <1>3, <1>4 DEF StageInv, Progress, Claimed
  <1>6. \A e \in Range(Req[j.o]) : claim[e] = j.o
    BY <1>4, <1>5, RangeInEndpoints
  <1>7. pc'[p].o = j.o
    BY <1>1, <1>2 DEF Report, Goto
  <1>8. \A e \in Wanted(j.o)' : claim[e] = j.o
    BY <1>3, <1>6, <1>7, OwnerOfProc, ClaimsAssumption DEF Wanted
  <1>9. applied' \subseteq Endpoints
    BY <1>1, <1>2 DEF Types
  <1> QED BY <1>1, <1>2, <1>8, <1>9, ReportLemma

\* The Links of the interconnect are on endpoints it has claimed.
LEMMA ApplyStep ==
    ASSUME IInv, APIApply
    PROVE  IInv'
  <1> DEFINE p == "interconnects"
             j == pc[p]
  <1>1. /\ p \in Procs /\ j \in ClaimJobs /\ j.at = "drop" /\ StageInv(p) /\ RunInv(p) /\ Types
        /\ pc \in [Procs -> Jobs] /\ j.left = <<>>
        /\ UNCHANGED <<claim, cache, synced, queue, phase, ready, missed>>
    BY JobFields DEF Procs, APIApply, IInv, Types
  <1>2. CASE applied' = Range(j.all) /\ Report(p, LI, "Ready") /\ UNCHANGED <<view, current>>
    <2>1. j.o = LI /\ j.all \in Seq(Endpoints) /\ Len(j.all) \in Nat
      BY <1>1, OwnerOfProc DEF RunInv, ClaimJobs
    <2>2. \A k \in 1 .. Len(j.all) : claim[j.all[k]] = LI
      BY <1>1, <2>1 DEF StageInv, Progress, Claimed
    <2>3. applied' \subseteq Endpoints /\ \A e \in applied' : claim[e] = LI
      BY <1>2, <2>1, <2>2, RangeInEndpoints
    <2>4. pc'[p].o = LI
      BY <1>1, <1>2 DEF Report, Goto
    <2>5. \A e \in Wanted(j.o)' : claim[e] = j.o
      BY <2>1, <2>3, <2>4 DEF Wanted
    <2> QED BY <1>1, <1>2, <2>1, <2>3, <2>5, ReportLemma
  <1>3. CASE Abort(p) /\ applied' \in SUBSET (applied \cup Range(j.all))
    <2>1. applied' \subseteq Endpoints
      BY <1>1, <1>3, RangeInEndpoints DEF Types, ClaimJobs
    <2> QED BY <1>1, <1>3, <2>1, AbortLemma
  <1> QED BY <1>2, <1>3 DEF APIApply

\* The Links of an interconnect whose reconcile failed go.
LEMMA DeleteStep ==
    ASSUME IInv, NEW p \in Procs, APIDelete(p)
    PROVE  IInv'
  <1> DEFINE j == [at |-> "undo", o |-> pc[p].o]
  <1>1. /\ pc[p].at = "unapply" /\ Types /\ pc \in [Procs -> Jobs] /\ RunInv(p)
        /\ UNCHANGED <<claim, synced, current, queue, cache, view, phase, ready, missed>>
        /\ applied' \subseteq applied /\ applied' \subseteq Endpoints
    BY DEF APIDelete, apiVars, IInv, Types
  <1>2. p = "interconnects" /\ pc[p].o \in Owners
    BY <1>1, JobFields DEF IInv, StageInv, Procs
  <1>3. CASE Goto(p, j)
    <2>1. j \in Jobs /\ j.at = "undo" /\ j.o = pc[p].o
      BY <1>2, JobTypes
    <2> HIDE DEF j
    <2>2. pc'[p] = j
      BY <1>1, <1>3 DEF Goto
    <2>3. StageInv(p)'
      BY <2>1, <2>2 DEF StageInv
    <2>4. /\ view' \in [Procs -> [Endpoints -> Copied]] /\ current' \in [Copies -> SUBSET Endpoints]
          /\ CopyInv' /\ \A q \in Procs \ {p} : view'[q] = view[q]
      BY <1>1, CopiesLemma
    <2>5. claim' \in [Endpoints -> Owners \cup {None}] /\ synced' \in [Procs -> SUBSET Endpoints]
      BY <1>1 DEF Types
    <2> QED BY <1>1, <1>2, <1>3, <2>1, <2>3, <2>4, <2>5, RunLemma
  <1>4. CASE Report(p, pc[p].o, "same")
    BY <1>1, <1>2, <1>4, ReportLemma
  <1> QED BY <1>3, <1>4 DEF APIDelete

\* The selected endpoints are free or the interconnect's own, as the cache has them.
LEMMA SelectStep ==
    ASSUME IInv, Select
    PROVE  IInv'
  <1> DEFINE p == "interconnects"
  <1>1. /\ p \in Procs /\ pc[p].at = "select" /\ RunInv(p) /\ Types /\ CopyInv /\ pc \in [Procs -> Jobs]
        /\ UNCHANGED <<claim, cache, synced, queue, phase, ready, applied, missed>>
        /\ applied' \subseteq Endpoints
    BY DEF Procs, Select, IInv, Types, ownVars
  <1>2. PICK s \in Selections :
           /\ s.status = Inventory
           /\ \/ /\ s.result.ok
                 /\ Goto(p, [at |-> "drop", o |-> LI, left |-> s.result.picked, all |-> s.result.picked])
                 /\ current' = [current EXCEPT !["selection"] = synced[p]]
                 /\ UNCHANGED view
              \/ Abort(p)
    BY DEF Select
  <1>3. CASE Abort(p)
    BY <1>1, <1>3, AbortLemma
  <1>4. CASE /\ s.result.ok
             /\ Goto(p, [at |-> "drop", o |-> LI, left |-> s.result.picked, all |-> s.result.picked])
             /\ current' = [current EXCEPT !["selection"] = synced[p]]
             /\ UNCHANGED view
    <2> DEFINE t == s.result.picked
               n == [at |-> "drop", o |-> LI, left |-> t, all |-> t]
    <2>1. t \in Seq(Known(p)) /\ Known(p) \subseteq Endpoints /\ \A k \in DOMAIN t : Inventory[t[k]] # "taken"
      BY <1>2, <1>4, SelectionAssumption
    <2>2. /\ t \in Seq(Endpoints) /\ DOMAIN t = 1 .. Len(t) /\ Len(t) \in Nat
          /\ \A k \in 1 .. Len(t) : t[k] \in Known(p)
      BY <2>1
    <2> HIDE DEF t
    <2>3. ASSUME NEW k \in 1 .. Len(t), t[k] \in synced[p] PROVE claim[t[k]] \in {None, LI}
      <3>1. t[k] \in Known(p) /\ Inventory[t[k]] # "taken"
        BY <2>1, <2>2
      <3>2. cache[p][t[k]] \in {None, LI}
        BY <3>1 DEF Inventory
      <3> QED BY <1>1, <2>3, <3>2 DEF CopyInv
    <2>4. LI \in Owners /\ pc[p].o = LI
      BY <1>1, JobFields, OwnerOfProc DEF Owners, RunInv
    <2>5. n \in Jobs /\ n.at = "drop" /\ n.o = LI /\ n.left = t /\ n.all = t
      BY <2>2, <2>4, JobTypes
    <2>6. Goto(p, n)
      BY <1>4 DEF t
    <2> HIDE DEF n
    <2>7. pc'[p] = n
      BY <1>1, <2>6 DEF Goto
    <2>8. /\ current' \in [Copies -> SUBSET Endpoints] /\ current'["selection"] = synced[p]
          /\ \A q \in Procs : current'[q] = current[q]
      BY <1>1, <1>4 DEF Types, Copies, Procs
    <2>9. CopyInv'
      BY <1>1, <1>4, <2>8 DEF CopyInv
    <2>10. StageInv(p)'
      <3>1. Progress(n, claim')
        BY <2>2, <2>5 DEF Progress, Claimed
      <3> QED BY <1>1, <2>3, <2>5, <2>7, <2>8, <3>1 DEF StageInv
    <2>11. /\ claim' \in [Endpoints -> Owners \cup {None}] /\ synced' \in [Procs -> SUBSET Endpoints]
           /\ view' \in [Procs -> [Endpoints -> Copied]] /\ applied' \subseteq Endpoints
           /\ \A q \in Procs : view'[q] = view[q]
      BY <1>1, <1>4 DEF Types
    <2> QED BY <1>1, <2>4, <2>5, <2>6, <2>8, <2>9, <2>10, <2>11, RunLemma
  <1> QED BY <1>2, <1>3, <1>4

----------------------------------------------------------------------------
(* The begin and the end of a reconcile *)

\* The claims are gone: the failure is reported, or the resource goes.
LEMMA ReleaseDoneStep ==
    ASSUME IInv, NEW p \in Procs, ReleaseDone(p)
    PROVE  IInv'
  <1> DEFINE j == pc[p]
  <1>0. PICK o \in Owners : pc[p].o = o
    BY JobFields DEF ReleaseDone, IInv, Types
  <1>1. /\ j \in Jobs /\ j.at \in {"undo", "finish"} /\ Released(p) /\ DropCopies(p) /\ Types
        /\ RunInv(p) /\ StageInv(p) /\ OwnerInv(o) /\ j.o = o /\ ProcOf(o) = p
        /\ UNCHANGED <<claim, synced, queue, cache, applied, missed>>
    BY <1>0, JobFields DEF ReleaseDone, IInv, Types, RunInv
  <1>2. CASE Report(p, o, "Failed") /\ UNCHANGED <<phase, ready>>
    BY <1>1, <1>2, ReportLemma DEF Types
  <1>3. CASE /\ j.at = "finish" /\ Goto(p, Idle) /\ phase' = [phase EXCEPT ![o] = "gone"]
             /\ ready' = ready \ {o}
    <2>1. /\ view' \in [Procs -> [Endpoints -> Copied]] /\ current' \in [Copies -> SUBSET Endpoints]
          /\ CopyInv' /\ \A q \in Procs \ {p} : view'[q] = view[q]
          /\ p = "links" => current'["selection"] = current["selection"]
      BY <1>1, CopiesLemma
    <2>2. pc'[p] = Idle /\ pc' \in [Procs -> Jobs] /\ \A q \in Procs \ {p} : pc'[q] = pc[q]
      BY <1>1, <1>3, JobTypes DEF Goto, Types
    <2>3. phase'[o] = "gone" /\ \A x \in Owners \ {o} : phase'[x] = phase[x]
      BY <1>1, <1>3 DEF Types
    <2>4. Types'
      BY <1>1, <1>3, <2>1, <2>2 DEF Types
    <2>5. RunInv(p)' /\ StageInv(p)'
      BY <2>2 DEF RunInv, StageInv, Idle
    <2>6. o \notin missed => \A e \in Endpoints : claim[e] # o
      BY <1>1, <1>3 DEF StageInv, Released
    <2>7. OwnerInv(o)'
      BY <1>1, <2>3, <2>6 DEF OwnerInv
    <2> QED BY <1>1, <1>3, <2>1, <2>2, <2>3, <2>4, <2>5, <2>7, FrameLemma
  <1> QED BY <1>0, <1>2, <1>3 DEF ReleaseDone

\* A reconcile that is not repeated has claimed what is used.
LEMMA StatusStep ==
    ASSUME IInv, NEW p \in Procs, UpdateStatus(p)
    PROVE  IInv'
  <1> DEFINE j == pc[p]
  <1>0. PICK o \in Owners : pc[p].o = o
    BY JobFields DEF UpdateStatus, IInv, Types
  <1>1. /\ j \in ReportJobs /\ j.at = "report" /\ DropCopies(p) /\ Types /\ Goto(p, Idle)
        /\ RunInv(p) /\ StageInv(p) /\ OwnerInv(o) /\ j.o = o /\ ProcOf(o) = p
        /\ UNCHANGED <<claim, synced, cache, phase, applied, missed>>
    BY <1>0, JobFields DEF UpdateStatus, IInv, Types, RunInv
  <1>2. /\ view' \in [Procs -> [Endpoints -> Copied]] /\ current' \in [Copies -> SUBSET Endpoints]
        /\ CopyInv' /\ \A q \in Procs \ {p} : view'[q] = view[q]
        /\ p = "links" => current'["selection"] = current["selection"]
    BY <1>1, CopiesLemma
  <1>3. pc'[p] = Idle /\ pc' \in [Procs -> Jobs] /\ \A q \in Procs \ {p} : pc'[q] = pc[q]
    BY <1>1, JobTypes DEF Goto, Types
  <1>4. Types' /\ RunInv(p)' /\ StageInv(p)'
    BY <1>1, <1>2, <1>3 DEF Types, RunInv, StageInv, Idle
  <1>5. /\ queue \subseteq queue' /\ \A x \in Owners \ {o} : x \in ready' <=> x \in ready
        /\ o \notin queue' => j.result = "Ready"
    BY <1>1 DEF UpdateStatus
  <1>7. o \notin queue' => \A e \in Uses(o)' : claim'[e] = o
    <2>1. Uses(o)' \subseteq IF o = LI THEN applied ELSE Range(Req[o])
      BY <1>1 DEF Uses
    <2> QED BY <1>1, <1>5, <2>1 DEF StageInv, Wanted
  <1>8. OwnerInv(o)'
    BY <1>1, <1>7 DEF OwnerInv
  <1> QED BY <1>1, <1>2, <1>3, <1>4, <1>5, <1>8, FrameLemma

\* A reconcile begins with a resource that is not gone; the copies it releases from
\* show every claim, or the miss is noted.
LEMMA StartStep ==
    ASSUME IInv, NEW o \in Owners, StartReconcile(o)
    PROVE  IInv'
  <1> DEFINE p == ProcOf(o)
  <1>1. /\ p \in Procs /\ pc[p] = Idle /\ Types /\ OwnerInv(o) /\ o # None
        /\ UNCHANGED <<claim, cache, synced, ready, applied>> /\ queue' = queue \ {o}
    BY OwnerOfProc DEF StartReconcile, IInv
  <1>2. GetClaimed(p) \/ UNCHANGED <<view, current>>
    BY DEF StartReconcile
  <1> HIDE DEF p
  <1>3. /\ view' \in [Procs -> [Endpoints -> Copied]] /\ current' \in [Copies -> SUBSET Endpoints]
        /\ CopyInv' /\ \A q \in Procs \ {p} : view'[q] = view[q]
        /\ p = "links" => current'["selection"] = current["selection"]
    BY <1>1, <1>2, CopiesLemma
  <1>4. ASSUME NEW j \in Jobs, pc' = [pc EXCEPT ![p] = j], phase' \in [Owners -> {"new", "live", "deleting", "gone"}],
               \A x \in Owners \ {o} : phase'[x] = phase[x], missed \subseteq missed',
               RunInv(p)', StageInv(p)', OwnerInv(o)'
        PROVE  IInv'
    <2>1. pc' \in [Procs -> Jobs] /\ \A q \in Procs \ {p} : pc'[q] = pc[q]
      BY <1>1, <1>4 DEF Types
    <2>2. Types'
      BY <1>1, <1>3, <1>4, <2>1 DEF Types
    <2> QED BY <1>1, <1>3, <1>4, <2>1, <2>2, FrameLemma DEF p
  <1>5. CASE phase[o] = "gone" /\ UNCHANGED <<pc, phase, missed, view, current>>
    <2>1. pc' = [pc EXCEPT ![p] = Idle] /\ pc'[p] = Idle
      BY <1>1, <1>5 DEF Types
    <2>2. RunInv(p)' /\ StageInv(p)'
      BY <2>1 DEF RunInv, StageInv, Idle
    <2>3. OwnerInv(o)'
      BY <1>1, <1>5 DEF OwnerInv, Uses
    <2> QED BY <1>1, <1>4, <1>5, <2>1, <2>2, <2>3, JobTypes DEF Types
  <1>6. CASE /\ phase[o] = "deleting" /\ GetClaimed(p)
             /\ Goto(p, [at |-> "finish", o |-> o]) /\ UNCHANGED phase
             /\ missed' = IF \E e \in Endpoints : claim[e] = o /\ cache[p][e] # o
                          THEN missed \cup {o} ELSE missed
    <2> DEFINE j == [at |-> "finish", o |-> o]
    <2>1. j \in Jobs /\ j.at = "finish" /\ j.o = o
      BY JobTypes
    <2>2. Goto(p, j)
      BY <1>6
    <2> HIDE DEF j
    <2>3. pc' = [pc EXCEPT ![p] = j] /\ pc'[p] = j
      BY <1>1, <2>2 DEF Goto, Types
    <2>4. view'[p] = cache[p]
      BY <1>1, <1>6 DEF GetClaimed, Types
    <2>5. o \notin missed' => \A e \in Endpoints : claim[e] = o => view'[p][e] = o
      BY <1>6, <2>4
    <2>6. RunInv(p)' /\ StageInv(p)'
      BY <1>1, <1>6, <2>1, <2>3, <2>5 DEF RunInv, StageInv, p
    <2>7. OwnerInv(o)'
      <3>1. pc'[p] # Idle /\ pc'[p].o = o
        BY <2>1, <2>3 DEF Idle
      <3> QED BY <1>6, <3>1 DEF OwnerInv, p
    <2> QED BY <1>1, <1>4, <1>6, <2>1, <2>3, <2>6, <2>7 DEF Types
  <1>7. CASE /\ phase[o] \in {"new", "live"} /\ phase' = [phase EXCEPT ![o] = "live"]
             /\ Goto(p, [at |-> "lease", o |-> o, left |-> LeasesOf(o)]) /\ UNCHANGED missed
    <2> DEFINE j == [at |-> "lease", o |-> o, left |-> LeasesOf(o)]
    <2>1. LeasesOf(o) \in Seq(Clusters)
      <3>1. CASE o = LI
        BY <3>1, ClaimsAssumption DEF LeasesOf
      <3>2. CASE o # LI
        <4>1. Req[o][1] \in Endpoints /\ Req[o][2] \in Endpoints
          BY <3>2, RangeInEndpoints DEF Owners
        <4> QED BY <3>2, <4>1 DEF LeasesOf, Clusters
      <3> QED BY <3>1, <3>2
    <2>2. j \in Jobs /\ j.at = "lease" /\ j.o = o
      BY <2>1, JobTypes
    <2>3. Goto(p, j)
      BY <1>7
    <2> HIDE DEF j
    <2>4. pc' = [pc EXCEPT ![p] = j] /\ pc'[p] = j
      BY <1>1, <2>3 DEF Goto, Types
    <2>5. /\ phase'[o] = "live" /\ \A x \in Owners \ {o} : phase'[x] = phase[x]
          /\ phase' \in [Owners -> {"new", "live", "deleting", "gone"}]
      BY <1>1, <1>7 DEF Types
    <2>6. RunInv(p)' /\ StageInv(p)'
      BY <2>2, <2>4, <2>5 DEF RunInv, StageInv, p
    <2>7. OwnerInv(o)'
      <3>1. pc'[p] # Idle /\ pc'[p].o = o
        BY <2>2, <2>4 DEF Idle
      <3> QED BY <2>5, <3>1 DEF OwnerInv, p
    <2> QED BY <1>4, <1>7, <2>2, <2>4, <2>5, <2>6, <2>7
  <1>8. CASE /\ phase[o] # "gone" /\ Report(p, o, "Failed") /\ UNCHANGED <<phase, missed>>
    <2> DEFINE j == [at |-> "report", o |-> o, result |-> "Failed"]
    <2>1. j \in Jobs /\ j.at = "report" /\ j.o = o /\ j.result = "Failed"
      BY JobTypes
    <2>2. Goto(p, j)
      BY <1>8 DEF Report
    <2> HIDE DEF j
    <2>3. pc' = [pc EXCEPT ![p] = j] /\ pc'[p] = j
      BY <1>1, <2>2 DEF Goto, Types
    <2>4. RunInv(p)' /\ StageInv(p)'
      BY <2>1, <2>3 DEF RunInv, StageInv, p
    <2>5. OwnerInv(o)'
      <3>1. pc'[p] # Idle /\ pc'[p].o = o
        BY <2>1, <2>3 DEF Idle
      <3> QED BY <1>1, <1>8, <3>1 DEF OwnerInv, p
    <2> QED BY <1>1, <1>4, <1>8, <2>1, <2>3, <2>4, <2>5 DEF Types
  <1> QED BY <1>5, <1>6, <1>7, <1>8 DEF StartReconcile, p

----------------------------------------------------------------------------
(* The world around the controllers *)

\* A resource that is being reconciled does not go at once.
LEMMA ChangeStep ==
    ASSUME IInv, NEW o \in Owners, Change(o)
    PROVE  IInv'
  <1>1. /\ Types /\ CopyInv /\ phase[o] \in {"new", "live"}
        /\ UNCHANGED <<claim, cache, synced, view, current, pc, ready, applied, missed>>
        /\ queue' = queue \cup {o}
    BY DEF IInv, Types, Change
  <1>2. PICK n \in {"gone", "live", "deleting"} :
           /\ phase' = [phase EXCEPT ![o] = n] /\ (phase[o] = "new" <=> n = "gone")
    BY <1>1 DEF Change
  <1>3. /\ phase'[o] = n /\ \A x \in Owners \ {o} : phase'[x] = phase[x]
        /\ phase' \in [Owners -> {"new", "live", "deleting", "gone"}]
    BY <1>1, <1>2 DEF Types
  <1>4. Types' /\ CopyInv'
    BY <1>1, <1>3 DEF Types, CopyInv
  <1>5. ASSUME NEW p \in Procs PROVE RunInv(p)' /\ StageInv(p)'
    <2>1. RunInv(p) /\ StageInv(p) /\ pc[p] \in Jobs
      BY DEF IInv, Types
    <2>2. RunInv(p)'
      BY <1>1, <1>2, <1>3, <2>1, JobFields DEF RunInv
    <2>3. StageInv(p)'
      BY <1>1, <2>1 DEF StageInv, Wanted
    <2> QED BY <2>2, <2>3
  <1>6. ASSUME NEW x \in Owners PROVE OwnerInv(x)'
    <2>1. OwnerInv(x) /\ Uses(x)' = Uses(x)
      BY <1>1 DEF IInv, Uses
    <2>2. CASE x = o
      BY <1>1, <1>2, <1>3, <2>1, <2>2 DEF OwnerInv
    <2>3. CASE x # o
      BY <1>1, <1>3, <2>1, <2>3 DEF OwnerInv
    <2> QED BY <2>2, <2>3
  <1> QED BY <1>4, <1>5, <1>6 DEF IInv

\* The Links of an interconnect that is gone are nobody's reconcile.
LEMMA CollectStep ==
    ASSUME IInv, CollectLinks
    PROVE  IInv'
  <1>1. /\ Types /\ CopyInv /\ phase[LI] = "gone" /\ applied' \subseteq applied
        /\ UNCHANGED <<claim, cache, synced, view, current, pc, queue, phase, ready, missed>>
    BY DEF IInv, CollectLinks, apiVars
  <1>2. Types' /\ CopyInv'
    BY <1>1 DEF Types, CopyInv
  <1>3. ASSUME NEW p \in Procs PROVE RunInv(p)' /\ StageInv(p)'
    <2>1. RunInv(p) /\ StageInv(p) /\ pc[p] \in Jobs
      BY DEF IInv, Types
    <2>2. pc[p].at = "report" /\ pc[p].result = "Ready" => pc[p].o # LI
      BY <1>1, <2>1 DEF RunInv
    <2>3. pc[p].o # LI => Wanted(pc[p].o)' = Wanted(pc[p].o)
      BY <1>1 DEF Wanted
    <2> QED BY <1>1, <2>1, <2>2, <2>3 DEF RunInv, StageInv
  <1>4. ASSUME NEW x \in Owners PROVE OwnerInv(x)'
    <2>1. OwnerInv(x) /\ (x # LI => Uses(x)' = Uses(x))
      BY <1>1 DEF IInv, Uses
    <2> QED BY <1>1, <2>1 DEF OwnerInv
  <1> QED BY <1>2, <1>3, <1>4 DEF IInv

LEMMA KnownEndpoints == \A p \in Procs : Known(p) \subseteq Endpoints
  <1>1. Known("links") \subseteq Endpoints
    BY RangeInEndpoints DEF Known
  <1> QED BY <1>1, SelectionAssumption DEF Procs

\* A cache that catches up shows what is stored.
LEMMA CacheStep ==
    ASSUME IInv, NEW p \in Procs, CacheEndpoints(p)
    PROVE  IInv'
  <1>1. /\ Types /\ CopyInv /\ Known(p) \subseteq Endpoints
        /\ UNCHANGED <<claim, view, current, pc, queue, phase, ready, applied, missed>>
    BY KnownEndpoints DEF IInv, CacheEndpoints, ownVars
  <1>2. /\ cache' = [cache EXCEPT ![p] = [e \in Endpoints |-> IF e \in Known(p) THEN claim[e] ELSE Missing]]
        /\ synced' = [synced EXCEPT ![p] = Known(p)]
    BY DEF CacheEndpoints
  <1>3. /\ \A e \in Known(p) : cache'[p][e] = claim[e]
        /\ synced'[p] = Known(p)
        /\ \A q \in Procs \ {p} : cache'[q] = cache[q] /\ synced'[q] = synced[q]
    BY <1>1, <1>2 DEF Types
  <1>4. CopyInv'
    BY <1>1, <1>3 DEF CopyInv
  <1>5. Types'
    <2>1. cache' \in [Procs -> [Endpoints -> Copied]]
      BY <1>1, <1>2 DEF Types, Copied
    <2>2. synced' \in [Procs -> SUBSET Endpoints]
      BY <1>1, <1>2 DEF Types
    <2> QED BY <1>1, <2>1, <2>2 DEF Types
  <1>6. \A q \in Procs : RunInv(q)' /\ StageInv(q)'
    BY <1>1 DEF IInv, RunInv, StageInv, Wanted
  <1>7. \A x \in Owners : OwnerInv(x)'
    BY <1>1 DEF IInv, OwnerInv, Uses
  <1> QED BY <1>4, <1>5, <1>6, <1>7 DEF IInv

\* A controller that restarts reconciles every resource again that is not gone.
LEMMA RestartStep ==
    ASSUME IInv, NEW p \in Procs, Restart(p)
    PROVE  IInv'
  <1>1. /\ Types /\ CopyInv /\ DropCopies(p)
        /\ pc' = [pc EXCEPT ![p] = Idle]
        /\ cache' = [cache EXCEPT ![p] = NoCopy] /\ synced' = [synced EXCEPT ![p] = {}]
        /\ queue' = queue \cup {o \in Owners : ProcOf(o) = p /\ phase[o] \in {"new", "live", "deleting"}}
        /\ UNCHANGED <<claim, phase, ready, applied, missed>>
    BY DEF IInv, Restart, ownVars
  <1>2. NoCopy \in [Endpoints -> Copied] /\ Procs \subseteq Copies /\ "selection" \notin Procs
    BY DEF NoCopy, Copied, Copies, Procs
  <1>3. /\ pc'[p] = Idle /\ synced'[p] = {} /\ current'[p] = {}
        /\ \A q \in Procs \ {p} : /\ pc'[q] = pc[q] /\ synced'[q] = synced[q] /\ cache'[q] = cache[q]
                                  /\ view'[q] = view[q] /\ current'[q] = current[q]
    BY <1>1, <1>2 DEF Types, DropCopies
  <1>4. Types'
    <2>1. /\ cache' \in [Procs -> [Endpoints -> Copied]] /\ synced' \in [Procs -> SUBSET Endpoints]
          /\ view' \in [Procs -> [Endpoints -> Copied]] /\ pc' \in [Procs -> Jobs]
      BY <1>1, <1>2, JobTypes DEF Types, DropCopies
    <2>2. current' \in [Copies -> SUBSET Endpoints]
      BY <1>1 DEF Types, DropCopies
    <2> QED BY <1>1, <2>1, <2>2 DEF Types
  <1>5. CopyInv'
    BY <1>1, <1>3 DEF CopyInv
  <1>6. ASSUME NEW q \in Procs PROVE RunInv(q)' /\ StageInv(q)'
    <2>1. CASE q = p
      BY <1>3, <2>1 DEF RunInv, StageInv, Idle
    <2>2. CASE q # p
      <3>1. RunInv(q) /\ StageInv(q)
        BY DEF IInv
      <3>2. q = "interconnects" => current'["selection"] = current["selection"]
        BY <1>1, <1>2, <2>2 DEF DropCopies, Copies, Procs
      <3> QED BY <1>1, <1>3, <2>2, <3>1, <3>2 DEF RunInv, StageInv, Wanted
    <2> QED BY <2>1, <2>2
  <1>7. ASSUME NEW x \in Owners PROVE OwnerInv(x)'
    <2>1. OwnerInv(x) /\ Uses(x)' = Uses(x) /\ ProcOf(x) \in Procs
      BY <1>1, OwnerOfProc DEF IInv, Uses
    <2>2. CASE ProcOf(x) = p /\ phase[x] # "gone"
      <3>1. x \in queue'
        BY <1>1, <2>2 DEF Types
      <3> QED BY <1>1, <2>1, <3>1 DEF OwnerInv
    <2>3. CASE phase[x] = "gone"
      BY <1>1, <2>1, <2>3 DEF OwnerInv
    <2>4. CASE ProcOf(x) # p
      BY <1>1, <1>3, <2>1, <2>4 DEF OwnerInv
    <2> QED BY <2>2, <2>3, <2>4
  <1> QED BY <1>4, <1>5, <1>6, <1>7 DEF IInv

----------------------------------------------------------------------------
(* The invariant *)

LEMMA InitInv == ClaimsInit => IInv
  <1> SUFFICES ASSUME ClaimsInit PROVE IInv
    OBVIOUS
  <1> USE DEF ClaimsInit
  <1>1. NoCopy \in [Endpoints -> Copied]
    BY DEF NoCopy, Copied
  <1>2. cache \in [Procs -> [Endpoints -> Copied]] /\ synced \in [Procs -> SUBSET Endpoints]
    BY KnownEndpoints DEF Copied
  <1>3. Types
    BY <1>1, <1>2, JobTypes DEF Types
  <1>4. CopyInv
    BY KnownEndpoints DEF CopyInv, Copies, Procs
  <1>5. \A p \in Procs : RunInv(p) /\ StageInv(p)
    BY DEF RunInv, StageInv, Idle
  <1>6. \A o \in Owners : OwnerInv(o)
    BY OwnerOfProc DEF OwnerInv, Uses
  <1> QED BY <1>3, <1>4, <1>5, <1>6 DEF IInv

\* What OwnerKeepsClaim says of one step.
KeepsClaims ==
    \A e \in Endpoints : LET o == claim[e] IN
        o # None /\ claim'[e] # o =>
            claim'[e] = None /\ pc[ProcOf(o)] # Idle /\ pc[ProcOf(o)].o = o

LEMMA NextInv ==
    ASSUME IInv, [ClaimsNext]_vars
    PROVE  IInv' /\ KeepsClaims
  <1>1. ASSUME \A e \in Endpoints : claim'[e] = claim[e] \/ claim[e] = None PROVE KeepsClaims
    BY <1>1 DEF KeepsClaims
  <1>2. CASE UNCHANGED vars
    <2>1. Types' /\ CopyInv'
      BY <1>2 DEF vars, IInv, Types, CopyInv
    <2>2. \A p \in Procs : RunInv(p)' /\ StageInv(p)'
      BY <1>2 DEF vars, IInv, RunInv, StageInv, Wanted
    <2>3. \A o \in Owners : OwnerInv(o)'
      BY <1>2 DEF vars, IInv, OwnerInv, Uses
    <2> QED BY <1>1, <1>2, <2>1, <2>2, <2>3 DEF IInv, vars
  <1>3. ASSUME NEW o \in Owners, StartReconcile(o) \/ Change(o) PROVE IInv' /\ KeepsClaims
    BY <1>1, <1>3, StartStep, ChangeStep DEF StartReconcile, Change
  <1>4. ASSUME NEW p \in Procs, CacheEndpoints(p) \/ Restart(p) PROVE IInv' /\ KeepsClaims
    BY <1>1, <1>4, CacheStep, RestartStep DEF CacheEndpoints, Restart
  <1>5. ASSUME NEW p \in Procs, AcquireLease(p) \/ APIDelete(p) \/ ReleaseDone(p) \/ UpdateStatus(p)
        PROVE  IInv' /\ KeepsClaims
    <2>1. claim' = claim
      BY <1>5 DEF AcquireLease, APIDelete, ReleaseDone, UpdateStatus, apiVars
    <2> QED BY <1>1, <1>5, <2>1, LeaseStep, DeleteStep, ReleaseDoneStep, StatusStep
  <1>6. ASSUME NEW p \in Procs, NEW e \in Endpoints, Release(p, e) PROVE IInv' /\ KeepsClaims
    <2>1. /\ IInv' /\ (claim'[e] # claim[e] => claim'[e] = None /\ claim[e] = pc[p].o)
          /\ \A f \in Endpoints : f # e => claim'[f] = claim[f]
      BY <1>6, ReleaseStep
    <2>2. pc[p] # Idle /\ ProcOf(pc[p].o) = p
      BY <1>6 DEF Release, IInv, RunInv, Idle
    <2> QED BY <2>1, <2>2 DEF KeepsClaims
  <1>7. ASSUME ClaimOne \/ ClaimSelected PROVE IInv' /\ KeepsClaims
    BY <1>1, <1>7, ClaimOneStep, ClaimSelectedStep
  <1>8. ASSUME ClaimsDone \/ LinkReady \/ Select \/ APIApply PROVE IInv' /\ KeepsClaims
    <2>1. IInv'
      BY <1>8, ClaimsDoneStep, LinkReadyStep, SelectStep, ApplyStep
    <2>2. claim' = claim
      BY <1>8 DEF ClaimsDone, LinkReady, Select, APIApply, apiVars
    <2> QED BY <1>1, <2>1, <2>2
  <1>9. ASSUME CollectLinks PROVE IInv' /\ KeepsClaims
    BY <1>1, <1>9, CollectStep DEF CollectLinks, apiVars
  <1>10. LI \in Owners /\ Links \subseteq Owners
    BY DEF Owners
  <1> QED
    BY <1>2, <1>3, <1>4, <1>5, <1>6, <1>7, <1>8, <1>9, <1>10
    DEF ClaimsNext, Step, ReconcileInterconnect, ReconcileLink

LEMMA Invariance == ClaimsSpec => []IInv
  BY InitInv, NextInv, PTL DEF ClaimsSpec

----------------------------------------------------------------------------
(* Theorems *)

\* Claim and DeleteClaim never take an endpoint from its owner: a claim goes only by
\* a release of the controller that reconciles its owner, although both controllers
\* write from copies that may be old and a lease may run out while they do.
THEOREM OwnersKeepClaims == ClaimsSpec => OwnerKeepsClaim
  <1>1. IInv /\ [ClaimsNext]_vars => [KeepsClaims]_vars
    BY NextInv
  <1> QED
    BY <1>1, Invariance, PTL DEF ClaimsSpec, OwnerKeepsClaim, KeepsClaims

\* A resource that is there and whose reconcile ended, and is not to be repeated, has
\* claimed every endpoint its wires are built on; what an interconnect leaves to the
\* garbage collector is not held any more.
THEOREM UsedAreClaimed == ClaimsSpec => []UsedIsClaimed
  <1>1. IInv => UsedIsClaimed
    BY DEF IInv, OwnerInv, UsedIsClaimed
  <1> QED BY <1>1, Invariance, PTL

\* The finalizer goes after the claims: a resource that is gone leaves none, unless
\* its cache had not seen them.
THEOREM GoneHaveNoClaim == ClaimsSpec => []GoneHasNoClaim
  <1>1. IInv => GoneHasNoClaim
    BY DEF IInv, OwnerInv, GoneHasNoClaim
  <1> QED BY <1>1, Invariance, PTL

============================================================================
