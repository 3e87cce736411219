-------------------------- MODULE GrpcServerProofs --------------------------
(***************************************************************************)
(* Theorems about GrpcServer, for any calls, clients and number of         *)
(* permits.                                                                *)
(*                                                                         *)
(* The balance of permits depends on the queue: a permit that is released  *)
(* goes to its first call, which must be one that waits and that no other  *)
(* place of the queue holds.                                               *)
(***************************************************************************)
EXTENDS GrpcServer, FiniteSetTheorems, SequenceTheorems, TLAPS

Holders == {c \in Calls : phase[c] \in Holding}

\* A queue of calls, each of them once, that are exactly the calls in set W.
Queues(W) ==
    {s \in Seq(Calls) :
        /\ \A i, j \in 1 .. Len(s) : s[i] = s[j] => i = j
        /\ \A c \in Calls : c \in W <=> \E i \in 1 .. Len(s) : s[i] = c}

Waiting == {c \in Calls : phase[c] = "waiting"}

PlainTypes ==
    /\ conn \in [Addrs -> {"new", "up", "closed"}]
    /\ phase \in [Calls -> Phases]
    /\ done \subseteq Calls /\ replaced \subseteq WireWatches
    /\ free \in Nat
    /\ waiters \in Seq(Calls)
    /\ clients \in [Addrs -> WireWatches \cup {NoStream}]
    /\ updates = {c \in HealthWatches : phase[c] = "watching"}

IInv ==
    /\ PlainTypes /\ waiters \in Queues(Waiting)
    /\ IsFiniteSet(Holders) /\ PermitsBalance
    /\ LiveWatchIsRegistered

----------------------------------------------------------------------------
(* Queues *)

\* A call that begins to wait comes last.
LEMMA EnqueueLemma ==
    ASSUME NEW W, NEW s \in Queues(W), NEW c \in Calls \ W
    PROVE  Append(s, c) \in Queues(W \cup {c})
  <1> DEFINE t == Append(s, c)
  <1>1. /\ s \in Seq(Calls) /\ t \in Seq(Calls) /\ Len(t) = Len(s) + 1 /\ Len(s) \in Nat
        /\ t[Len(s) + 1] = c /\ \A k \in 1 .. Len(s) : t[k] = s[k]
    BY DEF Queues
  <1> HIDE DEF t
  <1>2. \A k \in 1 .. Len(s) : s[k] \in W
    BY <1>1 DEF Queues
  <1>3. \A k, l \in 1 .. Len(t) : t[k] = t[l] => k = l
    BY <1>1, <1>2 DEF Queues
  <1>4. ASSUME NEW d \in Calls, d \in W \cup {c}
        PROVE  \E k \in 1 .. Len(t) : t[k] = d
    <2>1. CASE d = c
      BY <1>1, <2>1
    <2>2. CASE d \in W
      <3>1. PICK k \in 1 .. Len(s) : s[k] = d
        BY <2>2 DEF Queues
      <3>2. k \in 1 .. Len(t) /\ t[k] = d
        BY <1>1, <3>1
      <3> QED BY <3>2
    <2> QED BY <1>4, <2>1, <2>2
  <1>5. \A k \in 1 .. Len(t) : t[k] \in W \cup {c}
    BY <1>1, <1>2
  <1> QED
    BY <1>1, <1>3, <1>4, <1>5, ZenonT(60) DEF Queues, t

\* The first call leaves.
LEMMA DequeueLemma ==
    ASSUME NEW W, NEW s \in Queues(W), s # <<>>
    PROVE  Head(s) \in W /\ Head(s) \in Calls /\ Tail(s) \in Queues(W \ {Head(s)})
  <1> DEFINE t == Tail(s)
  <1>1. /\ s \in Seq(Calls) /\ t \in Seq(Calls) /\ Len(t) = Len(s) - 1 /\ Len(s) \in Nat \ {0}
        /\ Head(s) = s[1] /\ \A k \in 1 .. Len(t) : t[k] = s[k + 1]
    BY DEF Queues
  <1> HIDE DEF t
  <1>2. \A k \in 1 .. Len(s) : s[k] \in W /\ s[k] \in Calls
    BY <1>1 DEF Queues
  <1>3. \A k, l \in 1 .. Len(t) : t[k] = t[l] => k = l
    BY <1>1 DEF Queues
  <1>4. ASSUME NEW d \in Calls, d \in W, d # s[1]
        PROVE  \E k \in 1 .. Len(t) : t[k] = d
    <2>1. PICK k \in 1 .. Len(s) : s[k] = d
      BY <1>4 DEF Queues
    <2>2. k - 1 \in 1 .. Len(t) /\ t[k - 1] = d
      BY <1>1, <1>4, <2>1
    <2> QED BY <2>2
  <1>5. \A k \in 1 .. Len(t) : t[k] \in W /\ t[k] # s[1]
    BY <1>1, <1>2 DEF Queues
  <1>6. t \in Queues(W \ {s[1]})
    BY <1>1, <1>3, <1>4, <1>5 DEF Queues
  <1>7. Head(s) \in W /\ Head(s) \in Calls
    BY <1>1, <1>2
  <1> QED
    BY <1>1, <1>6, <1>7 DEF t

\* A call that gives up leaves its place.
LEMMA RemoveLemma ==
    ASSUME NEW W, NEW s \in Queues(W), NEW i \in 1 .. Len(s)
    PROVE  RemoveAt(s, i) \in Queues(W \ {s[i]})
  <1> DEFINE t == RemoveAt(s, i)
  <1>1. /\ t \in Seq(Calls) /\ Len(t) = Len(s) - 1
        /\ \A k \in 1 .. Len(t) : t[k] = IF k < i THEN s[k] ELSE s[k + 1]
    <2>1. s \in Seq(Calls) /\ Len(s) \in Nat
      BY DEF Queues
    <2> DEFINE u == SubSeq(s, 1, i - 1)
               v == SubSeq(s, i + 1, Len(s))
    <2>2. u \in Seq(Calls) /\ Len(u) = i - 1 /\ \A k \in 1 .. i - 1 : u[k] = s[k]
      BY <2>1
    <2>3. /\ v \in Seq(Calls) /\ Len(v) = Len(s) - i
          /\ \A k \in 1 .. Len(s) - i : v[k] = s[k + i]
      BY <2>1
    <2> HIDE DEF u, v
    <2>4. /\ u \o v \in Seq(Calls) /\ Len(u \o v) = Len(s) - 1
          /\ \A k \in 1 .. Len(s) - 1 :
                (u \o v)[k] = IF k <= Len(u) THEN u[k] ELSE v[k - Len(u)]
      BY <2>1, <2>2, <2>3, ConcatProperties
    <2>5. ASSUME NEW k \in 1 .. Len(s) - 1
          PROVE  (u \o v)[k] = IF k < i THEN s[k] ELSE s[k + 1]
      <3>1. CASE k < i
        BY <2>1, <2>2, <2>4, <3>1
      <3>2. CASE k >= i
        <4>1. k - (i - 1) \in 1 .. Len(s) - i /\ (u \o v)[k] = v[k - (i - 1)]
          BY <2>1, <2>2, <2>4, <3>2
        <4> QED BY <2>1, <2>3, <3>2, <4>1
      <3>3. k \in Int /\ i \in Int
        BY <2>1
      <3>4. k < i \/ k >= i
        BY <3>3
      <3> QED BY <3>1, <3>2, <3>4
    <2>6. t = u \o v
      BY DEF RemoveAt, u, v
    <2> QED BY <2>1, <2>4, <2>5, <2>6
  <1> HIDE DEF t
  <1>2. \A k, l \in 1 .. Len(t) : t[k] = t[l] => k = l
    BY <1>1 DEF Queues
  <1>3. \A k \in 1 .. Len(t) : t[k] \in W /\ t[k] # s[i]
    BY <1>1 DEF Queues
  <1>4. ASSUME NEW c \in Calls, c \in W, c # s[i]
        PROVE  \E k \in 1 .. Len(t) : t[k] = c
    <2>1. PICK k \in 1 .. Len(s) : s[k] = c
      BY <1>4 DEF Queues
    <2>2. CASE k < i
      BY <1>1, <2>1, <2>2 DEF Queues
    <2>3. CASE k > i
      <3>1. k - 1 \in 1 .. Len(t) /\ t[k - 1] = c
        BY <1>1, <2>1, <2>3 DEF Queues
      <3> QED BY <3>1
    <2> QED BY <1>4, <2>1, <2>2, <2>3
  <1> QED
    BY <1>1, <1>2, <1>3, <1>4 DEF Queues, t

----------------------------------------------------------------------------
(* The phases of the calls *)

\* A call that moves between two phases of the same kind changes neither the
\* holders of permits nor the queue.
LEMMA SameKind ==
    ASSUME IInv, NEW c \in Calls, NEW x \in Phases,
           phase' = [phase EXCEPT ![c] = x],
           x \in Holding <=> phase[c] \in Holding, x # "waiting", phase[c] # "waiting",
           UNCHANGED <<free, waiters>>
    PROVE  /\ phase' \in [Calls -> Phases]
           /\ (waiters \in Queues(Waiting))' /\ IsFiniteSet(Holders)' /\ PermitsBalance'
  <1>1. phase \in [Calls -> Phases]
    BY DEF IInv, PlainTypes
  <1>2. Holders' = Holders /\ Waiting' = Waiting
    BY <1>1 DEF Holders, Waiting
  <1> QED
    BY <1>1, <1>2 DEF IInv, PermitsBalance, Holders

\* The balance of permits after a step, in terms of the holders.
LEMMA BalanceLater ==
    ASSUME free' + Cardinality(Holders') = MaxRPC, waiters' # <<>> => free' = 0
    PROVE  PermitsBalance'
  BY DEF PermitsBalance, Holders

\* A handler that ends gives its permit to the first call of the queue, or back.
LEMMA ReleaseLemma ==
    ASSUME IInv, NEW c \in Calls, phase[c] \in Holding, Release(c)
    PROVE  /\ phase' \in [Calls -> Phases] /\ free' \in Nat /\ waiters' \in Seq(Calls)
           /\ (waiters \in Queues(Waiting))' /\ IsFiniteSet(Holders)' /\ PermitsBalance'
           /\ phase'[c] = "ended"
           /\ \A d \in Calls \ {c} :
                phase'[d] = phase[d] \/ (phase'[d] = "granted" /\ phase[d] = "waiting")
  <1>1. /\ phase \in [Calls -> Phases] /\ waiters \in Queues(Waiting) /\ free \in Nat
        /\ IsFiniteSet(Holders) /\ waiters \in Seq(Calls)
        /\ free + Cardinality(Holders) = MaxRPC /\ (waiters # <<>> => free = 0)
    BY DEF IInv, PlainTypes, PermitsBalance, Holders
  <1>2. "ended" \in Phases \ Holding /\ "granted" \in Holding \cap Phases /\ "waiting" \notin Holding
    BY DEF Phases, Holding
  <1>3. c \in Holders /\ c \notin Waiting /\ Cardinality(Holders) \in Nat
    BY <1>1, <1>2, FS_CardinalityType DEF Holders, Waiting
  <1>4. IsFiniteSet(Holders \ {c}) /\ Cardinality(Holders \ {c}) = Cardinality(Holders) - 1
    BY <1>1, <1>3, FS_RemoveElement
  <1>5. CASE waiters = <<>>
    <2>1. Holders' = Holders \ {c} /\ Waiting' = Waiting
      BY <1>1, <1>2, <1>3, <1>5 DEF Release, Holders, Waiting
    <2>2. free' = free + 1 /\ waiters' = waiters
      BY <1>5 DEF Release
    <2>3. /\ phase' \in [Calls -> Phases] /\ phase'[c] = "ended"
          /\ \A d \in Calls \ {c} : phase'[d] = phase[d]
      BY <1>1, <1>2, <1>5 DEF Release
    <2>4. free' + Cardinality(Holders') = MaxRPC /\ (waiters' # <<>> => free' = 0)
      BY <1>1, <1>3, <1>4, <1>5, <2>1, <2>2
    <2> QED BY <1>1, <1>4, <2>1, <2>2, <2>3, <2>4, BalanceLater
  <1>6. CASE waiters # <<>>
    <2> DEFINE h == Head(waiters)
    <2>1. h \in Waiting /\ h \in Calls /\ Tail(waiters) \in Queues(Waiting \ {h})
      BY <1>1, <1>6, DequeueLemma
    <2>2. h # c /\ h \notin Holders
      BY <1>2, <1>3, <2>1 DEF Holders, Waiting
    <2>3. /\ phase' = [phase EXCEPT ![c] = "ended", ![h] = "granted"]
          /\ waiters' = Tail(waiters) /\ free' = free
      BY <1>6 DEF Release
    <2> HIDE DEF h
    <2>4. /\ phase' \in [Calls -> Phases] /\ phase'[c] = "ended" /\ phase'[h] = "granted"
          /\ \A d \in Calls \ {c, h} : phase'[d] = phase[d]
      BY <1>1, <1>2, <2>1, <2>2, <2>3
    <2>5. Holders' = (Holders \ {c}) \cup {h} /\ Waiting' = Waiting \ {h}
      BY <1>2, <1>3, <2>1, <2>2, <2>4 DEF Holders, Waiting
    <2>6. IsFiniteSet((Holders \ {c}) \cup {h}) /\ Cardinality((Holders \ {c}) \cup {h}) = Cardinality(Holders)
      <3>1. h \notin Holders \ {c}
        BY <2>2
      <3>2. /\ IsFiniteSet((Holders \ {c}) \cup {h})
            /\ Cardinality((Holders \ {c}) \cup {h}) = Cardinality(Holders \ {c}) + 1
        BY <1>4, <3>1, FS_AddElement
      <3> QED BY <1>3, <1>4, <3>2
    <2>7. free' + Cardinality(Holders') = MaxRPC /\ (waiters' # <<>> => free' = 0)
      BY <1>1, <1>6, <2>3, <2>5, <2>6
    <2>8. waiters' \in Seq(Calls)
      BY <1>1, <1>6, <2>3
    <2> QED BY <1>1, <2>1, <2>3, <2>4, <2>5, <2>6, <2>7, <2>8, BalanceLater DEF Waiting
  <1> QED BY <1>5, <1>6

----------------------------------------------------------------------------
(* The invariant *)

LEMMA InitInv == GInit => IInv
  <1> SUFFICES ASSUME GInit PROVE IInv
    OBVIOUS
  <1>1. PlainTypes
    <2>1. phase \in [Calls -> Phases] /\ updates = {c \in HealthWatches : phase[c] = "watching"}
      BY DEF GInit, Phases, Calls
    <2> QED BY <2>1, GrpcAssumption DEF GInit, PlainTypes
  <1>2. Holders = {} /\ Waiting = {}
    BY DEF GInit, Holders, Waiting, Holding
  <1>3. waiters \in Queues(Waiting)
    BY <1>2 DEF GInit, Queues
  <1>4. IsFiniteSet(Holders) /\ Cardinality(Holders) = 0
    BY <1>2, FS_EmptySet
  <1>5. PermitsBalance
    BY <1>4, GrpcAssumption DEF GInit, PermitsBalance, Holders
  <1>6. LiveWatchIsRegistered
    BY DEF GInit, LiveWatchIsRegistered, Calls
  <1> QED BY <1>1, <1>3, <1>4, <1>5, <1>6 DEF IInv

\* A call arrives, or its handler begins.
LEMMA CallStep ==
    ASSUME IInv, NEW c \in Calls, Call(c) \/ Handle(c)
    PROVE  IInv'
  <1>1. PICK x \in {"received", "running"} :
           /\ phase' = [phase EXCEPT ![c] = x]
           /\ x \in Holding <=> phase[c] \in Holding
           /\ phase[c] \notin {"waiting", "watching"}
    BY DEF Call, Handle, Holding
  <1>2. x \in Phases /\ x \notin {"waiting", "watching"}
    BY DEF Phases
  <1>3. UNCHANGED <<conn, done, replaced, free, waiters, clients, updates>>
    BY DEF Call, Handle
  <1>4. /\ phase' \in [Calls -> Phases]
        /\ (waiters \in Queues(Waiting))' /\ IsFiniteSet(Holders)' /\ PermitsBalance'
    BY <1>1, <1>2, <1>3, SameKind
  <1>5. \A d \in Calls : phase'[d] = "watching" <=> phase[d] = "watching"
    BY <1>1, <1>2 DEF IInv, PlainTypes
  <1>6. PlainTypes'
    BY <1>3, <1>4, <1>5 DEF IInv, PlainTypes, Calls
  <1>7. LiveWatchIsRegistered'
    BY <1>3, <1>5 DEF IInv, LiveWatchIsRegistered, Calls
  <1> QED BY <1>4, <1>6, <1>7 DEF IInv

\* A call is refused, takes a permit or queues.
LEMMA AcquireStep ==
    ASSUME IInv, NEW c \in Calls, acquireSem(c)
    PROVE  IInv'
  <1>1. /\ phase \in [Calls -> Phases] /\ waiters \in Queues(Waiting) /\ free \in Nat
        /\ IsFiniteSet(Holders) /\ waiters \in Seq(Calls)
        /\ free + Cardinality(Holders) = MaxRPC /\ (waiters # <<>> => free = 0)
    BY DEF IInv, PlainTypes, PermitsBalance, Holders
  <1>2. phase[c] = "received" /\ UNCHANGED <<conn, done, replaced, clients, updates>>
    BY DEF acquireSem
  <1>3. c \notin Holders /\ c \notin Waiting
    BY <1>2 DEF Holders, Waiting, Holding
  <1>4. PICK x \in {"ended", "granted", "waiting"} : phase' = [phase EXCEPT ![c] = x]
    BY DEF acquireSem
  <1>5. /\ phase' \in [Calls -> Phases]
        /\ \A d \in Calls : phase'[d] = "watching" <=> phase[d] = "watching"
    BY <1>1, <1>2, <1>4 DEF Phases
  <1>6. LiveWatchIsRegistered'
    BY <1>2, <1>5 DEF IInv, LiveWatchIsRegistered, Calls
  <1>7. ASSUME free' \in Nat, waiters' \in Seq(Calls) PROVE PlainTypes'
    BY <1>2, <1>5, <1>7 DEF IInv, PlainTypes, Calls
  <1>8. CASE c \in done /\ phase' = [phase EXCEPT ![c] = "ended"] /\ UNCHANGED <<free, waiters>>
    <2>1. (waiters \in Queues(Waiting))' /\ IsFiniteSet(Holders)' /\ PermitsBalance'
      BY <1>2, <1>8, SameKind DEF Phases, Holding
    <2> QED BY <1>1, <1>6, <1>7, <1>8, <2>1 DEF IInv
  <1>9. CASE /\ c \notin done /\ free > 0 /\ waiters = <<>>
             /\ phase' = [phase EXCEPT ![c] = "granted"]
             /\ free' = free - 1 /\ waiters' = waiters
    <2>1. Holders' = Holders \cup {c} /\ Waiting' = Waiting
      BY <1>1, <1>2, <1>9 DEF Holders, Waiting, Holding
    <2>2. /\ IsFiniteSet(Holders \cup {c}) /\ Cardinality(Holders) \in Nat
          /\ Cardinality(Holders \cup {c}) = Cardinality(Holders) + 1
      BY <1>1, <1>3, FS_AddElement, FS_CardinalityType
    <2>3. free' + Cardinality(Holders') = MaxRPC /\ (waiters' # <<>> => free' = 0)
      BY <1>1, <1>9, <2>1, <2>2
    <2>4. free' \in Nat /\ waiters' \in Seq(Calls)
      BY <1>1, <1>9
    <2> QED BY <1>1, <1>6, <1>7, <1>9, <2>1, <2>2, <2>3, <2>4, BalanceLater DEF IInv
  <1>10. CASE /\ c \notin done /\ (free = 0 \/ waiters # <<>>)
              /\ phase' = [phase EXCEPT ![c] = "waiting"]
              /\ waiters' = Append(waiters, c) /\ free' = free
    <2>1. Holders' = Holders /\ Waiting' = Waiting \cup {c}
      BY <1>1, <1>2, <1>10 DEF Holders, Waiting, Holding
    <2>2. waiters' \in Queues(Waiting \cup {c})
      BY <1>1, <1>3, <1>10, EnqueueLemma
    <2>3. free' + Cardinality(Holders') = MaxRPC /\ (waiters' # <<>> => free' = 0)
      BY <1>1, <1>10, <2>1
    <2>4. free' \in Nat /\ waiters' \in Seq(Calls)
      BY <1>1, <1>10
    <2> QED BY <1>1, <1>6, <1>7, <2>1, <2>2, <2>3, <2>4, BalanceLater DEF IInv
  <1> QED BY <1>8, <1>9, <1>10 DEF acquireSem

\* A call that gives up leaves the queue.
LEMMA FailStep ==
    ASSUME IInv, NEW c \in Calls, AcquireFails(c)
    PROVE  IInv'
  <1>1. /\ phase \in [Calls -> Phases] /\ waiters \in Queues(Waiting) /\ free \in Nat
        /\ IsFiniteSet(Holders) /\ waiters \in Seq(Calls)
        /\ free + Cardinality(Holders) = MaxRPC /\ (waiters # <<>> => free = 0)
    BY DEF IInv, PlainTypes, PermitsBalance, Holders
  <1>2. /\ phase[c] = "waiting" /\ phase' = [phase EXCEPT ![c] = "ended"]
        /\ UNCHANGED <<conn, done, replaced, free, clients, updates>>
    BY DEF AcquireFails
  <1>3. PICK i \in 1 .. Len(waiters) : waiters[i] = c /\ waiters' = RemoveAt(waiters, i)
    BY <1>1 DEF AcquireFails, LeavesQueue
  <1>4. waiters' \in Queues(Waiting \ {c})
    BY <1>1, <1>3, RemoveLemma
  <1>5. Holders' = Holders /\ Waiting' = Waiting \ {c}
    BY <1>1, <1>2 DEF Holders, Waiting, Holding
  <1>6. waiters # <<>>
    BY <1>3
  <1>7. PermitsBalance'
    <2>1. free' + Cardinality(Holders') = MaxRPC /\ (waiters' # <<>> => free' = 0)
      BY <1>1, <1>2, <1>5, <1>6
    <2> QED BY <2>1, BalanceLater
  <1>8. /\ phase' \in [Calls -> Phases]
        /\ \A d \in Calls : phase'[d] = "watching" <=> phase[d] = "watching"
    BY <1>1, <1>2 DEF Phases
  <1>9. PlainTypes'
    BY <1>2, <1>4, <1>8 DEF IInv, PlainTypes, Calls, Queues
  <1>10. LiveWatchIsRegistered'
    BY <1>2, <1>8 DEF IInv, LiveWatchIsRegistered, Calls
  <1> QED BY <1>1, <1>4, <1>5, <1>7, <1>9, <1>10 DEF IInv

\* A handler ends: a unary call is answered, or a watch is over.
LEMMA EndStep ==
    ASSUME IInv, NEW c \in Calls, HandlerReturns(c) \/ WatchStopped(c) \/ HealthWatchStopped(c)
    PROVE  IInv'
  <1>1. Release(c) /\ phase[c] \in Holding /\ UNCHANGED <<conn, done, replaced, clients>>
    BY DEF HandlerReturns, WatchStopped, HealthWatchStopped, Holding
  <1>2. /\ phase' \in [Calls -> Phases] /\ free' \in Nat /\ waiters' \in Seq(Calls)
        /\ (waiters \in Queues(Waiting))' /\ IsFiniteSet(Holders)' /\ PermitsBalance'
        /\ phase'[c] = "ended"
        /\ \A d \in Calls \ {c} :
             phase'[d] = phase[d] \/ (phase'[d] = "granted" /\ phase[d] = "waiting")
    BY <1>1, ReleaseLemma
  <1>3. \A d \in Calls : phase'[d] = "watching" <=> (d # c /\ phase[d] = "watching")
    BY <1>2
  <1>4. updates = {d \in HealthWatches : phase[d] = "watching"} /\ HealthWatches \subseteq Calls
    BY DEF IInv, PlainTypes, Calls
  <1>5. updates' = updates \ {c}
    <2>1. CASE HandlerReturns(c)
      BY <1>4, <2>1 DEF HandlerReturns
    <2>2. CASE WatchStopped(c)
      BY <1>4, <2>2, GrpcAssumption DEF WatchStopped
    <2>3. CASE HealthWatchStopped(c)
      BY <2>3 DEF HealthWatchStopped
    <2> QED BY <2>1, <2>2, <2>3
  <1>6. updates' = {d \in HealthWatches : phase'[d] = "watching"}
    BY <1>3, <1>4, <1>5
  <1>7. PlainTypes'
    BY <1>1, <1>2, <1>6 DEF IInv, PlainTypes
  <1>8. LiveWatchIsRegistered'
    BY <1>1, <1>3 DEF IInv, LiveWatchIsRegistered, Calls
  <1> QED BY <1>2, <1>7, <1>8 DEF IInv

\* A watch begins; the one its address had before is replaced.
LEMMA WatchStep ==
    ASSUME IInv, NEW c \in Calls, AddWireCallBackFn(c) \/ HealthWatch(c)
    PROVE  IInv'
  <1>1. /\ phase[c] = "granted" /\ phase' = [phase EXCEPT ![c] = "watching"]
        /\ UNCHANGED <<conn, done, free, waiters>>
    BY DEF AddWireCallBackFn, HealthWatch
  <1>2. /\ phase' \in [Calls -> Phases]
        /\ (waiters \in Queues(Waiting))' /\ IsFiniteSet(Holders)' /\ PermitsBalance'
    BY <1>1, SameKind DEF Phases, Holding
  <1>3. \A d \in Calls : phase'[d] = "watching" <=> (d = c \/ phase[d] = "watching")
    BY <1>1 DEF IInv, PlainTypes
  <1>4. /\ conn \in [Addrs -> {"new", "up", "closed"}] /\ done \subseteq Calls
        /\ replaced \subseteq WireWatches /\ free \in Nat /\ waiters \in Seq(Calls)
        /\ clients \in [Addrs -> WireWatches \cup {NoStream}]
        /\ updates = {d \in HealthWatches : phase[d] = "watching"}
        /\ HealthWatches \subseteq Calls /\ WireWatches \subseteq Calls
        /\ LiveWatchIsRegistered
    BY DEF IInv, PlainTypes, Calls
  <1>5. CASE AddWireCallBackFn(c)
    <2>1. c \in WireWatches /\ AddrOf[c] \in Addrs /\ c \notin HealthWatches
      BY <1>5, GrpcAssumption DEF AddWireCallBackFn
    <2>2. /\ clients' = [clients EXCEPT ![AddrOf[c]] = c] /\ updates' = updates
          /\ replaced' = IF clients[AddrOf[c]] = NoStream THEN replaced
                         ELSE replaced \cup {clients[AddrOf[c]]}
      BY <1>5 DEF AddWireCallBackFn
    <2>3. /\ replaced' \subseteq WireWatches /\ clients' \in [Addrs -> WireWatches \cup {NoStream}]
          /\ replaced \subseteq replaced'
      BY <1>4, <2>1, <2>2
    <2>4. PlainTypes'
      <3>1. updates' = {d \in HealthWatches : phase'[d] = "watching"}
        BY <1>3, <1>4, <2>1, <2>2
      <3> QED BY <1>1, <1>2, <1>4, <2>3, <3>1 DEF PlainTypes
    <2>5. ASSUME NEW d \in WireWatches, phase'[d] = "watching", d \notin replaced'
          PROVE  clients'[AddrOf[d]] = d
      <3>1. CASE d = c
        BY <1>4, <2>1, <2>2, <3>1
      <3>2. CASE d # c
        <4>1. clients[AddrOf[d]] = d /\ AddrOf[d] \in Addrs /\ d # NoStream
          BY <1>3, <1>4, <2>3, <2>5, <3>2, GrpcAssumption DEF LiveWatchIsRegistered
        <4>2. AddrOf[d] # AddrOf[c]
          BY <2>2, <2>5, <4>1
        <4> QED BY <1>4, <2>2, <4>1, <4>2
      <3> QED BY <3>1, <3>2
    <2> QED BY <1>2, <2>4, <2>5 DEF IInv, LiveWatchIsRegistered
  <1>6. CASE HealthWatch(c)
    <2>1. c \in HealthWatches /\ c \notin WireWatches
      BY <1>6, GrpcAssumption DEF HealthWatch
    <2>2. UNCHANGED <<replaced, clients>> /\ updates' = updates \cup {c}
      BY <1>6 DEF HealthWatch
    <2>3. PlainTypes'
      <3>1. updates' = {d \in HealthWatches : phase'[d] = "watching"}
        BY <1>3, <1>4, <2>1, <2>2
      <3> QED BY <1>1, <1>2, <1>4, <2>2, <3>1 DEF PlainTypes
    <2>4. LiveWatchIsRegistered'
      BY <1>3, <1>4, <2>1, <2>2 DEF LiveWatchIsRegistered
    <2> QED BY <1>2, <2>3, <2>4 DEF IInv
  <1> QED BY <1>5, <1>6

LEMMA NextInv == IInv /\ [GNext]_vars => IInv'
  <1> SUFFICES ASSUME IInv, [GNext]_vars PROVE IInv'
    OBVIOUS
  <1>1. CASE UNCHANGED vars
    BY <1>1 DEF vars, IInv, PlainTypes, PermitsBalance, LiveWatchIsRegistered, Holders, Waiting
  <1>2. ASSUME NEW a \in Addrs, ClientStart(a) \/ ClientStop(a) PROVE IInv'
    <2>1. UNCHANGED <<phase, replaced, free, waiters, clients, updates>>
      BY <1>2 DEF ClientStart, ClientStop
    <2>2. PlainTypes'
      BY <1>2 DEF IInv, PlainTypes, ClientStart, ClientStop
    <2> QED BY <2>1, <2>2 DEF IInv, PermitsBalance, LiveWatchIsRegistered, Holders, Waiting
  <1>3. ASSUME NEW c \in Calls, Timeout(c) PROVE IInv'
    <2>1. UNCHANGED <<phase, replaced, free, waiters, clients, updates>>
      BY <1>3 DEF Timeout
    <2>2. PlainTypes'
      BY <1>3 DEF IInv, PlainTypes, Timeout
    <2> QED BY <2>1, <2>2 DEF IInv, PermitsBalance, LiveWatchIsRegistered, Holders, Waiting
  <1>4. ASSUME NEW c \in Calls, Call(c) \/ Serve(c) PROVE IInv'
    BY <1>4, CallStep, AcquireStep, FailStep, EndStep, WatchStep DEF Serve
  <1> QED BY <1>1, <1>2, <1>3, <1>4 DEF GNext

LEMMA Invariance == GSpec => []IInv
  BY InitInv, NextInv, PTL DEF GSpec

----------------------------------------------------------------------------
(* Theorems *)

\* The state keeps its types, free permits are never more than MaxRPC, and the
\* queue holds the calls that wait, each once: acquireSem, the deadlines and the
\* releases agree about who waits.
THEOREM TypeCorrect == GSpec => []GTypeOK
  <1>1. IInv => GTypeOK
    <2> SUFFICES ASSUME IInv PROVE GTypeOK
      OBVIOUS
    <2>1. free \in 0 .. MaxRPC
      BY FS_CardinalityType, GrpcAssumption DEF IInv, PlainTypes, PermitsBalance, Holders
    <2>2. waiters \in Seq(Calls) /\ waiters \in Queues(Waiting)
      BY DEF IInv, PlainTypes
    <2>3. DOMAIN waiters = 1 .. Len(waiters) /\ \A i \in 1 .. Len(waiters) : waiters[i] \in Calls
      BY <2>2
    <2>4. IsInjective(waiters)
      BY <2>2, <2>3 DEF IsInjective, Queues
    <2>5. ToSet(waiters) = {c \in Calls : phase[c] = "waiting"}
      BY <2>2, <2>3 DEF ToSet, Queues, Waiting
    <2> QED BY <2>1, <2>4, <2>5 DEF IInv, PlainTypes, GTypeOK
  <1> QED BY <1>1, Invariance, PTL

\* No permit is lost or handed out twice, and no call waits while one is free:
\* acquireSem and the deferred Release balance in every order of calls,
\* deadlines, disconnects and replaced watches.
THEOREM PermitsAreBalanced == GSpec => []PermitsBalance
  <1>1. IInv => PermitsBalance
    BY DEF IInv
  <1> QED BY <1>1, Invariance, PTL

\* AddWireCallBackFn always leaves the latest watch of an address registered; a
\* watch of that address that runs unregistered has been cancelled.
THEOREM LiveWatchesAreRegistered == GSpec => []LiveWatchIsRegistered
  <1>1. IInv => LiveWatchIsRegistered
    BY DEF IInv
  <1> QED BY <1>1, Invariance, PTL

============================================================================
