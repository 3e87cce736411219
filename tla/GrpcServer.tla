----------------------------- MODULE GrpcServer -----------------------------
(***************************************************************************)
(* The gRPC server that the wire controller and the wire daemon share, the *)
(* proxies behind it and the clients of the workers in front of it.        *)
(*                                                                         *)
(* Every call holds one of MaxRPC permits while its handler runs: the      *)
(* unary calls for a short while and at most until their deadline to get   *)
(* one, a watch for as long as its stream lives.  Both programs install    *)
(* every handler, so the answers for a missing handler are left out.       *)
(***************************************************************************)
EXTENDS Integers, Sequences, FiniteSets, SequencesExt

CONSTANTS
    Unary,           \* calls that are answered once: Get, Create, Delete, Check
    WireWatches,     \* WireWatch streams
    EndpointWatches, \* EndpointWatch streams
    HealthWatches,   \* health Watch streams
    Addrs,           \* peer addresses: one connection of one client each
    AddrOf,          \* the connection a call is made on
    MaxRPC,          \* permits of the server's semaphore
    NoStream         \* no client context for an address

Calls   == Unary \cup WireWatches \cup EndpointWatches \cup HealthWatches

ASSUME GrpcAssumption ==
    /\ MaxRPC \in Nat \ {0}
    /\ AddrOf \in [Calls -> Addrs]
    /\ NoStream \notin Calls
    /\ WireWatches \cap (Unary \cup EndpointWatches) = {}
    /\ HealthWatches \cap (Unary \cup EndpointWatches \cup WireWatches) = {}

VARIABLES
    conn,     \* connection of each address: new, up or closed
    phase,    \* where each call is
    done,     \* calls whose context is done: deadline passed or connection gone
    replaced, \* watches whose client context another watch has cancelled
    free,     \* permits that nobody holds
    waiters,  \* calls that wait for a permit, first come first served
    clients,  \* proxy state: the stream of each address
    updates   \* health handler: the registered streams

vars == <<conn, phase, done, replaced, free, waiters, clients, updates>>

Phases == {"new", "received", "waiting", "granted", "running", "watching", "ended"}
Underway == {"received", "waiting", "granted", "running", "watching"}
Holding  == {"granted", "running", "watching"}

GInit ==
    /\ conn = [a \in Addrs |-> "new"]
    /\ phase = [c \in Calls |-> "new"]
    /\ done = {} /\ replaced = {}
    /\ free = MaxRPC /\ waiters = <<>>
    /\ clients = [a \in Addrs |-> NoStream]
    /\ updates = {}

----------------------------------------------------------------------------
(* The client of a worker *)

ClientStart(a) ==
    /\ conn[a] = "new"
    /\ conn' = [conn EXCEPT ![a] = "up"]
    /\ UNCHANGED <<phase, done, replaced, free, waiters, clients, updates>>

\* Stop closes the connection (or the network does): the contexts of its calls are done.
ClientStop(a) ==
    /\ conn[a] = "up"
    /\ conn' = [conn EXCEPT ![a] = "closed"]
    /\ done' = done \cup {c \in Calls : AddrOf[c] = a /\ phase[c] \in Underway}
    /\ UNCHANGED <<phase, replaced, free, waiters, clients, updates>>

\* A call on a connection that is up reaches the server.
Call(c) ==
    /\ phase[c] = "new" /\ conn[AddrOf[c]] = "up"
    /\ phase' = [phase EXCEPT ![c] = "received"]
    /\ UNCHANGED <<conn, done, replaced, free, waiters, clients, updates>>

----------------------------------------------------------------------------
(* Permits *)

\* context.WithTimeout: the unary calls have a deadline, the streams have none.
Timeout(c) ==
    /\ c \in Unary /\ phase[c] \in Underway /\ c \notin done
    /\ done' = done \cup {c}
    /\ UNCHANGED <<conn, phase, replaced, free, waiters, clients, updates>>

\* acquireSem: a done context is refused; a permit is taken at once if one is
\* free and nobody waits, otherwise the call queues.
acquireSem(c) ==
    /\ phase[c] = "received"
    /\ \/ /\ c \in done
          /\ phase' = [phase EXCEPT ![c] = "ended"]
          /\ UNCHANGED <<free, waiters>>
       \/ /\ c \notin done /\ free > 0 /\ waiters = <<>>
          /\ phase' = [phase EXCEPT ![c] = "granted"]
          /\ free' = free - 1
          /\ UNCHANGED waiters
       \/ /\ c \notin done /\ (free = 0 \/ waiters # <<>>)
          /\ phase' = [phase EXCEPT ![c] = "waiting"]
          /\ waiters' = Append(waiters, c)
          /\ UNCHANGED free
    /\ UNCHANGED <<conn, done, replaced, clients, updates>>

\* External: the semaphore removes the element of a waiter that gives up.
LeavesQueue(c) == \E i \in DOMAIN waiters : waiters[i] = c /\ waiters' = RemoveAt(waiters, i)

\* Faulty: the deferred release also runs for a call that got no permit.
AcquireFailsReleasing(c) ==
    /\ phase[c] = "waiting" /\ c \in done
    /\ phase' = [phase EXCEPT ![c] = "ended"]
    /\ LeavesQueue(c)
    /\ free' = free + 1
    /\ UNCHANGED <<conn, done, replaced, clients, updates>>

\* Faulty: a unary call waits for its permit with a context that has no deadline.
AcquireFailsNever(c) ==
    /\ phase[c] = "waiting" /\ c \in done \ Unary
    /\ phase' = [phase EXCEPT ![c] = "ended"]
    /\ LeavesQueue(c)
    /\ UNCHANGED <<conn, done, replaced, free, clients, updates>>

\* The context of a waiting call is done: it leaves the queue without a permit.
AcquireFails(c) ==
    /\ phase[c] = "waiting" /\ c \in done
    /\ phase' = [phase EXCEPT ![c] = "ended"]
    /\ LeavesQueue(c)
    /\ UNCHANGED <<conn, done, replaced, free, clients, updates>>

\* sem.Release at the end of a handler hands the permit to the first waiter,
\* which keeps it even if its context is done by now.
Release(c) ==
    IF waiters = <<>>
    THEN /\ free' = free + 1
         /\ phase' = [phase EXCEPT ![c] = "ended"]
         /\ UNCHANGED waiters
    ELSE /\ phase' = [phase EXCEPT ![c] = "ended", ![Head(waiters)] = "granted"]
         /\ waiters' = Tail(waiters)
         /\ UNCHANGED free

----------------------------------------------------------------------------
(* Handlers *)

\* A unary call is passed to the backend, which answers or fails; EndpointWatch
\* returns at once.
Handle(c) ==
    /\ phase[c] = "granted" /\ c \in Unary \cup EndpointWatches
    /\ phase' = [phase EXCEPT ![c] = "running"]
    /\ UNCHANGED <<conn, done, replaced, free, waiters, clients, updates>>

HandlerReturns(c) ==
    /\ phase[c] = "running"
    /\ Release(c)
    /\ UNCHANGED <<conn, done, replaced, clients, updates>>

\* WireWatch registers the stream for its address and cancels the one before it.
AddWireCallBackFn(c) ==
    LET a == AddrOf[c] IN
    /\ phase[c] = "granted" /\ c \in WireWatches
    /\ phase' = [phase EXCEPT ![c] = "watching"]
    /\ replaced' = IF clients[a] = NoStream THEN replaced ELSE replaced \cup {clients[a]}
    /\ clients' = [clients EXCEPT ![a] = c]
    /\ UNCHANGED <<conn, done, free, waiters, updates>>

\* Faulty: the watch that ends removes the entry of its address.
WatchStoppedDeleting(c) ==
    /\ phase[c] = "watching" /\ c \in WireWatches
    /\ c \in done \cup replaced
    /\ Release(c)
    /\ clients' = [clients EXCEPT ![AddrOf[c]] = NoStream]
    /\ UNCHANGED <<conn, done, replaced, updates>>

\* Faulty: the client context does not derive from the context of the stream.
WatchStoppedReplaced(c) ==
    /\ phase[c] = "watching" /\ c \in WireWatches
    /\ c \in replaced
    /\ Release(c)
    /\ UNCHANGED <<conn, done, replaced, clients, updates>>

\* Ranging over a closed channel executes no turn of the loop: the watch ends
\* without DeleteWireCallBackFn.
WatchStopped(c) ==
    /\ phase[c] = "watching" /\ c \in WireWatches
    /\ c \in done \cup replaced
    /\ Release(c)
    /\ UNCHANGED <<conn, done, replaced, clients, updates>>

\* Health Watch: registered until the stream ends.
HealthWatch(c) ==
    /\ phase[c] = "granted" /\ c \in HealthWatches
    /\ phase' = [phase EXCEPT ![c] = "watching"]
    /\ updates' = updates \cup {c}
    /\ UNCHANGED <<conn, done, replaced, free, waiters, clients>>

\* The deferred function removes the stream again.
HealthWatchStopped(c) ==
    /\ phase[c] = "watching" /\ c \in HealthWatches
    /\ c \in done
    /\ Release(c)
    /\ updates' = updates \ {c}
    /\ UNCHANGED <<conn, done, replaced, clients>>

----------------------------------------------------------------------------
Serve(c) ==
    \/ acquireSem(c) \/ AcquireFails(c)
    \/ Handle(c) \/ HandlerReturns(c)
    \/ AddWireCallBackFn(c) \/ WatchStopped(c)
    \/ HealthWatch(c) \/ HealthWatchStopped(c)

GNext ==
    \/ \E a \in Addrs : ClientStart(a) \/ ClientStop(a)
    \/ \E c \in Calls : Call(c) \/ Timeout(c) \/ Serve(c)

\* Time passes and the goroutine of every call runs; clients need not do anything.
GFairness == \A c \in Calls : WF_vars(Serve(c)) /\ WF_vars(Timeout(c))

GSpec == GInit /\ [][GNext]_vars /\ GFairness

----------------------------------------------------------------------------
(* Properties *)

\* Types of the state of the server and its clients.
GTypeOK ==
    /\ conn \in [Addrs -> {"new", "up", "closed"}]
    /\ phase \in [Calls -> Phases]
    /\ done \subseteq Calls /\ replaced \subseteq WireWatches
    /\ free \in 0 .. MaxRPC
    /\ IsInjective(waiters) /\ ToSet(waiters) = {c \in Calls : phase[c] = "waiting"}
    /\ clients \in [Addrs -> WireWatches \cup {NoStream}]
    /\ updates = {c \in HealthWatches : phase[c] = "watching"}

\* The server never runs more than MaxRPC handlers, never loses a permit, and
\* no call waits while one is free: deadlines, broken connections and replaced
\* watches, also while a permit is handed over, included.
PermitsBalance ==
    /\ free + Cardinality({c \in Calls : phase[c] \in Holding}) = MaxRPC
    /\ waiters # <<>> => free = 0

\* A watch that runs and that nobody replaced is the one the proxy knows for its
\* address, however many watches of that client came and went before.
LiveWatchIsRegistered ==
    \A c \in WireWatches :
        phase[c] = "watching" /\ c \notin replaced => clients[AddrOf[c]] = c

\* A unary call ends even if watches hold every permit for ever: the deadline
\* covers the wait for a permit.
UnaryEnds == \A c \in Unary : phase[c] = "received" ~> phase[c] = "ended"

\* When a client stops, the server gives up its calls, watches included, and
\* their permits with them.
StoppedClientIsDropped ==
    \A a \in Addrs :
        conn[a] = "closed" ~> \A c \in Calls : AddrOf[c] = a => phase[c] \in {"new", "ended"}

============================================================================
