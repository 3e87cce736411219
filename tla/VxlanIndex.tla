----------------------------- MODULE VxlanIndex -----------------------------
(***************************************************************************)
(* The VXLAN index: the backend of pkg/wirer/backend/vxlan, the client the *)
(* wire controller calls it through and the controller of the VXLANIndex   *)
(* resource, for any number of wires.                                      *)
(*                                                                         *)
(* The table of ids is kept in memory and copied to a config map after     *)
(* every change.  The backend holds no lock across the steps of a call:    *)
(* the wire reconciler claims for one Link at a time, the goroutines that  *)
(* finish a deletion release beside it.                                    *)
(***************************************************************************)
EXTENDS Integers, FiniteSets

CONSTANTS
    Owners,     \* Links, each the owner of one wire of the same name
    Ids,        \* the ids between Offset and MaxEntryID
    NoId,       \* a wire without an id
    Free,       \* an id without an owner
    InitLinks,  \* the Links that exist when the controller first starts
    MaxCrash,   \* bound: restarts of the controller
    MaxFail,    \* bound: failing writes and reads of the config map
    MaxEnv      \* bound: Links created and deleted

ASSUME VxlanAssumption ==
    /\ NoId \notin Ids /\ Free \notin Owners /\ InitLinks \subseteq Owners
    /\ MaxCrash \in Nat /\ MaxFail \in Nat /\ MaxEnv \in Nat

VARIABLES
    links,      \* the Links that exist
    index,      \* the instance in the backend cache: "absent", "created", "ready"
    table,      \* its entries
    store,      \* the config map
    wire,       \* the id each cached wire has, or NoId
    leaving,    \* wires whose deletion is complete but for the release
    call,       \* the claim or release that runs for each wire
    pending,    \* a reconcile of the VXLANIndex is queued
    overlapped, \* history: a call copied the table while another was writing its copy
    spent       \* spent bounds

vars == <<links, index, table, store, wire, leaving, call, pending, overlapped, spent>>

Entries == [Ids -> Owners \cup {Free}]
Idle == [at |-> "idle"]
Calls ==
    [at : {"idle"}] \cup
    [at : {"set", "get"}, id : Ids \cup {NoId}] \cup
    [at : {"save"}, id : Ids \cup {NoId}, copy : Entries]

VxTypeOK ==
    /\ links \subseteq Owners /\ leaving \subseteq Owners
    /\ index \in {"absent", "created", "ready"}
    /\ table \in Entries /\ store \in Entries
    /\ wire \in [Owners -> Ids \cup {NoId}]
    /\ call \in [Owners -> Calls]
    /\ pending \in BOOLEAN /\ overlapped \in BOOLEAN
    /\ spent \in [crash : 0 .. MaxCrash, fail : 0 .. MaxFail, env : 0 .. MaxEnv]

Empty == [i \in Ids |-> Free]

VxInit ==
    /\ links = InitLinks /\ leaving = {}
    /\ index = "absent" /\ table = Empty /\ store = Empty
    /\ wire = [o \in Owners |-> NoId]
    /\ call = [o \in Owners |-> Idle]
    /\ pending = TRUE /\ overlapped = FALSE
    /\ spent = [crash |-> 0, fail |-> 0, env |-> 0]

Fail == spent.fail < MaxFail /\ spent' = [spent EXCEPT !.fail = @ + 1]
Goto(o, c) == call' = [call EXCEPT ![o] = c]

----------------------------------------------------------------------------
(* The calls of the wire controller *)

\* getEntriesByOwner
EntriesOf(o) == {i \in Ids : table[i] = o}

\* External: the table finds an entry without an owner.
FindFree == {i \in Ids : table[i] = Free}

\* Faulty: a claim that exists is not looked for.
ApplyHandlerNew(o) ==
    IF index = "ready" /\ FindFree # {}
    THEN \E i \in FindFree : Goto(o, [at |-> "set", id |-> i])
    ELSE Goto(o, Idle)

\* Faulty: the config map tells which ids are free.
ApplyHandlerStored(o) ==
    IF index # "ready" \/ \A i \in Ids : store[i] # Free THEN Goto(o, Idle)
    ELSE IF EntriesOf(o) # {} THEN \E i \in EntriesOf(o) : Goto(o, [at |-> "get", id |-> i])
    ELSE \E i \in {j \in Ids : store[j] = Free} : Goto(o, [at |-> "set", id |-> i])

\* ApplyHandler up to the Set: the entry of this owner, or else a free one.
\* There is no table before the index is initialised, an owner with several
\* entries is an error, and so is a full table.
ApplyHandler(o) ==
    IF index # "ready" \/ Cardinality(EntriesOf(o)) > 1 THEN Goto(o, Idle)
    ELSE IF EntriesOf(o) # {} THEN \E i \in EntriesOf(o) : Goto(o, [at |-> "get", id |-> i])
    ELSE IF FindFree # {} THEN \E i \in FindFree : Goto(o, [at |-> "set", id |-> i])
    ELSE Goto(o, Idle)

\* WireUpSert of a wire that is not cached; the reconciler serves one Link at
\* a time.
Claim(o) ==
    /\ o \in links /\ wire[o] = NoId /\ call[o] = Idle
    /\ \A p \in Owners : call[p] = Idle \/ wire[p] # NoId
    /\ ApplyHandler(o)
    /\ UNCHANGED <<links, index, table, store, wire, leaving, pending, overlapped, spent>>

\* Faulty: Claim answers without SaveAll.
SetEntryUnsaved(o) ==
    /\ call[o].at = "set"
    /\ table' = [table EXCEPT ![call[o].id] = o]
    /\ wire' = [wire EXCEPT ![o] = call[o].id] /\ Goto(o, Idle)
    /\ UNCHANGED <<links, index, store, leaving, pending, overlapped, spent>>

\* The new entry is set with the labels of its owner.
SetEntry(o) ==
    /\ call[o].at = "set"
    /\ table' = [table EXCEPT ![call[o].id] = o]
    /\ Goto(o, [at |-> "get", id |-> call[o].id])
    /\ UNCHANGED <<links, index, store, wire, leaving, pending, overlapped, spent>>

\* Every entry of the owner goes; none is no error.
DeleteHandler(o) == table' = [i \in Ids |-> IF i \in EntriesOf(o) THEN Free ELSE table[i]]

\* A wire to be deleted is settled.
DeleteClaim(o) ==
    /\ wire[o] # NoId /\ call[o] = Idle
    /\ leaving' = leaving \cup {o}
    /\ IF index = "ready"
       THEN DeleteHandler(o) /\ Goto(o, [at |-> "get", id |-> NoId])
       ELSE UNCHANGED <<table, call>>
    /\ UNCHANGED <<links, index, store, wire, pending, overlapped, spent>>

\* SaveAll asks for the data ...
GetData(o) ==
    /\ call[o].at = "get"
    /\ Goto(o, [at |-> "save", id |-> call[o].id, copy |-> table])
    /\ overlapped' = (overlapped \/ \E p \in Owners : call[p].at = "save" /\ p # o)
    /\ UNCHANGED <<links, index, table, store, wire, leaving, pending, spent>>

\* The call returns: the wire enters the cache with its id, or leaves it.
Returns(o) ==
    /\ wire' = [wire EXCEPT ![o] = call[o].id]
    /\ leaving' = leaving \ {o}
    /\ Goto(o, Idle)

\* ... and writes it.  A write that fails ends the call with the table changed.
SaveAll(o) ==
    /\ call[o].at = "save"
    /\ \/ store' = call[o].copy /\ Returns(o) /\ UNCHANGED spent
       \/ Fail /\ Goto(o, Idle) /\ UNCHANGED <<store, wire, leaving>>
    /\ UNCHANGED <<links, index, table, pending, overlapped>>

----------------------------------------------------------------------------
(* The controller of the VXLANIndex *)

\* restoreVXLANs: the stored claims of Links that still exist.  Every claim here
\* carries the labels of a Link; what belongs to another kind of owner is skipped.
Restored == [i \in Ids |-> IF store[i] \in links THEN store[i] ELSE Free]

\* An index that is initialised is left alone; any other is restored first.
CreateIndex ==
    \/ index = "ready" /\ UNCHANGED <<index, table>>
    \/ index # "ready" /\ index' = "ready" /\ table' = Restored

\* The restore fails: the instance is there and stays uninitialised.
CreateIndexFails == index # "ready" /\ Fail /\ index' = "created" /\ table' = Empty

\* Faulty: a failed CreateIndex is not retried.
ReconcileOnce ==
    /\ pending /\ pending' = FALSE
    /\ (CreateIndex /\ UNCHANGED spent) \/ CreateIndexFails
    /\ UNCHANGED <<links, store, wire, leaving, call, overlapped>>

\* The controller reports Ready even when CreateIndex failed; the change of the
\* condition queues the resource again.
Reconcile ==
    /\ pending
    /\ \/ CreateIndex /\ pending' = FALSE /\ UNCHANGED spent
       \/ CreateIndexFails /\ UNCHANGED pending
    /\ UNCHANGED <<links, store, wire, leaving, call, overlapped>>

\* Assumption on users, which the code does not check: the VXLANIndex is deleted
\* while no wire uses it.
Unused == \A o \in Owners : wire[o] = NoId /\ call[o] = Idle

\* DeleteIndex destroys the config map too.  The user creates the VXLANIndex again
\* later.
DeleteIndex ==
    /\ index = "ready" /\ Unused
    /\ spent.env < MaxEnv /\ spent' = [spent EXCEPT !.env = @ + 1]
    /\ index' = "absent" /\ table' = Empty /\ store' = Empty
    /\ pending' = TRUE
    /\ UNCHANGED <<links, wire, leaving, call, overlapped>>

----------------------------------------------------------------------------
(* The world around it *)

Crash ==
    /\ spent.crash < MaxCrash /\ spent' = [spent EXCEPT !.crash = @ + 1]
    /\ index' = "absent" /\ table' = Empty /\ pending' = TRUE
    /\ wire' = [o \in Owners |-> NoId] /\ leaving' = {}
    /\ call' = [o \in Owners |-> Idle]
    /\ UNCHANGED <<links, store, overlapped>>

\* A Link is created, or goes: its finalizer holds it as long as its wire is
\* cached, and the wire reconciler does not serve it any more.
LinkChange(o) ==
    /\ spent.env < MaxEnv /\ spent' = [spent EXCEPT !.env = @ + 1]
    /\ \/ o \notin links /\ links' = links \cup {o}
       \/ o \in links /\ wire[o] = NoId /\ call[o] = Idle /\ links' = links \ {o}
    /\ UNCHANGED <<index, table, store, wire, leaving, call, pending, overlapped>>

CallStep(o) == SetEntry(o) \/ GetData(o) \/ SaveAll(o)

VxNext ==
    \/ \E o \in Owners : Claim(o) \/ DeleteClaim(o) \/ CallStep(o) \/ LinkChange(o)
    \/ Reconcile \/ DeleteIndex \/ Crash

\* Calls run to their end, the work queue is served, and the reconciler asks
\* again for a Link that has no wire.
VxSpec ==
    /\ VxInit /\ [][VxNext]_vars
    /\ WF_vars(Reconcile)
    /\ \A o \in Owners : WF_vars(CallStep(o))
    /\ \A o \in Owners : SF_vars(Claim(o))

----------------------------------------------------------------------------
(* Properties *)

InUse(o) == wire[o] # NoId /\ o \notin leaving

\* Claim and DeleteClaim together are an allocator: whatever crashes, failing
\* stores and concurrent releases do, a claim returns an id that no wire in use has.
Allocator == INSTANCE IdAllocator WITH
    given <- [o \in Owners |-> IF InUse(o) THEN wire[o] ELSE NoId]
Allocates == Allocator!Spec

\* applyHandlerDynamicVXLAN refuses an owner with several entries, for ever:
\* no owner ever has two, restores and half-done claims included.
OneIdPerOwner == \A o \in Owners : Cardinality(EntriesOf(o)) <= 1

\* The claim of a wire in use is in the config map, so that a restart gives it
\* the id its hosts use, as long as no two calls save at the same time.
IdIsStored == ~overlapped => \A o \in Owners : InUse(o) => store[wire[o]] = o

\* Link o gets an id in the end unless other owners have all of them: an id that
\* a failing claim leaves behind goes to its owner's next claim.
Served(o) ==
    <>[](o \in links /\ \E i \in Ids : table[i] \in {o, Free}) => []<>(wire[o] # NoId)

============================================================================
