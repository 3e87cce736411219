-------------------------- MODULE VxlanIndexProofs --------------------------
(***************************************************************************)
(* Theorems about VxlanIndex, for any number of owners and ids.            *)
(*                                                                         *)
(* That no owner has two ids is not inductive: it depends on what the      *)
(* running calls are about to write, on the copies they took of the table, *)
(* and on the config map that a restart reads back.                        *)
(***************************************************************************)
EXTENDS VxlanIndex, FiniteSetTheorems, TLAPS

\* A table in which no owner has two ids.
OneEntryIn(t) == \A i, j \in Ids : t[i] # Free /\ t[i] = t[j] => i = j

\* Calls run, and wires exist, only while the index is initialised.
IndexServes == \A o \in Owners : call[o] # Idle \/ wire[o] # NoId => index = "ready"

\* The wire reconciler claims for one Link at a time.
OneClaim ==
    \A o, p \in Owners :
        /\ call[o] # Idle /\ wire[o] = NoId
        /\ call[p] # Idle /\ wire[p] = NoId
        => o = p

LeavingHasWire == \A o \in leaving : wire[o] # NoId

\* What a call is about to do is still right: the entry it will set is free and
\* its owner has none, the entry it has set is its owner's, and a call without id
\* is a release.
CallInv ==
    \A o \in Owners :
        /\ call[o].at = "set" =>
            /\ wire[o] = NoId /\ call[o].id \in Ids
            /\ table[call[o].id] = Free /\ \A i \in Ids : table[i] # o
        /\ call[o].at \in {"get", "save"} =>
            IF call[o].id = NoId THEN o \in leaving
            ELSE wire[o] = NoId /\ table[call[o].id] = o

CopyInv ==
    \A o \in Owners :
        call[o].at = "save" =>
            /\ OneEntryIn(call[o].copy)
            /\ call[o].id # NoId => call[o].copy[call[o].id] = o

EntryInv == OneEntryIn(table) /\ OneEntryIn(store)

\* A wire in use has the id that the table says.
UseInv == \A o \in Owners : InUse(o) => table[wire[o]] = o

\* Without overlapping saves, the copy that is being written has every wire in use.
SaveInv ==
    ~overlapped =>
        \A o, p \in Owners :
            call[o].at = "save" =>
                /\ call[p].at = "save" => o = p
                /\ InUse(p) => call[o].copy[wire[p]] = p

IInv ==
    /\ VxTypeOK /\ IndexServes /\ OneClaim /\ LeavingHasWire /\ CallInv
    /\ CopyInv /\ EntryInv /\ UseInv /\ SaveInv /\ IdIsStored

----------------------------------------------------------------------------
(* Calls *)

\* What the type of a call says of its fields.
LEMMA CallFields ==
    ASSUME NEW c \in Calls
    PROVE  /\ c.at \in {"idle", "set", "get", "save"}
           /\ c.at = "idle" <=> c = Idle
           /\ c.at # "idle" => c.id \in Ids \cup {NoId}
           /\ c.at = "save" => c.copy \in Entries
  BY DEF Calls, Idle

\* The records that the actions build are calls.
LEMMA CallTypes ==
    /\ Idle \in Calls
    /\ \A i \in Ids \cup {NoId} : [at |-> "set", id |-> i] \in Calls /\ [at |-> "get", id |-> i] \in Calls
    /\ \A i \in Ids \cup {NoId}, t \in Entries : [at |-> "save", id |-> i, copy |-> t] \in Calls
  BY DEF Calls, Idle

----------------------------------------------------------------------------
(* The initial states *)

\* The program starts with empty tables, no call and no wire.
LEMMA InitInv == VxInit => IInv
  <1> SUFFICES ASSUME VxInit PROVE IInv
    OBVIOUS
  <1>1. VxTypeOK
    <2>1. Empty \in Entries
      BY DEF Empty, Entries
    <2>2. spent \in [crash : 0 .. MaxCrash, fail : 0 .. MaxFail, env : 0 .. MaxEnv]
      BY VxlanAssumption DEF VxInit
    <2> QED
      BY <2>1, <2>2, VxlanAssumption, CallTypes DEF VxInit, VxTypeOK
  <1> QED
    BY <1>1 DEF VxInit, IInv, IndexServes, OneClaim, LeavingHasWire, CallInv, CopyInv, EntryInv,
       OneEntryIn, UseInv, SaveInv, IdIsStored, InUse, Idle, Empty

----------------------------------------------------------------------------
(* The steps *)

\* Every claim and release runs while the index is ready, and a claim is the only one.
LEMMA ClaimStep ==
    ASSUME IInv, NEW o \in Owners, Claim(o)
    PROVE  IInv'
  <1> USE VxlanAssumption DEF IInv
  <1> DEFINE Fits(c) ==
        \/ c = Idle
        \/ \E i \in Ids : c = [at |-> "get", id |-> i] /\ table[i] = o /\ index = "ready"
        \/ \E i \in Ids : /\ c = [at |-> "set", id |-> i] /\ table[i] = Free /\ index = "ready"
                          /\ \A j \in Ids : table[j] # o
  <1>1. PICK c : Goto(o, c) /\ Fits(c)
    <2>1. CASE index = "ready" /\ \E i \in EntriesOf(o) : Goto(o, [at |-> "get", id |-> i])
      BY <2>1 DEF EntriesOf
    <2>2. CASE Goto(o, Idle)
      BY <2>2
    <2>3. CASE /\ index = "ready" /\ EntriesOf(o) = {}
               /\ \E i \in FindFree : Goto(o, [at |-> "set", id |-> i])
      BY <2>3 DEF FindFree, EntriesOf
    <2> HIDE DEF Fits
    <2> QED BY <2>1, <2>2, <2>3 DEF Claim, ApplyHandler
  <1>2. c \in Calls /\ c.at \in {"idle", "get", "set"} /\ (c.at = "idle" => c = Idle)
    <2>1. c \in Calls
      BY <1>1, CallTypes
    <2> QED BY <1>1, <2>1, CallFields DEF Idle
  <1>3. call'[o] = c /\ \A p \in Owners : p # o => call'[p] = call[p]
    BY <1>1 DEF Goto, VxTypeOK
  <1>4. VxTypeOK'
    BY <1>1, <1>2 DEF Claim, VxTypeOK, Goto
  <1>5. (IndexServes /\ OneClaim /\ LeavingHasWire)'
    BY <1>1, <1>3 DEF Claim, IndexServes, OneClaim, LeavingHasWire
  <1>6. CallInv'
    <2>1. c.at = "set" =>
            c.id \in Ids /\ table[c.id] = Free /\ \A i \in Ids : table[i] # o
      BY <1>1 DEF Idle
    <2>2. c.at = "get" => c.id \in Ids /\ table[c.id] = o
      BY <1>1 DEF Idle
    <2> QED
      BY <1>2, <1>3, <2>1, <2>2 DEF Claim, CallInv
  <1>7. (CopyInv /\ EntryInv)'
    BY <1>2, <1>3 DEF Claim, CopyInv, EntryInv, OneEntryIn
  <1>8. (UseInv /\ SaveInv /\ IdIsStored)'
    BY <1>2, <1>3 DEF Claim, UseInv, SaveInv, IdIsStored, InUse
  <1> QED
    BY <1>4, <1>5, <1>6, <1>7, <1>8

\* The entry that SetEntry takes was free and its owner had none.
LEMMA SetEntryStep ==
    ASSUME IInv, NEW o \in Owners, SetEntry(o)
    PROVE  IInv'
  <1> USE VxlanAssumption DEF IInv
  <1> DEFINE i == call[o].id
  <1>1. /\ i \in Ids /\ wire[o] = NoId /\ call[o] # Idle /\ call[o].at = "set"
        /\ table[i] = Free /\ \A j \in Ids : table[j] # o
    BY DEF SetEntry, CallInv, Idle
  <1>2. /\ call'[o] = [at |-> "get", id |-> i]
        /\ call'[o].at = "get" /\ call'[o].id = i /\ call'[o] # Idle
        /\ \A p \in Owners : p # o => call'[p] = call[p]
        /\ table' \in Entries
        /\ table'[i] = o /\ \A j \in Ids : j # i => table'[j] = table[j]
    BY <1>1 DEF SetEntry, Goto, VxTypeOK, Idle, Entries
  <1>3. VxTypeOK'
    BY <1>1, <1>2, CallTypes DEF SetEntry, Goto, VxTypeOK
  <1> HIDE DEF i
  <1>4. (IndexServes /\ OneClaim /\ LeavingHasWire)'
    BY <1>1, <1>2 DEF SetEntry, IndexServes, OneClaim, LeavingHasWire
  <1>5. CallInv'
    <2> SUFFICES ASSUME NEW p \in Owners, p # o
                 PROVE  /\ call[p].at = "set" => FALSE
                        /\ call[p].at \in {"get", "save"} /\ call[p].id # NoId => FALSE
      BY <1>1, <1>2 DEF SetEntry, CallInv
    <2>1. call[p] # Idle /\ wire[p] = NoId => FALSE
      BY <1>1 DEF OneClaim
    <2>2. call[p].at # "idle" => call[p] # Idle
      BY DEF Idle
    <2> QED BY <2>1, <2>2 DEF CallInv
  <1>6. EntryInv'
    BY <1>1, <1>2 DEF SetEntry, EntryInv, OneEntryIn
  <1>7. CopyInv'
    BY <1>2 DEF SetEntry, CopyInv, OneEntryIn
  <1>8. UseInv'
    BY <1>1, <1>2 DEF SetEntry, UseInv, InUse, VxTypeOK
  <1>9. (SaveInv /\ IdIsStored)'
    BY <1>1, <1>2 DEF SetEntry, SaveInv, IdIsStored, InUse
  <1> QED
    BY <1>3, <1>4, <1>5, <1>6, <1>7, <1>8, <1>9

\* A release frees the entries of a wire that leaves the wires in use.
LEMMA DeleteClaimStep ==
    ASSUME IInv, NEW o \in Owners, DeleteClaim(o)
    PROVE  IInv'
  <1> USE VxlanAssumption DEF IInv
  <1>1. index = "ready" /\ wire[o] # NoId
    BY DEF DeleteClaim, IndexServes
  <1>2. /\ table' \in Entries
        /\ \A i \in Ids : table'[i] = IF table[i] = o THEN Free ELSE table[i]
    BY <1>1 DEF DeleteClaim, DeleteHandler, EntriesOf, VxTypeOK, Entries
  <1>3. /\ call'[o] = [at |-> "get", id |-> NoId]
        /\ call'[o].at = "get" /\ call'[o].id = NoId /\ call'[o] # Idle
        /\ \A p \in Owners : p # o => call'[p] = call[p]
    BY <1>1 DEF DeleteClaim, Goto, VxTypeOK, Idle
  <1>4. VxTypeOK'
    <2>1. call' \in [Owners -> Calls]
      <3>1. [at |-> "get", id |-> NoId] \in Calls
        BY CallTypes
      <3> QED BY <1>1, <3>1 DEF DeleteClaim, Goto, VxTypeOK
    <2> QED BY <1>2, <2>1 DEF DeleteClaim, VxTypeOK
  <1>5. (IndexServes /\ OneClaim /\ LeavingHasWire)'
    BY <1>1, <1>3 DEF DeleteClaim, IndexServes, OneClaim, LeavingHasWire
  <1>6. CallInv'
    BY <1>1, <1>2, <1>3, CallFields DEF DeleteClaim, CallInv, VxTypeOK
  <1>7. (CopyInv /\ EntryInv)'
    BY <1>2, <1>3 DEF DeleteClaim, CopyInv, EntryInv, OneEntryIn
  <1>8. UseInv'
    BY <1>1, <1>2 DEF DeleteClaim, UseInv, InUse, VxTypeOK
  <1>9. (SaveInv /\ IdIsStored)'
    BY <1>3 DEF DeleteClaim, SaveInv, IdIsStored, InUse
  <1> QED
    BY <1>4, <1>5, <1>6, <1>7, <1>8, <1>9

\* The copy has every wire in use, since the table has.
LEMMA GetDataStep ==
    ASSUME IInv, NEW o \in Owners, GetData(o)
    PROVE  IInv'
  <1> USE VxlanAssumption DEF IInv
  <1> DEFINE i == call[o].id
  <1>1. /\ call[o] \in Calls /\ call[o].at = "get" /\ i \in Ids \cup {NoId}
        /\ call[o] # Idle /\ table \in Entries
    BY CallFields DEF GetData, VxTypeOK
  <1>2. /\ call'[o] = [at |-> "save", id |-> i, copy |-> table]
        /\ call'[o].at = "save" /\ call'[o].id = i /\ call'[o].copy = table /\ call'[o] # Idle
        /\ \A p \in Owners : p # o => call'[p] = call[p]
    BY <1>1 DEF GetData, Goto, VxTypeOK, Idle
  <1>3. VxTypeOK'
    BY <1>1, CallTypes DEF GetData, Goto, VxTypeOK
  <1> HIDE DEF i
  <1>4. (IndexServes /\ OneClaim /\ LeavingHasWire)'
    BY <1>1, <1>2 DEF GetData, IndexServes, OneClaim, LeavingHasWire
  <1>5. CallInv'
    BY <1>1, <1>2 DEF i, GetData, CallInv
  <1>6. (CopyInv /\ EntryInv)'
    BY <1>1, <1>2 DEF i, GetData, CallInv, CopyInv, EntryInv, OneEntryIn
  <1>7. (UseInv /\ IdIsStored)'
    BY DEF GetData, UseInv, IdIsStored, InUse
  <1>8. SaveInv'
    BY <1>1, <1>2, ZenonT(60) DEF GetData, SaveInv, UseInv, InUse
  <1> QED
    BY <1>3, <1>4, <1>5, <1>6, <1>7, <1>8

\* A save that succeeds makes the stored table the copy; it is the only one unless
\* saves overlapped.
LEMMA SaveAllStep ==
    ASSUME IInv, NEW o \in Owners, SaveAll(o)
    PROVE  IInv'
  <1> USE VxlanAssumption DEF IInv
  <1>1. /\ call[o] \in Calls /\ call[o].at = "save" /\ call[o] # Idle
        /\ call[o].id \in Ids \cup {NoId} /\ call[o].copy \in Entries
    BY CallFields DEF SaveAll, VxTypeOK
  <1>2. /\ call' = [call EXCEPT ![o] = Idle]
        /\ call'[o] = Idle /\ call'[o].at = "idle"
        /\ \A p \in Owners : p # o => call'[p] = call[p]
    BY DEF SaveAll, Returns, Goto, VxTypeOK, Idle
  <1>3. UNCHANGED <<links, index, table, pending, overlapped>>
    BY DEF SaveAll
  <1>4. CASE /\ store' = call[o].copy /\ wire' = [wire EXCEPT ![o] = call[o].id]
             /\ leaving' = leaving \ {o} /\ UNCHANGED spent
    <2>1. /\ wire'[o] = call[o].id /\ o \notin leaving'
          /\ \A p \in Owners : p # o => wire'[p] = wire[p] /\ (p \in leaving' <=> p \in leaving)
      BY <1>4 DEF VxTypeOK
    <2>2. VxTypeOK'
      BY <1>1, <1>2, <1>3, <1>4, CallTypes DEF VxTypeOK
    <2>3. IndexServes'
      BY <1>1, <1>2, <1>3, <2>1 DEF IndexServes
    <2>4. (OneClaim /\ LeavingHasWire)'
      BY <1>2, <1>4, <2>1 DEF OneClaim, LeavingHasWire
    <2>5. CallInv'
      BY <1>2, <1>3, <2>1 DEF CallInv
    <2>6. (CopyInv /\ EntryInv)'
      BY <1>1, <1>2, <1>3, <1>4 DEF CopyInv, EntryInv, OneEntryIn
    <2>7. UseInv'
      BY <1>1, <1>3, <2>1 DEF CallInv, UseInv, InUse
    <2>8. SaveInv'
      BY <1>1, <1>2, <1>3, <2>1 DEF SaveInv, InUse
    <2>9. IdIsStored'
      BY <1>1, <1>3, <1>4, <2>1 DEF IdIsStored, SaveInv, CopyInv, InUse
    <2> QED
      BY <2>2, <2>3, <2>4, <2>5, <2>6, <2>7, <2>8, <2>9
  <1>5. CASE Fail /\ UNCHANGED <<store, wire, leaving>>
    <2>1. VxTypeOK'
      BY <1>2, <1>3, <1>5, CallTypes DEF VxTypeOK, Fail
    <2>2. (IndexServes /\ OneClaim /\ LeavingHasWire)'
      BY <1>2, <1>3, <1>5 DEF IndexServes, OneClaim, LeavingHasWire
    <2>3. (CallInv /\ CopyInv /\ EntryInv)'
      BY <1>2, <1>3, <1>5 DEF CallInv, CopyInv, EntryInv, OneEntryIn
    <2>4. (UseInv /\ SaveInv /\ IdIsStored)'
      BY <1>2, <1>3, <1>5 DEF UseInv, SaveInv, IdIsStored, InUse
    <2> QED BY <2>1, <2>2, <2>3, <2>4
  <1> QED
    BY <1>4, <1>5 DEF SaveAll, Returns

\* A restored table is part of the stored one; nothing runs before it is there.
LEMMA ReconcileStep ==
    ASSUME IInv, Reconcile
    PROVE  IInv'
  <1> USE VxlanAssumption DEF IInv
  <1>1. /\ UNCHANGED <<links, store, wire, leaving, call, overlapped>>
        /\ pending' \in BOOLEAN
    BY DEF Reconcile, VxTypeOK
  <1>2. CASE index = "ready" /\ UNCHANGED <<index, table, spent>>
    BY <1>1, <1>2 DEF IndexServes, OneClaim, LeavingHasWire, CallInv, CopyInv,
       EntryInv, OneEntryIn, UseInv, SaveInv, IdIsStored, InUse, VxTypeOK
  <1>3. CASE /\ index # "ready" /\ index' \in {"absent", "created", "ready"}
             /\ table' \in Entries /\ OneEntryIn(table)'
             /\ spent' \in [crash : 0 .. MaxCrash, fail : 0 .. MaxFail, env : 0 .. MaxEnv]
    <2>1. \A p \in Owners : call[p] = Idle /\ wire[p] = NoId /\ call[p].at = "idle"
      BY <1>3 DEF IndexServes, Idle
    <2>2. VxTypeOK'
      BY <1>1, <1>3 DEF VxTypeOK
    <2>3. (IndexServes /\ OneClaim /\ LeavingHasWire /\ CallInv /\ CopyInv)'
      BY <1>1, <2>1 DEF IndexServes, OneClaim, LeavingHasWire, CallInv, CopyInv
    <2>4. (EntryInv /\ UseInv /\ SaveInv /\ IdIsStored)'
      BY <1>1, <1>3, <2>1 DEF EntryInv, OneEntryIn, UseInv, SaveInv, IdIsStored, InUse
    <2> QED BY <2>2, <2>3, <2>4
  <1>4. CASE CreateIndex /\ UNCHANGED spent /\ index # "ready"
    <2>1. Restored \in Entries /\ \A i, j \in Ids : Restored[i] # Free /\ Restored[i] = Restored[j] => i = j
      BY DEF Restored, VxTypeOK, Entries, EntryInv, OneEntryIn
    <2> QED
      BY <1>3, <1>4, <2>1 DEF CreateIndex, OneEntryIn, VxTypeOK
  <1>5. CASE CreateIndexFails
    <2>1. Empty \in Entries /\ \A i \in Ids : Empty[i] = Free
      BY DEF Empty, Entries
    <2> QED
      BY <1>3, <1>5, <2>1 DEF CreateIndexFails, Fail, OneEntryIn, VxTypeOK
  <1> QED
    BY <1>2, <1>4, <1>5 DEF Reconcile, CreateIndex

\* Nothing runs and no wire is there: what is left to see is that the tables are.
LEMMA QuietStep ==
    ASSUME VxTypeOK', EntryInv', leaving' = {},
           \A o \in Owners : call'[o] = Idle /\ wire'[o] = NoId
    PROVE  IInv'
  <1>1. \A o \in Owners : call'[o].at = "idle"
    BY DEF Idle
  <1> QED
    BY <1>1 DEF IInv, IndexServes, OneClaim, LeavingHasWire, CallInv, CopyInv, UseInv,
       SaveInv, IdIsStored, InUse

\* An index is deleted while no wire uses it, a restart loses everything but the
\* config map.
LEMMA LossStep ==
    ASSUME IInv, DeleteIndex \/ Crash
    PROVE  IInv'
  <1> USE VxlanAssumption DEF IInv
  <1>1. Empty \in Entries /\ \A i \in Ids : Empty[i] = Free
    BY DEF Empty, Entries
  <1>2. CASE DeleteIndex
    <2>1. VxTypeOK'
      BY <1>1, <1>2 DEF DeleteIndex, VxTypeOK
    <2>2. EntryInv'
      BY <1>1, <1>2 DEF DeleteIndex, EntryInv, OneEntryIn
    <2>3. leaving' = {}
      BY <1>2 DEF DeleteIndex, Unused, LeavingHasWire, VxTypeOK
    <2> QED
      BY <1>2, <2>1, <2>2, <2>3, QuietStep DEF DeleteIndex, Unused
  <1>3. CASE Crash
    <2>1. VxTypeOK'
      BY <1>1, <1>3, CallTypes DEF Crash, VxTypeOK
    <2>2. EntryInv'
      BY <1>1, <1>3 DEF Crash, EntryInv, OneEntryIn
    <2> QED
      BY <1>3, <2>1, <2>2, QuietStep DEF Crash
  <1> QED BY <1>2, <1>3

\* Neither a change of Links nor a stuttering step touches the index.
LEMMA OtherStep ==
    ASSUME IInv, (\E o \in Owners : LinkChange(o)) \/ UNCHANGED vars
    PROVE  IInv'
  <1> USE VxlanAssumption DEF IInv
  <1>1. /\ VxTypeOK'
        /\ UNCHANGED <<index, table, store, wire, leaving, call, overlapped>>
    BY DEF LinkChange, vars, VxTypeOK
  <1> QED
    BY <1>1 DEF IndexServes, OneClaim, LeavingHasWire, CallInv, CopyInv, EntryInv,
       OneEntryIn, UseInv, SaveInv, IdIsStored, InUse

\* The invariant is inductive.
LEMMA NextInv ==
    ASSUME IInv, [VxNext]_vars
    PROVE  IInv'
  BY ClaimStep, SetEntryStep, DeleteClaimStep, GetDataStep, SaveAllStep, ReconcileStep,
     LossStep, OtherStep DEF VxNext, CallStep

LEMMA Invariance == VxSpec => []IInv
  BY InitInv, NextInv, PTL DEF VxSpec

----------------------------------------------------------------------------
(* The theorems *)

\* Types of the table, the config map and the calls.
THEOREM TypeCorrect == VxSpec => []VxTypeOK
  <1>1. IInv => VxTypeOK
    BY DEF IInv
  <1> QED BY <1>1, Invariance, PTL

\* Whatever fails or restarts, no owner ever has two ids: the claim of
\* applyHandlerDynamicVXLAN is never refused for that reason.
THEOREM OwnersHaveOneId == VxSpec => []OneIdPerOwner
  <1>1. IInv => OneIdPerOwner
    <2> SUFFICES ASSUME IInv, NEW o \in Owners PROVE Cardinality(EntriesOf(o)) <= 1
      BY DEF OneIdPerOwner
    <2>1. \A i, j \in EntriesOf(o) : i = j
      BY VxlanAssumption DEF IInv, EntryInv, OneEntryIn, EntriesOf
    <2>2. CASE EntriesOf(o) = {}
      BY <2>2, FS_EmptySet
    <2>3. CASE \E i : i \in EntriesOf(o)
      <3> PICK i : i \in EntriesOf(o)
        BY <2>3
      <3>1. EntriesOf(o) = {i}
        BY <2>1
      <3>2. Cardinality({i}) = 1
        BY FS_Singleton
      <3> QED BY <3>1, <3>2
    <2> QED BY <2>2, <2>3
  <1> QED BY <1>1, Invariance, PTL

\* A wire in use finds its id in the config map after a restart, as long as no two
\* saves overlapped.
THEOREM IdsAreStored == VxSpec => []IdIsStored
  <1>1. IInv => IdIsStored
    BY DEF IInv
  <1> QED BY <1>1, Invariance, PTL

\* The index implements the allocator: a claim that returns gives the wire an id
\* that no other wire in use has, a release takes it, a restart takes all, and
\* every other step leaves the wires in use alone.
THEOREM IndexAllocates == VxSpec => Allocates
  <1> USE VxlanAssumption
  <1> DEFINE given == [o \in Owners |-> IF InUse(o) THEN wire[o] ELSE NoId]
  <1>1. VxInit => Allocator!Init
    BY DEF VxInit, Allocator!Init, InUse
  <1>2. ASSUME IInv, [VxNext]_vars
        PROVE  [Allocator!Next]_given
    <2> SUFFICES ASSUME VxNext PROVE Allocator!Next \/ given' = given
      BY <1>2 DEF vars, InUse
    <2>1. ASSUME NEW o \in Owners, DeleteClaim(o)
          PROVE  Allocator!Take(o)
      BY <2>1 DEF DeleteClaim, InUse, Allocator!Take
    <2>2. ASSUME NEW o \in Owners, SaveAll(o), call[o].id # NoId, wire' # wire
          PROVE  \E i \in Ids : Allocator!Give(o, i)
      <3> DEFINE i == call[o].id
      <3>1. /\ i \in Ids /\ wire[o] = NoId /\ table[i] = o
            /\ wire' = [wire EXCEPT ![o] = i] /\ leaving' = leaving \ {o}
        BY <1>2, <2>2, CallFields DEF IInv, VxTypeOK, CallInv, SaveAll, Returns
      <3>2. given[o] = NoId /\ \A p \in Owners : given[p] # i
        BY <1>2, <3>1 DEF IInv, UseInv, InUse
      <3>3. given' = [given EXCEPT ![o] = i]
        BY <1>2, <3>1 DEF IInv, VxTypeOK, InUse
      <3> QED BY <3>1, <3>2, <3>3 DEF Allocator!Give
    <2>3. ASSUME NEW o \in Owners, SaveAll(o), call[o].id = NoId \/ wire' = wire
          PROVE  given' = given
      <3>1. wire' = wire /\ leaving' = leaving => given' = given
        BY DEF InUse
      <3>2. ASSUME Returns(o), call[o].id = NoId PROVE given' = given
        BY <1>2, <2>3, <3>2 DEF IInv, VxTypeOK, CallInv, SaveAll, Returns, InUse
      <3>3. ASSUME Returns(o), call[o].id # NoId PROVE FALSE
        BY <1>2, <2>3, <3>3 DEF IInv, VxTypeOK, CallInv, SaveAll, Returns
      <3> QED BY <2>3, <3>1, <3>2, <3>3 DEF SaveAll
    <2>4. ASSUME Crash PROVE Allocator!Restart
      BY <2>4 DEF Crash, InUse, Allocator!Restart
    <2>5. UNCHANGED <<wire, leaving>> => given' = given
      BY DEF InUse
    <2>6. ASSUME NEW o \in Owners, Claim(o) \/ SetEntry(o) \/ GetData(o) \/ LinkChange(o)
          PROVE  UNCHANGED <<wire, leaving>>
      BY <2>6 DEF Claim, SetEntry, GetData, LinkChange
    <2>7. Reconcile \/ DeleteIndex => UNCHANGED <<wire, leaving>>
      BY DEF Reconcile, DeleteIndex
    <2> HIDE DEF given
    <2> QED
      BY <2>1, <2>2, <2>3, <2>4, <2>5, <2>6, <2>7 DEF VxNext, CallStep, Allocator!Next
  <1> QED
    BY <1>1, <1>2, Invariance, PTL DEF VxSpec, Allocates, Allocator!Spec

============================================================================
