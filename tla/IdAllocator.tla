---------------------------- MODULE IdAllocator ----------------------------
(***************************************************************************)
(* What the VXLAN index promises to the wires: a wire that asks gets an id *)
(* that no other wire in use has, and keeps it until it gives it back or   *)
(* the controller restarts.                                                *)
(***************************************************************************)
CONSTANTS Owners, Ids, NoId

VARIABLE given   \* the id each wire in use has been given, or NoId

Init == given = [o \in Owners |-> NoId]

Give(o, i) ==
    /\ given[o] = NoId
    /\ \A p \in Owners : given[p] # i
    /\ given' = [given EXCEPT ![o] = i]

Take(o) == given' = [given EXCEPT ![o] = NoId]

Restart == given' = [o \in Owners |-> NoId]

Next ==
    \/ \E o \in Owners : Take(o) \/ \E i \in Ids : Give(o, i)
    \/ Restart

Spec == Init /\ [][Next]_given

============================================================================
