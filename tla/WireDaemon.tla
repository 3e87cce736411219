----------------------------- MODULE WireDaemon -----------------------------
(***************************************************************************)
(* The wire daemon of one host, netlink call by netlink call.              *)
(*                                                                         *)
(* An endpoint is a veth pair: one end in the pod, the other on the host.  *)
(* A wire connects the host ends of two pairs, or of a pair and a tunnel,  *)
(* with an XDP program and its device map.  The gRPC server runs the calls *)
(* concurrently and nothing is locked: a worker that was replaced leaves   *)
(* its call running beside the calls of the next.                          *)
(*                                                                         *)
(* A call is the sequence of netlink steps it still has to make, with what *)
(* it holds: the path of the pod's namespace and the links it looked up or *)
(* made, each TRUE as long as it is still the one that is there.           *)
(***************************************************************************)
EXTENDS Integers, Sequences

CONSTANTS
    Veths,      \* endpoints of this host, named as the host end of their pair
    Servers,    \* those of a server: both ends of the pair stay on the host
    Tunnel,     \* the tunnel of a wire whose other end is remote
    Placements, \* the two links of the wire, and the calls that can run at the same time
    None,       \* no link
    EpCalls,    \* endpoint calls
    WireCalls,  \* wire calls
    MaxEvents   \* bound: failing calls, restarts, deletions and changes of mind

Links == Veths \cup {Tunnel}
Slots == EpCalls \cup WireCalls

ASSUME DaemonAssumption ==
    /\ Servers \subseteq Veths /\ Tunnel \notin Veths /\ None \notin Links /\ EpCalls \cap WireCalls = {}
    /\ Placements \subseteq [ends : Links \X Links, calls : SUBSET Slots] /\ MaxEvents \in Nat

\* The pod's end of a pair: on the host under a random name, in the pod under
\* that name, in the pod under its own name, and this with the host end up.  A
\* server's has its own name from the start; "named" is that it is up.
Ends == {"none", "host", "moved", "named", "done"}

\* The calls; a step of a wire call names the end of the wire it is about.  What
\* only reads is part of the step after it.
EpUpSert == << <<"check">>, <<"create">>, <<"move">>, <<"rename">>, <<"up">> >>
EpDelete == << <<"deleteIn">>, <<"deleteOut">> >>
Deploy == << <<"deploy">>, <<"look">>, <<"put", 1>>, <<"attach", 1>>, <<"put", 2>>, <<"attach", 2>> >>
Destroy == << <<"detach", 1>>, <<"erase", 1>>, <<"detach", 2>>, <<"erase", 2>>, <<"destroy">> >>
Programs == {EpUpSert, EpDelete, Deploy, Destroy}
Suffixes == {SubSeq(p, k, Len(p)) : p \in Programs, k \in 1 .. 7}
Idle == [op |-> "none", v |-> None, todo |-> <<>>, ok |-> FALSE,
         ns |-> FALSE, own |-> FALSE, a |-> FALSE, b |-> FALSE]

VARIABLES
    wire,   \* the links of the wire
    slots,  \* the calls that can run
    want,   \* what the controller wants of it: "create" or "delete"
    pod,    \* veths whose pod is there; a server always is
    link,   \* host links that are there
    inner,  \* the pod's end of each pair
    prog,   \* the program attached to a link: "none", "new" or, of a former process, "old"
    xmap,   \* the device map of this process
    xold,   \* that of the former process whose program is attached
    call,   \* the calls
    answer, \* the last answer to a wire call; same: the links are the ones it found
    mixed,  \* history: the last create and delete of the wire overlapped
    hung,   \* history: pairs that an error or a restart left, and nobody deleted since
    used

vars == <<wire, slots, want, pod, link, inner, prog, xmap, xold, call, answer, mixed, hung, used>>
dev == <<link, inner, prog, xmap, xold>>

\* The ends of the wire that are on this host.
Local == Veths \cap {wire[1], wire[2]}
NoAnswer == [op |-> "none", ok |-> FALSE, same |-> FALSE]

DaemonInit ==
    /\ \E p \in Placements : wire = p.ends /\ slots = p.calls
    /\ want = "create"
    /\ pod = Local /\ link = {} /\ inner = [v \in Veths |-> "none"]
    /\ prog = [l \in Links |-> "none"]
    /\ xmap = [l \in Links |-> None] /\ xold = [l \in Links |-> None]
    /\ call = [s \in Slots |-> Idle] /\ answer = NoAnswer
    /\ mixed = FALSE /\ hung = {} /\ used = 0

Spend == used < MaxEvents /\ used' = used + 1
At(s, step) == call[s].todo # <<>> /\ Head(call[s].todo)[1] = step
End(s) == Head(call[s].todo)[2]

\* What a call holds of links that go is not the link there any more.
Forget(c, lost) ==
    [c EXCEPT !.own = @ /\ c.v \notin lost, !.a = @ /\ wire[1] \notin lost, !.b = @ /\ wire[2] \notin lost]

\* External: links go, a pair with both ends; the device maps drop entries for them.
Remove(lost) ==
    /\ link' = link \ lost
    /\ inner' = [v \in Veths |-> IF v \in lost THEN "none" ELSE inner[v]]
    /\ prog' = [l \in Links |-> IF l \in lost THEN "none" ELSE prog[l]]
    /\ xmap' = [l \in Links |-> IF {l, xmap[l]} \cap lost # {} THEN None ELSE xmap[l]]
    /\ xold' = [l \in Links |-> IF {l, xold[l]} \cap lost # {} THEN None ELSE xold[l]]
    /\ hung' = hung \ lost
    /\ answer' = [answer EXCEPT !.same = @ /\ wire[1] \notin lost /\ wire[2] \notin lost]

\* createTunnel: the tunnel among the missing links is added.
createTunnel(missing) == link' = link \cup (missing \cap {Tunnel})

\* deleteItfce: a link that is not there is no error.
deleteItfce(ls) == ls \cap link

\* Call s becomes c while the links in lost go.
Becomes(s, c, lost) == call' = [x \in Slots |-> Forget(IF x = s THEN c ELSE call[x], lost)]

Passed(s) == [call[s] EXCEPT !.todo = Tail(@)]
Jump(s) == [call[s] EXCEPT !.todo = Tail(Tail(@))]
Done(s) == [call[s] EXCEPT !.todo = <<>>]
Failed(s) == [Done(s) EXCEPT !.ok = FALSE]

\* The step ends: the call goes on, or fails for a reason or for no reason.
Proceeds(s) == Becomes(s, Passed(s), {}) /\ UNCHANGED used
Errs(s, reason) ==
    /\ (reason /\ UNCHANGED used) \/ Spend
    /\ Becomes(s, Failed(s), {}) /\ UNCHANGED <<dev, answer>>

----------------------------------------------------------------------------
(* Endpoint calls *)

\* EndpointUpSert, after getContainerNsPath found the container; for a pair that is
\* whole it does nothing.
StartUpSert(s, v) ==
    /\ s \in EpCalls \cap slots /\ call[s] = Idle /\ v \in pod /\ inner[v] # "done"
    /\ call' = [call EXCEPT ![s] = [Idle EXCEPT !.op = "upsert", !.v = v, !.todo = EpUpSert,
                                                !.ok = TRUE, !.ns = TRUE]]
    /\ UNCHANGED <<dev, answer, hung, used>>

\* EndpointDelete, which the wire controller does not send today.
StartDelete(s, v) ==
    /\ s \in EpCalls \cap slots /\ call[s] = Idle /\ v \in pod /\ Spend
    /\ call' = [call EXCEPT ![s] = [Idle EXCEPT !.op = "delete", !.v = v, !.todo = EpDelete,
                                                !.ok = TRUE, !.ns = TRUE]]
    /\ UNCHANGED <<dev, answer, hung>>

\* "if 1 end exists the ep2node veth pair exists".
CheckPair(s) ==
    LET v == call[s].v IN
    /\ At(s, "check")
    /\ Becomes(s, IF v \in link THEN Done(s) ELSE Passed(s), {})
    /\ UNCHANGED <<dev, answer, hung, used>>

\* createVethPair: the name of the host end may be taken by now; the pair stays if
\* it is made and its host end cannot be looked up.  A server's is not moved.
CreateVethPair(s) ==
    LET v == call[s].v
        next == IF v \in Servers THEN Jump(s) ELSE Passed(s)
        Made == link' = link \cup {v} /\ inner' = [inner EXCEPT ![v] = "host"]
                /\ UNCHANGED <<prog, xmap, xold, answer>> IN
    /\ At(s, "create")
    /\ \/ v \notin link /\ Made /\ Becomes(s, [next EXCEPT !.own = TRUE], {}) /\ UNCHANGED <<hung, used>>
       \/ v \notin link /\ Made /\ Becomes(s, Failed(s), {}) /\ hung' = hung \cup {v} /\ Spend
       \/ Errs(s, v \in link) /\ UNCHANGED hung

\* Faulty: the pair stays when its end cannot be moved.
AddIfInNSLeaving(s) ==
    LET v == call[s].v IN
    /\ At(s, "move")
    /\ \/ /\ call[s].ns /\ call[s].own
          /\ inner' = [inner EXCEPT ![v] = "moved"]
          /\ Proceeds(s) /\ UNCHANGED <<link, prog, xmap, xold, answer>>
       \/ Errs(s, ~call[s].ns \/ ~call[s].own)
    /\ UNCHANGED hung

\* addIfInNS up to the move.  An error deletes the pair this call made; that the
\* deletion fails too is only logged.
AddIfInNS(s) ==
    LET v == call[s].v
        fits == call[s].ns /\ call[s].own
        lost == IF call[s].own THEN {v} ELSE {} IN
    /\ At(s, "move")
    /\ \/ /\ fits /\ inner' = [inner EXCEPT ![v] = "moved"]
          /\ Proceeds(s) /\ UNCHANGED <<link, prog, xmap, xold, answer, hung>>
       \/ /\ (~fits /\ UNCHANGED used) \/ Spend
          /\ Becomes(s, Failed(s), lost) /\ Remove(lost)
       \/ Errs(s, FALSE) /\ hung' = hung \cup lost

\* setIfNameAndUp in the pod (setItfceUp for a server), then setItfceUp on the host.  An end that has moved
\* is not found by the LinkDel that follows an error, and an error of the second
\* deletes nothing: the pair stays as it is.
SetIfNameAndUp(s) ==
    LET v == call[s].v IN
    \/ /\ At(s, "rename") /\ call[s].own
       /\ inner' = [inner EXCEPT ![v] = "named"] /\ Proceeds(s)
       /\ UNCHANGED <<link, prog, xmap, xold, answer, hung>>
    \/ /\ At(s, "up") /\ call[s].own
       /\ inner' = [inner EXCEPT ![v] = "done"] /\ Proceeds(s)
       /\ UNCHANGED <<link, prog, xmap, xold, answer, hung>>
    \/ /\ At(s, "rename") \/ At(s, "up")
       /\ Errs(s, ~call[s].own)
       /\ hung' = IF call[s].own THEN hung \cup {v} ELSE hung

\* deleteIfInNS and deleteItfce: what is not there is no error.
DestroyEp2Node(s) ==
    LET v == call[s].v
        found == v \in Servers \/ (call[s].ns /\ inner[v] \in {"named", "done"})
        lost == IF At(s, "deleteIn") /\ ~found THEN {} ELSE deleteItfce({v}) IN
    /\ At(s, "deleteIn") \/ At(s, "deleteOut")
    /\ \/ Remove(lost) /\ Becomes(s, Passed(s), lost) /\ UNCHANGED used
       \/ Errs(s, FALSE) /\ UNCHANGED hung

EpStep(s) ==
    \/ CheckPair(s) \/ CreateVethPair(s) \/ AddIfInNS(s) \/ SetIfNameAndUp(s) \/ DestroyEp2Node(s)

----------------------------------------------------------------------------
(* Wire calls *)

\* WireUpSert and WireDelete, as the controller wants at that time; it repeats
\* them until it has an OK.
StartWire(s) ==
    /\ s \in WireCalls \cap slots /\ call[s] = Idle
    /\ answer.op # want \/ ~answer.ok
    /\ call' = [call EXCEPT ![s] = [Idle EXCEPT !.op = want, !.ok = TRUE,
                                       !.todo = IF want = "create" THEN Deploy ELSE Destroy]]
    /\ mixed' = \E x \in WireCalls \ {s} : call[x] # Idle /\ (mixed \/ call[x].op # want)
    /\ UNCHANGED <<dev, answer, used>>

\* Faulty: a tunnel is made without looking for it.
DeployNode2NodeAgain(s) ==
    LET missing == {wire[1], wire[2]} \ link IN
    /\ At(s, "deploy")
    /\ \/ /\ missing = {wire[1], wire[2]} \cap {Tunnel} /\ createTunnel(missing)
          /\ Proceeds(s) /\ UNCHANGED <<inner, prog, xmap, xold, answer>>
       \/ Errs(s, missing # {wire[1], wire[2]} \cap {Tunnel})

\* DeployNode2Node for both ends: the host end of a local endpoint has to be there; a
\* tunnel is made if it is not, and stays if the other end is missing.
DeployNode2Node(s) ==
    LET missing == {wire[1], wire[2]} \ link IN
    /\ At(s, "deploy")
    /\ \/ /\ missing \subseteq {Tunnel} /\ createTunnel(missing)
          /\ Proceeds(s) /\ UNCHANGED <<inner, prog, xmap, xold, answer>>
       \/ /\ wire[1] = Tunnel /\ wire[2] \notin link /\ createTunnel({Tunnel})
          /\ Becomes(s, Failed(s), {}) /\ UNCHANGED <<inner, prog, xmap, xold, answer, used>>
       \/ Errs(s, ~(missing \subseteq {Tunnel}))

\* LinkByName of both.
LookUp(s) ==
    /\ At(s, "look")
    /\ \/ /\ {wire[1], wire[2]} \subseteq link /\ UNCHANGED <<dev, answer, used>>
          /\ Becomes(s, [Passed(s) EXCEPT !.a = TRUE, !.b = TRUE], {})
       \/ Errs(s, ~({wire[1], wire[2]} \subseteq link))

Holds(s, i) == IF i = 1 THEN call[s].a ELSE call[s].b

\* UpsertXConnectBPFMap: the entry, then the program.  An entry of a link that is
\* gone is kept under an index that nobody has.
PutXConnect(s) ==
    LET i == End(s) IN
    /\ At(s, "put")
    /\ \/ /\ Holds(s, 3 - i)
          /\ xmap' = IF Holds(s, i) THEN [xmap EXCEPT ![wire[i]] = wire[3 - i]] ELSE xmap
          /\ Proceeds(s) /\ UNCHANGED <<link, inner, prog, xold, answer>>
       \/ Errs(s, ~Holds(s, 3 - i))

\* Faulty: the program is attached to one end only.
AttachOne(s) ==
    LET i == End(s) IN
    /\ At(s, "attach")
    /\ \/ /\ Holds(s, i) /\ prog' = [prog EXCEPT ![wire[1]] = "new"]
          /\ Proceeds(s) /\ UNCHANGED <<link, inner, xmap, xold, answer>>
       \/ Errs(s, ~Holds(s, i))

Attach(s) ==
    LET i == End(s) IN
    /\ At(s, "attach")
    /\ \/ /\ Holds(s, i) /\ prog' = [prog EXCEPT ![wire[i]] = "new"]
          /\ Proceeds(s) /\ UNCHANGED <<link, inner, xmap, xold, answer>>
       \/ Errs(s, ~Holds(s, i))

\* Faulty: a link that is gone ends the deletion.
DetachEnding(s) ==
    LET l == wire[End(s)] IN
    /\ At(s, "detach")
    /\ \/ /\ l \notin link /\ Becomes(s, Done(s), {}) /\ UNCHANGED <<dev, answer, used>>
       \/ /\ l \in link /\ prog' = [prog EXCEPT ![l] = "none"]
          /\ Proceeds(s) /\ UNCHANGED <<link, inner, xmap, xold, answer>>
       \/ Errs(s, FALSE)

\* "only if link exists we need to disconnect".  DeleteXConnectBPFMap: the program,
\* then the entry, which need not be there.
Detach(s) ==
    LET l == wire[End(s)] IN
    /\ At(s, "detach")
    /\ \/ /\ l \notin link /\ Becomes(s, Jump(s), {}) /\ UNCHANGED <<dev, answer, used>>
       \/ /\ l \in link /\ prog' = [prog EXCEPT ![l] = "none"]
          /\ Becomes(s, [Passed(s) EXCEPT !.a = @ \/ End(s) = 1, !.b = @ \/ End(s) = 2], {})
          /\ UNCHANGED <<link, inner, xmap, xold, answer, used>>
       \/ Errs(s, FALSE)

EraseXConnect(s) ==
    LET i == End(s) IN
    /\ At(s, "erase")
    /\ \/ /\ xmap' = IF Holds(s, i) THEN [xmap EXCEPT ![wire[i]] = None] ELSE xmap
          /\ Proceeds(s) /\ UNCHANGED <<link, inner, prog, xold, answer>>
       \/ Errs(s, FALSE)

\* DestroyNode2Node for both ends: only a tunnel is deleted.
DestroyNode2Node(s) ==
    LET lost == deleteItfce({wire[1], wire[2]} \cap {Tunnel}) IN
    /\ At(s, "destroy")
    /\ \/ Remove(lost) /\ Becomes(s, Passed(s), lost) /\ UNCHANGED used
       \/ lost # {} /\ Errs(s, FALSE)

WireStep(s) ==
    \/ DeployNode2Node(s) \/ LookUp(s) \/ PutXConnect(s) \/ Attach(s)
    \/ Detach(s) \/ EraseXConnect(s) \/ DestroyNode2Node(s)

\* The call returns.
Answer(s) ==
    /\ call[s] # Idle /\ call[s].todo = <<>>
    /\ call' = [call EXCEPT ![s] = Idle]
    /\ answer' = IF s \in WireCalls
                 THEN [op |-> call[s].op, ok |-> call[s].ok, same |-> call[s].op = "create" /\ call[s].a /\ call[s].b]
                 ELSE answer
    /\ UNCHANGED <<dev, hung, used>>

----------------------------------------------------------------------------
(* The world around it *)

\* A pod goes, and every interface in it; or it is back, and the controller's pod
\* callback resolves the wire anew: what was answered before does not count.
PodChange(v) ==
    LET lost == IF inner[v] \in {"moved", "named", "done"} THEN {v} ELSE {} IN
    \/ /\ v \in pod \ Servers /\ Spend
       /\ pod' = pod \ {v} /\ Remove(lost)
       /\ call' = [s \in Slots |-> Forget([call[s] EXCEPT !.ns = @ /\ call[s].v # v], lost)]
    \/ /\ v \notin pod /\ pod' = pod \cup {v} /\ answer' = NoAnswer
       /\ UNCHANGED <<dev, call, hung, used>>

\* The daemon restarts with an empty map.  Attached programs go on with the map
\* they were loaded with; calls that had made a pair leave it as it is.
Crash ==
    /\ Spend
    /\ xold' = [l \in Links |-> IF prog[l] = "new" THEN xmap[l] ELSE xold[l]]
    /\ prog' = [l \in Links |-> IF prog[l] = "new" THEN "old" ELSE prog[l]]
    /\ xmap' = [l \in Links |-> None]
    /\ call' = [s \in Slots |-> Idle] /\ mixed' = FALSE /\ answer' = NoAnswer
    /\ hung' = hung \cup {call[s].v : s \in {x \in EpCalls :
                  call[x].own /\ (At(x, "move") \/ At(x, "rename") \/ At(x, "up"))}}
    /\ UNCHANGED <<wire, slots, want, pod, link, inner>>

\* SetDesiredAction of the controller's wire cache: it changes its mind.
ChangeWant ==
    /\ Spend /\ want' = IF want = "create" THEN "delete" ELSE "create"
    /\ UNCHANGED <<wire, slots, pod, dev, call, answer, mixed, hung>>

Ep(s) == EpStep(s) \/ (s \in EpCalls /\ Answer(s))
Wire(s) == WireStep(s) \/ (s \in WireCalls /\ Answer(s))

DaemonNext ==
    \/ /\ \E s \in EpCalls : \/ Ep(s)
                             \/ \E v \in Local : StartUpSert(s, v) \/ StartDelete(s, v)
       /\ UNCHANGED <<wire, slots, want, pod, mixed>>
    \/ /\ \E s \in WireCalls : Wire(s)
       /\ UNCHANGED <<wire, slots, want, pod, mixed, hung>>
    \/ \E s \in WireCalls : StartWire(s) /\ UNCHANGED <<wire, slots, want, pod, hung>>
    \/ \E v \in Local : PodChange(v) /\ UNCHANGED <<wire, slots, want, mixed>>
    \/ Crash \/ ChangeWant

\* Calls run to their end, and the controller repeats a wire call until it has an OK.
DaemonSpec ==
    /\ DaemonInit /\ [][DaemonNext]_vars
    /\ \A s \in EpCalls : WF_vars(Ep(s) /\ UNCHANGED <<wire, slots, want, pod, mixed>>)
    /\ \A s \in WireCalls :
        /\ WF_vars(Wire(s) /\ UNCHANGED <<wire, slots, want, pod, mixed, hung>>)
        /\ WF_vars(StartWire(s) /\ UNCHANGED <<wire, slots, want, pod, hung>>)

----------------------------------------------------------------------------
(* Properties *)

\* Types of the links, the maps and the calls of the daemon.
DaemonTypeOK ==
    /\ [ends |-> wire, calls |-> slots] \in Placements /\ want \in {"create", "delete"}
    /\ pod \subseteq Veths /\ link \subseteq Links /\ hung \subseteq Veths
    /\ inner \in [Veths -> Ends] /\ \A v \in Veths : v \in link <=> inner[v] # "none"
    /\ prog \in [Links -> {"none", "new", "old"}]
    /\ xmap \in [Links -> Links \cup {None}] /\ xold \in [Links -> Links \cup {None}]
    /\ call \in [Slots -> [op : {"none", "upsert", "create", "delete"}, v : Veths \cup {None},
                           todo : Suffixes \cup {<<>>}, ok : BOOLEAN,
                           ns : BOOLEAN, own : BOOLEAN, a : BOOLEAN, b : BOOLEAN]]
    /\ answer \in [op : {"none", "create", "delete"}, ok : BOOLEAN, same : BOOLEAN]
    /\ mixed \in BOOLEAN /\ used \in 0 .. MaxEvents

\* Where the frames that enter a link go.
Peer(l) == CASE prog[l] = "new" -> xmap[l] [] prog[l] = "old" -> xold[l] [] OTHER -> None
Connected == Peer(wire[1]) = wire[2] /\ Peer(wire[2]) = wire[1]
AtRest == \A s \in WireCalls : call[s] = Idle

\* A pair without a running call is whole: an upsert that cannot finish takes
\* back what it made, and one that finds the pair of another upsert relies on it.
\* Excepted is a pair, as long as it is that one, after whose making a lookup, a
\* deletion or a step past the move failed, or the daemon restarted: the code
\* leaves it, and later upserts take it for whole.
PairIsWhole ==
    \A v \in link \cap Veths : v \notin hung /\ (\A s \in EpCalls : call[s].v # v) => inner[v] = "done"

\* OK means connected in both directions, as long as both links are the ones the
\* call found: although pods, the daemon or an older call may have come between
\* its steps.
OkIsConnected ==
    AtRest /\ ~mixed /\ answer.op = "create" /\ answer.ok /\ answer.same => Connected

\* A deletion that was answered with OK leaves neither tunnel nor program, also
\* after deployments that stopped half way and with links already gone.
DeletedLeavesNothing ==
    AtRest /\ ~mixed /\ answer.op = "delete" /\ answer.ok =>
        Tunnel \notin link /\ \A i \in 1 .. 2 : prog[wire[i]] = "none"

\* Repeating a call until its OK is enough: whatever failed or was cut off before, a
\* wire between pairs that stay is connected for good in the end if that is what the
\* controller wants.  Not so after a create and a delete that overlapped, or an OK
\* for links that were replaced before it was given: nothing asks for it again.
WantedIsReached ==
    <>[](/\ want = "create" /\ Local \subseteq link /\ ~mixed
         /\ answer.op = "create" /\ answer.ok => answer.same) => <>[]Connected

============================================================================
