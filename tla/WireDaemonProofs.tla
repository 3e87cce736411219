-------------------------- MODULE WireDaemonProofs --------------------------
(***************************************************************************)
(* Theorems about WireDaemon, for any number of endpoints and of calls     *)
(* that run at the same time.                                              *)
(*                                                                         *)
(* What the daemon promises when its calls are over depends on how far     *)
(* each running call has got, on the links it still holds, and on which    *)
(* call made a pair.                                                       *)
(***************************************************************************)
EXTENDS WireDaemon, TLAPS

\* What is left of a program, named for its next step.
UpCheck   == EpUpSert
UpCreate  == << <<"create">>, <<"move">>, <<"rename">>, <<"up">> >>
UpMove    == << <<"move">>, <<"rename">>, <<"up">> >>
UpRename  == << <<"rename">>, <<"up">> >>
UpUp      == << <<"up">> >>
DelIn     == EpDelete
DelOut    == << <<"deleteOut">> >>
DeDeploy  == Deploy
DeLook    == << <<"look">>, <<"put", 1>>, <<"attach", 1>>, <<"put", 2>>, <<"attach", 2>> >>
DePut1    == << <<"put", 1>>, <<"attach", 1>>, <<"put", 2>>, <<"attach", 2>> >>
DeAttach1 == << <<"attach", 1>>, <<"put", 2>>, <<"attach", 2>> >>
DePut2    == << <<"put", 2>>, <<"attach", 2>> >>
DeAttach2 == << <<"attach", 2>> >>
XsDetach1 == Destroy
XsErase1  == << <<"erase", 1>>, <<"detach", 2>>, <<"erase", 2>>, <<"destroy">> >>
XsDetach2 == << <<"detach", 2>>, <<"erase", 2>>, <<"destroy">> >>
XsErase2  == << <<"erase", 2>>, <<"destroy">> >>
XsDestroy == << <<"destroy">> >>

Making == {UpMove, UpRename, UpUp}
Ups  == {UpCheck, UpCreate, <<>>} \cup Making
Dels == {DelIn, DelOut, <<>>}
Deps == {DeDeploy, DeLook, DePut1, DeAttach1, DePut2, DeAttach2, <<>>}
Dess == {XsDetach1, XsErase1, XsDetach2, XsErase2, XsDestroy, <<>>}

Calls == [op : {"none", "upsert", "create", "delete"}, v : Veths \cup {None},
          todo : Ups \cup Dels \cup Deps \cup Dess, ok : BOOLEAN,
          ns : BOOLEAN, own : BOOLEAN, a : BOOLEAN, b : BOOLEAN]

Types ==
    /\ wire \in Links \X Links /\ pod \subseteq Veths /\ link \subseteq Links
    /\ want \in {"create", "delete"}
    /\ inner \in [Veths -> Ends]
    /\ prog \in [Links -> {"none", "new", "old"}]
    /\ xmap \in [Links -> Links \cup {None}] /\ xold \in [Links -> Links \cup {None}]
    /\ call \in [Slots -> Calls]
    /\ answer \in [op : {"none", "create", "delete"}, ok : BOOLEAN, same : BOOLEAN]
    /\ mixed \in BOOLEAN

\* A call follows its program, and holds only links that are there.
CallInv(s) == LET c == call[s] IN
    /\ c.op = "none" => c = Idle
    /\ s \in EpCalls => /\ c.op \in {"none", "upsert", "delete"} /\ (c.op # "none" => c.v \in Local)
                        /\ (c.op = "upsert" => c.todo \in Ups) /\ (c.op = "delete" => c.todo \in Dels)
    /\ s \in WireCalls => /\ c.op \in {"none", "create", "delete"} /\ c.v = None
                          /\ (c.op = "create" => c.todo \in Deps) /\ (c.op = "delete" => c.todo \in Dess)
    /\ c.own => s \in EpCalls /\ c.op = "upsert" /\ c.v \in link /\ c.todo \in Making \cup {<<>>}
    /\ (c.a => wire[1] \in link) /\ (c.b => wire[2] \in link)

\* The pair that a call made is no other call's.
OneOwner ==
    \A s, x \in EpCalls : call[s].own /\ call[x].own /\ call[s].v = call[x].v => s = x

\* A pair that is not whole is being made, or was left by an error or a restart.
WholeInv ==
    \A v \in link \cap Veths :
        \/ v \in hung \/ inner[v] = "done"
        \/ \E s \in EpCalls : call[s].own /\ call[s].v = v /\ call[s].todo \in Making

ProgInv == \A l \in Links : prog[l] # "none" => l \in link
TunnelInv == Tunnel \in link => Tunnel \in {wire[1], wire[2]}

\* Without a mix, the wire calls that run do the same.
SameOp ==
    ~mixed => \A s, x \in WireCalls :
        call[s].op # "none" /\ call[x].op # "none" => call[s].op = call[x].op

\* What a deployment has done so far is there as long as it holds its links.
CreateInv(s) == LET c == call[s] IN
    ~mixed /\ c.op = "create" /\ c.a /\ c.b /\ (c.todo = <<>> => c.ok) =>
        /\ c.todo \in {DeAttach1, DePut2, DeAttach2, <<>>} => xmap[wire[1]] = wire[2]
        /\ c.todo \in {DePut2, DeAttach2, <<>>} => prog[wire[1]] = "new"
        /\ c.todo \in {DeAttach2, <<>>} => xmap[wire[2]] = wire[1]
        /\ c.todo = <<>> => prog[wire[2]] = "new"

\* What a deletion has removed so far stays away.
DeleteInv(s) == LET c == call[s] IN
    ~mixed /\ c.op = "delete" /\ (c.todo = <<>> => c.ok) =>
        /\ c.todo \in {XsErase1, XsDetach2, XsErase2, XsDestroy, <<>>} => prog[wire[1]] = "none"
        /\ c.todo \in {XsErase2, XsDestroy, <<>>} => prog[wire[2]] = "none"
        /\ c.todo = <<>> => Tunnel \notin link

WireInv ==
    /\ ProgInv /\ TunnelInv /\ SameOp
    /\ \A s \in WireCalls : CreateInv(s) /\ DeleteInv(s)
    /\ OkIsConnected /\ DeletedLeavesNothing

IInv ==
    /\ Types /\ \A s \in Slots : CallInv(s)
    /\ OneOwner /\ WholeInv /\ WireInv

----------------------------------------------------------------------------
(* Programs *)

LEMMA UpTable ==
    /\ Tail(UpCheck) = UpCreate /\ Tail(UpCreate) = UpMove /\ Tail(UpMove) = UpRename
    /\ Tail(UpRename) = UpUp /\ Tail(UpUp) = <<>>
    /\ Head(UpCheck)[1] = "check" /\ Head(UpCreate)[1] = "create" /\ Head(UpMove)[1] = "move"
    /\ Head(UpRename)[1] = "rename" /\ Head(UpUp)[1] = "up"
    /\ UpCheck # <<>> /\ UpCreate # <<>> /\ UpMove # <<>> /\ UpRename # <<>> /\ UpUp # <<>>
  <1>1. Len(UpCheck) = 5 /\ Len(UpCreate) = 4 /\ Len(UpMove) = 3 /\ Len(UpRename) = 2 /\ Len(UpUp) = 1
    BY DEF UpCheck, EpUpSert, UpCreate, UpMove, UpRename, UpUp
  <1>2. Len(<<>>) = 0
    OBVIOUS
  <1>3. UpCheck # <<>> /\ UpCreate # <<>> /\ UpMove # <<>> /\ UpRename # <<>> /\ UpUp # <<>>
    BY <1>1, <1>2
  <1>4. /\ Tail(UpCheck) = UpCreate /\ Tail(UpCreate) = UpMove /\ Tail(UpMove) = UpRename
        /\ Tail(UpRename) = UpUp /\ Tail(UpUp) = <<>>
    BY DEF UpCheck, EpUpSert, UpCreate, UpMove, UpRename, UpUp
  <1>5. /\ Head(UpCheck)[1] = "check" /\ Head(UpCreate)[1] = "create" /\ Head(UpMove)[1] = "move"
        /\ Head(UpRename)[1] = "rename" /\ Head(UpUp)[1] = "up"
    BY DEF UpCheck, EpUpSert, UpCreate, UpMove, UpRename, UpUp
  <1> QED BY <1>3, <1>4, <1>5

LEMMA DelTable ==
    /\ Tail(DelIn) = DelOut /\ Tail(DelOut) = <<>>
    /\ Head(DelIn)[1] = "deleteIn" /\ Head(DelOut)[1] = "deleteOut"
    /\ DelIn # <<>> /\ DelOut # <<>>
  <1>1. Len(DelIn) = 2 /\ Len(DelOut) = 1 /\ Len(<<>>) = 0
    BY DEF DelIn, EpDelete, DelOut
  <1>2. DelIn # <<>> /\ DelOut # <<>>
    BY <1>1
  <1>3. /\ Tail(DelIn) = DelOut /\ Tail(DelOut) = <<>>
        /\ Head(DelIn)[1] = "deleteIn" /\ Head(DelOut)[1] = "deleteOut"
    BY DEF DelIn, EpDelete, DelOut
  <1> QED BY <1>2, <1>3

LEMMA DepTable ==
    /\ Tail(DeDeploy) = DeLook /\ Tail(DeLook) = DePut1 /\ Tail(DePut1) = DeAttach1
    /\ Tail(DeAttach1) = DePut2 /\ Tail(DePut2) = DeAttach2 /\ Tail(DeAttach2) = <<>>
    /\ Head(DeDeploy)[1] = "deploy" /\ Head(DeLook)[1] = "look"
    /\ Head(DePut1)[1] = "put" /\ Head(DePut1)[2] = 1 /\ Head(DePut2)[1] = "put" /\ Head(DePut2)[2] = 2
    /\ Head(DeAttach1)[1] = "attach" /\ Head(DeAttach1)[2] = 1
    /\ Head(DeAttach2)[1] = "attach" /\ Head(DeAttach2)[2] = 2
    /\ DeDeploy # <<>> /\ DeLook # <<>> /\ DePut1 # <<>> /\ DeAttach1 # <<>>
    /\ DePut2 # <<>> /\ DeAttach2 # <<>>
  <1>1. /\ Len(DeDeploy) = 6 /\ Len(DeLook) = 5 /\ Len(DePut1) = 4 /\ Len(DeAttach1) = 3
        /\ Len(DePut2) = 2 /\ Len(DeAttach2) = 1 /\ Len(<<>>) = 0
    BY DEF DeDeploy, Deploy, DeLook, DePut1, DeAttach1, DePut2, DeAttach2
  <1>2. /\ DeDeploy # <<>> /\ DeLook # <<>> /\ DePut1 # <<>> /\ DeAttach1 # <<>>
        /\ DePut2 # <<>> /\ DeAttach2 # <<>>
    BY <1>1
  <1>3. /\ Tail(DeDeploy) = DeLook /\ Tail(DeLook) = DePut1 /\ Tail(DePut1) = DeAttach1
        /\ Tail(DeAttach1) = DePut2 /\ Tail(DePut2) = DeAttach2 /\ Tail(DeAttach2) = <<>>
    BY DEF DeDeploy, Deploy, DeLook, DePut1, DeAttach1, DePut2, DeAttach2
  <1>4. /\ Head(DeDeploy)[1] = "deploy" /\ Head(DeLook)[1] = "look"
        /\ Head(DePut1)[1] = "put" /\ Head(DePut1)[2] = 1 /\ Head(DePut2)[1] = "put" /\ Head(DePut2)[2] = 2
        /\ Head(DeAttach1)[1] = "attach" /\ Head(DeAttach1)[2] = 1
        /\ Head(DeAttach2)[1] = "attach" /\ Head(DeAttach2)[2] = 2
    BY DEF DeDeploy, Deploy, DeLook, DePut1, DeAttach1, DePut2, DeAttach2
  <1> QED BY <1>2, <1>3, <1>4

LEMMA DesTable ==
    /\ Tail(XsDetach1) = XsErase1 /\ Tail(XsErase1) = XsDetach2 /\ Tail(XsDetach2) = XsErase2
    /\ Tail(XsErase2) = XsDestroy /\ Tail(XsDestroy) = <<>>
    /\ Head(XsDetach1)[1] = "detach" /\ Head(XsDetach1)[2] = 1
    /\ Head(XsDetach2)[1] = "detach" /\ Head(XsDetach2)[2] = 2
    /\ Head(XsErase1)[1] = "erase" /\ Head(XsErase1)[2] = 1
    /\ Head(XsErase2)[1] = "erase" /\ Head(XsErase2)[2] = 2 /\ Head(XsDestroy)[1] = "destroy"
    /\ XsDetach1 # <<>> /\ XsErase1 # <<>> /\ XsDetach2 # <<>> /\ XsErase2 # <<>> /\ XsDestroy # <<>>
  <1>1. /\ Len(XsDetach1) = 5 /\ Len(XsErase1) = 4 /\ Len(XsDetach2) = 3 /\ Len(XsErase2) = 2
        /\ Len(XsDestroy) = 1 /\ Len(<<>>) = 0
    BY DEF XsDetach1, Destroy, XsErase1, XsDetach2, XsErase2, XsDestroy
  <1>2. XsDetach1 # <<>> /\ XsErase1 # <<>> /\ XsDetach2 # <<>> /\ XsErase2 # <<>> /\ XsDestroy # <<>>
    BY <1>1
  <1>3. /\ Tail(XsDetach1) = XsErase1 /\ Tail(XsErase1) = XsDetach2 /\ Tail(XsDetach2) = XsErase2
        /\ Tail(XsErase2) = XsDestroy /\ Tail(XsDestroy) = <<>>
    BY DEF XsDetach1, Destroy, XsErase1, XsDetach2, XsErase2, XsDestroy
  <1>4. /\ Head(XsDetach1)[1] = "detach" /\ Head(XsDetach1)[2] = 1
        /\ Head(XsDetach2)[1] = "detach" /\ Head(XsDetach2)[2] = 2
        /\ Head(XsErase1)[1] = "erase" /\ Head(XsErase1)[2] = 1
        /\ Head(XsErase2)[1] = "erase" /\ Head(XsErase2)[2] = 2 /\ Head(XsDestroy)[1] = "destroy"
    BY DEF XsDetach1, Destroy, XsErase1, XsDetach2, XsErase2, XsDestroy
  <1> QED BY <1>2, <1>3, <1>4

----------------------------------------------------------------------------
(* Calls *)

\* A call that forgets the links in lost.
LEMMA ForgetFields ==
    ASSUME NEW c \in Calls, NEW lost
    PROVE  LET d == Forget(c, lost) IN
           /\ d \in Calls /\ d.op = c.op /\ d.v = c.v /\ d.todo = c.todo /\ d.ok = c.ok /\ d.ns = c.ns
           /\ d.own = (c.own /\ c.v \notin lost)
           /\ d.a = (c.a /\ wire[1] \notin lost) /\ d.b = (c.b /\ wire[2] \notin lost)
  BY DEF Forget, Calls

LEMMA IdleFields ==
    /\ Idle \in Calls /\ Idle.op = "none" /\ Idle.todo = <<>> /\ Idle.v = None
    /\ Idle.own = FALSE /\ Idle.a = FALSE /\ Idle.b = FALSE /\ Idle.ok = FALSE
  BY DEF Idle, Calls, Ups

LEMMA SameCall ==
    ASSUME NEW c \in Calls, NEW d \in Calls,
           c.op = d.op, c.v = d.v, c.todo = d.todo, c.ok = d.ok, c.ns = d.ns,
           c.own = d.own, c.a = d.a, c.b = d.b
    PROVE  c = d
  BY DEF Calls

LEMMA IdleForgets == \A lost : Forget(Idle, lost) = Idle
  <1> TAKE lost
  <1> DEFINE d == Forget(Idle, lost)
  <1>1. /\ d \in Calls /\ Idle \in Calls
        /\ d.op = Idle.op /\ d.v = Idle.v /\ d.todo = Idle.todo /\ d.ok = Idle.ok /\ d.ns = Idle.ns
        /\ d.own = (Idle.own /\ Idle.v \notin lost)
        /\ d.a = (Idle.a /\ wire[1] \notin lost) /\ d.b = (Idle.b /\ wire[2] \notin lost)
    BY IdleFields, ForgetFields
  <1>2. d.own = Idle.own /\ d.a = Idle.a /\ d.b = Idle.b
    BY <1>1, IdleFields
  <1> HIDE DEF d
  <1>3. d = Idle
    BY <1>1, <1>2, SameCall
  <1> QED BY <1>3 DEF d

\* The records that a step makes of a call.
LEMMA CallSteps ==
    ASSUME NEW s, call[s] \in Calls, call[s].todo # <<>>
    PROVE  /\ Passed(s).todo = Tail(call[s].todo) /\ Done(s).todo = <<>> /\ Failed(s).todo = <<>>
           /\ Failed(s).ok = FALSE /\ Jump(s).todo = Tail(Tail(call[s].todo))
           /\ \A c \in {Passed(s), Done(s), Jump(s)} : c.ok = call[s].ok
           /\ \A c \in {Passed(s), Done(s), Failed(s), Jump(s)} :
                /\ c.op = call[s].op /\ c.v = call[s].v /\ c.ns = call[s].ns
                /\ c.own = call[s].own /\ c.a = call[s].a /\ c.b = call[s].b
                /\ c.todo \in Ups \cup Dels \cup Deps \cup Dess => c \in Calls
  <1> USE DEF Passed, Done, Failed, Jump
  <1>1. /\ Passed(s).todo = Tail(call[s].todo) /\ Done(s).todo = <<>> /\ Failed(s).todo = <<>>
        /\ Failed(s).ok = FALSE /\ Jump(s).todo = Tail(Tail(call[s].todo))
    BY DEF Calls
  <1>2. \A c \in {Passed(s), Done(s), Jump(s)} : c.ok = call[s].ok
    BY DEF Calls
  <1>3. \A c \in {Passed(s), Done(s), Failed(s), Jump(s)} :
                /\ c.op = call[s].op /\ c.v = call[s].v /\ c.ns = call[s].ns
                /\ c.own = call[s].own /\ c.a = call[s].a /\ c.b = call[s].b
    BY DEF Calls
  <1>4. \A c \in {Passed(s), Done(s), Failed(s), Jump(s)} :
                c.todo \in Ups \cup Dels \cup Deps \cup Dess => c \in Calls
    BY DEF Calls
  <1> QED BY <1>1, <1>2, <1>3, <1>4

\* d is c without the links in lost.
Keeps(d, c, lost) ==
    /\ d.op = c.op /\ d.v = c.v /\ d.todo = c.todo /\ d.ok = c.ok
    /\ d.own = (c.own /\ c.v \notin lost)
    /\ d.a = (c.a /\ wire[1] \notin lost) /\ d.b = (c.b /\ wire[2] \notin lost)
    /\ c = Idle => d = Idle

LEMMA BecomesFields ==
    ASSUME Types, NEW s \in Slots, NEW c \in Calls, NEW lost, Becomes(s, c, lost)
    PROVE  /\ call' \in [Slots -> Calls]
           /\ Keeps(call'[s], c, lost)
           /\ \A x \in Slots : x # s => Keeps(call'[x], call[x], lost)
  <1>1. call \in [Slots -> Calls]
    BY DEF Types
  <1>2. \A d \in Calls : Forget(d, lost) \in Calls /\ Keeps(Forget(d, lost), d, lost)
    BY ForgetFields, IdleForgets DEF Keeps
  <1>3. call' = [x \in Slots |-> Forget(IF x = s THEN c ELSE call[x], lost)]
    BY DEF Becomes
  <1>4. \A x \in Slots : call'[x] = Forget(IF x = s THEN c ELSE call[x], lost)
    BY <1>3
  <1>5. \A x \in Slots : call'[x] \in Calls
    BY <1>1, <1>2, <1>4
  <1> QED BY <1>1, <1>2, <1>3, <1>4, <1>5

\* The links in lost have gone.
Removed(lost) ==
    /\ prog' \in [Links -> {"none", "new", "old"}]
    /\ xmap' \in [Links -> Links \cup {None}] /\ xold' \in [Links -> Links \cup {None}]
    /\ answer' \in [op : {"none", "create", "delete"}, ok : BOOLEAN, same : BOOLEAN]
    /\ \A l \in Links : prog'[l] = IF l \in lost THEN "none" ELSE prog[l]
    /\ \A l \in Links : {l, xmap[l]} \cap lost = {} => xmap'[l] = xmap[l]
    /\ \A l \in Links : {l, xold[l]} \cap lost = {} => xold'[l] = xold[l]
    /\ answer'.op = answer.op /\ answer'.ok = answer.ok
    /\ answer'.same = (answer.same /\ wire[1] \notin lost /\ wire[2] \notin lost)

LEMMA RemoveLemma ==
    ASSUME Types, NEW lost, Remove(lost)
    PROVE  /\ Removed(lost) /\ link' = link \ lost /\ hung' = hung \ lost /\ inner' \in [Veths -> Ends]
           /\ \A v \in Veths : inner'[v] = IF v \in lost THEN "none" ELSE inner[v]
  <1>1. /\ inner' \in [Veths -> Ends] /\ link' = link \ lost /\ hung' = hung \ lost
        /\ \A v \in Veths : inner'[v] = IF v \in lost THEN "none" ELSE inner[v]
    BY DEF Types, Remove, Ends
  <1>2. /\ prog' \in [Links -> {"none", "new", "old"}]
        /\ \A l \in Links : prog'[l] = IF l \in lost THEN "none" ELSE prog[l]
    BY DEF Types, Remove
  <1>3. /\ xmap' \in [Links -> Links \cup {None}]
        /\ \A l \in Links : {l, xmap[l]} \cap lost = {} => xmap'[l] = xmap[l]
    BY DEF Types, Remove
  <1>4. /\ xold' \in [Links -> Links \cup {None}]
        /\ \A l \in Links : {l, xold[l]} \cap lost = {} => xold'[l] = xold[l]
    BY DEF Types, Remove
  <1>5. /\ answer' \in [op : {"none", "create", "delete"}, ok : BOOLEAN, same : BOOLEAN]
        /\ answer'.op = answer.op /\ answer'.ok = answer.ok
        /\ answer'.same = (answer.same /\ wire[1] \notin lost /\ wire[2] \notin lost)
    BY DEF Types, Remove
  <1> QED BY <1>1, <1>2, <1>3, <1>4, <1>5 DEF Removed

LEMMA NoneRemoved ==
    ASSUME Types, UNCHANGED <<prog, xmap, xold, answer>>
    PROVE  Removed({})
  <1>1. answer.same \in BOOLEAN
    BY DEF Types
  <1> QED BY <1>1 DEF Types, Removed

----------------------------------------------------------------------------
(* Frames *)

\* The two ends of the wire.
LEMMA WireEnds ==
    ASSUME Types
    PROVE  wire[1] \in Links /\ wire[2] \in Links /\ Local \subseteq Veths /\ Veths \subseteq Links
           /\ Tunnel \notin Veths /\ Tunnel \in Links /\ None \notin Links
  BY DaemonAssumption DEF Types, Local, Links

\* A call that only loses links follows its program.
LEMMA CallFrame ==
    ASSUME NEW x \in Slots, CallInv(x), NEW lost, Keeps(call'[x], call[x], lost),
           UNCHANGED wire, link \ lost \subseteq link'
    PROVE  CallInv(x)'
  BY DEF CallInv, Keeps, Local

\* What wire calls have done does not depend on endpoint calls and pods, but for the
\* links that go.
LEMMA WireFrame ==
    ASSUME IInv, NEW lost \in SUBSET Veths, Removed(lost), UNCHANGED <<wire, mixed>>,
           \A x \in WireCalls : Keeps(call'[x], call[x], lost),
           link \ lost \subseteq link', Tunnel \in link' <=> Tunnel \in link
    PROVE  WireInv'
  <1>1. /\ wire[1] \in Links /\ wire[2] \in Links /\ Tunnel \notin lost
        /\ prog \in [Links -> {"none", "new", "old"}]
    BY WireEnds DEF IInv, Types
  <1>2. /\ \A l \in Links : prog'[l] = IF l \in lost THEN "none" ELSE prog[l]
        /\ \A l \in Links : {l, xmap[l]} \cap lost = {} => xmap'[l] = xmap[l]
        /\ \A l \in Links : {l, xold[l]} \cap lost = {} => xold'[l] = xold[l]
        /\ answer'.op = answer.op /\ answer'.ok = answer.ok
        /\ answer'.same = (answer.same /\ wire[1] \notin lost /\ wire[2] \notin lost)
    BY DEF Removed
  <1>3. WireInv
    BY DEF IInv
  <1>4. ProgInv' /\ TunnelInv'
    BY <1>1, <1>2, <1>3 DEF WireInv, ProgInv, TunnelInv
  <1>5. SameOp'
    BY <1>3 DEF WireInv, SameOp, Keeps
  <1>6. ASSUME NEW s \in WireCalls PROVE CreateInv(s)' /\ DeleteInv(s)'
    <2>1. CreateInv(s) /\ DeleteInv(s) /\ Keeps(call'[s], call[s], lost)
      BY <1>3 DEF WireInv
    <2>2. CreateInv(s)'
      <3>1. /\ call'[s].op = call[s].op /\ call'[s].todo = call[s].todo /\ call'[s].ok = call[s].ok
            /\ call'[s].a => call[s].a /\ wire[1] \notin lost
            /\ call'[s].b => call[s].b /\ wire[2] \notin lost
        BY <2>1 DEF Keeps
      <3>2. CASE wire[1] \notin lost /\ wire[2] \notin lost
        <4>1. prog'[wire[1]] = prog[wire[1]] /\ prog'[wire[2]] = prog[wire[2]]
          BY <1>1, <1>2, <3>2
        <4>2. xmap[wire[1]] = wire[2] => xmap'[wire[1]] = wire[2]
          BY <1>1, <1>2, <3>2
        <4>3. xmap[wire[2]] = wire[1] => xmap'[wire[2]] = wire[1]
          BY <1>1, <1>2, <3>2
        <4> QED BY <2>1, <3>1, <4>1, <4>2, <4>3 DEF CreateInv
      <3>3. CASE ~(wire[1] \notin lost /\ wire[2] \notin lost)
        BY <3>1, <3>3 DEF CreateInv
      <3> QED BY <3>2, <3>3
    <2>3. DeleteInv(s)'
      BY <1>1, <1>2, <2>1 DEF DeleteInv, Keeps
    <2> QED BY <2>2, <2>3
  <1>7. AtRest' => AtRest
    <2>1. ASSUME NEW x \in WireCalls, call'[x] = Idle PROVE call[x] = Idle
      <3>1. CallInv(x) /\ Keeps(call'[x], call[x], lost)
        BY DEF IInv, Slots
      <3> QED BY <2>1, <3>1, IdleFields DEF CallInv, Keeps
    <2> QED BY <2>1 DEF AtRest
  <1>8. OkIsConnected'
    <2> SUFFICES ASSUME AtRest, ~mixed, answer.op = "create", answer.ok, answer.same,
                        wire[1] \notin lost, wire[2] \notin lost
                 PROVE  Connected'
      BY <1>2, <1>7 DEF OkIsConnected
    <2>1. Connected
      BY <1>3 DEF WireInv, OkIsConnected
    <2>2. wire[2] # None /\ wire[1] # None
      BY WireEnds DEF IInv
    <2>3. Peer(wire[1])' = wire[2]
      BY <1>1, <1>2, <2>1, <2>2 DEF Connected, Peer
    <2>4. Peer(wire[2])' = wire[1]
      BY <1>1, <1>2, <2>1, <2>2 DEF Connected, Peer
    <2> QED BY <2>3, <2>4 DEF Connected
  <1>9. DeletedLeavesNothing'
    BY <1>1, <1>2, <1>3, <1>7 DEF WireInv, DeletedLeavesNothing
  <1> QED BY <1>4, <1>5, <1>6, <1>8, <1>9 DEF WireInv

\* Who makes which pair does not depend on wire calls.
LEMMA EpFrame ==
    ASSUME IInv, NEW lost, Veths \cap lost = {}, \A x \in EpCalls : Keeps(call'[x], call[x], lost),
           link' \cap Veths = link \cap Veths, UNCHANGED inner, hung \subseteq hung'
    PROVE  OneOwner' /\ WholeInv'
  <1>1. \A x \in EpCalls : /\ call'[x].own = call[x].own /\ call'[x].v = call[x].v
                           /\ call'[x].todo = call[x].todo
    <2> TAKE x \in EpCalls
    <2>1. CallInv(x) /\ Keeps(call'[x], call[x], lost) /\ call[x] \in Calls /\ Local \subseteq Veths
      BY WireEnds DEF IInv, Slots, Types
    <2>2. call[x].own => call[x].v \in Veths
      BY <2>1 DEF CallInv
    <2>3. call[x].own \in BOOLEAN
      BY <2>1 DEF Calls
    <2> QED BY <2>1, <2>2, <2>3 DEF Keeps
  <1> QED BY <1>1 DEF IInv, OneOwner, WholeInv

\* One step of endpoint call s, which becomes c while the links in lost go.
LEMMA EpLemma ==
    ASSUME IInv, NEW s \in EpCalls, call[s].op # "none", NEW c \in Calls, NEW lost \in SUBSET Veths,
           Becomes(s, c, lost), Removed(lost), UNCHANGED <<wire, want, pod, mixed>>, hung \ lost \subseteq hung',
           c.op = call[s].op, c.v = call[s].v, c.a = call[s].a, c.b = call[s].b,
           c.op = "upsert" => c.todo \in Ups, c.op = "delete" => c.todo \in Dels,
           link \ lost \subseteq link', link' \subseteq (link \ lost) \cup {c.v},
           inner' \in [Veths -> Ends],
           \A v \in Veths : v # c.v => v \in lost \/ inner'[v] = inner[v],
           c.own => /\ c.op = "upsert" /\ c.todo \in Making \cup {<<>>} /\ c.v \in lost \cup link'
                    /\ (call[s].own \/ c.v \notin link),
           c.v \in link' =>
               \/ c.v \in hung' \/ inner'[c.v] = "done" \/ (c.own /\ c.v \notin lost /\ c.todo \in Making)
               \/ /\ inner'[c.v] = inner[c.v] /\ c.v \in link /\ c.v \notin lost
                  /\ ~(call[s].own /\ call[s].todo \in Making)
    PROVE  IInv'
  <1>1. /\ call' \in [Slots -> Calls] /\ Keeps(call'[s], c, lost)
        /\ \A x \in Slots : x # s => Keeps(call'[x], call[x], lost)
    BY BecomesFields DEF IInv, Slots
  <1>2. /\ Types /\ OneOwner /\ WholeInv /\ EpCalls \subseteq Slots /\ WireCalls \subseteq Slots
        /\ CallInv(s) /\ s \in Slots /\ s \notin WireCalls
    BY DaemonAssumption DEF IInv, Slots
  <1>3. c.v \in Local /\ c.v \in Veths /\ c.v \in Links
    BY <1>2, WireEnds DEF CallInv
  <1>4. Types'
    <2>1. link' \subseteq Links
      BY <1>2, <1>3 DEF Types
    <2> QED BY <1>1, <1>2, <2>1 DEF Types, Removed
  <1>5. CallInv(s)'
    <2>1. call'[s].op # "none" /\ Local' = Local
      BY <1>1, <1>2 DEF Keeps, Local
    <2>2. call'[s].own => s \in EpCalls /\ c.op = "upsert" /\ c.v \in link' /\ c.todo \in Making \cup {<<>>}
      BY <1>1 DEF Keeps
    <2>3. (call'[s].a => wire[1] \in link') /\ (call'[s].b => wire[2] \in link')
      BY <1>1, <1>2 DEF Keeps, CallInv
    <2> QED BY <1>1, <1>2, <1>3, <2>1, <2>2, <2>3 DEF CallInv, Keeps
  <1>6. \A x \in Slots : CallInv(x)'
    <2>1. ASSUME NEW x \in Slots, x # s PROVE CallInv(x)'
      BY <1>1, <2>1, CallFrame DEF IInv
    <2> QED BY <1>5, <2>1
  <1>7. OneOwner'
    <2>1. \A x \in EpCalls : x # s /\ call'[x].own => call[x].own /\ call'[x].v = call[x].v /\ call[x].v \in link
      BY <1>1, <1>2 DEF IInv, Keeps, CallInv
    <2>2. call'[s].own => call'[s].v = c.v /\ (call[s].own \/ c.v \notin link)
      BY <1>1 DEF Keeps
    <2> QED BY <1>2, <2>1, <2>2 DEF OneOwner
  <1>8. WholeInv'
    <2> SUFFICES ASSUME NEW v \in link' \cap Veths
                 PROVE  \/ v \in hung' \/ inner'[v] = "done"
                        \/ \E x \in EpCalls : call'[x].own /\ call'[x].v = v /\ call'[x].todo \in Making
      BY DEF WholeInv
    <2>1. ASSUME v \in link, v \notin lost, inner'[v] = inner[v], v = c.v => ~(call[s].own /\ call[s].todo \in Making)
          PROVE  \/ v \in hung' \/ inner'[v] = "done"
                 \/ \E x \in EpCalls : call'[x].own /\ call'[x].v = v /\ call'[x].todo \in Making
      <3>1. CASE v \in hung \/ inner[v] = "done"
        BY <2>1, <3>1
      <3>2. CASE \E x \in EpCalls : call[x].own /\ call[x].v = v /\ call[x].todo \in Making
        <4>1. PICK x \in EpCalls : call[x].own /\ call[x].v = v /\ call[x].todo \in Making
          BY <3>2
        <4>2. x # s
          BY <2>1, <4>1
        <4>3. call'[x].own /\ call'[x].v = v /\ call'[x].todo \in Making
          BY <1>1, <1>2, <2>1, <4>1, <4>2 DEF Keeps
        <4> QED BY <4>3
      <3> QED BY <1>2, <2>1, <3>1, <3>2 DEF WholeInv
    <2>2. CASE v # c.v
      <3>1. v \in link /\ v \notin lost /\ inner'[v] = inner[v]
        BY <2>2
      <3> QED BY <2>1, <2>2, <3>1
    <2>3. CASE v = c.v /\ c.own /\ c.v \notin lost /\ c.todo \in Making
      <3>1. call'[s].own /\ call'[s].v = v /\ call'[s].todo \in Making
        BY <1>1, <2>3 DEF Keeps
      <3> QED BY <3>1
    <2>4. CASE v = c.v /\ ~(c.own /\ c.v \notin lost /\ c.todo \in Making)
      BY <2>1, <2>4
    <2> QED BY <2>2, <2>3, <2>4
  <1>9. WireInv'
    <2>1. Tunnel \in link' <=> Tunnel \in link
      BY <1>2, <1>3, WireEnds
    <2>2. \A x \in WireCalls : Keeps(call'[x], call[x], lost)
      BY <1>1, <1>2
    <2> QED BY <2>1, <2>2, WireFrame
  <1> QED BY <1>4, <1>6, <1>7, <1>8, <1>9 DEF IInv

LEMMA KeepsSelf == \A c \in Calls : Keeps(c, c, {})
  <1> TAKE c \in Calls
  <1>1. c.own \in BOOLEAN /\ c.a \in BOOLEAN /\ c.b \in BOOLEAN
    BY DEF Calls
  <1> QED BY <1>1 DEF Keeps

\* Endpoint call s begins or ends.
LEMMA EpSwap ==
    ASSUME IInv, NEW s \in EpCalls, NEW c \in Calls, call' = [call EXCEPT ![s] = c],
           c.own = FALSE, c.a = FALSE, c.b = FALSE,
           \/ c = Idle
           \/ c.op = "upsert" /\ c.todo = UpCheck /\ c.v \in Local
           \/ c.op = "delete" /\ c.todo = DelIn /\ c.v \in Local,
           ~(call[s].own /\ call[s].todo \in Making),
           UNCHANGED <<wire, want, pod, mixed, dev, answer, hung>>
    PROVE  IInv'
  <1>1. /\ Types /\ OneOwner /\ WholeInv /\ EpCalls \subseteq Slots /\ WireCalls \subseteq Slots
        /\ s \in Slots /\ s \notin WireCalls /\ call \in [Slots -> Calls]
        /\ UNCHANGED <<link, inner, prog, xmap, xold>>
    BY DaemonAssumption DEF IInv, Slots, Types, dev
  <1>2. call'[s] = c /\ call' \in [Slots -> Calls] /\ \A x \in Slots : x # s => call'[x] = call[x]
    BY <1>1
  <1>3. \A x \in Slots : x # s => Keeps(call'[x], call[x], {})
    BY <1>1, <1>2, KeepsSelf
  <1>4. Types'
    BY <1>1, <1>2 DEF Types
  <1>5. CallInv(s)'
    BY <1>1, <1>2, IdleFields DEF CallInv, Local, Ups, Dels
  <1>6. \A x \in Slots : CallInv(x)'
    <2>1. ASSUME NEW x \in Slots, x # s PROVE CallInv(x)'
      BY <1>1, <1>3, <2>1, CallFrame DEF IInv
    <2> QED BY <1>5, <2>1
  <1>7. OneOwner'
    BY <1>1, <1>2 DEF OneOwner
  <1>8. WholeInv'
    BY <1>1, <1>2 DEF WholeInv
  <1>9. WireInv'
    <2>1. Removed({})
      BY <1>1, NoneRemoved
    <2> QED BY <1>1, <1>3, <2>1, WireFrame
  <1> QED BY <1>4, <1>6, <1>7, <1>8, <1>9 DEF IInv

\* Where an endpoint call is.
LEMMA EpAt ==
    ASSUME IInv, NEW s \in EpCalls
    PROVE  /\ call[s] \in Calls /\ CallInv(s) /\ s \in Slots
           /\ At(s, "check") => call[s].op = "upsert" /\ call[s].todo = UpCheck
           /\ At(s, "create") => call[s].op = "upsert" /\ call[s].todo = UpCreate
           /\ At(s, "move") <=> call[s].op = "upsert" /\ call[s].todo = UpMove
           /\ At(s, "rename") <=> call[s].op = "upsert" /\ call[s].todo = UpRename
           /\ At(s, "up") <=> call[s].op = "upsert" /\ call[s].todo = UpUp
           /\ At(s, "deleteIn") => call[s].op = "delete" /\ call[s].todo = DelIn
           /\ At(s, "deleteOut") => call[s].op = "delete" /\ call[s].todo = DelOut
  <1>1. call[s] \in Calls /\ CallInv(s) /\ s \in Slots
    BY DEF IInv, Types, Slots
  <1>2. CASE call[s].op = "none"
    BY <1>1, <1>2, IdleFields DEF CallInv, At
  <1>3. CASE call[s].op = "upsert"
    <2>1. call[s].todo \in {UpCheck, UpCreate, UpMove, UpRename, UpUp, <<>>}
      BY <1>1, <1>3 DEF CallInv, Ups, Making
    <2> QED BY <1>1, <1>3, <2>1, UpTable DEF At
  <1>4. CASE call[s].op = "delete"
    <2>1. call[s].todo \in {DelIn, DelOut, <<>>}
      BY <1>1, <1>4 DEF CallInv, Dels
    <2> QED BY <1>1, <1>4, <2>1, DelTable DEF At
  <1> QED BY <1>1, <1>2, <1>3, <1>4 DEF CallInv

LEMMA Stages ==
    /\ UpCheck \notin Making \cup {<<>>} /\ UpCreate \notin Making \cup {<<>>} /\ <<>> \notin Making
    /\ UpMove \in Making /\ UpRename \in Making /\ UpUp \in Making
    /\ {UpCheck, UpCreate, UpMove, UpRename, UpUp, <<>>} \subseteq Ups
    /\ {DelIn, DelOut, <<>>} \subseteq Dels
  BY UpTable DEF Making, Ups, Dels

\* An upsert that goes on.
LEMMA UpPassed ==
    ASSUME NEW s, call[s] \in Calls, call[s].todo # <<>>, Tail(call[s].todo) \in Ups
    PROVE  /\ Passed(s) \in Calls /\ Passed(s).todo = Tail(call[s].todo) /\ Passed(s).op = call[s].op
           /\ Passed(s).v = call[s].v /\ Passed(s).own = call[s].own
           /\ Passed(s).a = call[s].a /\ Passed(s).b = call[s].b
  <1>1. Passed(s).todo = Tail(call[s].todo)
    BY CallSteps
  <1>2. Passed(s).todo \in Ups \cup Dels \cup Deps \cup Dess
    BY <1>1
  <1> QED BY <1>1, <1>2, CallSteps

\* A call that fails leaves the links as they are.
LEMMA EpErrs ==
    ASSUME IInv, NEW s \in EpCalls, call[s].op # "none", call[s].todo # <<>>, Becomes(s, Failed(s), {}),
           UNCHANGED <<dev, answer, wire, want, pod, mixed>>, hung \subseteq hung',
           call[s].own /\ call[s].todo \in Making => call[s].v \in hung'
    PROVE  IInv'
  <1>1. /\ call[s] \in Calls /\ CallInv(s) /\ Types /\ Removed({}) /\ UNCHANGED <<link, inner>>
    BY EpAt, NoneRemoved DEF IInv, dev
  <1>2. PICK c \in Calls : /\ Becomes(s, c, {}) /\ c.todo = <<>> /\ c.op = call[s].op /\ c.v = call[s].v
                           /\ c.own = call[s].own /\ c.a = call[s].a /\ c.b = call[s].b
    <2>1. <<>> \in Ups
      BY DEF Ups
    <2> QED BY <1>1, <2>1, CallSteps
  <1>3. /\ c.own => /\ c.op = "upsert" /\ c.todo \in Making \cup {<<>>} /\ c.v \in {} \cup link'
                    /\ (call[s].own \/ c.v \notin link)
        /\ c.op = "upsert" => c.todo \in Ups
        /\ c.op = "delete" => c.todo \in Dels
    BY <1>1, <1>2, Stages DEF CallInv
  <1>4. c.v \in link' =>
          \/ c.v \in hung' \/ inner'[c.v] = "done" \/ (c.own /\ c.v \notin {} /\ c.todo \in Making)
          \/ /\ inner'[c.v] = inner[c.v] /\ c.v \in link /\ c.v \notin {}
             /\ ~(call[s].own /\ call[s].todo \in Making)
    BY <1>1, <1>2
  <1>5. /\ inner' \in [Veths -> Ends] /\ link \ {} \subseteq link' /\ link' \subseteq (link \ {}) \cup {c.v}
        /\ \A v \in Veths : v # c.v => v \in {} \/ inner'[v] = inner[v]
        /\ hung \ {} \subseteq hung'
    BY <1>1 DEF Types
  <1> QED BY <1>1, <1>2, <1>3, <1>4, <1>5, EpLemma

----------------------------------------------------------------------------
(* Endpoint calls *)

LEMMA EpStartStep ==
    ASSUME IInv, NEW s \in EpCalls, NEW v \in Local, StartUpSert(s, v) \/ StartDelete(s, v),
           UNCHANGED <<wire, slots, want, pod, mixed>>
    PROVE  IInv'
  <1>1. v \in Veths
    BY WireEnds DEF IInv
  <1>2. PICK c \in Calls : /\ call' = [call EXCEPT ![s] = c] /\ c.own = FALSE /\ c.a = FALSE /\ c.b = FALSE
                           /\ c.v = v
                           /\ \/ c.op = "upsert" /\ c.todo = UpCheck
                              \/ c.op = "delete" /\ c.todo = DelIn
    <2> DEFINE u == [Idle EXCEPT !.op = "upsert", !.v = v, !.todo = EpUpSert, !.ok = TRUE, !.ns = TRUE]
               d == [Idle EXCEPT !.op = "delete", !.v = v, !.todo = EpDelete, !.ok = TRUE, !.ns = TRUE]
    <2>1. EpUpSert = UpCheck /\ EpDelete = DelIn /\ UpCheck \in Ups /\ DelIn \in Dels
      BY DEF UpCheck, DelIn, Ups, Dels
    <2>2. u \in Calls /\ u.own = FALSE /\ u.a = FALSE /\ u.b = FALSE /\ u.v = v /\ u.op = "upsert" /\ u.todo = EpUpSert
      BY <1>1, <2>1 DEF Idle, Calls
    <2>3. d \in Calls /\ d.own = FALSE /\ d.a = FALSE /\ d.b = FALSE /\ d.v = v /\ d.op = "delete" /\ d.todo = EpDelete
      BY <1>1, <2>1 DEF Idle, Calls
    <2>4. call' = [call EXCEPT ![s] = u] \/ call' = [call EXCEPT ![s] = d]
      BY DEF StartUpSert, StartDelete
    <2> QED BY <2>1, <2>2, <2>3, <2>4
  <1>3. call[s] = Idle /\ UNCHANGED <<dev, answer, hung>>
    BY DEF StartUpSert, StartDelete
  <1>4. ~(call[s].own /\ call[s].todo \in Making)
    BY <1>3, IdleFields
  <1> QED BY <1>2, <1>3, <1>4, EpSwap

LEMMA EpAnswerStep ==
    ASSUME IInv, NEW s \in EpCalls, Answer(s), UNCHANGED <<wire, slots, want, pod, mixed>>
    PROVE  IInv'
  <1>1. /\ call[s].todo = <<>> /\ call' = [call EXCEPT ![s] = Idle] /\ UNCHANGED <<dev, answer, hung>>
    BY DaemonAssumption DEF Answer
  <1> QED BY <1>1, IdleFields, Stages, EpSwap

LEMMA CheckStep ==
    ASSUME IInv, NEW s \in EpCalls, CheckPair(s), UNCHANGED <<wire, slots, want, pod, mixed>>
    PROVE  IInv'
  <1>1. /\ call[s] \in Calls /\ CallInv(s) /\ Types /\ Removed({}) /\ UNCHANGED <<link, inner, hung>>
        /\ call[s].op = "upsert" /\ call[s].todo = UpCheck /\ call[s].todo # <<>>
    BY EpAt, NoneRemoved, UpTable DEF IInv, dev, CheckPair
  <1>2. PICK c \in Calls : /\ Becomes(s, c, {}) /\ c.todo \in {UpCreate, <<>>} /\ c.op = "upsert"
                           /\ c.v = call[s].v /\ c.own = call[s].own /\ c.a = call[s].a /\ c.b = call[s].b
    <2>1. Tail(UpCheck) = UpCreate /\ {UpCreate, <<>>} \subseteq Ups
      BY UpTable, Stages
    <2>2. Becomes(s, Done(s), {}) \/ Becomes(s, Passed(s), {})
      BY DEF CheckPair
    <2> QED BY <1>1, <2>1, <2>2, CallSteps, ZenonT(60)
  <1>3. ~call[s].own /\ c.todo \in Ups
    BY <1>1, <1>2, Stages DEF CallInv
  <1>4. /\ inner' \in [Veths -> Ends] /\ link \ {} \subseteq link' /\ link' \subseteq (link \ {}) \cup {c.v}
        /\ \A v \in Veths : v # c.v => v \in {} \/ inner'[v] = inner[v]
        /\ c.v \in link' => inner'[c.v] = inner[c.v] /\ c.v \in link /\ c.v \notin {}
        /\ hung \ {} \subseteq hung'
    BY <1>1 DEF Types
  <1> QED BY <1>1, <1>2, <1>3, <1>4, EpLemma

LEMMA CreateStep ==
    ASSUME IInv, NEW s \in EpCalls, CreateVethPair(s), UNCHANGED <<wire, slots, want, pod, mixed>>
    PROVE  IInv'
  <1>1. /\ call[s] \in Calls /\ CallInv(s) /\ Types
        /\ call[s].op = "upsert" /\ call[s].todo = UpCreate /\ call[s].todo # <<>>
        /\ call[s].v \in Veths
    BY EpAt, UpTable, WireEnds DEF IInv, CreateVethPair, CallInv
  <1>2. CASE Errs(s, call[s].v \in link) /\ UNCHANGED hung
    BY <1>1, <1>2, EpErrs, Stages DEF Errs
  <1>3. ASSUME NEW c \in Calls, Becomes(s, c, {}), c.op = "upsert", c.v = call[s].v, c.a = call[s].a, c.b = call[s].b,
               \/ c.todo \in {UpMove, UpRename} /\ c.own = TRUE /\ hung' = hung
               \/ c.todo = <<>> /\ c.own = FALSE /\ hung' = hung \cup {c.v},
               call[s].v \notin link, link' = link \cup {call[s].v},
               inner' = [inner EXCEPT ![call[s].v] = "host"], UNCHANGED <<prog, xmap, xold, answer>>
        PROVE  IInv'
    <2>1. Removed({}) /\ hung \ {} \subseteq hung' /\ call[s].op # "none"
      BY <1>1, <1>3, NoneRemoved
    <2>2. /\ inner' \in [Veths -> Ends] /\ link \ {} \subseteq link' /\ link' \subseteq (link \ {}) \cup {c.v}
          /\ \A v \in Veths : v # c.v => v \in {} \/ inner'[v] = inner[v]
      BY <1>1, <1>3 DEF Types, Ends
    <2>3. c.todo \in Ups /\ (c.own => c.todo \in Making)
      BY <1>3, Stages
    <2>4. /\ c.own => /\ c.op = "upsert" /\ c.todo \in Making \cup {<<>>} /\ c.v \in {} \cup link'
                      /\ (call[s].own \/ c.v \notin link)
          /\ c.v \in link' => c.v \in hung' \/ (c.own /\ c.v \notin {} /\ c.todo \in Making)
      BY <1>3, <2>3
    <2> QED BY <1>1, <1>3, <2>1, <2>2, <2>3, <2>4, EpLemma
  <1>4. CASE /\ call[s].v \notin link /\ link' = link \cup {call[s].v}
             /\ inner' = [inner EXCEPT ![call[s].v] = "host"] /\ UNCHANGED <<prog, xmap, xold, answer>>
             /\ Becomes(s, Failed(s), {}) /\ hung' = hung \cup {call[s].v}
    <2>1. PICK c \in Calls : /\ Becomes(s, c, {}) /\ c.todo = <<>> /\ c.op = "upsert"
                             /\ c.v = call[s].v /\ c.own = call[s].own /\ c.a = call[s].a /\ c.b = call[s].b
      BY <1>1, <1>4, Stages, CallSteps, ZenonT(60)
    <2>2. c.own = FALSE
      <3>1. ~call[s].own /\ call[s].own \in BOOLEAN
        BY <1>1, Stages DEF CallInv, Calls
      <3> QED BY <2>1, <3>1
    <2> QED BY <1>3, <1>4, <2>1, <2>2
  <1>5. CASE /\ call[s].v \notin link /\ link' = link \cup {call[s].v}
             /\ inner' = [inner EXCEPT ![call[s].v] = "host"] /\ UNCHANGED <<prog, xmap, xold, answer>>
             /\ Becomes(s, [(IF call[s].v \in Servers THEN Jump(s) ELSE Passed(s)) EXCEPT !.own = TRUE], {})
             /\ UNCHANGED hung
    <2>1. PICK d \in Calls : /\ d = IF call[s].v \in Servers THEN Jump(s) ELSE Passed(s)
                             /\ d.todo \in {UpMove, UpRename} /\ d.op = "upsert"
                             /\ d.v = call[s].v /\ d.a = call[s].a /\ d.b = call[s].b
      <3>1. Tail(call[s].todo) = UpMove /\ Tail(Tail(call[s].todo)) = UpRename /\ {UpMove, UpRename} \subseteq Ups
        BY <1>1, UpTable, Stages
      <3>2. Passed(s).todo = UpMove /\ Jump(s).todo = UpRename
        BY <1>1, <3>1, CallSteps
      <3>3. \A e \in {Passed(s), Jump(s)} :
              e \in Calls /\ e.op = "upsert" /\ e.v = call[s].v /\ e.a = call[s].a /\ e.b = call[s].b
        BY <1>1, <3>1, <3>2, CallSteps, ZenonT(60)
      <3> QED BY <3>2, <3>3
    <2> DEFINE c == [d EXCEPT !.own = TRUE]
    <2>2. /\ c \in Calls /\ c.own = TRUE /\ c.todo = d.todo /\ c.op = d.op
          /\ c.v = d.v /\ c.a = d.a /\ c.b = d.b
      BY DEF Calls
    <2>3. Becomes(s, c, {})
      BY <1>5, <2>1
    <2> HIDE DEF c
    <2> QED BY <1>3, <1>5, <2>1, <2>2, <2>3
  <1>6. \/ Errs(s, call[s].v \in link) /\ UNCHANGED hung
        \/ /\ call[s].v \notin link /\ link' = link \cup {call[s].v}
           /\ inner' = [inner EXCEPT ![call[s].v] = "host"] /\ UNCHANGED <<prog, xmap, xold, answer>>
           /\ Becomes(s, Failed(s), {}) /\ hung' = hung \cup {call[s].v}
        \/ /\ call[s].v \notin link /\ link' = link \cup {call[s].v}
           /\ inner' = [inner EXCEPT ![call[s].v] = "host"] /\ UNCHANGED <<prog, xmap, xold, answer>>
           /\ Becomes(s, [(IF call[s].v \in Servers THEN Jump(s) ELSE Passed(s)) EXCEPT !.own = TRUE], {})
           /\ UNCHANGED hung
    BY Zenon DEF CreateVethPair
  <1> QED BY <1>2, <1>4, <1>5, <1>6

LEMMA MoveStep ==
    ASSUME IInv, NEW s \in EpCalls, AddIfInNS(s), UNCHANGED <<wire, slots, want, pod, mixed>>
    PROVE  IInv'
  <1>1. /\ call[s] \in Calls /\ CallInv(s) /\ Types
        /\ call[s].op = "upsert" /\ call[s].todo = UpMove /\ call[s].todo # <<>>
        /\ call[s].v \in Veths
    BY EpAt, UpTable, WireEnds DEF IInv, AddIfInNS, CallInv
  <1>2. CASE /\ call[s].own /\ inner' = [inner EXCEPT ![call[s].v] = "moved"]
             /\ Becomes(s, Passed(s), {}) /\ UNCHANGED <<link, prog, xmap, xold, answer, hung>>
    <2>1. PICK c \in Calls : /\ Becomes(s, c, {}) /\ c.todo = UpRename /\ c.op = "upsert"
                             /\ c.v = call[s].v /\ c.own = call[s].own /\ c.a = call[s].a /\ c.b = call[s].b
      <3>1. Tail(call[s].todo) = UpRename /\ UpRename \in Ups
        BY <1>1, UpTable, Stages
      <3> QED BY <1>1, <1>2, <3>1, UpPassed
    <2>2. /\ inner' \in [Veths -> Ends] /\ link \ {} \subseteq link' /\ link' \subseteq (link \ {}) \cup {c.v}
          /\ \A v \in Veths : v # c.v => v \in {} \/ inner'[v] = inner[v]
          /\ hung \ {} \subseteq hung'
      BY <1>1, <1>2, <2>1 DEF Types, Ends
    <2>3. Removed({}) /\ c.v \in link
      BY <1>1, <1>2, <2>1, NoneRemoved DEF CallInv
    <2> QED BY <1>1, <1>2, <2>1, <2>2, <2>3, Stages, EpLemma
  <1>3. ASSUME NEW lost, lost = IF call[s].own THEN {call[s].v} ELSE {},
               Becomes(s, Failed(s), lost), Remove(lost)
        PROVE  IInv'
    <2>1. PICK c \in Calls : /\ Becomes(s, c, lost) /\ c.todo = <<>> /\ c.op = "upsert"
                             /\ c.v = call[s].v /\ c.own = call[s].own /\ c.a = call[s].a /\ c.b = call[s].b
      BY <1>1, <1>3, Stages, CallSteps, ZenonT(60)
    <2>2. /\ Removed(lost) /\ link' = link \ lost /\ hung \ lost \subseteq hung' /\ inner' \in [Veths -> Ends]
          /\ \A v \in Veths : inner'[v] = IF v \in lost THEN "none" ELSE inner[v]
      BY <1>1, <1>3, RemoveLemma
    <2>3. lost \in SUBSET Veths
      BY <1>1, <1>3
    <2>4. CASE call[s].own
      BY <1>1, <1>3, <2>1, <2>2, <2>3, <2>4, Stages, EpLemma
    <2>5. CASE ~call[s].own
      BY <1>1, <1>3, <2>1, <2>2, <2>3, <2>5, Stages, EpLemma
    <2> QED BY <2>4, <2>5
  <1>4. ASSUME Errs(s, FALSE), hung' = hung \cup (IF call[s].own THEN {call[s].v} ELSE {})
        PROVE  IInv'
    BY <1>1, <1>4, EpErrs DEF Errs
  <1> QED BY <1>2, <1>3, <1>4 DEF AddIfInNS, Proceeds

LEMMA RenameStep ==
    ASSUME IInv, NEW s \in EpCalls, SetIfNameAndUp(s), UNCHANGED <<wire, slots, want, pod, mixed>>
    PROVE  IInv'
  <1>1. /\ call[s] \in Calls /\ CallInv(s) /\ Types
        /\ call[s].op = "upsert" /\ call[s].todo \in {UpRename, UpUp} /\ call[s].todo # <<>>
        /\ call[s].v \in Veths
    BY EpAt, UpTable, WireEnds DEF IInv, SetIfNameAndUp, CallInv
  <1>2. ASSUME NEW x \in {"named", "done"}, call[s].own, inner' = [inner EXCEPT ![call[s].v] = x],
               (x = "named" /\ call[s].todo = UpRename) \/ (x = "done" /\ call[s].todo = UpUp),
               Becomes(s, Passed(s), {}), UNCHANGED <<link, prog, xmap, xold, answer, hung>>
        PROVE  IInv'
    <2>1. PICK c \in Calls : /\ Becomes(s, c, {}) /\ c.todo = Tail(call[s].todo) /\ c.op = "upsert"
                             /\ c.v = call[s].v /\ c.own = call[s].own /\ c.a = call[s].a /\ c.b = call[s].b
      <3>1. Tail(call[s].todo) \in Ups
        BY <1>1, UpTable, Stages
      <3> QED BY <1>1, <1>2, <3>1, UpPassed
    <2>2. /\ inner' \in [Veths -> Ends] /\ link \ {} \subseteq link' /\ link' \subseteq (link \ {}) \cup {c.v}
          /\ \A v \in Veths : v # c.v => v \in {} \/ inner'[v] = inner[v]
          /\ inner'[c.v] = x /\ hung \ {} \subseteq hung'
      BY <1>1, <1>2, <2>1 DEF Types, Ends
    <2>3. Removed({}) /\ c.v \in link
      BY <1>1, <1>2, <2>1, NoneRemoved DEF CallInv
    <2>4. (x = "named" /\ c.todo = UpUp) \/ (x = "done" /\ c.todo = <<>>)
      BY <1>2, <2>1, UpTable
    <2>5. CASE x = "named" /\ c.todo = UpUp
      <3>1. c.todo \in Making /\ c.todo \in Ups
        BY <2>5, Stages
      <3> QED BY <1>1, <1>2, <2>1, <2>2, <2>3, <3>1, EpLemma, ZenonT(60)
    <2>6. CASE x = "done" /\ c.todo = <<>>
      <3>1. c.todo \in Ups
        BY <2>6, Stages
      <3> QED BY <1>1, <1>2, <2>1, <2>2, <2>3, <2>6, <3>1, EpLemma
    <2> QED BY <2>4, <2>5, <2>6
  <1>3. ASSUME Errs(s, ~call[s].own), hung' = IF call[s].own THEN hung \cup {call[s].v} ELSE hung
        PROVE  IInv'
    BY <1>1, <1>3, EpErrs DEF Errs
  <1>4. /\ At(s, "rename") => call[s].todo = UpRename
        /\ At(s, "up") => call[s].todo = UpUp
    BY EpAt
  <1> QED BY <1>2, <1>3, <1>4 DEF SetIfNameAndUp, Proceeds

LEMMA DestroyPairStep ==
    ASSUME IInv, NEW s \in EpCalls, DestroyEp2Node(s), UNCHANGED <<wire, slots, want, pod, mixed>>
    PROVE  IInv'
  <1>1. /\ call[s] \in Calls /\ CallInv(s) /\ Types
        /\ call[s].op = "delete" /\ call[s].todo \in {DelIn, DelOut} /\ call[s].todo # <<>>
        /\ call[s].v \in Veths /\ ~call[s].own
    <2>1. /\ call[s] \in Calls /\ CallInv(s) /\ Types
          /\ call[s].op = "delete" /\ call[s].todo \in {DelIn, DelOut} /\ call[s].todo # <<>>
      BY EpAt, DelTable DEF IInv, DestroyEp2Node
    <2> QED BY <2>1, WireEnds DEF CallInv
  <1>2. CASE Errs(s, FALSE) /\ UNCHANGED hung
    BY <1>1, <1>2, EpErrs DEF Errs
  <1>3. ASSUME NEW lost \in SUBSET {call[s].v}, Remove(lost), Becomes(s, Passed(s), lost) PROVE IInv'
    <2>1. PICK c \in Calls : /\ Becomes(s, c, lost) /\ c.todo \in Dels /\ c.op = "delete"
                             /\ c.v = call[s].v /\ c.own = call[s].own /\ c.a = call[s].a /\ c.b = call[s].b
      <3>1. Tail(call[s].todo) \in Dels
        BY <1>1, DelTable, Stages
      <3> QED BY <1>1, <1>3, <3>1, CallSteps, ZenonT(60)
    <2>2. /\ Removed(lost) /\ link' = link \ lost /\ hung \ lost \subseteq hung' /\ inner' \in [Veths -> Ends]
          /\ \A v \in Veths : inner'[v] = IF v \in lost THEN "none" ELSE inner[v]
      BY <1>1, <1>3, RemoveLemma
    <2>3. lost \in SUBSET Veths /\ c.v \in Veths
      BY <1>1, <1>3, <2>1
    <2>4. c.v \in link' => c.v \notin lost /\ c.v \in link /\ inner'[c.v] = inner[c.v]
      BY <2>2, <2>3
    <2> QED BY <1>1, <2>1, <2>2, <2>3, <2>4, EpLemma
  <1> QED BY <1>2, <1>3 DEF DestroyEp2Node, deleteItfce

----------------------------------------------------------------------------
(* Wire calls *)

LEMMA DepStages ==
    /\ {DeDeploy, DeLook, DePut1} \cap {DeAttach1, DePut2, DeAttach2, <<>>} = {}
    /\ DeAttach1 \notin {DePut2, DeAttach2, <<>>} /\ DePut2 \notin {DeAttach2, <<>>}
    /\ {DeDeploy, DeLook, DePut1, DeAttach1, DePut2, DeAttach2, <<>>} \subseteq Deps
  <1>1. "deploy" # "put" /\ "deploy" # "attach" /\ "look" # "put" /\ "look" # "attach" /\ "put" # "attach"
        /\ 1 # 2
    OBVIOUS
  <1>2. DeDeploy # DeAttach1 /\ DeDeploy # DePut2 /\ DeDeploy # DeAttach2
    BY <1>1, DepTable, Zenon
  <1>3. DeLook # DeAttach1 /\ DeLook # DePut2 /\ DeLook # DeAttach2
    BY <1>1, DepTable, Zenon
  <1>4. DePut1 # DeAttach1 /\ DePut1 # DePut2 /\ DePut1 # DeAttach2
    BY <1>1, DepTable, Zenon
  <1>5. DeAttach1 # DePut2 /\ DeAttach1 # DeAttach2 /\ DePut2 # DeAttach2
    BY <1>1, DepTable, Zenon
  <1> QED BY <1>2, <1>3, <1>4, <1>5, DepTable DEF Deps

LEMMA DesStages ==
    /\ XsDetach1 \notin {XsErase1, XsDetach2, XsErase2, XsDestroy, <<>>}
    /\ {XsErase1, XsDetach2} \cap {XsErase2, XsDestroy, <<>>} = {}
    /\ XsErase2 # <<>> /\ XsDestroy # <<>>
    /\ {XsDetach1, XsErase1, XsDetach2, XsErase2, XsDestroy, <<>>} \subseteq Dess
  <1>1. "detach" # "erase" /\ "detach" # "destroy" /\ "erase" # "destroy" /\ 1 # 2
    OBVIOUS
  <1>2. XsDetach1 # XsErase1 /\ XsDetach1 # XsDetach2 /\ XsDetach1 # XsErase2 /\ XsDetach1 # XsDestroy
    BY <1>1, DesTable, Zenon
  <1>3. XsErase1 # XsErase2 /\ XsErase1 # XsDestroy /\ XsDetach2 # XsErase2 /\ XsDetach2 # XsDestroy
    BY <1>1, DesTable, Zenon
  <1> QED BY <1>2, <1>3, DesTable DEF Dess

\* Where a wire call is.
LEMMA WireAt ==
    ASSUME IInv, NEW s \in WireCalls
    PROVE  /\ call[s] \in Calls /\ CallInv(s) /\ s \in Slots /\ s \notin EpCalls /\ call[s].own = FALSE
           /\ At(s, "deploy") => call[s].op = "create" /\ call[s].todo = DeDeploy
           /\ At(s, "look") => call[s].op = "create" /\ call[s].todo = DeLook
           /\ At(s, "put") => call[s].op = "create" /\ \/ call[s].todo = DePut1 /\ End(s) = 1
                                                       \/ call[s].todo = DePut2 /\ End(s) = 2
           /\ At(s, "attach") => call[s].op = "create" /\ \/ call[s].todo = DeAttach1 /\ End(s) = 1
                                                          \/ call[s].todo = DeAttach2 /\ End(s) = 2
           /\ At(s, "detach") => call[s].op = "delete" /\ \/ call[s].todo = XsDetach1 /\ End(s) = 1
                                                          \/ call[s].todo = XsDetach2 /\ End(s) = 2
           /\ At(s, "erase") => call[s].op = "delete" /\ \/ call[s].todo = XsErase1 /\ End(s) = 1
                                                         \/ call[s].todo = XsErase2 /\ End(s) = 2
           /\ At(s, "destroy") => call[s].op = "delete" /\ call[s].todo = XsDestroy
  <1>1. call[s] \in Calls /\ CallInv(s) /\ s \in Slots /\ s \notin EpCalls
    BY DaemonAssumption DEF IInv, Types, Slots
  <1>2. call[s].own = FALSE
    <2>1. call[s].own \in BOOLEAN
      BY <1>1 DEF Calls
    <2> QED BY <1>1, <2>1 DEF CallInv
  <1>3. CASE call[s].op = "none"
    BY <1>1, <1>2, <1>3, IdleFields DEF CallInv, At
  <1>4. CASE call[s].op = "create"
    <2>1. call[s].todo \in {DeDeploy, DeLook, DePut1, DeAttach1, DePut2, DeAttach2, <<>>}
      BY <1>1, <1>4 DEF CallInv, Deps
    <2> QED BY <1>1, <1>2, <1>4, <2>1, DepTable DEF At, End
  <1>5. CASE call[s].op = "delete"
    <2>1. call[s].todo \in {XsDetach1, XsErase1, XsDetach2, XsErase2, XsDestroy, <<>>}
      BY <1>1, <1>5 DEF CallInv, Dess
    <2> QED BY <1>1, <1>2, <1>5, <2>1, DesTable DEF At, End
  <1> QED BY <1>1, <1>3, <1>4, <1>5 DEF CallInv

\* What call c has deployed, and what it has removed, with programs pr, map xm and links ls.
Deployed(c, pr, xm) ==
    c.a /\ c.b /\ (c.todo = <<>> => c.ok) =>
        /\ c.todo \in {DeAttach1, DePut2, DeAttach2, <<>>} => xm[wire[1]] = wire[2]
        /\ c.todo \in {DePut2, DeAttach2, <<>>} => pr[wire[1]] = "new"
        /\ c.todo \in {DeAttach2, <<>>} => xm[wire[2]] = wire[1]
        /\ c.todo = <<>> => pr[wire[2]] = "new"
Undeployed(c, pr, ls) ==
    (c.todo = <<>> => c.ok) =>
        /\ c.todo \in {XsErase1, XsDetach2, XsErase2, XsDestroy, <<>>} => pr[wire[1]] = "none"
        /\ c.todo \in {XsErase2, XsDestroy, <<>>} => pr[wire[2]] = "none"
        /\ c.todo = <<>> => Tunnel \notin ls

\* What calls of an operation have done stays.
DeployedStays ==
    /\ xmap[wire[1]] = wire[2] => xmap'[wire[1]] = wire[2]
    /\ xmap[wire[2]] = wire[1] => xmap'[wire[2]] = wire[1]
    /\ prog[wire[1]] = "new" => prog'[wire[1]] = "new"
    /\ prog[wire[2]] = "new" => prog'[wire[2]] = "new"
UndeployedStays ==
    /\ prog[wire[1]] = "none" => prog'[wire[1]] = "none"
    /\ prog[wire[2]] = "none" => prog'[wire[2]] = "none"
    /\ Tunnel \notin link => Tunnel \notin link'

\* One step of wire call s, which becomes c while the links in lost go.
LEMMA WireLemma ==
    ASSUME IInv, NEW s \in WireCalls, call[s].op # "none", NEW c \in Calls, NEW lost \in SUBSET {Tunnel},
           Becomes(s, c, lost), UNCHANGED <<wire, want, pod, mixed, hung, inner>>,
           c.op = call[s].op, c.v = call[s].v, c.own = call[s].own,
           c.op = "create" => /\ c.todo \in Deps /\ lost = {} /\ DeployedStays
                              /\ (~mixed => Deployed(c, prog', xmap')),
           c.op = "delete" => /\ c.todo \in Dess /\ UndeployedStays
                              /\ (~mixed => Undeployed(c, prog', link')),
           link \ lost \subseteq link', link' \subseteq (link \ lost) \cup ({Tunnel} \cap {wire[1], wire[2]}),
           c.a => wire[1] \in lost \cup link', c.b => wire[2] \in lost \cup link',
           prog' \in [Links -> {"none", "new", "old"}],
           xmap' \in [Links -> Links \cup {None}], xold' \in [Links -> Links \cup {None}],
           answer' \in [op : {"none", "create", "delete"}, ok : BOOLEAN, same : BOOLEAN],
           \A l \in Links : prog'[l] # "none" => l \in link'
    PROVE  IInv'
  <1>1. /\ call' \in [Slots -> Calls] /\ Keeps(call'[s], c, lost)
        /\ \A x \in Slots : x # s => Keeps(call'[x], call[x], lost)
    BY BecomesFields DEF IInv, Slots
  <1>2. /\ Types /\ WireInv /\ EpCalls \subseteq Slots /\ WireCalls \subseteq Slots
        /\ CallInv(s) /\ s \in Slots /\ s \notin EpCalls /\ call[s].own = FALSE
        /\ call[s].op \in {"create", "delete"}
    BY WireAt DEF IInv, Slots, CallInv
  <1>3. Types'
    <2>1. link' \subseteq Links
      BY <1>2, WireEnds DEF Types
    <2> QED BY <1>1, <1>2, <2>1 DEF Types
  <1>4. CallInv(s)'
    <2>1. /\ call'[s].op = call[s].op /\ call'[s].v = call[s].v /\ call'[s].todo = c.todo
          /\ call'[s].own = FALSE /\ (call'[s].a => wire[1] \in link') /\ (call'[s].b => wire[2] \in link')
      BY <1>1, <1>2 DEF Keeps
    <2> QED BY <1>2, <2>1 DEF CallInv
  <1>5. \A x \in Slots : CallInv(x)'
    <2>1. ASSUME NEW x \in Slots, x # s PROVE CallInv(x)'
      BY <1>1, <2>1, CallFrame DEF IInv
    <2> QED BY <1>4, <2>1
  <1>6. OneOwner' /\ WholeInv'
    <2>1. Veths \cap lost = {} /\ link' \cap Veths = link \cap Veths
      BY <1>2, WireEnds
    <2>2. \A x \in EpCalls : Keeps(call'[x], call[x], lost)
      BY <1>1, <1>2
    <2> QED BY <2>1, <2>2, EpFrame
  <1>7. ProgInv' /\ TunnelInv'
    BY <1>2 DEF WireInv, ProgInv, TunnelInv
  <1>8. SameOp'
    <2>1. \A x \in WireCalls : call'[x].op = call[x].op
      BY <1>1, <1>2 DEF Keeps
    <2> QED BY <1>2, <2>1 DEF WireInv, SameOp
  <1>9. ASSUME NEW x \in WireCalls PROVE CreateInv(x)' /\ DeleteInv(x)'
    <2>1. CASE x = s
      <3>1. Keeps(call'[x], c, lost)
        BY <1>1, <2>1
      <3>2. CreateInv(x)'
        BY <3>1 DEF CreateInv, Deployed, Keeps
      <3>3. DeleteInv(x)'
        BY <3>1 DEF DeleteInv, Undeployed, Keeps
      <3> QED BY <3>2, <3>3
    <2>2. CASE x # s
      <3>1. /\ Keeps(call'[x], call[x], lost) /\ CreateInv(x) /\ DeleteInv(x)
            /\ ~mixed /\ call[x].op # "none" => call[x].op = call[s].op
        BY <1>1, <1>2, <2>2 DEF WireInv, SameOp
      <3>2. CreateInv(x)'
        <4>1. CASE ~mixed /\ call[x].op = "create"
          <5>1. /\ call'[x].op = call[x].op /\ call'[x].todo = call[x].todo /\ call'[x].ok = call[x].ok
                /\ (call'[x].a => call[x].a) /\ (call'[x].b => call[x].b)
            BY <3>1 DEF Keeps
          <5>2. DeployedStays
            BY <3>1, <4>1
          <5> QED BY <3>1, <4>1, <5>1, <5>2 DEF CreateInv, DeployedStays
        <4>2. CASE ~(~mixed /\ call[x].op = "create")
          BY <3>1, <4>2 DEF CreateInv, Keeps
        <4> QED BY <4>1, <4>2
      <3>3. DeleteInv(x)'
        BY <3>1 DEF DeleteInv, UndeployedStays, Keeps
      <3> QED BY <3>2, <3>3
    <2> QED BY <2>1, <2>2
  <1>10. ~AtRest'
    <2>1. call'[s].op # "none"
      BY <1>1 DEF Keeps
    <2> QED BY <2>1, IdleFields DEF AtRest
  <1>11. OkIsConnected' /\ DeletedLeavesNothing'
    BY <1>10 DEF OkIsConnected, DeletedLeavesNothing
  <1>12. WireInv'
    BY <1>7, <1>8, <1>9, <1>11 DEF WireInv
  <1> QED BY <1>3, <1>5, <1>6, <1>12 DEF IInv

\* What becomes of a wire call that goes on, skips a step or fails.
LEMMA WireMoves ==
    ASSUME NEW s, call[s] \in Calls, call[s].todo # <<>>, NEW c \in {Passed(s), Jump(s), Failed(s)},
           c.todo \in Deps \cup Dess
    PROVE  /\ c \in Calls /\ c.op = call[s].op /\ c.v = call[s].v /\ c.own = call[s].own
           /\ c.a = call[s].a /\ c.b = call[s].b
           /\ c = Passed(s) => c.todo = Tail(call[s].todo)
           /\ c = Jump(s) => c.todo = Tail(Tail(call[s].todo))
           /\ c = Failed(s) => c.todo = <<>> /\ c.ok = FALSE
  <1>1. /\ Passed(s).todo = Tail(call[s].todo) /\ Failed(s).todo = <<>>
        /\ Failed(s).ok = FALSE /\ Jump(s).todo = Tail(Tail(call[s].todo))
    BY CallSteps
  <1>2. c \in {Passed(s), Done(s), Failed(s), Jump(s)} /\ c.todo \in Ups \cup Dels \cup Deps \cup Dess
    OBVIOUS
  <1>3. /\ c \in Calls /\ c.op = call[s].op /\ c.v = call[s].v /\ c.own = call[s].own
        /\ c.a = call[s].a /\ c.b = call[s].b
    BY <1>2, CallSteps
  <1> QED BY <1>1, <1>3

\* A wire call that fails leaves the links as they are, but may have made the tunnel.
LEMMA WireErrs ==
    ASSUME IInv, NEW s \in WireCalls, call[s].op # "none", call[s].todo # <<>>, Becomes(s, Failed(s), {}),
           UNCHANGED <<wire, want, pod, mixed, hung, inner, prog, xmap, xold, answer>>,
           link \subseteq link', link' \subseteq link \cup ({Tunnel} \cap {wire[1], wire[2]}),
           call[s].op = "delete" => UNCHANGED link
    PROVE  IInv'
  <1>1. /\ call[s] \in Calls /\ CallInv(s) /\ Types /\ ProgInv
    BY WireAt DEF IInv, WireInv
  <1>2. PICK c \in Calls : /\ Becomes(s, c, {}) /\ c.todo = <<>> /\ c.ok = FALSE /\ c.op = call[s].op
                           /\ c.v = call[s].v /\ c.own = call[s].own
                           /\ c.a = call[s].a /\ c.b = call[s].b
    <2>1. <<>> \in Deps /\ Failed(s).todo = <<>>
      BY <1>1, CallSteps, DepStages
    <2> QED BY <1>1, <2>1, WireMoves
  <1>3. <<>> \in Deps /\ <<>> \in Dess
    BY DepStages, DesStages
  <1>4. Deployed(c, prog', xmap') /\ Undeployed(c, prog', link') /\ DeployedStays
    BY <1>2 DEF Deployed, Undeployed, DeployedStays
  <1>5. call[s].op = "delete" => UndeployedStays
    BY DEF UndeployedStays
  <1>6. (c.a => wire[1] \in {} \cup link') /\ (c.b => wire[2] \in {} \cup link')
    BY <1>1, <1>2 DEF CallInv
  <1>7. \A l \in Links : prog'[l] # "none" => l \in link'
    BY <1>1 DEF ProgInv
  <1>8. {} \in SUBSET {Tunnel} /\ link \ {} = link
    OBVIOUS
  <1>9. /\ prog' \in [Links -> {"none", "new", "old"}]
        /\ xmap' \in [Links -> Links \cup {None}] /\ xold' \in [Links -> Links \cup {None}]
        /\ answer' \in [op : {"none", "create", "delete"}, ok : BOOLEAN, same : BOOLEAN]
    BY <1>1 DEF Types
  <1> QED BY <1>2, <1>3, <1>4, <1>5, <1>6, <1>7, <1>8, <1>9, WireLemma

LEMMA DeployStep ==
    ASSUME IInv, NEW s \in WireCalls, DeployNode2Node(s), UNCHANGED <<wire, slots, want, pod, mixed, hung>>
    PROVE  IInv'
  <1>1. /\ call[s] \in Calls /\ CallInv(s) /\ Types /\ ProgInv
        /\ call[s].op = "create" /\ call[s].todo = DeDeploy /\ call[s].todo # <<>>
    BY WireAt, DepTable DEF IInv, WireInv, DeployNode2Node
  <1>2. CASE Errs(s, ~({wire[1], wire[2]} \ link \subseteq {Tunnel}))
    BY <1>1, <1>2, WireErrs DEF Errs, dev
  <1>3. CASE /\ wire[1] = Tunnel /\ createTunnel({Tunnel}) /\ Becomes(s, Failed(s), {})
             /\ UNCHANGED <<inner, prog, xmap, xold, answer>>
    BY <1>1, <1>3, WireErrs DEF createTunnel
  <1>4. CASE /\ createTunnel({wire[1], wire[2]} \ link) /\ Becomes(s, Passed(s), {})
             /\ UNCHANGED <<inner, prog, xmap, xold, answer>>
    <2>1. PICK c \in Calls : /\ Becomes(s, c, {}) /\ c.todo = DeLook /\ c.op = call[s].op
                             /\ c.v = call[s].v /\ c.own = call[s].own
                             /\ c.a = call[s].a /\ c.b = call[s].b
      <3>1. DeLook \in Deps /\ Passed(s).todo = DeLook
        BY <1>1, CallSteps, DepStages, DepTable
      <3> QED BY <1>1, <1>4, <3>1, WireMoves
    <2>2. link \ {} \subseteq link' /\ link' \subseteq (link \ {}) \cup ({Tunnel} \cap {wire[1], wire[2]})
      BY <1>4 DEF createTunnel
    <2>3. c.todo \in Deps /\ Deployed(c, prog', xmap') /\ DeployedStays
      BY <1>4, <2>1, DepStages DEF Deployed, DeployedStays
    <2>4. (c.a => wire[1] \in {} \cup link') /\ (c.b => wire[2] \in {} \cup link')
      BY <1>1, <2>1, <2>2 DEF CallInv
    <2>5. \A l \in Links : prog'[l] # "none" => l \in link'
      BY <1>1, <1>4, <2>2 DEF ProgInv
    <2>6. /\ prog' \in [Links -> {"none", "new", "old"}]
          /\ xmap' \in [Links -> Links \cup {None}] /\ xold' \in [Links -> Links \cup {None}]
          /\ answer' \in [op : {"none", "create", "delete"}, ok : BOOLEAN, same : BOOLEAN]
      BY <1>1, <1>4 DEF Types
    <2>7. {} \in SUBSET {Tunnel}
      OBVIOUS
    <2> QED BY <1>1, <1>4, <2>1, <2>2, <2>3, <2>4, <2>5, <2>6, <2>7, WireLemma
  <1> QED BY <1>2, <1>3, <1>4 DEF DeployNode2Node, Proceeds

LEMMA LookStep ==
    ASSUME IInv, NEW s \in WireCalls, LookUp(s), UNCHANGED <<wire, slots, want, pod, mixed, hung>>
    PROVE  IInv'
  <1>1. /\ call[s] \in Calls /\ CallInv(s) /\ Types /\ ProgInv
        /\ call[s].op = "create" /\ call[s].todo = DeLook /\ call[s].todo # <<>>
    BY WireAt, DepTable DEF IInv, WireInv, LookUp
  <1>2. CASE Errs(s, ~({wire[1], wire[2]} \subseteq link))
    BY <1>1, <1>2, WireErrs DEF Errs, dev
  <1>3. CASE /\ {wire[1], wire[2]} \subseteq link /\ UNCHANGED <<dev, answer>>
             /\ Becomes(s, [Passed(s) EXCEPT !.a = TRUE, !.b = TRUE], {})
    <2>1. PICK c \in Calls : /\ Becomes(s, c, {}) /\ c.todo = DePut1 /\ c.op = call[s].op
                             /\ c.v = call[s].v /\ c.own = call[s].own
      <3>1. DePut1 \in Deps /\ Passed(s).todo = DePut1
        <4>1. Passed(s).todo = Tail(call[s].todo)
          BY <1>1, CallSteps
        <4> QED BY <1>1, <4>1, DepStages, DepTable
      <3>2. PICK d \in Calls : /\ d = Passed(s) /\ d.todo = DePut1 /\ d.op = call[s].op
                               /\ d.v = call[s].v /\ d.own = call[s].own
        BY <1>1, <3>1, WireMoves
      <3> DEFINE e == [d EXCEPT !.a = TRUE, !.b = TRUE]
      <3>3. e \in Calls /\ e.todo = d.todo /\ e.op = d.op /\ e.v = d.v /\ e.own = d.own
        BY DEF Calls
      <3> QED BY <1>3, <3>2, <3>3
    <2>2. UNCHANGED <<link, inner, prog, xmap, xold, answer>>
      BY <1>3 DEF dev
    <2>3. c.todo \in Deps /\ Deployed(c, prog', xmap') /\ DeployedStays
      BY <2>1, <2>2, DepStages DEF Deployed, DeployedStays
    <2>4. (c.a => wire[1] \in {} \cup link') /\ (c.b => wire[2] \in {} \cup link')
      BY <1>3, <2>2
    <2>5. \A l \in Links : prog'[l] # "none" => l \in link'
      BY <1>1, <2>2 DEF ProgInv
    <2>6. /\ prog' \in [Links -> {"none", "new", "old"}]
          /\ xmap' \in [Links -> Links \cup {None}] /\ xold' \in [Links -> Links \cup {None}]
          /\ answer' \in [op : {"none", "create", "delete"}, ok : BOOLEAN, same : BOOLEAN]
      BY <1>1, <2>2 DEF Types
    <2>7. {} \in SUBSET {Tunnel}
      OBVIOUS
    <2> QED BY <1>1, <2>1, <2>2, <2>3, <2>4, <2>5, <2>6, <2>7, WireLemma
  <1> QED BY <1>2, <1>3 DEF LookUp

\* A wire call that goes on to the rest t of its program, with programs, map and links as they are then.
LEMMA WireGoes ==
    ASSUME IInv, NEW s \in WireCalls, call[s].todo # <<>>, NEW t \in Deps \cup Dess,
           t = Tail(call[s].todo), Becomes(s, Passed(s), {}),
           UNCHANGED <<wire, want, pod, mixed, hung, inner, link, xold, answer>>,
           prog' \in [Links -> {"none", "new", "old"}], xmap' \in [Links -> Links \cup {None}],
           \A l \in Links : prog'[l] # "none" => l \in link,
           call[s].op = "create" =>
               /\ t \in Deps /\ DeployedStays
               /\ ~mixed /\ call[s].a /\ call[s].b =>
                    /\ t \in {DeAttach1, DePut2, DeAttach2, <<>>} => xmap'[wire[1]] = wire[2]
                    /\ t \in {DePut2, DeAttach2, <<>>} => prog'[wire[1]] = "new"
                    /\ t \in {DeAttach2, <<>>} => xmap'[wire[2]] = wire[1]
                    /\ t = <<>> => prog'[wire[2]] = "new",
           call[s].op = "delete" =>
               /\ t \in Dess \ {<<>>} /\ UndeployedStays
               /\ ~mixed =>
                    /\ t # XsDetach1 => prog'[wire[1]] = "none"
                    /\ t \in {XsErase2, XsDestroy} => prog'[wire[2]] = "none"
    PROVE  IInv'
  <1>1. call[s] \in Calls /\ CallInv(s) /\ Types /\ call[s].op # "none"
    <2>1. call[s] \in Calls /\ CallInv(s) /\ Types
      BY WireAt DEF IInv
    <2> QED BY <2>1, IdleFields DEF CallInv
  <1>2. PICK c \in Calls : /\ Becomes(s, c, {}) /\ c.todo = t /\ c.op = call[s].op
                           /\ c.v = call[s].v /\ c.own = call[s].own
                           /\ c.a = call[s].a /\ c.b = call[s].b
    <2>1. Passed(s).todo = t
      BY <1>1, CallSteps
    <2> QED BY <1>1, <2>1, WireMoves
  <1>3. c.op = "create" => c.todo \in Deps /\ DeployedStays /\ (~mixed => Deployed(c, prog', xmap'))
    BY <1>2 DEF Deployed
  <1>4. c.op = "delete" => c.todo \in Dess /\ UndeployedStays /\ (~mixed => Undeployed(c, prog', link'))
    BY <1>2, DesStages DEF Undeployed
  <1>5. (c.a => wire[1] \in {} \cup link') /\ (c.b => wire[2] \in {} \cup link')
    BY <1>1, <1>2 DEF CallInv
  <1>6. \A l \in Links : prog'[l] # "none" => l \in link'
    OBVIOUS
  <1>7. /\ xold' \in [Links -> Links \cup {None}]
        /\ answer' \in [op : {"none", "create", "delete"}, ok : BOOLEAN, same : BOOLEAN]
    BY <1>1 DEF Types
  <1>8. {} \in SUBSET {Tunnel} /\ link \ {} = link
    OBVIOUS
  <1> QED BY <1>1, <1>2, <1>3, <1>4, <1>5, <1>6, <1>7, <1>8, WireLemma

LEMMA PutStep ==
    ASSUME IInv, NEW s \in WireCalls, PutXConnect(s), UNCHANGED <<wire, slots, want, pod, mixed, hung>>
    PROVE  IInv'
  <1>1. /\ call[s] \in Calls /\ CallInv(s) /\ Types /\ ProgInv /\ CreateInv(s)
        /\ call[s].op = "create" /\ call[s].todo # <<>>
        /\ (call[s].todo = DePut1 /\ End(s) = 1) \/ (call[s].todo = DePut2 /\ End(s) = 2)
    BY WireAt, DepTable DEF IInv, WireInv, PutXConnect
  <1>2. wire[1] \in Links /\ wire[2] \in Links /\ 3 - 1 = 2 /\ 3 - 2 = 1
    BY <1>1, WireEnds
  <1>3. CASE Errs(s, ~Holds(s, 3 - End(s)))
    BY <1>1, <1>3, WireErrs DEF Errs, dev
  <1>4. ASSUME NEW i \in {1, 2}, NEW j \in {1, 2}, i = End(s), j = 3 - i, Becomes(s, Passed(s), {}),
               xmap' = IF Holds(s, i) THEN [xmap EXCEPT ![wire[i]] = wire[j]] ELSE xmap,
               UNCHANGED <<link, inner, prog, xold, answer>>
        PROVE  IInv'
    <2>1. /\ xmap' \in [Links -> Links \cup {None}] /\ prog' \in [Links -> {"none", "new", "old"}]
          /\ \A l \in Links : prog'[l] # "none" => l \in link
      BY <1>1, <1>2, <1>4 DEF Types, ProgInv
    <2>2. CASE i = 1
      <3>1. j = 2 /\ call[s].todo = DePut1
        BY <1>1, <1>2, <1>4, <2>2
      <3>2. DeAttach1 = Tail(call[s].todo) /\ DeAttach1 \in Deps /\ DeAttach1 \notin {DePut2, DeAttach2, <<>>}
        BY <3>1, DepTable, DepStages
      <3>3. DeployedStays
        BY <1>1, <1>2, <1>4, <2>2, <3>1 DEF DeployedStays, Types
      <3>4. call[s].a => xmap'[wire[1]] = wire[2]
        BY <1>1, <1>2, <1>4, <2>2, <3>1 DEF Holds, Types
      <3> QED BY <1>1, <1>4, <2>1, <3>2, <3>3, <3>4, WireGoes
    <2>3. CASE i = 2
      <3>1. j = 1 /\ call[s].todo = DePut2
        BY <1>1, <1>2, <1>4, <2>3
      <3>2. DeAttach2 = Tail(call[s].todo) /\ DeAttach2 \in Deps /\ DeAttach2 # <<>>
        BY <3>1, DepTable, DepStages
      <3>3. DeployedStays
        BY <1>1, <1>2, <1>4, <2>3, <3>1 DEF DeployedStays, Types
      <3>4. call[s].b => xmap'[wire[2]] = wire[1]
        BY <1>1, <1>2, <1>4, <2>3, <3>1 DEF Holds, Types
      <3>5. ~mixed /\ call[s].a /\ call[s].b => xmap[wire[1]] = wire[2] /\ prog[wire[1]] = "new"
        BY <1>1, <3>1 DEF CreateInv
      <3> QED BY <1>1, <1>4, <2>1, <3>2, <3>3, <3>4, <3>5, WireGoes DEF DeployedStays
    <2> QED BY <1>4, <2>2, <2>3
  <1> QED BY <1>1, <1>2, <1>3, <1>4 DEF PutXConnect, Proceeds

LEMMA AttachStep ==
    ASSUME IInv, NEW s \in WireCalls, Attach(s), UNCHANGED <<wire, slots, want, pod, mixed, hung>>
    PROVE  IInv'
  <1>1. /\ call[s] \in Calls /\ CallInv(s) /\ Types /\ ProgInv /\ CreateInv(s)
        /\ call[s].op = "create" /\ call[s].todo # <<>>
        /\ (call[s].todo = DeAttach1 /\ End(s) = 1) \/ (call[s].todo = DeAttach2 /\ End(s) = 2)
    BY WireAt, DepTable DEF IInv, WireInv, Attach
  <1>2. wire[1] \in Links /\ wire[2] \in Links
    BY <1>1, WireEnds
  <1>3. CASE Errs(s, ~Holds(s, End(s)))
    BY <1>1, <1>3, WireErrs DEF Errs, dev
  <1>4. ASSUME NEW i \in {1, 2}, i = End(s), Becomes(s, Passed(s), {}), Holds(s, i),
               prog' = [prog EXCEPT ![wire[i]] = "new"], UNCHANGED <<link, inner, xmap, xold, answer>>
        PROVE  IInv'
    <2>1. wire[i] \in link /\ wire[i] \in Links
      BY <1>1, <1>2, <1>4 DEF Holds, CallInv
    <2>2. /\ xmap' \in [Links -> Links \cup {None}] /\ prog' \in [Links -> {"none", "new", "old"}]
          /\ prog'[wire[i]] = "new"
      BY <1>1, <1>4, <2>1 DEF Types
    <2>3. \A l \in Links : prog'[l] # "none" => l \in link
      BY <1>1, <1>4, <2>1 DEF Types, ProgInv
    <2>4. DeployedStays
      BY <1>1, <1>2, <1>4 DEF DeployedStays, Types
    <2>5. CASE i = 1
      <3>1. call[s].todo = DeAttach1
        BY <1>1, <1>4, <2>5
      <3>2. DePut2 = Tail(call[s].todo) /\ DePut2 \in Deps /\ DePut2 \notin {DeAttach2, <<>>}
        BY <3>1, DepTable, DepStages
      <3>3. ~mixed /\ call[s].a /\ call[s].b => xmap[wire[1]] = wire[2]
        BY <1>1, <3>1 DEF CreateInv
      <3> QED BY <1>1, <1>4, <2>2, <2>3, <2>4, <2>5, <3>2, <3>3, WireGoes
    <2>6. CASE i = 2
      <3>1. call[s].todo = DeAttach2
        BY <1>1, <1>4, <2>6
      <3>2. <<>> = Tail(call[s].todo) /\ <<>> \in Deps
        BY <3>1, DepTable, DepStages
      <3>3. ~mixed /\ call[s].a /\ call[s].b =>
                xmap[wire[1]] = wire[2] /\ prog[wire[1]] = "new" /\ xmap[wire[2]] = wire[1]
        BY <1>1, <3>1 DEF CreateInv
      <3>4. ~mixed /\ call[s].a /\ call[s].b => prog'[wire[1]] = "new"
        BY <2>4, <3>3 DEF DeployedStays
      <3> QED BY <1>1, <1>4, <2>2, <2>3, <2>4, <2>6, <3>2, <3>3, <3>4, WireGoes
    <2> QED BY <1>4, <2>5, <2>6
  <1> QED BY <1>1, <1>3, <1>4 DEF Attach, Proceeds

LEMMA DetachStep ==
    ASSUME IInv, NEW s \in WireCalls, Detach(s), UNCHANGED <<wire, slots, want, pod, mixed, hung>>
    PROVE  IInv'
  <1>1. /\ call[s] \in Calls /\ CallInv(s) /\ Types /\ ProgInv /\ DeleteInv(s)
        /\ call[s].op = "delete" /\ call[s].todo # <<>>
        /\ (call[s].todo = XsDetach1 /\ End(s) = 1) \/ (call[s].todo = XsDetach2 /\ End(s) = 2)
    BY WireAt, DesTable DEF IInv, WireInv, Detach
  <1>2. wire[1] \in Links /\ wire[2] \in Links
    BY <1>1, WireEnds
  <1>3. CASE Errs(s, FALSE)
    BY <1>1, <1>3, WireErrs DEF Errs, dev
  <1>4. ASSUME NEW i \in {1, 2}, i = End(s), NEW c \in Calls, Becomes(s, c, {}),
               c.op = call[s].op, c.v = call[s].v, c.own = call[s].own,
               i = 1 => c.todo \in {XsErase1, XsDetach2}, i = 2 => c.todo \in {XsErase2, XsDestroy},
               c.a => wire[1] \in link, c.b => wire[2] \in link,
               prog' = [prog EXCEPT ![wire[i]] = "none"], UNCHANGED <<link, inner, xmap, xold, answer>>
        PROVE  IInv'
    <2>1. /\ xmap' \in [Links -> Links \cup {None}] /\ xold' \in [Links -> Links \cup {None}]
          /\ answer' \in [op : {"none", "create", "delete"}, ok : BOOLEAN, same : BOOLEAN]
      BY <1>1, <1>4 DEF Types
    <2>2. /\ prog' \in [Links -> {"none", "new", "old"}]
          /\ \A l \in Links : prog'[l] # "none" => l \in link'
      BY <1>1, <1>4 DEF Types, ProgInv
    <2>3. UndeployedStays
      BY <1>1, <1>2, <1>4 DEF UndeployedStays, Types
    <2>4. prog'[wire[i]] = "none" /\ c.todo \in Dess
      BY <1>1, <1>2, <1>4, DesStages DEF Types
    <2>5. ~mixed => Undeployed(c, prog', link')
      <3>1. CASE i = 1
        BY <1>4, <2>4, <3>1, DesStages DEF Undeployed
      <3>2. CASE i = 2
        <4>1. call[s].todo = XsDetach2
          BY <1>1, <1>4, <3>2
        <4>2. XsDetach2 # <<>>
          BY DesTable
        <4>3. ~mixed => prog[wire[1]] = "none"
          BY <1>1, <4>1, <4>2 DEF DeleteInv
        <4>4. c.todo # <<>>
          BY <1>4, <3>2, DesStages
        <4> QED BY <1>4, <2>3, <2>4, <3>2, <4>3, <4>4 DEF Undeployed, UndeployedStays
      <3> QED BY <1>4, <3>1, <3>2
    <2>6. {} \in SUBSET {Tunnel} /\ link \ {} = link
      OBVIOUS
    <2> QED BY <1>1, <1>4, <2>1, <2>2, <2>3, <2>4, <2>5, <2>6, WireLemma
  <1>5. Tail(call[s].todo) \in Dess /\ Tail(Tail(call[s].todo)) \in Dess
        /\ (call[s].todo = XsDetach1 => Tail(call[s].todo) = XsErase1 /\ Tail(Tail(call[s].todo)) = XsDetach2)
        /\ (call[s].todo = XsDetach2 => Tail(call[s].todo) = XsErase2 /\ Tail(Tail(call[s].todo)) = XsDestroy)
    BY <1>1, DesTable, DesStages
  <1>6. CASE /\ wire[End(s)] \notin link /\ Becomes(s, Jump(s), {}) /\ UNCHANGED <<dev, answer>>
    <2>1. /\ Jump(s) \in Calls /\ Jump(s).op = call[s].op /\ Jump(s).v = call[s].v /\ Jump(s).own = call[s].own
          /\ Jump(s).a = call[s].a /\ Jump(s).b = call[s].b /\ Jump(s).todo = Tail(Tail(call[s].todo))
      <3>1. Jump(s).todo = Tail(Tail(call[s].todo))
        BY <1>1, CallSteps
      <3> QED BY <1>1, <1>5, <3>1, WireMoves
    <2>2. /\ wire[End(s)] \in Links /\ prog[wire[End(s)]] = "none" /\ End(s) \in {1, 2}
      BY <1>1, <1>2, <1>6 DEF ProgInv
    <2>3. prog' = [prog EXCEPT ![wire[End(s)]] = "none"] /\ UNCHANGED <<link, inner, xmap, xold, answer>>
      BY <1>1, <1>6, <2>2 DEF Types, dev
    <2>4. (Jump(s).a => wire[1] \in link) /\ (Jump(s).b => wire[2] \in link)
      BY <1>1, <2>1 DEF CallInv
    <2>5. /\ End(s) = 1 => Jump(s).todo \in {XsErase1, XsDetach2}
          /\ End(s) = 2 => Jump(s).todo \in {XsErase2, XsDestroy}
      <3>1. CASE call[s].todo = XsDetach1 /\ End(s) = 1
        <4>1. Jump(s).todo = XsDetach2
          BY <1>5, <2>1, <3>1
        <4> QED BY <3>1, <4>1
      <3>2. CASE call[s].todo = XsDetach2 /\ End(s) = 2
        <4>1. Jump(s).todo = XsDestroy
          BY <1>5, <2>1, <3>2
        <4> QED BY <3>2, <4>1
      <3> QED BY <1>1, <3>1, <3>2
    <2> QED BY <1>4, <1>6, <2>1, <2>2, <2>3, <2>4, <2>5
  <1>7. CASE /\ wire[End(s)] \in link /\ prog' = [prog EXCEPT ![wire[End(s)]] = "none"]
             /\ Becomes(s, [Passed(s) EXCEPT !.a = @ \/ End(s) = 1, !.b = @ \/ End(s) = 2], {})
             /\ UNCHANGED <<link, inner, xmap, xold, answer>>
    <2>1. PICK d \in Calls : /\ d = Passed(s) /\ d.op = call[s].op /\ d.v = call[s].v /\ d.own = call[s].own
                             /\ d.a = call[s].a /\ d.b = call[s].b /\ d.todo = Tail(call[s].todo)
      <3>1. Passed(s).todo = Tail(call[s].todo)
        BY <1>1, CallSteps
      <3> QED BY <1>1, <1>5, <3>1, WireMoves
    <2> DEFINE e == [d EXCEPT !.a = @ \/ End(s) = 1, !.b = @ \/ End(s) = 2]
    <2>2. /\ e \in Calls /\ e.op = d.op /\ e.v = d.v /\ e.own = d.own /\ e.todo = d.todo
          /\ e.a = (d.a \/ End(s) = 1) /\ e.b = (d.b \/ End(s) = 2)
      BY DEF Calls
    <2>3. Becomes(s, e, {})
      BY <1>7, <2>1
    <2> HIDE DEF e
    <2>4. (e.a => wire[1] \in link) /\ (e.b => wire[2] \in link)
      BY <1>1, <1>7, <2>1, <2>2 DEF CallInv
    <2>5. /\ End(s) \in {1, 2}
          /\ End(s) = 1 => e.todo \in {XsErase1, XsDetach2}
          /\ End(s) = 2 => e.todo \in {XsErase2, XsDestroy}
      BY <1>1, <1>5, <2>1, <2>2
    <2> QED BY <1>4, <1>7, <2>1, <2>2, <2>3, <2>4, <2>5
  <1> QED BY <1>3, <1>6, <1>7 DEF Detach

LEMMA EraseStep ==
    ASSUME IInv, NEW s \in WireCalls, EraseXConnect(s), UNCHANGED <<wire, slots, want, pod, mixed, hung>>
    PROVE  IInv'
  <1>1. /\ call[s] \in Calls /\ CallInv(s) /\ Types /\ ProgInv /\ DeleteInv(s)
        /\ call[s].op = "delete" /\ call[s].todo # <<>>
        /\ (call[s].todo = XsErase1 /\ End(s) = 1) \/ (call[s].todo = XsErase2 /\ End(s) = 2)
    BY WireAt, DesTable DEF IInv, WireInv, EraseXConnect
  <1>2. wire[1] \in Links /\ wire[2] \in Links
    BY <1>1, WireEnds
  <1>3. CASE Errs(s, FALSE)
    BY <1>1, <1>3, WireErrs DEF Errs, dev
  <1>4. CASE /\ xmap' = IF Holds(s, End(s)) THEN [xmap EXCEPT ![wire[End(s)]] = None] ELSE xmap
             /\ Becomes(s, Passed(s), {}) /\ UNCHANGED <<link, inner, prog, xold, answer>>
    <2>1. /\ xmap' \in [Links -> Links \cup {None}] /\ prog' \in [Links -> {"none", "new", "old"}]
          /\ \A l \in Links : prog'[l] # "none" => l \in link
      BY <1>1, <1>4 DEF Types, ProgInv
    <2>2. UndeployedStays
      BY <1>4 DEF UndeployedStays
    <2>3. ~mixed => /\ prog'[wire[1]] = "none"
                    /\ Tail(call[s].todo) \in {XsErase2, XsDestroy} => prog'[wire[2]] = "none"
      <3>1. CASE call[s].todo = XsErase1
        BY <1>1, <1>4, <3>1, DesTable, DesStages DEF DeleteInv
      <3>2. CASE call[s].todo = XsErase2
        BY <1>1, <1>4, <3>2, DesTable, DesStages DEF DeleteInv
      <3> QED BY <1>1, <3>1, <3>2
    <2>4. Tail(call[s].todo) \in Dess \ {<<>>}
      BY <1>1, DesTable, DesStages
    <2>5. PICK t \in Dess \ {<<>>} : t = Tail(call[s].todo)
      BY <2>4
    <2> QED BY <1>1, <1>4, <2>1, <2>2, <2>3, <2>5, WireGoes
  <1> QED BY <1>3, <1>4 DEF EraseXConnect, Proceeds

LEMMA DestroyStep ==
    ASSUME IInv, NEW s \in WireCalls, DestroyNode2Node(s), UNCHANGED <<wire, slots, want, pod, mixed, hung>>
    PROVE  IInv'
  <1>1. /\ call[s] \in Calls /\ CallInv(s) /\ Types /\ ProgInv /\ TunnelInv /\ DeleteInv(s)
        /\ call[s].op = "delete" /\ call[s].todo = XsDestroy /\ call[s].todo # <<>>
    BY WireAt, DesTable DEF IInv, WireInv, DestroyNode2Node
  <1>2. wire[1] \in Links /\ wire[2] \in Links /\ Tunnel \notin Veths
    BY <1>1, WireEnds
  <1>3. CASE Errs(s, FALSE)
    BY <1>1, <1>3, WireErrs DEF Errs, dev
  <1>4. ASSUME NEW lost, lost = deleteItfce({wire[1], wire[2]} \cap {Tunnel}), Remove(lost),
               Becomes(s, Passed(s), lost)
        PROVE  IInv'
    <2>1. PICK c \in Calls : /\ Becomes(s, c, lost) /\ c.todo = <<>> /\ c.op = call[s].op
                             /\ c.v = call[s].v /\ c.own = call[s].own
                             /\ c.a = call[s].a /\ c.b = call[s].b
      <3>1. Passed(s).todo = Tail(call[s].todo)
        BY <1>1, CallSteps
      <3>2. Passed(s).todo = <<>> /\ <<>> \in Dess
        BY <1>1, <3>1, DesTable, DesStages
      <3> QED BY <1>1, <1>4, <3>2, WireMoves
    <2>2. /\ Removed(lost) /\ link' = link \ lost /\ inner' \in [Veths -> Ends]
          /\ \A v \in Veths : inner'[v] = IF v \in lost THEN "none" ELSE inner[v]
      BY <1>1, <1>4, RemoveLemma
    <2>3. lost \in SUBSET {Tunnel} /\ Tunnel \notin link' /\ Veths \cap lost = {}
      BY <1>1, <1>2, <1>4, <2>2 DEF deleteItfce, TunnelInv
    <2>4. UNCHANGED inner
      <3>1. \A v \in Veths : inner'[v] = inner[v]
        BY <2>2, <2>3
      <3>2. inner \in [Veths -> Ends]
        BY <1>1 DEF Types
      <3> QED BY <2>2, <3>1, <3>2
    <2>5. /\ prog' \in [Links -> {"none", "new", "old"}]
          /\ xmap' \in [Links -> Links \cup {None}] /\ xold' \in [Links -> Links \cup {None}]
          /\ answer' \in [op : {"none", "create", "delete"}, ok : BOOLEAN, same : BOOLEAN]
          /\ \A l \in Links : prog'[l] = IF l \in lost THEN "none" ELSE prog[l]
      BY <2>2 DEF Removed
    <2>6. \A l \in Links : prog'[l] # "none" => l \in link'
      BY <1>1, <2>2, <2>5 DEF ProgInv
    <2>7. UndeployedStays
      BY <1>2, <2>2, <2>5 DEF UndeployedStays
    <2>8. ~mixed => Undeployed(c, prog', link')
      <3>1. ~mixed => prog[wire[1]] = "none" /\ prog[wire[2]] = "none"
        BY <1>1, DesTable DEF DeleteInv
      <3> QED BY <2>3, <2>7, <3>1 DEF Undeployed, UndeployedStays
    <2>9. (c.a => wire[1] \in lost \cup link') /\ (c.b => wire[2] \in lost \cup link')
      BY <1>1, <2>1, <2>2 DEF CallInv
    <2>10. c.op = "delete" /\ c.todo \in Dess
      BY <1>1, <2>1, DesStages
    <2> QED BY <1>1, <2>1, <2>2, <2>3, <2>4, <2>5, <2>6, <2>7, <2>8, <2>9, <2>10, WireLemma
  <1> QED BY <1>3, <1>4 DEF DestroyNode2Node

\* A deployment that is answered with OK has connected the links it holds, and a deletion
\* has left nothing.
LEMMA WireAnswerStep ==
    ASSUME IInv, NEW s \in WireCalls, Answer(s), UNCHANGED <<wire, slots, want, pod, mixed, hung>>
    PROVE  IInv'
  <1>1. /\ call[s] \in Calls /\ CallInv(s) /\ Types /\ WireInv /\ call[s].todo = <<>>
        /\ EpCalls \subseteq Slots /\ WireCalls \subseteq Slots /\ s \notin EpCalls
        /\ s \in Slots /\ call \in [Slots -> Calls]
        /\ UNCHANGED <<link, inner, prog, xmap, xold>>
    BY WireAt DEF IInv, Slots, Types, Answer, dev
  <1>2. call'[s] = Idle /\ call' \in [Slots -> Calls] /\ \A x \in Slots : x # s => call'[x] = call[x]
    BY <1>1, IdleFields DEF Answer
  <1>3. \A x \in Slots : x # s => Keeps(call'[x], call[x], {})
    BY <1>1, <1>2, KeepsSelf
  <1>4. answer' = [op |-> call[s].op, ok |-> call[s].ok, same |-> call[s].op = "create" /\ call[s].a /\ call[s].b]
    BY DEF Answer
  <1>5. /\ answer' \in [op : {"none", "create", "delete"}, ok : BOOLEAN, same : BOOLEAN]
        /\ answer'.op = call[s].op /\ answer'.ok = call[s].ok
        /\ answer'.same => call[s].a /\ call[s].b
    <2>1. call[s].op \in {"none", "create", "delete"} /\ call[s].ok \in BOOLEAN
      BY <1>1 DEF CallInv, Calls
    <2> QED BY <1>4, <2>1
  <1>6. Types'
    BY <1>1, <1>2, <1>5 DEF Types
  <1>7. \A x \in Slots : CallInv(x)'
    <2>1. ASSUME NEW x \in Slots, x # s PROVE CallInv(x)'
      BY <1>1, <1>3, <2>1, CallFrame DEF IInv
    <2>2. CallInv(s)'
      BY <1>1, <1>2, IdleFields DEF CallInv
    <2> QED BY <2>1, <2>2
  <1>8. OneOwner' /\ WholeInv'
    <2>1. \A x \in EpCalls : Keeps(call'[x], call[x], {})
      BY <1>1, <1>3
    <2> QED BY <1>1, <2>1, EpFrame
  <1>9. ProgInv' /\ TunnelInv' /\ SameOp'
    BY <1>1, <1>2, IdleFields DEF WireInv, ProgInv, TunnelInv, SameOp
  <1>10. \A x \in WireCalls : CreateInv(x)' /\ DeleteInv(x)'
    <2> TAKE x \in WireCalls
    <2>1. CASE x = s
      BY <1>2, <2>1, IdleFields DEF CreateInv, DeleteInv
    <2>2. CASE x # s
      <3>1. call'[x] = call[x] /\ CreateInv(x) /\ DeleteInv(x)
        BY <1>1, <1>2, <2>2 DEF WireInv
      <3> QED BY <1>1, <3>1 DEF CreateInv, DeleteInv
    <2> QED BY <2>1, <2>2
  <1>11. OkIsConnected'
    <2> SUFFICES ASSUME ~mixed, call[s].op = "create", call[s].ok, call[s].a, call[s].b
                 PROVE  Connected'
      BY <1>5 DEF OkIsConnected
    <2>1. /\ xmap[wire[1]] = wire[2] /\ prog[wire[1]] = "new"
          /\ xmap[wire[2]] = wire[1] /\ prog[wire[2]] = "new"
      BY <1>1 DEF WireInv, CreateInv
    <2> QED BY <1>1, <2>1 DEF Connected, Peer
  <1>12. DeletedLeavesNothing'
    <2> SUFFICES ASSUME ~mixed, call[s].op = "delete", call[s].ok
                 PROVE  Tunnel \notin link' /\ \A i \in 1 .. 2 : prog'[wire'[i]] = "none"
      BY <1>5 DEF DeletedLeavesNothing
    <2>1. prog[wire[1]] = "none" /\ prog[wire[2]] = "none" /\ Tunnel \notin link
      BY <1>1 DEF WireInv, DeleteInv
    <2> QED BY <1>1, <2>1
  <1>13. WireInv'
    BY <1>9, <1>10, <1>11, <1>12 DEF WireInv
  <1> QED BY <1>6, <1>7, <1>8, <1>13 DEF IInv

LEMMA StartWireStep ==
    ASSUME IInv, NEW s \in WireCalls, StartWire(s), UNCHANGED <<wire, slots, want, pod, hung>>
    PROVE  IInv'
  <1>1. /\ CallInv(s) /\ Types /\ WireInv /\ EpCalls \subseteq Slots /\ WireCalls \subseteq Slots
        /\ s \in Slots /\ s \notin EpCalls /\ call \in [Slots -> Calls] /\ want \in {"create", "delete"}
        /\ UNCHANGED <<link, inner, prog, xmap, xold, answer>>
    BY WireAt DEF IInv, Slots, Types, StartWire, dev
  <1>2. PICK c \in Calls : /\ call' = [call EXCEPT ![s] = c] /\ c.op = want /\ c.v = None
                           /\ c.own = FALSE /\ c.a = FALSE /\ c.b = FALSE
                           /\ c.todo = IF want = "create" THEN DeDeploy ELSE XsDetach1
    <2> DEFINE c == [Idle EXCEPT !.op = want, !.ok = TRUE,
                                 !.todo = IF want = "create" THEN Deploy ELSE Destroy]
    <2>1. Deploy = DeDeploy /\ Destroy = XsDetach1 /\ DeDeploy \in Deps /\ XsDetach1 \in Dess
      BY DEF DeDeploy, XsDetach1, Deps, Dess
    <2>2. /\ c \in Calls /\ c.op = want /\ c.v = None /\ c.own = FALSE /\ c.a = FALSE /\ c.b = FALSE
          /\ c.todo = IF want = "create" THEN DeDeploy ELSE XsDetach1
      BY <1>1, <2>1 DEF Idle, Calls
    <2>3. call' = [call EXCEPT ![s] = c]
      BY DEF StartWire
    <2> QED BY <2>2, <2>3
  <1>3. call'[s] = c /\ call' \in [Slots -> Calls] /\ \A x \in Slots : x # s => call'[x] = call[x]
    BY <1>1, <1>2
  <1>4. \A x \in Slots : x # s => Keeps(call'[x], call[x], {})
    BY <1>1, <1>3, KeepsSelf
  <1>5. /\ mixed' \in BOOLEAN
        /\ ~mixed' => \A x \in WireCalls : x # s /\ call[x].op # "none" => ~mixed /\ call[x].op = want
    BY IdleFields DEF StartWire
  <1>6. Types'
    BY <1>1, <1>3, <1>5 DEF Types
  <1>7. \A x \in Slots : CallInv(x)'
    <2>1. ASSUME NEW x \in Slots, x # s PROVE CallInv(x)'
      BY <1>1, <1>4, <2>1, CallFrame DEF IInv
    <2>2. CallInv(s)'
      BY <1>1, <1>2, <1>3, DepStages, DesStages DEF CallInv
    <2> QED BY <2>1, <2>2
  <1>8. OneOwner' /\ WholeInv'
    <2>1. \A x \in EpCalls : Keeps(call'[x], call[x], {})
      BY <1>1, <1>4
    <2> QED BY <1>1, <2>1, EpFrame
  <1>9. ProgInv' /\ TunnelInv'
    BY <1>1 DEF WireInv, ProgInv, TunnelInv
  <1>10. SameOp'
    <2>1. ~mixed' => \A x \in WireCalls : call'[x].op # "none" => call'[x].op = want
      BY <1>1, <1>2, <1>3, <1>5
    <2> QED BY <2>1 DEF SameOp
  <1>11. \A x \in WireCalls : CreateInv(x)' /\ DeleteInv(x)'
    <2> TAKE x \in WireCalls
    <2>1. CASE x = s
      <3>1. CreateInv(x)'
        BY <1>2, <1>3, <2>1 DEF CreateInv
      <3>2. DeleteInv(x)'
        BY <1>2, <1>3, <2>1, DesStages DEF DeleteInv
      <3> QED BY <3>1, <3>2
    <2>2. CASE x # s
      <3>1. call'[x] = call[x] /\ CreateInv(x) /\ DeleteInv(x)
        BY <1>1, <1>3, <2>2 DEF WireInv
      <3>2. ~mixed' /\ call[x].op # "none" => ~mixed
        BY <1>5, <2>2
      <3> QED BY <1>1, <3>1, <3>2 DEF CreateInv, DeleteInv
    <2> QED BY <2>1, <2>2
  <1>12. OkIsConnected' /\ DeletedLeavesNothing'
    <2>1. call'[s] # Idle
      BY <1>1, <1>2, <1>3, IdleFields
    <2> QED BY <2>1 DEF OkIsConnected, DeletedLeavesNothing, AtRest
  <1>13. WireInv'
    BY <1>9, <1>10, <1>11, <1>12 DEF WireInv
  <1> QED BY <1>6, <1>7, <1>8, <1>13 DEF IInv

----------------------------------------------------------------------------
(* The world around it *)

\* Links of a pod that go take what calls hold of them along.
LEMMA PodStep ==
    ASSUME IInv, NEW v \in Local, PodChange(v), UNCHANGED <<wire, slots, want, mixed>>
    PROVE  IInv'
  <1>1. /\ v \in Veths /\ Types /\ OneOwner /\ WholeInv /\ WireInv /\ call \in [Slots -> Calls]
        /\ EpCalls \subseteq Slots /\ WireCalls \subseteq Slots /\ Tunnel \notin Veths /\ pod \subseteq Veths
    BY WireEnds DEF IInv, Types, Slots
  <1>2. ASSUME NEW lost \in SUBSET {v}, Remove(lost), pod' = pod \ {v},
               call' = [s \in Slots |-> Forget([call[s] EXCEPT !.ns = @ /\ call[s].v # v], lost)]
        PROVE  IInv'
    <2>1. /\ Removed(lost) /\ link' = link \ lost /\ hung' = hung \ lost /\ inner' \in [Veths -> Ends]
          /\ \A u \in Veths : inner'[u] = IF u \in lost THEN "none" ELSE inner[u]
      BY <1>1, <1>2, RemoveLemma
    <2>2. ASSUME NEW x \in Slots PROVE call'[x] \in Calls /\ Keeps(call'[x], call[x], lost)
      <3>1. call[x] \in Calls
        BY <1>1
      <3> DEFINE d == [call[x] EXCEPT !.ns = @ /\ call[x].v # v]
      <3>2. /\ d \in Calls /\ d.op = call[x].op /\ d.v = call[x].v /\ d.todo = call[x].todo /\ d.ok = call[x].ok
            /\ d.own = call[x].own /\ d.a = call[x].a /\ d.b = call[x].b
            /\ (~call[x].ns => d.ns = call[x].ns)
        BY <3>1 DEF Calls
      <3>3. call[x] = Idle => d = Idle
        <4>1. Idle.ns = FALSE
          BY DEF Idle
        <4>2. call[x] = Idle => d.ns = call[x].ns
          BY <3>2, <4>1
        <4> HIDE DEF d
        <4> QED BY <3>1, <3>2, <4>2, SameCall
      <3>4. call'[x] = Forget(d, lost)
        BY <1>2
      <3> HIDE DEF d
      <3>5. /\ call'[x] \in Calls /\ call'[x].op = d.op /\ call'[x].v = d.v /\ call'[x].todo = d.todo
            /\ call'[x].ok = d.ok /\ call'[x].own = (d.own /\ d.v \notin lost)
            /\ call'[x].a = (d.a /\ wire[1] \notin lost) /\ call'[x].b = (d.b /\ wire[2] \notin lost)
        BY <3>2, <3>4, ForgetFields
      <3>6. call[x] = Idle => call'[x] = Idle
        BY <3>3, <3>4, IdleForgets
      <3> QED BY <3>2, <3>5, <3>6 DEF Keeps
    <2>3. call' \in [Slots -> Calls]
      BY <1>2, <2>2
    <2>4. Types'
      BY <1>1, <1>2, <2>1, <2>3 DEF Types, Removed
    <2>5. \A x \in Slots : CallInv(x)'
      BY <2>1, <2>2, CallFrame DEF IInv
    <2>6. OneOwner'
      BY <1>1, <2>2, ZenonT(60) DEF OneOwner, Keeps
    <2>7. WholeInv'
      <3> SUFFICES ASSUME NEW u \in link \cap Veths, u \notin lost
                   PROVE  \/ u \in hung \/ inner[u] = "done"
                          \/ \E s \in EpCalls : call'[s].own /\ call'[s].v = u /\ call'[s].todo \in Making
        BY <2>1 DEF WholeInv
      <3>1. CASE \E s \in EpCalls : call[s].own /\ call[s].v = u /\ call[s].todo \in Making
        <4>1. PICK s \in EpCalls : call[s].own /\ call[s].v = u /\ call[s].todo \in Making
          BY <3>1
        <4>2. call'[s].own /\ call'[s].v = u /\ call'[s].todo \in Making
          BY <1>1, <2>2, <4>1 DEF Keeps
        <4> QED BY <4>2
      <3> QED BY <1>1, <3>1 DEF WholeInv
    <2>8. WireInv'
      <3>1. lost \in SUBSET Veths /\ (Tunnel \in link' <=> Tunnel \in link) /\ link \ lost \subseteq link'
        BY <1>1, <2>1
      <3>2. \A x \in WireCalls : Keeps(call'[x], call[x], lost)
        BY <1>1, <2>2
      <3> QED BY <2>1, <3>1, <3>2, WireFrame
    <2> QED BY <2>4, <2>5, <2>6, <2>7, <2>8 DEF IInv
  <1>3. CASE pod' = pod \cup {v} /\ answer' = NoAnswer /\ UNCHANGED <<dev, call, hung>>
    <2>1. UNCHANGED <<link, inner, prog, xmap, xold, call, wire, want, mixed, hung>> /\ answer' = NoAnswer
      BY <1>3 DEF dev
    <2>2. Types'
      <3>1. answer' \in [op : {"none", "create", "delete"}, ok : BOOLEAN, same : BOOLEAN]
        BY <2>1 DEF NoAnswer
      <3> QED BY <1>1, <1>3, <2>1, <3>1 DEF Types
    <2>3. \A x \in Slots : CallInv(x)'
      BY <2>1 DEF IInv, CallInv, Local
    <2>4. OneOwner' /\ WholeInv'
      BY <1>1, <2>1 DEF OneOwner, WholeInv
    <2>5. ProgInv' /\ TunnelInv' /\ SameOp'
      BY <1>1, <2>1 DEF WireInv, ProgInv, TunnelInv, SameOp
    <2>6. \A x \in WireCalls : CreateInv(x)' /\ DeleteInv(x)'
      BY <1>1, <2>1 DEF WireInv, CreateInv, DeleteInv
    <2>7. OkIsConnected' /\ DeletedLeavesNothing'
      BY <2>1 DEF NoAnswer, OkIsConnected, DeletedLeavesNothing
    <2> QED BY <2>2, <2>3, <2>4, <2>5, <2>6, <2>7 DEF IInv, WireInv
  <1> QED BY <1>2, <1>3 DEF PodChange

\* A restart leaves the pairs hanging that were being made.
LEMMA CrashStep ==
    ASSUME IInv, Crash
    PROVE  IInv'
  <1>1. /\ Types /\ WholeInv /\ WireInv /\ EpCalls \subseteq Slots /\ WireCalls \subseteq Slots
        /\ UNCHANGED <<wire, want, pod, link, inner>>
        /\ prog' = [l \in Links |-> IF prog[l] = "new" THEN "old" ELSE prog[l]]
        /\ xold' = [l \in Links |-> IF prog[l] = "new" THEN xmap[l] ELSE xold[l]]
        /\ xmap' = [l \in Links |-> None] /\ call' = [s \in Slots |-> Idle]
        /\ mixed' = FALSE /\ answer' = NoAnswer
    BY DEF IInv, Crash, Slots
  <1>2. \A x \in Slots : call'[x] = Idle
    BY <1>1
  <1>3. Types'
    <2>1. /\ prog' \in [Links -> {"none", "new", "old"}] /\ xmap' \in [Links -> Links \cup {None}]
          /\ xold' \in [Links -> Links \cup {None}]
      BY <1>1 DEF Types
    <2>2. call' \in [Slots -> Calls]
      BY <1>1, IdleFields
    <2>3. answer' \in [op : {"none", "create", "delete"}, ok : BOOLEAN, same : BOOLEAN]
      BY <1>1 DEF NoAnswer
    <2> QED BY <1>1, <2>1, <2>2, <2>3 DEF Types
  <1>4. \A x \in Slots : CallInv(x)'
    BY <1>2, IdleFields DEF CallInv
  <1>5. OneOwner'
    BY <1>1, <1>2, IdleFields DEF OneOwner
  <1>6. WholeInv'
    <2>1. ASSUME NEW x \in EpCalls, call[x].own, call[x].todo \in Making PROVE call[x].v \in hung'
      <3>1. CallInv(x)
        BY <1>1 DEF IInv
      <3>2. call[x].op = "upsert" /\ call[x].todo \in {UpMove, UpRename, UpUp}
        BY <2>1, <3>1 DEF CallInv, Making
      <3>3. At(x, "move") \/ At(x, "rename") \/ At(x, "up")
        BY <3>2, EpAt
      <3> QED BY <2>1, <3>3 DEF Crash
    <2>2. hung \subseteq hung'
      BY DEF Crash
    <2> QED BY <1>1, <2>1, <2>2 DEF WholeInv
  <1>7. ProgInv' /\ TunnelInv'
    BY <1>1 DEF WireInv, ProgInv, TunnelInv
  <1>8. SameOp' /\ \A x \in WireCalls : CreateInv(x)' /\ DeleteInv(x)'
    BY <1>1, <1>2, IdleFields DEF SameOp, CreateInv, DeleteInv
  <1>9. OkIsConnected' /\ DeletedLeavesNothing'
    BY <1>1 DEF NoAnswer, OkIsConnected, DeletedLeavesNothing
  <1>10. WireInv'
    BY <1>7, <1>8, <1>9 DEF WireInv
  <1> QED BY <1>3, <1>4, <1>5, <1>6, <1>10 DEF IInv

\* What the controller wants, and how much may still happen, matters to later calls only.
LEMMA WantStep ==
    ASSUME IInv, want' \in {"create", "delete"},
           UNCHANGED <<wire, pod, link, inner, prog, xmap, xold, call, answer, mixed, hung>>
    PROVE  IInv'
  <1>1. Types' /\ \A x \in Slots : CallInv(x)'
    BY DEF IInv, Types, CallInv, Local
  <1>2. OneOwner' /\ WholeInv'
    BY DEF IInv, OneOwner, WholeInv
  <1>3. WireInv'
    <2>1. Removed({}) /\ {} \in SUBSET Veths
      BY NoneRemoved DEF IInv
    <2>2. \A x \in WireCalls : Keeps(call'[x], call[x], {})
      BY KeepsSelf DEF IInv, Types, Slots
    <2> QED BY <2>1, <2>2, WireFrame
  <1> QED BY <1>1, <1>2, <1>3 DEF IInv

----------------------------------------------------------------------------
(* Theorems *)

LEMMA InitInv == DaemonInit => IInv
  <1> SUFFICES ASSUME DaemonInit PROVE IInv
    OBVIOUS
  <1>1. wire \in Links \X Links
    BY DaemonAssumption DEF DaemonInit
  <1>2. Types
    <2>1. pod \subseteq Veths /\ link \subseteq Links /\ want \in {"create", "delete"} /\ mixed \in BOOLEAN
      BY DEF DaemonInit, Local
    <2>2. /\ inner \in [Veths -> Ends] /\ prog \in [Links -> {"none", "new", "old"}]
          /\ xmap \in [Links -> Links \cup {None}] /\ xold \in [Links -> Links \cup {None}]
      BY DEF DaemonInit, Ends
    <2>3. call \in [Slots -> Calls]
      BY IdleFields DEF DaemonInit
    <2>4. answer \in [op : {"none", "create", "delete"}, ok : BOOLEAN, same : BOOLEAN]
      BY DEF DaemonInit, NoAnswer
    <2> QED BY <1>1, <2>1, <2>2, <2>3, <2>4 DEF Types
  <1>3. \A x \in Slots : call[x] = Idle
    BY DEF DaemonInit
  <1>4. \A x \in Slots : CallInv(x)
    BY <1>3, IdleFields DEF CallInv
  <1>5. OneOwner /\ WholeInv
    BY <1>3, IdleFields DEF DaemonInit, OneOwner, WholeInv, Slots
  <1>6. ProgInv /\ TunnelInv
    BY DEF DaemonInit, ProgInv, TunnelInv
  <1>7. SameOp /\ \A x \in WireCalls : CreateInv(x) /\ DeleteInv(x)
    BY <1>3, IdleFields DEF SameOp, CreateInv, DeleteInv, Slots
  <1>8. OkIsConnected /\ DeletedLeavesNothing
    BY DEF DaemonInit, NoAnswer, OkIsConnected, DeletedLeavesNothing
  <1> QED BY <1>2, <1>4, <1>5, <1>6, <1>7, <1>8 DEF IInv, WireInv

LEMMA NextInv == IInv /\ [DaemonNext]_vars => IInv'
  <1> SUFFICES ASSUME IInv, [DaemonNext]_vars PROVE IInv'
    OBVIOUS
  <1>1. ASSUME NEW s \in EpCalls, EpStep(s), UNCHANGED <<wire, slots, want, pod, mixed>> PROVE IInv'
    BY <1>1, CheckStep, CreateStep, MoveStep, RenameStep, DestroyPairStep DEF EpStep
  <1>2. ASSUME NEW s \in WireCalls, WireStep(s), UNCHANGED <<wire, slots, want, pod, mixed, hung>> PROVE IInv'
    BY <1>2, DeployStep, LookStep, PutStep, AttachStep, DetachStep, EraseStep, DestroyStep DEF WireStep
  <1>3. CASE /\ \E s \in EpCalls : \/ Ep(s)
                                   \/ \E v \in Local : StartUpSert(s, v) \/ StartDelete(s, v)
             /\ UNCHANGED <<wire, slots, want, pod, mixed>>
    BY <1>1, <1>3, EpAnswerStep, EpStartStep DEF Ep
  <1>4. CASE (\E s \in WireCalls : Wire(s)) /\ UNCHANGED <<wire, slots, want, pod, mixed, hung>>
    BY <1>2, <1>4, WireAnswerStep DEF Wire
  <1>5. CASE \E s \in WireCalls : StartWire(s) /\ UNCHANGED <<wire, slots, want, pod, hung>>
    BY <1>5, StartWireStep
  <1>6. CASE \E v \in Local : PodChange(v) /\ UNCHANGED <<wire, slots, want, mixed>>
    BY <1>6, PodStep
  <1>7. CASE Crash
    BY <1>7, CrashStep
  <1>8. CASE ChangeWant
    BY <1>8, WantStep DEF ChangeWant, dev
  <1>9. CASE UNCHANGED vars
    BY <1>9, WantStep DEF vars, IInv, Types
  <1> QED BY <1>3, <1>4, <1>5, <1>6, <1>7, <1>8, <1>9 DEF DaemonNext

\* The inductive invariant holds throughout: netlink calls, answers, pods that go and restarts.
THEOREM Invariance == DaemonSpec => []IInv
  <1> QED BY InitInv, NextInv, PTL DEF DaemonSpec

\* A veth pair that no endpoint call works on is whole, unless it is one that an error
\* the code does not clean up after, or a restart, left: addIfInNS takes back what it
\* cannot finish, and an upsert that finds a pair relies on the call that makes it.
THEOREM PairsAreWhole == DaemonSpec => []PairIsWhole
  <1>1. IInv => PairIsWhole
    BY DEF IInv, WholeInv, PairIsWhole
  <1> QED BY <1>1, Invariance, PTL

\* A WireUpSert that was answered with OK connects the two links it found, in both
\* directions, whatever pods, endpoint calls and other wire calls did meanwhile.
THEOREM OkMeansConnected == DaemonSpec => []OkIsConnected
  <1>1. IInv => OkIsConnected
    BY DEF IInv, WireInv
  <1> QED BY <1>1, Invariance, PTL

\* A WireDelete that was answered with OK leaves neither tunnel nor program.
THEOREM DeletionsLeaveNothing == DaemonSpec => []DeletedLeavesNothing
  <1>1. IInv => DeletedLeavesNothing
    BY DEF IInv, WireInv
  <1> QED BY <1>1, Invariance, PTL

============================================================================
