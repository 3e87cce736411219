--------------------------- MODULE MCClusterWatch ---------------------------
(* Instances of ClusterWatch for TLC. *)
EXTENDS ClusterWatch

CONSTANTS c1, c2, s1, t1, t2, p1, p2, n1, d1, e1, h1

\* c1 is new, or was there before a restart; c2 is known, its kubeconfig is not there
\* yet, and it has a namespace and a pod of the same name.
MCClusterOf == [o \in Objects |-> IF o \in {t2, p2} THEN c2 ELSE c1]
MCKindOf == [o \in Objects |-> CASE o = s1 -> "svc" [] o \in {t1, t2} -> "ns"
                                 [] o \in {p1, p2} -> "pod" [] o = n1 -> "node" [] o = d1 -> "daemon"
                                 [] o = e1 -> "ep"]
MCKeyOf == [o \in Objects |-> IF o = t2 THEN t1 ELSE IF o = p2 THEN p1 ELSE o]
MCHostKeyOf == [o \in Objects |-> h1]
MCSecretsOf ==
    {[c \in Clusters |-> [st |-> IF c = c1 THEN "good" ELSE "bad", fin |-> c = c2 \/ old]] :
       old \in BOOLEAN}

\* The entries of different keys do not meet: a behaviour has the objects of one.
MCScenarios == {[o \in Objects |-> IF MCKeyOf[o] # k THEN "never"
                                   ELSE IF o = t2 THEN "notReady" ELSE "ready1"] :
                  k \in Objects \ {t2, p2}}
============================================================================
