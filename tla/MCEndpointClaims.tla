-------------------------- MODULE MCEndpointClaims --------------------------
(* Instances of EndpointClaims for TLC. *)
EXTENDS EndpointClaims

CONSTANTS l1, a1, a2, b1, n1, ca, cb

\* a1 and a2 are local.
MCClusterOf == [e \in Endpoints |-> IF e = b1 THEN cb ELSE ca]
MCNodeOf == [e \in Endpoints |-> n1]

\* A Link between the two clusters.
MCReq == [l \in {l1} |-> <<a1, b1>>]

\* An interconnect that needs the same local endpoint as the Link.
MCSides == <<[topologies |-> <<<<a1>>>>, diverse |-> FALSE],
             [topologies |-> <<<<a2>>>>, diverse |-> FALSE]>>

LinkBecomesReady == BecomesReady(l1)

============================================================================
