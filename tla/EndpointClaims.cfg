\* A Link and an interconnect over three endpoints in two clusters.
SPECIFICATION ClaimsSpec
CONSTANTS
    Links = {l1}
    LI = LI
    Endpoints = {a1, a2, b1}
    ClusterOf <- MCClusterOf
    NodeOf <- MCNodeOf
    Home = ca
    Req <- MCReq
    Sides <- MCSides
    LinkCount = 1
    None = None
    Missing = Missing
    MaxFaults = 1
    l1 = l1
    a1 = a1
    a2 = a2
    b1 = b1
    n1 = n1
    ca = ca
    cb = cb
INVARIANTS
    UsedIsClaimed
    GoneHasNoClaim
PROPERTIES
    OwnerKeepsClaim
    LinkBecomesReady
CHECK_DEADLOCK FALSE
