\* Two clusters with a topology and a pod of the same name.
SPECIFICATION CWSpec
CONSTANTS
    Clusters = {c1, c2}
    Objects = {s1, t1, t2, p1, p2, n1, d1, e1}
    KindOf <- MCKindOf
    ClusterOf <- MCClusterOf
    KeyOf <- MCKeyOf
    HostKeyOf <- MCHostKeyOf
    SecretsOf <- MCSecretsOf
    Scenarios <- MCScenarios
    None = None
    MaxInstances = 3
    MaxEvents = 2
    c1 = c1
    c2 = c2
    s1 = s1
    t1 = t1
    t2 = t2
    p1 = p1
    p2 = p2
    n1 = n1
    d1 = d1
    e1 = e1
    h1 = h1
INVARIANTS
    ClusterFollowsSecret
    CacheIsCurrent
    WorkerFollowsService
CHECK_DEADLOCK FALSE
