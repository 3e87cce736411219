\* Pods, daemons, nodes and the topology change while the wire is created, deleted and created again.
SPECIFICATION Spec
CONSTANTS
    h1 = h1
    h2 = h2
    Peer = Peer
    NoHost = NoHost
    Hosts = {h1, h2}
    Remote = {}
    Sources = {"pod", "node"}
    InitPods = {h1, h2}
    InitDaemons = {"ready"}
    ApiOps = {"create", "delete", "recreate"}
    EnvOps = {"podUpsert", "podDelete", "daemonUpsert", "daemonDelete", "nodeUpsert", "nodeDelete", "topology"}
    FailOps = {"worker"}
    QCap = 1
    MaxWorkers = 2
    MaxWires = 2
    MaxApi = 2
    MaxEnv = 1
    MaxFail = 1
INVARIANTS
    TypeOK
    WorkersNeverWrite
    ClaimKept
PROPERTIES
    KeptUntilAsked
SYMMETRY Symmetry
CHECK_DEADLOCK FALSE
