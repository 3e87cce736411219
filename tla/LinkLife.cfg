\* Two hosts and every placement of the endpoints: the Link is wired, becomes not
\* ready, loses its topology or is deleted, while calls fail.
SPECIFICATION LinkSpec
CONSTANTS
    h1 = h1
    h2 = h2
    LinkOps = {"quietDelete", "delete", "ready"}
    Peer = Peer
    NoHost = NoHost
    Hosts = {h1, h2}
    Remote = {}
    Sources = {"pod"}
    InitPods = {h1, h2, "NotReady"}
    InitDaemons = {"ready"}
    ApiOps = {"create"}
    EnvOps = {"topology"}
    FailOps = {"claim", "release", "daemon", "worker", "call"}
    QCap = 2
    MaxWorkers = 1
    MaxWires = 2
    MaxApi = 2
    MaxEnv = 1
    MaxFail = 2
INVARIANTS
    OngoingIsUnderway
    ReportedIsDeployed
    DestroyedIsUndeployed
    HeldByFinalizer
PROPERTIES
    ReadyLinkIsWired
    ColocatedLinkGoes
CHECK_DEADLOCK FALSE
