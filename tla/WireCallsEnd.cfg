\* Two hosts, full channels and a daemon that goes away in the middle: every call returns.
SPECIFICATION FairSpec
CONSTANTS
    h1 = h1
    h2 = h2
    Peer = Peer
    NoHost = NoHost
    Hosts = {h1, h2}
    Remote = {}
    Sources = {"pod"}
    InitPods = {h1, h2}
    InitDaemons = {"ready"}
    ApiOps = {"create", "delete", "recreate"}
    EnvOps = {"daemonDelete"}
    FailOps = {}
    QCap = 1
    MaxWorkers = 1
    MaxWires = 1
    MaxApi = 2
    MaxEnv = 1
    MaxFail = 0
INVARIANTS
    HeldEndKept
PROPERTIES
    CallsEnd
CHECK_DEADLOCK FALSE
