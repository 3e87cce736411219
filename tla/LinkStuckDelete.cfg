\* Two hosts, no failure: the Link is deleted once it is wired and at rest.
SPECIFICATION LinkSpec
CONSTANTS
    h1 = h1
    h2 = h2
    LinkOps = {"quietDelete"}
    Peer = Peer
    NoHost = NoHost
    Hosts = {h1, h2}
    Remote = {}
    Sources = {"pod"}
    InitPods = {h1, h2}
    InitDaemons = {"ready"}
    ApiOps = {"create"}
    EnvOps = {}
    FailOps = {}
    QCap = 2
    MaxWorkers = 1
    MaxWires = 1
    MaxApi = 2
    MaxEnv = 0
    MaxFail = 0
PROPERTIES
    DeletedLinkGoes
CHECK_DEADLOCK FALSE
