SPECIFICATION DaemonSpec
CONSTANTS
    a = a
    b = b
    e1 = e1
    e2 = e2
    w1 = w1
    w2 = w2
    Veths = {a, b}
    Servers = {b}
    Tunnel = t
    None = None
    Placements <- MCPlacements
    EpCalls = {e1, e2}
    WireCalls = {w1, w2}
    MaxEvents = 2
INVARIANTS PairIsWhole OkIsConnected DeletedLeavesNothing
PROPERTY WantedIsReached
CHECK_DEADLOCK FALSE
