\* Two permits for five calls of two clients.
SPECIFICATION GSpec
CONSTANTS
    Unary = {u1}
    WireWatches = {w1, w2}
    EndpointWatches = {e1}
    HealthWatches = {h1}
    Addrs = {a1, a2}
    AddrOf <- MCAddrOf
    MaxRPC = 2
    NoStream = NoStream
    u1 = u1
    w1 = w1
    w2 = w2
    e1 = e1
    h1 = h1
    a1 = a1
    a2 = a2
INVARIANTS
    PermitsBalance
    LiveWatchIsRegistered
PROPERTIES
    UnaryEnds
    StoppedClientIsDropped
CHECK_DEADLOCK FALSE
