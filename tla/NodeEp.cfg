SPECIFICATION NSpec
CONSTANTS
    Interfaces = {if1}
    EnvOps = {"pod", "podFlip", "daemon", "daemonFlip", "delete", "namesake", "model", "host"}
    Server = {FALSE, TRUE}
    FailOps = {"call", "deploy", "crash"}
    MaxEvents = 2
    MaxWorkers = 2
    MaxObjects = 2
INVARIANTS StopsOnlyWhenReady 
PROPERTY NodeDeletionEnds
CHECK_DEADLOCK FALSE
