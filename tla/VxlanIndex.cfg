\* More Links than ids, a restart, a failing store.
SPECIFICATION VxSpec
CONSTANTS
    Owners = {o1, o2, o3}
    Ids = {i1, i2}
    NoId = NoId
    Free = Free
    InitLinks = {o1}
    MaxCrash = 1
    MaxFail = 1
    MaxEnv = 2
    o1 = o1
    o2 = o2
    o3 = o3
    i1 = i1
    i2 = i2
INVARIANTS
    OneIdPerOwner
    IdIsStored
PROPERTIES
    Allocates
    LinkIsServed
CHECK_DEADLOCK FALSE
