\* One Topology with one Node, or one Kubernetes node with its NodePool: two changes
\* by users or the cluster and one failed call at any moment.
SPECIFICATION Spec
CONSTANTS
    None = None
    MaxEvents = 2
    MaxFaults = 1
INVARIANTS ReadyIsDeployed RestsWhenDeployed TopologyFollows NothingLeft PoolFollows
PROPERTIES DeletionEnds
CHECK_DEADLOCK FALSE
