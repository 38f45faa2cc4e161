\* Up to two replicas, created and deleted in bursts of two, an informer up to two
\* events behind, and any two faults or outside changes. Once the replica set is
\* gone everything may stop.
SPECIFICATION FairSpec
CONSTANTS
    MaxVMIs = 4
    MaxReplicas = 2
    Burst = 2
    Faults = {"create", "delete", "timeout", "relist", "restart", "status"}
    MaxLag = 2
    MaxTrouble = 2
CHECK_DEADLOCK FALSE
INVARIANTS
    TypeOK
    ScalesOnSeen
    DeletionsWillBeReported
PROPERTIES
    NoOvershoot
    Converges
