SPECIFICATION FairSpec
CONSTANTS
    Threads = {t1, t2}
    Nodes = {n1, n2}
    EBR_MAX_THREADS = 2
    MaxEpoch = 3
INVARIANTS
    RecordCoversBlockers
    EachNodeInOnePlace
    RecordsInOrder
    EpochInvariant
PROPERTIES
    NoPrematureRelease
    ShutdownCompletes
    ImplementsGracePeriod
