SPECIFICATION FairSpec
CONSTANTS
    Main = m
    Threads = {m, t1}
    Nodes = {n1, n2, n3}
    Values = {v1}
    NULL = NULL
    CACHE_COUNT = 2
    BATCH_COUNT = 1
    TAG_LIMIT = 1
PROPERTIES
    LockFree
    AllNodesFreed
