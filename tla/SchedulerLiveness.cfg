SPECIFICATION FairSpec
CONSTANTS
    Workers = {w1, w2}
    Coroutines = {c1, c2}
    NULL = NULL
PROPERTIES
    QueuedIsRun
    SleeperWakes
    DestroyReturns
