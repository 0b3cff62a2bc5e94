SPECIFICATION FairSpec
CONSTANTS
    SLOTS = 2
    WHEELS = 3
    Coroutines = {c1, c2}
    Delays = {0, 1, 6, 8}
    MaxLag = 1
INVARIANTS
    ThrowsOnlyIfTooLong
PROPERTIES
    EarlyByLagAtMost
    SleeperIsWoken
