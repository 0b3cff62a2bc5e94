SPECIFICATION MCSpec
CONSTANTS
    NULL = NULL
    RAW = RAW
    FREE = FREE
    BLANK = BLANK
    Values = {1, 2}
    INITIAL_CAPACITY = 0
    MaxSize = 5
    Keys = {1, 2, 3}
    BLOCK = 2
    HeapCapacity = 3
    MaxBlocks = 3
    BlockSize = 2
    MaxLength = 7
    SEG_SIZE = 2
    SEG_COUNT = 2
    Vectors = {x, y}
    CAPACITY = 1
    DEFAULT = 1
    NoKey = 0
    Buffers = {b1, b2, b3}
    MaxVector = 3
CHECK_DEADLOCK FALSE
INVARIANTS
    DequeInvariant
    HeapInvariant
    MemoryIsOwned
PROPERTIES
    ImplementsFifo
    ImplementsPriorityQueue
    ImplementsDynamicArray
    ImplementsHandoutQueue
    ImplementsValueSequences
