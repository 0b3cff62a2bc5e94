SPECIFICATION Spec
CONSTANTS
    Workers = {w1, w2}
    Coroutines = {c1, c2, c3}
    NULL = NULL
SYMMETRY Interchangeable
INVARIANTS
    OwnershipInvariant
    PublishedIsSaved
    TokenBalance
PROPERTIES
    ImplementsLifecycle
