SPECIFICATION Spec
CONSTANTS
    SLOTS = 3
    WHEELS = 3
    Coroutines = {c1, c2}
    Delays = {0, 2, 3, 8, 9, 17, 26}
    MaxLag = 0
SYMMETRY Interchangeable
INVARIANTS
    WheelInvariant
    RemainingIsEnough
PROPERTIES
    WokenInTime
    ShorterFirst
