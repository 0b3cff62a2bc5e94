SPECIFICATION Spec
CONSTANTS
    SLOTS = 3
    WHEELS = 3
    Coroutines = {c1}
    Delays = {0, 1, 2}
    MaxLag = 1
PROPERTIES
    NeverBeforeDelay
