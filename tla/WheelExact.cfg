SPECIFICATION Spec
CONSTANTS
    SLOTS = 3
    WHEELS = 3
    Coroutines = {c1}
    Delays = {0, 1, 2, 3, 4}
    MaxLag = 0
PROPERTIES
    WokenExactly
