SPECIFICATION MCSpec
CONSTANTS
    Values = {1, 2, 3, 4, 5, 6, 7, 8, 9, 10}
    NIL = 0
    AnyOrder = 7
INVARIANTS
    RedBlack
PROPERTIES
    LoopsEnd
    ImplementsOrderedSet
