SPECIFICATION BackwardSpec
CONSTANTS
    Allocators = {a1, a2}
    Blocks = {b1, b2}
    Null = Null
    Types <- MCTypes
    Pointers <- MCPointers
    BlockSize = 8
    BlockAlignment = 4
    kMax = 2
    MaxObjects = 4
SYMMETRY Symmetry
INVARIANTS
    BackwardsOneElement
CHECK_DEADLOCK FALSE
