SPECIFICATION MCSpec
CONSTANTS
    Aliases = {Any, Array, Object}
    Structures = {A, B, C}
    Kinds = {"base", "value", "pointer", "nested"}
CHECK_DEADLOCK FALSE
INVARIANTS
    AliasesInOrder
    StructuresInOrder
    EachOnce
PROPERTY
    Terminates
