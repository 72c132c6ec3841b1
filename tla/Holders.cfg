SPECIFICATION HoldersSpec
CONSTANTS
    Objects = {a, b, c}
    Types = {int, string}
    Data = {x, y}
    Cells = {c1, c2, c3}
    Optionals = {d, e, f}
    OptCells = {c4, c5, c6}
    OptValues = {x, y}
    Null = null
    NoKind = kNoKind
    Free = free
    Absent = absent
    Empty = empty
INVARIANTS
    SoleOwner
    KindMatches
    OptionalSoleOwner
PROPERTIES
    HoldsValues
    CopiesEqual
    OptionalHoldsValues
