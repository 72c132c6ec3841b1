SPECIFICATION Spec
CONSTANTS
    Objects = {a, b, c}
    Types = {int, string}
    Data = {x, y}
    Cells = {c1, c2, c3}
    Null = null
    NoKind = kNoKind
    Free = free
    Absent = absent
    Empty = empty
INVARIANT
    IsMeansHolds
