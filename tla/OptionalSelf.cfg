SPECIFICATION OptSpec
CONSTANTS
    Optionals = {a, b, c}
    OptValues = {x, y}
    OptCells = {c1, c2, c3}
    Null = null
    Free = free
    Absent = absent
    Empty = empty
PROPERTY
    OptAssignKeepsSource
