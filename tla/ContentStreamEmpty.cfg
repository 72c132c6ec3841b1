SPECIFICATION ContentSpec
CONSTANTS
    kContentLength <- MCHeader
    Contents <- MCContentsAndEmpty
    Stray <- MCStray
    MaxSize = 15
    LenModulus = 32
    MaxMessages = 3
INVARIANTS
    ReadCountPositive
CHECK_DEADLOCK FALSE
