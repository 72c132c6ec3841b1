SPECIFICATION FairContentSpec
CONSTANTS
    kContentLength <- MCHeader
    Contents <- MCContents
    Stray <- MCStray
    MaxSize = 15
    LenModulus = 32
    MaxMessages = 3
INVARIANTS
    ContentTypeOK
    ContentsIntact
    FailsAtEnd
PROPERTIES
    AllRead
CHECK_DEADLOCK FALSE
