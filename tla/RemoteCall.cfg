SPECIFICATION CallSpec
CONSTANTS
    c1 = c1
    c2 = c2
    c3 = c3
    Calls = {c1, c2, c3}
INVARIANTS
    CallTypeOK
    AnswerIsHandlers
PROPERTIES
    HandledOnce
CHECK_DEADLOCK FALSE
