SPECIFICATION Spec
CONSTANTS
    s1 = s1
    r1 = r1
    r2 = r2
    n1 = n1
    Sessions = {s1}
    Requests = {r1, r2}
    Notifications = {n1}
    HasParams = {r1, n1}
    VoidFailure = {r2}
    None = None
    MaxId = 2
    MaxDepth = 2
INVARIANTS
    TypeOK
    HandlersMatchPromises
    FreshIds
    OneCallPerId
    CalloutsAlive
PROPERTIES
    SettledOnce
