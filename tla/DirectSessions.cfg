SPECIFICATION DirectSpec
CONSTANTS
    client = client
    server = server
    r1 = r1
    n1 = n1
    Sessions <- MCSessions
    Peer <- MCPeer
    Requests = {r1}
    Notifications = {n1}
    HasParams = {r1, n1}
    VoidFailure = {}
    None = None
    MaxId = 2
    MaxDepth = 2
SYMMETRY Swap
INVARIANTS
    FutureIffAnswered
    PostSendAfterAnswer
PROPERTIES
    ImplementsRemoteCall
