SPECIFICATION StreamSpec
CONSTANTS
    client = client
    server = server
    r1 = r1
    n1 = n1
    Sessions <- MCSessions
    Peer <- MCPeer
    Requests = {r1}
    Notifications = {n1}
    HasParams = {r1, n1}
    VoidFailure = {}
    None = None
    MaxId = 1
    MaxDepth = 2
    MaxWire = 2
    Faults = {"codec", "sender", "connection"}
SYMMETRY Swap
INVARIANTS
    OneStage
    ResponsesAwaited
PROPERTIES
    ImplementsRemoteCall
