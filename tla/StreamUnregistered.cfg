SPECIFICATION FairStreamSpec
CONSTANTS
    client = client
    server = server
    r1 = r1
    n1 = n1
    Sessions <- MCSessions
    Peer <- MCPeer
    Requests = {r1}
    Notifications = {}
    HasParams = {r1}
    VoidFailure = {}
    None = None
    MaxId = 1
    MaxDepth = 2
    MaxWire = 4
    Faults = {}
PROPERTIES
    RequestsResponded
