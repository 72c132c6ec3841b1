SPECIFICATION Spec
CONSTANTS
    Depth = 2
    Types <- LspTable
    AllTypes <- MCAllTypes
    TypesUsed <- MCTypes
    AllNames <- MCAllNames
    Rank <- MCRank
    MaxNesting = 16
    Default <- MCDefault
    Decode <- MCDecode
    Encode <- MCEncode
    Equal <- MCEqual
    Reparsed <- MCReparsed
    Values <- MCValues
    Used <- MCUsed
    PeerJson <- MCPeerJson
INVARIANT WatchKindDefault
