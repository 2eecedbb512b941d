SPECIFICATION Spec
CONSTANTS
    SlotCount = 1
    PortCount = 2
    BufferSize = 1
    MaxPayload = 1
    RequestSize = 1
    ChunkSize = 1
    MaxRetries = 1
    RingSize = 1
    SeqSpace = 8
    Iss = 1
    WireOut = 1
    WireIn = 1
    Unit <- MCNoUnit
    PeerIss = 6
    SegmentMax = 1
INVARIANT LeftoversAwaitServer
PROPERTIES ConnectTrueMeansAccepted RequestEnds
