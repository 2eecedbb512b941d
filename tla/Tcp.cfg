SPECIFICATION Spec
CONSTANTS
    SlotCount = 1
    PortCount = 1
    BufferSize = 1
    MaxPayload = 1
    RequestSize = 1
    ChunkSize = 1
    MaxRetries = 2
    RingSize = 2
    SeqSpace = 8
    Iss = 1
    WireOut = 1
    WireIn = 2
    Unit <- MCUnit
    PeerIss = 6
    SegmentMax = 1
INVARIANTS TypeOK WindowIsBacked FinWait2MeansFinReceived
PROPERTIES StreamIsReliable SendTrueMeansReceived
