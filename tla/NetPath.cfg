SPECIFICATION Spec
CONSTANTS
    p1 = p1
    p2 = p2
    p3 = p3
    a1 = a1
    o1 = o1
    b1 = b1
    NoPacket = none
    NoFrame = none
    Packet <- MCPacket
    Frame <- MCFrame
    Kind <- MCKind
    QueueSize = 2
    RxBudget = 2
INVARIANT TypeOK
PROPERTIES RingIsFifo PathIsLossyChannel TrueMeansAired ServiceReturns DescriptorReturns
