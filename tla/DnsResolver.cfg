SPECIFICATION Spec
CONSTANTS
    a1 = a1
    a2 = a2
    a3 = a3
    late = late
    b1 = b1
    b2 = b2
    NoDatagram = none
    Datagram <- MCDatagram
    Genuine <- MCGenuine
    DestinationPort <- MCDestinationPort
    QueueSize = 4
    LookupCount = 3
    RingSize = 2
INVARIANTS TypeOK InOrderUntilBypass
PROPERTIES QueueIsMailbox DeafForever
