SPECIFICATION Spec
CONSTANTS
    Offer = Offer
    Ack = Ack
    ClientPort = ClientPort
    NoDatagram = NoDatagram
    Datagram = {Offer, Ack, Stray}
    DestinationPort <- AllToClient
    QueueSize = 2
INVARIANT TimedOutMeansUnanswered
