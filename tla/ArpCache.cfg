SPECIFICATION Spec
CONSTANTS
    IP = {own, gw, peer, far}
    MAC = {m1, m2}
    OnSubnet = {own, gw, peer}
    OwnIP = own
    OwnMac = m1
    Gateway = gw
    NoIP = NoIP
    NoMac = NoMac
    CacheSize = 3
    RxBudget = 4
    MaxSpins = 2
    MaxAge = 6
INVARIANT OneEntryPerAddress
PROPERTIES TableIsLru MissMeansDisplaced
CHECK_DEADLOCK FALSE
