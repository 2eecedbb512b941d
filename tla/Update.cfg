SPECIFICATION Spec
CONSTANTS
    Total = 9
    KernelSectors = 1
    InitrdSectors = 1
    Partitions <- MCPartitions
    Build = {b1, b2}
    Media = {b1}
    Unreadable = {}
    Account = {ann}
    NoAccount = NoAccount
    Missed = {1}
    MaxVersion = 2
    Imports = 2
INVARIANTS
    InstallGivesStagedBuild
    TornMeansOnOffer
    InstalledNotOfferedAgain
PROPERTIES
    ClearedMeansInstalled
