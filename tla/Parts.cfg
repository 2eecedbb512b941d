SPECIFICATION Spec
CONSTANTS
    Archive <- MCArchive
    Partition <- MCPartition
    Installed = {"second"}
    MaxEntries = 3
    RowsVisible = {1, 2}
    Texts <- MCTexts
    Bookmarks <- MCBookmarks
    Fields <- MCFields
    MaxRedirects = 1
    BodyLength = {0, 1, 2}
    BodyCapacity = 1
    Block = 2
    TagLists <- MCTagLists
    Frames <- MCFrames
    MaxItems = 2
    Reload = 7
    PerMs = 3
    MaxCycles = 24
    Minute = 2
    Hour = 2
    Day = 24
    Starts = {0, 39, 93}
    MaxSeconds = 3
    Notice = 3
    GridWidth = 4
    GridHeight = 3
    Capacity = 5
    FirstBody <- MCFirstBody
    FirstFood = 6
    MaxScore = 4
    MaxWire = 3
    MaxMoves = 1
    MaxKeys = 3
    FileSizes = {1, 4, 5}
    ImageSizes = {0, 2, 3, 6}
    Sections <- MCSections
    Offsets = {0, 1, 4}
    DosHeader = 1
    CoffHeader = 1
    OptionalHeader = 1
    SectionHeader = 1
    FrameSize = 2
    FrameNumbers = {1, 2, 3, 4}
    MaxVersion = 3
    Total = 15
    KernelSectors = 1
    InitrdSectors = 1
    Partitions <- MCPartitions
    Build = {b1, b2}
    Media = {b1, b2}
    Unreadable <- MCUnreadable
    Account = {ann, bob}
    NoAccount = NoAccount
INVARIANTS
    RowsAreThePlace
    ShownIsItsAnswer
    FoundIsWhatIsHeld
    ClocksKeepTime
    GamesByTheRules
    InputFollowsHand
    RunsAsLinked
    BootFindsWholeImage
    AccountSurvives
PROPERTY NewerPromptsUntilAttempt
