SPECIFICATION Spec
CONSTANTS
    FrameLimit = 10
    PageSize = 4
    Available <- MCAvailable
    Protected <- MCProtected
    MaxPages = 3
INVARIANTS NothingFreeBelowHint BuffersAreSeparate
PROPERTY FailureIsClean
