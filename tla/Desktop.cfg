SPECIFICATION DesktopSpec
CONSTANTS
    Width = 3
    Plain = {legal}
    Start <- MCStart
INVARIANTS
    NoGhosts
    OneCursor
CONSTRAINTS
    NothingMissed
    OneDeparture
