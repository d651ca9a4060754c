SPECIFICATION ListsSpec
CONSTANTS
    Calls = {c1, c2}
    Keys = {1, 2, 3}
    Filters = {old, new}
    PageSize = 1
    MaxMoves = 2
    None = None
INVARIANTS PagesOfOneFilter WaitingSpins
CHECK_DEADLOCK FALSE
