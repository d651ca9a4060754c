SPECIFICATION Spec
CONSTANTS
    Uploads = {x1, x2, y1, y2}
    FileNames = {"plan", "permit"}
    NoContent = nobody
    Exports = {x1, x2}
    Workers = {y1, y2}
    Revisions = 2
    Retries = 1
    Free = nobody
    Papers = {z}
    Thresholds = {1, 2}
    LastDay = 2
    Scans = {x1, x2}
    Assignments = {z}
    Never = 99
    Callers = {x1, x2}
    MaxIssued = 4
    MaxSteps = 2
    Bills = {z}
    Clerks = {x1, x2}
    RawSums = {4, 10, 20}
    Nobody = nobody
    Writers = {z}
    Operators = {x1, x2}
    MaxChanges = 2
    Edits = {x1, x2}
    Photos = {z}
    Trades = {z}
    Extensions = {y1, y2}
    Nothing = nobody
    Root = root
    Branch = branch
    Leaves = {y1, y2}
    Above <- Branches
    Nowhere = nobody
    Editors = {x1, x2}
    MaxItems = 3
    Keys = {1, 2, 3}
    PageSize = 1
    Filters = {y1, y2}
    Calls = {x1, x2}
    MaxMoves = 1
    None = nobody
INVARIANTS
    VersionsInOrder
    PendingIsTemporary
    WarnedOnce
    OnlyRacesHarm
    BooksAgree
    EntitlementsHold
    DirectoryHolds
    ListsHold
    CatalogHolds
CONSTRAINT OneRace
SYMMETRY Interchangeable
CHECK_DEADLOCK FALSE
