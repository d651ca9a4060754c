SPECIFICATION OfflineSpec
CONSTANTS
    p1 = p1
    p2 = p2
    r1 = r1
    r2 = r2
    Absent = Absent
    Pages = {p1, p2}
    Requests = {r1, r2}
    Statuses = {"open", "done"}
    MaxItems = 2
    MaxTogether = 3
    MaxOffice = 1
    MaxDecisions = 1
    MaxMishaps = 1
CONSTRAINT
    FewEvents
    OneAnswer
SYMMETRY
    Interchangeable
INVARIANTS
    ArrivesOnce
    NothingLost
    NoFalseConflict
CHECK_DEADLOCK FALSE
