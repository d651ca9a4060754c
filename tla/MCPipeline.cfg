SPECIFICATION Spec
CONSTANTS
    r1 = r1
    r2 = r2
    l1 = l1
    p1 = p1
    c1 = c1
    Nobody = Nobody
    NoProject = NoProject
    Requests = {r1, r2}
    Leads = {l1}
    Projects = {p1}
    ChangeOrders = {c1}
    Deltas <- MCDeltas
    ContractTotal = 3
    InvoiceAmount = 2
    MaxInvoices = 1
    MaxFinals = 2
CONSTRAINT
    LeadsFirst
SYMMETRY
    Interchangeable
INVARIANTS
    FinalsWithinSigned
    WonDraftsOneProject
PROPERTIES
    CompletionSettles
CHECK_DEADLOCK FALSE
