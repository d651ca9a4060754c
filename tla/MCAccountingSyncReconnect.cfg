SPECIFICATION SyncSpec
CONSTANTS
    i1 = i1
    i2 = i2
    p1 = p1
    f1 = f1
    f2 = f2
    w1 = w1
    w2 = w2
    ann = ann
    NoRecord = NoRecord
    NoWorker = NoWorker
    Records = {i1}
    InvoiceOf <- MCInvoiceOf
    NameOf <- MCNameOf
    Files = {f1, f2}
    Providers = {"quickbooks", "freshbooks"}
    Workers = {w1}
    MaxRetries = 1
    MaxExpiries = 1
    MaxFaults = 1
INVARIANTS
    MappingFollowsFile
CHECK_DEADLOCK FALSE
