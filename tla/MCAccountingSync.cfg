SPECIFICATION FairSyncSpec
CONSTANTS
    i1 = i1
    i2 = i2
    p1 = p1
    f1 = f1
    f2 = f2
    w1 = w1
    w2 = w2
    ann = ann
    NoRecord = NoRecord
    NoWorker = NoWorker
    Records = {i1, p1}
    InvoiceOf <- MCInvoiceOf
    NameOf <- MCNameOf
    Files = {f1, f2}
    Providers = {"quickbooks", "freshbooks"}
    Workers = {w1, w2}
    MaxRetries = 1
    MaxExpiries = 1
    MaxFaults = 1
INVARIANTS
    PostedOnce
    SyncedIsPosted
    ConnectionAlive
PROPERTIES
    EndsVisibly
CHECK_DEADLOCK FALSE
