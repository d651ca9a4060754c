SPECIFICATION FairSpec
CONSTANTS
    r1 = r1
    r2 = r2
    e1 = e1
    e2 = e2
    Nobody = Nobody
    Requests = {r1, r2}
    Estimates = {e1}
    Accounting = TRUE
    DepositPercent = 50
    Markups = {1, 2}
    Payloads <- MCPayloads
    MaxSignatures = 2
PROPERTIES
    OnlyDraftsAreDeleted
    RejectedIsNeverResent
    SnapshotIsImmutable
CHECK_DEADLOCK FALSE
