SPECIFICATION Spec
CONSTANTS
    t1 = t1
    t2 = t2
    acme = acme
    bau = bau
    Nobody = Nobody
    NoLocks = NoLocks
    Tabs = {t1, t2}
    Companies = {acme, bau}
    Home = acme
    MaxTokens = 3
    MaxFaults = 1
SYMMETRY
    Interchangeable
INVARIANTS
    ForkOnlyBySwitch
    EndedForGood
    SteadySession
CHECK_DEADLOCK FALSE
