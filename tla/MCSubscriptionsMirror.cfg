SPECIFICATION SubscriptionsSpec
CONSTANTS
    r1 = r1
    r2 = r2
    Requests = {r1, r2}
    Allowances = {1}
    MaxSeats = 2
    MaxEvents = 2
    MaxConsole = 1
    MaxTrials = 2
    MaxFaults = 1
INVARIANTS
    MirrorsStripe
CHECK_DEADLOCK FALSE
