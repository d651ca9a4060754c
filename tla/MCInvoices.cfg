SPECIFICATION Spec
CONSTANTS
    r1 = r1
    r2 = r2
    i1 = i1
    i2 = i2
    acme = acme
    Nobody = Nobody
    Scanner = Scanner
    BodyDates = {"none", "future"}
    Requests = {r1, r2}
    Invoices = {i1, i2}
    Companies = {acme}
    CompanyOf <- MCCompanyOf
    RawAmounts = {4, 14, 20}
SYMMETRY
    Interchangeable
INVARIANTS
    PaidWithinAmount
    PaidMeansSettled
    NumbersSequential
PROPERTIES
    FinalWhenAlone
    LedgerSpec
