SPECIFICATION Spec
CONSTANTS
    Requests = {"r1", "r2", "r3", "r4", "r5"}
    Currencies = {"usd"}
    MaxSnapshot = 3
    Rates <- RatesOf
    Products <- ProductsOf
    Refused = {}
    TTL = 2
    MaxClock = 4
    MaxRestarts = 1
    None = None
    Error = Error
    Scale = 10
    MaxInt = 999
    Shipping = 12
INVARIANTS TypeOK QuotationAddsUp
PROPERTIES RatesMoveForward CallsAreSpaced AnswersAreJustified
CHECK_DEADLOCK FALSE
