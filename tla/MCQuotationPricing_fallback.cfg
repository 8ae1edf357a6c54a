SPECIFICATION Spec
CONSTANTS
    Requests = {"r1", "r2"}
    Currencies = {"usd"}
    MaxSnapshot = 2
    Rates <- RatesOf
    Products <- ProductsOf
    Refused = {}
    TTL = 2
    MaxClock = 2
    MaxRestarts = 0
    None = None
    Error = Error
    Scale = 10
    MaxInt = 999
    Shipping = 12
PROPERTY LastSnapshotIsServed
CHECK_DEADLOCK FALSE
