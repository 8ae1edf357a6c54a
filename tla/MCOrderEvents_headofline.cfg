SPECIFICATION FairSpec
CONSTANTS
    Orders <- TwoOrders
    Events <- HeadOfLine
    Shards = {1}
    EventOrder <- OrderOf
    EventKind <- KindOf
    EventClass <- ClassOf
    Shard <- OneShard
    OperatorMoves = {}
    MaxCopies = 1
    MaxCrashes = 0
    Lossy = {}
    None = None
PROPERTY PackagesArrive
CHECK_DEADLOCK FALSE
