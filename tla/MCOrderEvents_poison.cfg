SPECIFICATION Spec
CONSTANTS
    Orders <- TwoOrders
    Events <- WithPoison
    Shards = {1}
    EventOrder <- OrderOf
    EventKind <- KindOf
    EventClass <- ClassOf
    Shard <- OneShard
    OperatorMoves = {}
    MaxCopies = 1
    MaxCrashes = 1
    Lossy <- PackagePartition
    None = None
INVARIANTS NoEventLost ExactlyOnce
CHECK_DEADLOCK FALSE
