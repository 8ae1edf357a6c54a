SPECIFICATION FairSpec
CONSTANTS
    Orders <- OneOrder
    Events <- FullLife
    Shards = {1}
    EventOrder <- OrderOf
    EventKind <- KindOf
    EventClass <- ClassOf
    Shard <- OneShard
    OperatorMoves = {"PACKED", "IN_TRANSIT_TO_DOMESTIC_WAREHOUSE", "ARRIVED_DOMESTIC_WAREHOUSE", "WAITING_REMAINING_PAYMENT"}
    MaxCopies = 2
    MaxCrashes = 1
    Lossy = {}
    None = None
INVARIANT TimelineAdvances
PROPERTIES PreviousIsTruthful AcceptedIsApplied
CHECK_DEADLOCK FALSE
