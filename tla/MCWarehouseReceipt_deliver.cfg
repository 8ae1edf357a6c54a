SPECIFICATION ReceiptSpec
CONSTANTS
    d = d
    p = p
    q = q
    x = x
    Orders = {"o1"}
    Events <- Scans
    Shards = {1}
    EventOrder <- OrderOf
    EventKind <- KindOf
    EventClass <- ClassOf
    Shard <- OneShard
    OperatorMoves = {"CANCELLED"}
    MaxCopies = 2
    MaxCrashes = 1
    Lossy = {}
    None = None
    TrackingNumbers = {"A", "B"}
    Tracking <- TrackingOf
    MaxFailures = 1
SYMMETRY Alike
INVARIANTS TypeOK NoEventLost ExactlyOnce InsertNeverConflicts ReceivedOnce
PROPERTIES TransitionsAreLegal ImplementsLifecycle
CHECK_DEADLOCK FALSE
