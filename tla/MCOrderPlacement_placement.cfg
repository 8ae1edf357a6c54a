SPECIFICATION FairSpec
CONSTANTS
    Quotations = {"q1"}
    Requests = {"r1", "r2", "r3", "r4", "r5"}
    Invalid = {"r5"}
    Wants <- WantOf
    Customers = {"alice", "bob"}
    Owner <- OwnerOf
    Asker <- AskerOf
    Totals = {151}
    MaxFailures = 2
    None = None
INVARIANTS TypeOK OrderIsSound CreatedIsStored RetryIsCreated
PROPERTIES EveryRequestEnds ImplementsPlacement
CHECK_DEADLOCK FALSE
