SPECIFICATION FairSpec
CONSTANTS
    r1 = r1
    r2 = r2
    r3 = r3
    Rows = {r1, r2, r3}
    Streams = {1}
    Stream <- OnePartition
    Refused = {r3}
    Limit = 2
    MaxFaults = 3
INVARIANTS TypeOK MarkedIsDelivered DeliveredInOrder RepeatsHaveACause
PROPERTIES ImplementsChannel
CHECK_DEADLOCK FALSE
