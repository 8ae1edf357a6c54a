SPECIFICATION FairSpec
CONSTANTS
    Orders = {"o1"}
    Creates = {"c1", "c2", "c3"}
    Callbacks = {"b1", "b2", "b3", "b4", "b5"}
    Mocks = {"m1", "m2"}
    Slot <- SlotOf
    Names <- NameOf
    Transfer <- TransferOf
    Received <- ReceivedOf
    Transfers = {"t1", "t2"}
    Amount <- AmountOf
    OrderPath <- Path
    MaxFailures = 1
    None = None
INVARIANTS TypeOK OneSuccessEvent AcknowledgedIsPaid OnePayment
PROPERTIES ImplementsLedger EveryRequestEnds
CHECK_DEADLOCK FALSE
