SPECIFICATION Spec
CONSTANTS
    Orders = {"o1"}
    Creates = {"c1"}
    Callbacks = {"b1", "b2"}
    Mocks = {}
    Slot <- SlotOf
    Names <- NameOf
    Transfer <- TransferOf
    Received <- ReceivedOf
    Transfers = {"t1", "t2"}
    Amount <- AmountOf
    OrderPath <- Path
    MaxFailures = 0
    None = None
INVARIANT RepeatedCallbackIsOk
CHECK_DEADLOCK FALSE
