SPECIFICATION FairSpec
CONSTANTS
    Clients = {"p"}
    Attempts = {1, 2}
    MaxStatus = 2
    MaxRecords = 2
    HistorySize = 2
    Capacity = 1
    MaxBreaks = 1
    MaxRestarts = 1
INVARIANTS TypeOK InOrderOnce NothingMissed PageIsNotBehind
PROPERTIES PagesAreRefreshed
CHECK_DEADLOCK FALSE
