\* A file with two rows of one client, SKU and month, applied alone.
SPECIFICATION FairSpec
CONSTANTS
    a1 = a1
    a2 = a2
    w1 = w1
    Request = {a1, a2, w1}
    Process = {"api", "workers"}
    ProcessOf <- MCProcessOf
    Batch = {"b1", "b2", "b3"}
    StockBatch = {"s1"}
    Key = {1, 2}
    Files <- MCFiles
    Refused <- MCRefused
    Window = 2
    MaxBegun = 1
    MaxDay = 0
CHECK_DEADLOCK FALSE
PROPERTIES
    LoneApplySucceeds
