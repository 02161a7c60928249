SPECIFICATION FairSpec
CONSTANTS
    j1 = j1
    j2 = j2
    c1 = c1
    w1 = w1
    id1 = id1
    Jobs = {j1, j2}
    Contents = {c1}
    Requests <- MCSharedRequests
    Workers = {w1}
    WorkerIds = {id1}
    WorkerId <- MCName
    MaxAttempts = 2
    LeaseTicks = 2
    RetentionTicks = 1
    PurgeCalled = TRUE
    NoWorker = NoWorker
    NoContent = NoContent
    NoLease = NoLease
INVARIANTS LeasedInputExists ReceiptTellsTheEnd
PROPERTIES KeepsLifecycle JobsSettle
