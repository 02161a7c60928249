SPECIFICATION WorkerFairSpec
CONSTANTS
    j1 = j1
    j2 = j2
    c1 = c1
    w1 = w1
    w2 = w2
    id1 = id1
    Jobs = {j1}
    Contents = {c1}
    Requests <- OneRequest
    Workers = {w1, w2}
    WorkerIds = {id1}
    WorkerId <- SameName
    MaxAttempts = 2
    LeaseTicks = 2
    RetentionTicks = 0
    PurgeCalled = FALSE
    NoWorker = NoWorker
    NoContent = NoContent
    NoLease = NoLease
    SharedDesktop = TRUE
    Crashes = TRUE
INVARIANT OneOwner
PROPERTIES CancelSticks OneRenderer SuccessIsOwn LeaseEnds WorkSettles
