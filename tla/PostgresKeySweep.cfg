SPECIFICATION Spec
CONSTANTS
    None = None
    c1 = c1
    c2 = c2
    k1 = k1
    k2 = k2
    Calls = {c1, c2}
    Names = {"n", "f"}
    Queues = {"q"}
    JobIds = {1, 2}
    DedupeKeys = {"d"}
    ChildKeys = {k1, k2}
    Payloads = {"a"}
    Requests <- AllRequests
    LockDurations = {1}
    RetryDelays = {1}
    MaxStalledCount = 1
    PendingAgeMs = 0
    SweepLimit = 1
    HistoryTtl <- SomeTtl
    Scenarios <- TakeOver
    MaxTime = 2
    MaxSeq = 3
    MaxTokens = 2
SYMMETRY Symmetry
PROPERTIES
    SweepFreesDeadKeys
CHECK_DEADLOCK FALSE
