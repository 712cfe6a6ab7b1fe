\* Claims, locks, stalls, retries, cancels and the admin verbs on two
\* interchangeable jobs of one queue.
SPECIFICATION Spec
CONSTANTS
    None = None
    j1 = j1
    j2 = j2
    j3 = j3
    k1 = k1
    k2 = k2
    Names = {"n"}
    Queues = {"q"}
    JobIds = {j1, j2}
    ParentIds = {}
    DedupeKeys = {}
    ChildKeys = {}
    Payloads = {"a"}
    Requests <- LifecycleRequests
    LockDurations = {1}
    RetryDelays = {0, 1}
    MaxStalledCount = 1
    PendingAgeMs = 1
    SweepLimit = 1
    HistoryTtl <- FailedTtl
    MaxTime = 2
    MaxSeq = 3
    MaxTokens = 2
SYMMETRY JobSymmetry
INVARIANTS
    TypeOK
    LockInv
    ResultInv
    StallBudget
    KeepCountHolds
PROPERTIES
    CancelSticks
    WakeOnReady
