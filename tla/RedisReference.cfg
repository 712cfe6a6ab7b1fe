\* One flow parent with two children staged one by one, and one keyed job.
SPECIFICATION Spec
CONSTANTS
    None = None
    k1 = k1
    k2 = k2
    Names = {"n", "f"}
    Queues = {"q"}
    JobIds = {1, 2}
    DedupeKeys = {"d"}
    ChildKeys = {k1, k2}
    Payloads = {"a"}
    Requests <- AllRequests
    LockDurations = {1}
    RetryDelays = {1}
    MaxStalledCount = 1
    PendingAgeMs = 0
    SweepLimit = 1
    HistoryTtl <- SomeTtl
    Scenarios <- AllScenarios
    ChunkSize = 1
    PageSize = 1
    ReusedFlowIds = FALSE
    MaxTime = 2
    MaxSeq = 3
    MaxTokens = 2
SYMMETRY Symmetry
INVARIANTS
    TypeOK
    IndexInv
PROPERTIES
    ImplementsReference
CHECK_DEADLOCK FALSE
