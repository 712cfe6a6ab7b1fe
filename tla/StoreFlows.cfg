\* A flow parent with up to two children, and reports that arrive in
\* any order, grouping and number.
SPECIFICATION Spec
CONSTANTS
    None = None
    j1 = j1
    j2 = j2
    j3 = j3
    k1 = k1
    k2 = k2
    Names = {"n", "m"}
    Queues = {"q"}
    JobIds = {j1}
    ParentIds = {j3}
    DedupeKeys = {}
    ChildKeys = {k1, k2}
    Payloads = {"a"}
    Requests <- FlowRequests
    LockDurations = {1}
    RetryDelays = {0}
    MaxStalledCount = 1
    PendingAgeMs = 1
    SweepLimit = 1
    HistoryTtl <- NoTtl
    MaxTime = 1
    MaxSeq = 3
    MaxTokens = 2
SYMMETRY ChildSymmetry
INVARIANTS
    FlowInv
    FailFastWins
PROPERTIES
    RowsFinal
    FansOutOnce
    CascadesKept
    ReportWithTransition
