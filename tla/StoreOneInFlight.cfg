\* The dedup guide against the admin verb `retry`.
SPECIFICATION Spec
CONSTANTS
    None = None
    j1 = j1
    j2 = j2
    j3 = j3
    k1 = k1
    k2 = k2
    Names = {"n"}
    Queues = {"q"}
    JobIds = {j1, j2}
    ParentIds = {}
    DedupeKeys = {"d"}
    ChildKeys = {}
    Payloads = {"a", "b"}
    Requests <- PendingRequests
    LockDurations = {1}
    RetryDelays = {1}
    MaxStalledCount = 1
    PendingAgeMs = 1
    SweepLimit = 1
    HistoryTtl <- NoTtl
    MaxTime = 2
    MaxSeq = 3
    MaxTokens = 2
SYMMETRY JobSymmetry
INVARIANTS
    OneInFlightPerKey
