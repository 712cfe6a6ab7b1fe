\* One key in pending mode, plain and latest-wins, and one with windows.
SPECIFICATION Spec
CONSTANTS
    None = None
    j1 = j1
    j2 = j2
    j3 = j3
    k1 = k1
    k2 = k2
    Names = {"n"}
    Queues = {"q"}
    JobIds = {j1, j2}
    ParentIds = {}
    DedupeKeys = {"d", "w"}
    ChildKeys = {}
    Payloads = {"a", "b"}
    Requests <- DedupeRequests
    LockDurations = {1}
    RetryDelays = {1}
    MaxStalledCount = 0
    PendingAgeMs = 1
    SweepLimit = 1
    HistoryTtl <- FailedTtl
    MaxTime = 2
    MaxSeq = 3
    MaxTokens = 1
SYMMETRY JobSymmetry
INVARIANTS
    KeyFreedWhenDone
    OneEnqueuedPerKey
PROPERTIES
    LiveWindowKept
