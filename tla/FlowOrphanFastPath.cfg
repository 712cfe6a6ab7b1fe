\* One sweeper, and a worker that enqueues the children itself.
SPECIFICATION Spec
CONSTANTS
    None = None
    FlowIds = {f1}
    ChildKeys = {k1, k2}
    Sweepers = {s1, s2}
    Relays = {r1}
    k1 = k1
    s1 = s1
    Scenarios <- OnlyFastPath
    PendingAgeMs = 0
    SweepLimit = 2
    MaxStalledCount = 1
    MaxTime = 1
    MaxTokens = 3
INVARIANTS
    NoOrphan
\* A run in which every flow settled and nothing is left to poll ends.
CHECK_DEADLOCK FALSE
