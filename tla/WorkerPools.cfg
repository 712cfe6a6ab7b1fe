\* Two takers on a store whose replies take time; one on the in-memory driver.
SPECIFICATION FairSpec
CONSTANTS
    None = None
    JobIds = {j1}
    Workers = {w1}
    Slots = {s1, s2}
    s1 = s1
    Deployments <- Pools
    AttemptsMax = 2
    MaxStalledCount = 1
    MaxTime = 2
    MaxSeq = 5
    MaxTokens = 7
    MaxInterventions = 1
INVARIANTS
    TypeOK
    BooksInOrder
    Attended
PROPERTIES
    LeaseIsOwn
    CancelWanted
    CancelArrives
    JobsEnd
\* When every job has ended there is nothing left to claim.
CHECK_DEADLOCK FALSE
