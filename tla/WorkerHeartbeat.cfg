\* One worker of two takers: a run whose lock was lost goes on
\* beside the run that took the job over.
SPECIFICATION Spec
CONSTANTS
    None = None
    JobIds = {j1}
    Workers = {w1}
    Slots = {s1, s2}
    AttemptsMax = 2
    MaxStalledCount = 1
    s1 = s1
    Deployments <- LocalPair
    MaxTime = 2
    MaxSeq = 3
    MaxTokens = 3
    MaxInterventions = 0
SYMMETRY PoolSymmetry
INVARIANTS
    HeartbeatCovers
\* When every job has ended there is nothing left to claim.
CHECK_DEADLOCK FALSE
