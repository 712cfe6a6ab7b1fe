\* Wake-ups under faults; schedules, their declaration and their sweepers.
SPECIFICATION FairSpec
CONSTANTS
    None = None
    p1 = p1
    p2 = p2
    t1 = t1
    t2 = t2
    j1 = j1
    j2 = j2
    Procs = {p1, p2}
    Takers = {t1, t2}
    ProcOf <- MCProcOf
    Queues = {"q"}
    QueueOf <- MCQueueOf
    PlainIds = {j1, j2}
    JobIds <- MCJobIds
    Keys = {"a", "b"}
    Queue = "q"
    Callers <- MCCallers
    CallerProc <- MCCallerProc
    Warns = {"old"}
    Group <- MCGroup
    Declares <- MCDeclares
    AttemptsMax = 2
    Delays = {0, 1}
    MaxTime = 2
    Scenarios <- MCScenarios
INVARIANTS
    TypeOK
    JobsNoticed
PROPERTIES
    FiresOnce
    NoSlotDropped
    PrunesOwnGroup
    QueuesDrain
    SchedulesCatchUp
CHECK_DEADLOCK FALSE
