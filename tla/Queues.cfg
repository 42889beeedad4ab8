SPECIFICATION MCSpec
CONSTANTS
    s1 = s1  s2 = s2  s3 = s3
    Names = {n1, n2}
    Ids = {i1}
    Priorities = {1, 5}
    Steps = {s1, s2, s3}
    Deps <- MCDeps
    StepPriority <- MCStepPriority
    StepRank <- MCStepRank
    Base = 5
    StepName = n1
    MaxAttempts = 2
    MaxResults = 2
    MaxEnvelopes = 5
    Jobs = {j1, j2, j3}
    Threads = {t1, t2, t3}
    MaxHistory = 1
    NoJob = NoJob
INVARIANTS
    QueueSafe
    WorkersSafe
PROPERTIES
    ImplementsJobLedger
    QueueDrains
CHECK_DEADLOCK FALSE
