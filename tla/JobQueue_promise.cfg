CONSTANTS
    j1 = j1
    j2 = j2
    w1 = w1
    w2 = w2
    NoJob = NoJob
    NoWorker = NoWorker
    Job <- TwoJobs
    Worker <- TwoWorkers
    Slots = 1
    MaxAttempts = 2
    NRow = 5
    NOrg = 3
    NKind = 3
    Cap = 2
    ProcessCap = 4
SPECIFICATION FairSpec
INVARIANTS
    TypeOK
    OneRunAtATime
    ClaimIsFair
PROPERTIES
    StaleRunWritesNothing
    KeepsPromise
    EveryJobEnds
CHECK_DEADLOCK FALSE
