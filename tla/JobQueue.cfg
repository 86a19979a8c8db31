SPECIFICATION FairSpec
CONSTANTS
    j1 = j1
    w1 = w1
    w2 = w2
    NoWorker = NoWorker
    Job <- MCJob
    Handled <- MCHandled
    Worker <- MCWorker
    Concurrency = 2
    MaxAttempts = 2
    LeaseTime = 3
    JobTimeout = 2
    BackoffBase = 1
    BackoffCap = 1
    ClaimStall = 1
INVARIANTS
    TypeOK
    RecoveredOnlyIfOverstayed
    OneHolderPerRow
PROPERTIES
    ImplementsContract
    EventuallySettled
CHECK_DEADLOCK FALSE
