SPECIFICATION FairSpec
CONSTANTS
    Pages <- MCPages
    MaxVersion <- MCMaxVersion
    Concurrency = 2
    MaxAttempts = 2
INVARIANTS
    TypeOK
    KeysAreFresh
    RunningHasWork
PROPERTIES
    ImplementsContract
    ImportEnds
    ReportFollows
CHECK_DEADLOCK FALSE
