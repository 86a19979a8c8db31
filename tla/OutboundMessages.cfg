SPECIFICATION FairSpec
CONSTANTS
    m1 = m1
    Message <- MCMessage
    Concurrency = 2
    MaxAttempts = 2
INVARIANTS
    TypeOK
    DuplicateOnlyAfterLostAnswer
    OneSenderAtATime
    SuccessMeansSettled
PROPERTIES
    SentIsFinal
    MessageResolved
