SPECIFICATION MCSpec
CONSTANTS
    d1 = d1
    u1 = u1
    u2 = u2
    l1 = l1
    m1 = m1
    m2 = m2
    m3 = m3
    t1 = t1
    t2 = t2
    Delivery <- MCDelivery
    Concurrency = 2
    MaxAttempts = 2
INVARIANTS
    TypeOK
    ShownOnce
    SendsOnlyWhatMayBeSeen
    SuccessMeansSettled
PROPERTIES
    DeliveredIsFinal
    DeliveryResolved
    IntakeSettles
CHECK_DEADLOCK FALSE
