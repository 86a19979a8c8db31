SPECIFICATION Spec
CONSTANTS
    d1 = d1
    Delivery <- MCDelivery
    Concurrency = 2
    MaxAttempts = 2
PROPERTY NoSendAfterRevoke
