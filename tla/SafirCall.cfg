SPECIFICATION FairSpec
CONSTANTS
    HttpStatuses <- SomeStatuses
    MaxRetries = 2
INVARIANTS
    TypeOK
    DeliveredAtMostOnce
    SentIsDelivered
    GivenUpOnlyWhenExhausted
PROPERTIES
    CallReturns
