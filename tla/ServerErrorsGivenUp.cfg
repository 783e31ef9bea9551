SPECIFICATION Spec
CONSTANTS
    HttpStatuses <- SomeStatuses
    MaxRetries = 2
INVARIANTS
    ServerErrorsAreRetried
