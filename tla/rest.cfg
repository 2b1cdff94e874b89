SPECIFICATION FairSpec
CONSTANTS
    warmup = warmup
    backfill = backfill
    Callers <- MCCallers
    Capacity = 4
    Price = 2
    MaxDebt = 2
    MaxRetries = 2
    BaseDelay = 1
    MaxDelay = 2
    RetryAfters <- MCRetryAfters
    Pages = 2
    Limits <- MCLimits
INVARIANTS
    CompleteOrError
PROPERTIES
    KeepsRateCeiling
    CallsEnd
