SPECIFICATION Spec
CONSTANTS
    Threads <- MCThreads
    Interval = 4
    Ceiling = 10
    MaxRetries = 3
    Timeout = 4
    Delays <- MCDelays
    Jitter <- MCJitter
    Grace = 12
PROPERTIES
    RecoveryOfToldOutage
