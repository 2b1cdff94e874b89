SPECIFICATION Spec
CHECK_DEADLOCK FALSE
CONSTANTS
    spy = spy
    tlt = tlt
    MaxMessages = 6
    Lifecycle <- MCLifecycle
    QueueSize = 2
    BacklogSize = 2
    MaxConsumers = 3
    Symbols <- MCSymbols
    MaxRequests = 2
INVARIANTS
    CachesCatchUp
    OneConsumerKeepsOrder
    RelayHasDesired
