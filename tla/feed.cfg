SPECIFICATION FairSpec
CHECK_DEADLOCK FALSE
CONSTANTS
    Tasks <- MCTasks
    MaxSockets = 2
    MaxEvents = 1
    MaxFaults = 1
    MayStop = TRUE
INVARIANTS
    LivePricesAreReal
    ConnectionIsAttended
PROPERTIES
    EventuallyLive
    DeadUpstreamNoticed
