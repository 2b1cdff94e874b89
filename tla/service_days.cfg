SPECIFICATION Spec
CONSTANTS
    r1 = r1
    Requests <- OneRequest
    LastDays <- TwoDays
    MaxDay = 2
    MaxAge = 0
    MaxRestarts = 0
    MaxResets = 1
    StorageFaults = FALSE
INVARIANTS
    TypeOK
PROPERTIES
    ScheduledTradesFailClosed
    PauseFreezesManual
    EvaluatesOnLiveFeed
    FillsFollowLatestDecision
    BreakerEndsDerisked
