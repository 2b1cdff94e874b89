SPECIFICATION Spec
CONSTANTS
    r1 = r1
    Requests <- NoRequest
    LastDays <- TwoDays
    MaxDay = 2
    MaxAge = 1
    MaxRestarts = 1
    MaxResets = 0
    StorageFaults = TRUE
INVARIANTS
    DailyDoneMeansEvaluated
PROPERTIES
    ImplementsContract
    WeeklyDoneMeansOnTarget
