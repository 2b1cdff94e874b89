SPECIFICATION Spec
CHECK_DEADLOCK FALSE
CONSTANTS
    MaxDay = 4
    DayEnd = 14
    Dates <- MCDates
    TradingDays <- MCTrading
    FirstDays <- MCFirsts
    LastDays <- MCLasts
    Close <- MCCloses
    Regular = 5
    Short = 4
    Sessions <- MCSessions
    Offset = 3
    Lead = 1
    Retry = 2
    MaxRun = 2
    MaxRestarts = 1
    StorageFaults = TRUE
INVARIANTS
    RetryPending
    KeepsExchangeHours
PROPERTIES
    ImplementsContract
