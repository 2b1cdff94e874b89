SPECIFICATION Spec
CONSTANTS
    r1 = r1
    Requests <- OneRequest
    LastDays <- OneDay
    MaxDay = 1
    MaxAge = 0
    MaxRestarts = 0
    MaxResets = 0
    StorageFaults = FALSE
PROPERTIES
    SyntheticPricesNeverTrade
