SPECIFICATION FairSpec
CONSTANTS
    r1 = r1
    Requests <- NoRequest
    LastDays <- OneDay
    MaxDay = 1
    MaxAge = 0
    MaxRestarts = 1
    MaxResets = 0
    StorageFaults = FALSE
PROPERTIES
    HandlersFinish
