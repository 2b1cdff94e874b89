SPECIFICATION FairSpec
CONSTANTS
    RecoveryDays = 3
    Sectors <- MCSectors
    Defensives <- MCSectors
    Alphabetical <- MCAlphabetical
    Markets <- MCMarkets
INVARIANTS
    LockoutIffCut
    CutHoldsEquityDown
    WeightsSpendTheCapital
    WorseIsNeverRiskier
PROPERTIES
    ReentryIsConfirmed
    DefenceLifts
