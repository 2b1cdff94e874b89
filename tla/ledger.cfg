SPECIFICATION RebalanceSpec
CONSTANTS
    spy = spy
    tlt = tlt
    shv = shv
    Symbols <- MCSymbols
    Alphabet <- MCAlphabet
    Proxy = shv
    Band = 100
    MinOrder = 20
    Targets <- MCTargets
    Prices <- TwoPrices
    Slip = 1
    MinFee = 3
    FeePerLot = 0
    Buffer = 1
    MinTicket = 4
    InitialCash = 40
    Batches <- SomeBatches
    MaxBatches = 4
    MaxPurges = 1
    StorageFaults = TRUE
INVARIANTS
    TypeOK
    BooksBalance
    NavMatchesTable
PROPERTIES
    BuyKeepsBuffer
    MarksMoveNoPosition
    RebalanceReachesTarget
