SPECIFICATION FairSpec
CONSTANTS
    Devices <- MCDevices
    DepthArgs = {0, 1, 3}
    BlockArgs = {1, 2, 4}
    Ratios <- MCRatios
    IoQueueSize = 2
    MaxRequests = 4
    Mantissa = 16
    Word32 = 64
INVARIANTS
    TypeOK
    OpenWithinLimit
    AppendsFit
    OutstandingExact
    BudgetsSpent
    ZonesFinished
PROPERTY
    Terminates
