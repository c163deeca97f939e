SPECIFICATION Spec
CONSTANTS
    TimeRange = 64
    AmountRange = 16
    MaxTimestampDifference = 2
    Minute = 10
    OneBurst = 2
    FeeQuant = 1
    PreDymaxionForkHeight = 2
    BlockTime = 4
    LargeWindow = 4
    AdjustHeight = 6
    MaxBaseTarget = 30
    MaxBig64 = 100
    SignatureAfter <- MCSignatureAfter
    Transaction <- MCTransaction
    Total = {2, 7}
    Gap = {1, 7}
    GenesisSignature <- MCGenesisSignature
    MaxHeight = 8
    MaxQueue = 2
    MaxTxs = 2
    MaxTxHeight = 2
INVARIANTS TargetInRange LaterIsEasier SteadyStaysSteady InTime 
PROPERTIES DifficultyGrows
CHECK_DEADLOCK FALSE
