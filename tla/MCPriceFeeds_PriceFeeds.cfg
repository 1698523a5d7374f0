CONSTANTS
    TokenDecimals = 1
    CoinDecimals = 3
    Precision = 1
    BridgeFee = 1
    MaxDigits = 8
    GasUsage <- MCGasUsage
    GasUnit <- MCGasUnit
    Interval = 2
    Minute = 5
    Offset <- MCOffset
    Ages = {1}
    Latency = 1
    KrwEvery = 2
    Prices = {0, 1}
    KrwRates = {0, 1}
    GasPrices = {10, 11, 15}
    MaxInt = 15
    OtherFees = {105}
    NoPrice = NoPrice
    MaxTime = 9
    MaxFaults = 2
    TraderTime = 5
SPECIFICATION Spec
INVARIANTS TypeOK UsedIsFresh PresentFeeIsAccepted
PROPERTIES KnownRateStaysKnown
CHECK_DEADLOCK FALSE
