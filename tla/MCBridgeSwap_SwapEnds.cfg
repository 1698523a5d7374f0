SPECIFICATION FairSpec

CONSTANTS
    Swaps = {s1}
    Workers = {w1}
    Keys = {k1}
    Locks = {l1, l2}
    FeeVerdicts = {"fair"}
    NoSwap = NoSwap
    NoRow = NoRow
    NoTerms = NoTerms
    NoKey = NoKey
    FeeMul = 1
    FeeDiv = 1
    Pool0 = 2
    WithdrawLock = 6
    DepositLock = 12
    SourceInterval = 1
    TargetInterval = 1
    Offset = 0
    SourceSkew = 1
    RetryDelay = 1
    MaxRetry = 3
    MaxTime = 17
    MaxFaults = 0
    Prompt = TRUE
    LateClose = FALSE
    Outsiders = FALSE
    l1 = l1
    l2 = l2
    k1 = k1
    k2 = k2
    Horizon = 14
    CollectTime = 5
    Sha256 <- OneSha256
    Terms <- TooLarge
    TargetSkew <- TwoBehind

INVARIANTS
    NeverExpiresEarly
    LocksAreNested

PROPERTIES
    EverySwapEnds
    PaidIsCollected

\* The clock is bounded: the system stops at MaxTime.
CHECK_DEADLOCK FALSE
