SPECIFICATION Spec

CONSTANTS
    Swaps = {s1}
    Workers = {w1, w2}
    Keys = {k1}
    Locks = {l1, l2}
    FeeVerdicts = {"fair"}
    NoSwap = NoSwap
    NoRow = NoRow
    NoTerms = NoTerms
    NoKey = NoKey
    FeeMul = 1
    FeeDiv = 1
    Pool0 = 2
    WithdrawLock = 1
    DepositLock = 2
    SourceInterval = 1
    TargetInterval = 1
    Offset = 0
    SourceSkew = 0
    RetryDelay = 1
    MaxRetry = 3
    MaxTime = 6
    MaxFaults = 0
    Prompt = TRUE
    LateClose = TRUE
    Outsiders = TRUE
    l1 = l1
    l2 = l2
    k1 = k1
    k2 = k2
    Horizon = 8
    CollectTime = 5
    Sha256 <- OneSha256
    Terms <- OneLock
    TargetSkew <- InStep

INVARIANTS
    StatusMatchesChains
    WithdrawOnDepositTerms
    TraderIsPaid

\* The clock is bounded: the system stops at MaxTime.
CHECK_DEADLOCK FALSE
