SPECIFICATION Spec

CONSTANTS
    Swaps = {s1}
    Workers = {w1}
    Keys = {k1, k2}
    Locks = {l1, l2}
    FeeVerdicts = {"unknown", "low", "fair"}
    NoSwap = NoSwap
    NoRow = NoRow
    NoTerms = NoTerms
    NoKey = NoKey
    FeeMul = 1
    FeeDiv = 1
    Pool0 = 2
    WithdrawLock = 1
    DepositLock = 2
    SourceInterval = 1
    TargetInterval = 1
    Offset = 0
    SourceSkew = 0
    RetryDelay = 1
    MaxRetry = 3
    MaxTime = 5
    MaxFaults = 1
    Prompt = FALSE
    LateClose = TRUE
    Outsiders = TRUE
    l1 = l1
    l2 = l2
    k1 = k1
    k2 = k2
    Horizon = 8
    CollectTime = 5
    Sha256 <- MCSha256
    Terms <- TwoTerms
    TargetSkew <- InStep

INVARIANTS
    TypeOK
    IInv
    NoSwapIsForgotten

PROPERTIES
    StatusFollowsProtocol
    ImplementsAtomicSwap

\* The clock is bounded: the system stops at MaxTime.
CHECK_DEADLOCK FALSE
