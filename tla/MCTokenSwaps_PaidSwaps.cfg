CONSTANTS
    ethnet = ethnet
    biznet = biznet
    k1 = k1
    k2 = k2
    l1 = l1
    l2 = l2
    t1 = t1
    t2 = t2
    Networks = {ethnet, biznet}
    Accounts = {admin, manager}
    Admin = admin
    Manager = manager
    Heirs = {admin}
    Tokens = {t1, t2}
    TokenPairs <- Crossed
    Boxes = {b1}
    Keys = {k1, k2}
    Locks = {l1, l2}
    Sha256 <- MCSha256
    Offers <- MCOffers
    LeastFee = 0
    Providers = {admin}
    Sums = {1}
    ScriptSum = 1
    TimeLocks = {1}
    NoTerms = NoTerms
    NoKey = NoKey
    NoToken = NoToken
    NoRow = NoRow
    MaxTokens = 2
    MaxTime = 3
    LateClose = FALSE
    MaxRetry = 2
    MaxFaults = 1
    MaxChanges = 1
SPECIFICATION PromptSwaps
PROPERTIES PaidIsCollected
CHECK_DEADLOCK FALSE
