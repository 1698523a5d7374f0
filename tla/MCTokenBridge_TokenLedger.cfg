CONSTANTS
    ethnet = ethnet
    biznet = biznet
    k1 = k1
    l1 = l1
    t1 = t1
    t2 = t2
    Networks = {ethnet, biznet}
    Accounts = {admin, manager}
    Admin = admin
    Manager = manager
    Heirs = {admin}
    Tokens = {t1, t2}
    TokenPairs <- Crossed
    Boxes = {b1}
    Keys = {k1}
    Locks = {l1}
    Sha256 <- MCSha256
    Offers <- MCOffers
    LeastFee = 0
    Providers = {admin}
    Sums = {1}
    ScriptSum = 1
    TimeLocks = {0}
    NoTerms = NoTerms
    NoKey = NoKey
    NoToken = NoToken
    MaxTokens = 1
    MaxTime = 1
SPECIFICATION Spec
INVARIANTS TypeOK OwnerIsAdmin BooksBalance PairsAreCovered
CHECK_DEADLOCK FALSE
