CONSTANTS
    ethnet = ethnet
    biznet = biznet
    k1 = k1
    k2 = k2
    l1 = l1
    l2 = l2
    Networks = {ethnet, biznet}
    Boxes = {b1}
    Accounts = {provider, fees}
    Keys = {k1, k2}
    Locks = {l1, l2}
    Sha256 <- MCSha256
    Terms <- MCTerms
    FeeMul <- LongerOnBizNet
    FeeDiv <- LongerFromEthNet
    Sums = {2}
    TimeLocks = {0}
    CollectFee <- AsDeployed
    FirstManager = fees
    NoTerms = NoTerms
    NoKey = NoKey
    MaxCoins = 5
    MaxTime = 1
SPECIFICATION Spec
INVARIANTS TypeOK BooksCover ProvidersCovered PayoutCanBeCollected
PROPERTIES BoxesAreFinal
CHECK_DEADLOCK FALSE
