CONSTANTS
    ethnet = ethnet
    biznet = biznet
    Servers = {swap, schedule}
    Networks = {ethnet, biznet}
    Tip = 3
    BaseFees = {1, 64}
    Unknown = Unknown
    Broken = Broken
    MaxNonce <- MCMaxNonce
    MaxFaults = 1
SPECIFICATION FairSpec
INVARIANTS IInv SkippedAreFaults NoGap
PROPERTIES NothingIsReplaced TakenIsMined
CHECK_DEADLOCK FALSE
