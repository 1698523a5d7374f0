CONSTANTS
    bridge = bridge
    cgc = cgc
    Schedulers = {bridge, cgc}
    Order <- GeckoFirst
    MayHang = {cgc}
    Timeout = 1
    Second = 2
    MaxStarts = 3
    MaxTime = 10
SPECIFICATION FairSpec
INVARIANTS IInv OneWorkAtATime StoppedIsQuiet
PROPERTIES NoWorkBegunAfterStop StopEnds
CHECK_DEADLOCK FALSE
