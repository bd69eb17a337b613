SPECIFICATION PFairSpec
CONSTANTS
    Requests = {r1, r2}
    Kinds = {"query", "broadcast", "upgrade"}
    Threshold = 2
INVARIANTS PTypeOK NoDoubleBroadcast
PROPERTIES BreakerHeals
CHECK_DEADLOCK FALSE
