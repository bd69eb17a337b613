SPECIFICATION SFairSpec
CONSTANTS
    Requests = {s1, s2}
    Kinds = {"upgrade"}
    Threshold = 2
    MaxBackoff = 2
INVARIANTS STypeOK SingleSubscription
PROPERTIES StreamReturns StreamStops
CHECK_DEADLOCK FALSE
