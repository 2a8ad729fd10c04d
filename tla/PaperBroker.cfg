SPECIFICATION Spec
CONSTANTS
    o1 = o1
    o2 = o2
    o3 = o3
    k1 = k1
    k2 = k2
    Request = {o1, o2}
    Killer = {}
    Flatten = {}
    Quantity <- TwoShares
    Cancels = FALSE
    MaxRounds = 1
    MaxFailures = 1
INVARIANT BookedOnce ExecutionIsSeen
PROPERTY LifecycleSpec
CHECK_DEADLOCK FALSE
