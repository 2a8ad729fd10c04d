SPECIFICATION Spec
CONSTANTS
    o1 = o1
    o2 = o2
    o3 = o3
    k1 = k1
    k2 = k2
    Request = {o1}
    Killer = {}
    Flatten = {}
    Quantity <- TwoShares
    Cancels = FALSE
    MaxRounds = 1
    MaxFailures = 0
INVARIANT BookFollowsVenue
CHECK_DEADLOCK FALSE
