SPECIFICATION FairSpec
CONSTANTS
    o1 = o1
    o2 = o2
    o3 = o3
    k1 = k1
    k2 = k2
    Request = {o1}
    Killer = {k1}
    Flatten = {TRUE, FALSE}
    Quantity <- BothSides
    Cancels = TRUE
    MaxRounds = 2
    MaxFailures = 1
PROPERTY KillEnds OrdersResolve
CHECK_DEADLOCK FALSE
INVARIANT PostedOnce NothingLost
