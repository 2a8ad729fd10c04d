SPECIFICATION Spec
CONSTANTS
    o1 = o1
    o2 = o2
    o3 = o3
    k1 = k1
    k2 = k2
    Request = {o1, o2}
    Killer = {k1}
    Flatten = {TRUE}
    Quantity <- BothSides
    Cancels = FALSE
    MaxRounds = 2
    MaxFailures = 0
INVARIANT BookedOnce
CHECK_DEADLOCK FALSE
