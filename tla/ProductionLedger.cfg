SPECIFICATION Spec
CONSTANTS
    c1 = c1
    c2 = c2
    c3 = c3
    r1 = r1
    s1 = s1
    s2 = s2
    Cycle = {c1, c2}
    Reconciler = {}
    Symbol = {s1, s2}
    Broker = {"ledger"}
    Target <- UnevenTargets
    Nav <- LedgerNavs
    Capacity = {1, 2}
    MinLot = 1
    MaxOrders = 2
    MaxLossPct = 5
    MaxDataAge = 1
    Answers = {TRUE}
    MaxDay = 2
    MaxFailures = 1
INVARIANT OnlyGatedOrdersTrade
SYMMETRY CycleSymmetry
CHECK_DEADLOCK FALSE
