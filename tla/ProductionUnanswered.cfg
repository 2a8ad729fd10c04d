SPECIFICATION Spec
CONSTANTS
    c1 = c1
    c2 = c2
    c3 = c3
    r1 = r1
    s1 = s1
    s2 = s2
    Cycle = {c1, c2}
    Reconciler = {}
    Symbol = {s1}
    Broker = {"alpaca"}
    Target <- OneSymbolTargets
    Nav = {100}
    Capacity = {1}
    MinLot = 1
    MaxOrders = 2
    MaxLossPct = 5
    MaxDataAge = 0
    Answers = {TRUE, FALSE}
    MaxDay = 1
    MaxFailures = 1
PROPERTY NoTradeOverDisagreement
CHECK_DEADLOCK FALSE
