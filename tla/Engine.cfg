SPECIFICATION Spec
CONSTANTS
    o1 = o1
    o2 = o2
    o3 = o3
    s1 = s1
    s2 = s2
    Request = {o1, o2, o3}
    Symbol = {s1, s2}
    SymbolOf <- Assigned
    Quantity <- OneIn
    Limit <- Limits
    Quote <- Quotes
    Cash = 60
    Commission = 1
    MaxOrder = 48
    MaxPosition = 48
    MaxGross = 60
    MaxLoss = 10
    MaxOpen = 2
    MaxPrints = 2
INVARIANT TypeOK BooksBalance NextPrintFills FlattenedIsFlat
PROPERTY LifecycleSpec
CHECK_DEADLOCK FALSE
