SPECIFICATION FairSpec
CONSTANTS
    r1 = r1
    r2 = r2
    r3 = r3
    s1 = s1
    s2 = s2
    Reader = {r1, r2}
    Symbol = {s1, s2}
    Wants <- Overlapping
    MaxTicks = 2
    MayVanish = TRUE
INVARIANT RefsCount UnionUpstream FeedRuns NewestWaits
PROPERTY FeedArrives IdleStops
CHECK_DEADLOCK FALSE
