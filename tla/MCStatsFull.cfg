\* stats() called again and again; nothing fails.
SPECIFICATION Spec
CONSTANTS
    k1 = k1
    k2 = k2
    NoKey = NoKey
    Keys <- MCKeys
    Replies <- MCReplies
    RCap = 15
    WCap = 12
    RecvMax = 3
    MaxSize = 1
    DataSizes = {1, 2}
    KeyCounts = {2}
    MaxCalls = 3
    Faults = FALSE
    BadKeys = FALSE
INVARIANT
    StatsComplete
