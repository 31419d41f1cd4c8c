\* A client that get_multi() of bad keys may put out of step with its server,
\* with a small receive buffer; no socket call fails.
SPECIFICATION FairSpec
CONSTANTS
    k1 = k1
    k2 = k2
    NoKey = NoKey
    Keys <- MCKeys
    Replies <- FewReplies
    RCap = 12
    WCap = 12
    RecvMax = 3
    MaxSize = 1
    DataSizes = {1}
    KeyCounts = {2}
    MaxCalls = 4
    Faults = FALSE
    BadKeys = TRUE
INVARIANT
    CursorOrder
PROPERTIES
    Termination
    AsyncCarriedOut
\* A call out of step may wait for ever; and the program ends.
CHECK_DEADLOCK FALSE
