\* get_multi() of something that cannot be iterated, then other calls.
SPECIFICATION Spec
CONSTANTS
    k1 = k1
    k2 = k2
    NoKey = NoKey
    Keys <- MCKeys
    Replies <- MCReplies
    RCap = 40
    WCap = 12
    RecvMax = 3
    MaxSize = 1
    DataSizes = {1}
    KeyCounts = {2}
    MaxCalls = 3
    Faults = FALSE
    BadKeys = TRUE
INVARIANT
    OwnReply
