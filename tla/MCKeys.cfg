\* get_multi() over a connection that cuts its reply into short reads.
SPECIFICATION Spec
CONSTANTS
    k1 = k1
    k2 = k2
    NoKey = NoKey
    Keys <- MCKeys
    Replies <- MCReplies
    RCap = 40
    WCap = 12
    RecvMax = 3
    MaxSize = 1
    DataSizes = {1, 2}
    KeyCounts = {2}
    MaxCalls = 1
    Faults = FALSE
    BadKeys = FALSE
INVARIANT
    KeysOfValues
