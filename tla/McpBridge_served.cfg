\* One page, one stream at a time: wake-ups arrive and every call ends.
SPECIFICATION FairSpec
CONSTANTS
    Views = {v1}
    Streams = {s1}
    MaxQueued = 2
    MaxViews = 1
    MaxTracked = 1
    Throttled = TRUE
    MaxCalls = 2
    MaxBeats = 2
    MaxBreaks = 1
    MaxLosses = 0
CHECK_DEADLOCK FALSE
INVARIANTS
    WakeReachesOwnStream
PROPERTIES
    Served
