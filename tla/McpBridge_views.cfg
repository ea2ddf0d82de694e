\* Two pages and room for one view; streams break, answers are lost, silent views
\* are forgotten.
SPECIFICATION Spec
CONSTANTS
    Views = {v1, v2}
    Streams = {s1}
    MaxQueued = 1
    MaxViews = 1
    MaxTracked = 1
    Throttled = TRUE
    MaxCalls = 2
    MaxBeats = 2
    MaxBreaks = 1
    MaxLosses = 1
SYMMETRY Symmetry
CHECK_DEADLOCK FALSE
INVARIANTS
    AppliedInOrder
PROPERTIES
    ReadsOwnWrite
