\* Two packs share an object: retries, evictions, deletions, manifests that
\* cannot be written, and restarts with the object missing.
SPECIFICATION Spec
CONSTANTS
    Packs = {p1, p2}
    Keys = {k1}
    Wipes = TRUE
    Regional = TRUE
    MaxCrashes = 1
    MaxErrors = 1
    MaxCopies = 1
SYMMETRY Symmetry
CHECK_DEADLOCK FALSE
INVARIANTS
    PinsHeld
    NoOrphanPins
    CompleteIsWhole
