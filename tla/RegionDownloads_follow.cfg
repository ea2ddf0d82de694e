SPECIFICATION Spec
CONSTANTS
    Packs = {p1, p2}
    MaxTries = 2
    Slots = {1, 2}
    MaxStarts = 1
    MaxToggles = 1
    MaxFaults = 1
CHECK_DEADLOCK FALSE
PROPERTIES Converges FailureHeard
