\* A second crash, while the first one is being recovered.
SPECIFICATION Spec
CONSTANTS
    MaxVersion = 3
    MaxFaults = 2
    Faults = {"crash"}
INVARIANTS
    Durable
