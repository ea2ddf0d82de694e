\* Four faults of any kind: crashes, renames, removals and directory syncs that fail.
SPECIFICATION Spec
CONSTANTS
    MaxVersion = 5
    MaxFaults = 4
    Faults = {"crash", "rename", "remove", "sync"}
INVARIANTS
    DurableOnce
    NeverResurrects
    NothingUncharged
