\* Two clients toggle the mode over each other while three transfers come and go.
SPECIFICATION FairSpec
CONSTANTS
    Clients = {c1, c2}
    Fetches = {f1, f2, f3}
INVARIANTS
    NoLostWakeup
    OfflineIsCancelled
PROPERTIES
    GateSpec
    SwitchTerminates
