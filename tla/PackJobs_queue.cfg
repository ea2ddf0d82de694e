\* Two owners, one slot and two waiting places, and packs submitted three times.
SPECIFICATION FairSpec
CONSTANTS
    ana = ana
    ben = ben
    i1 = i1
    i2 = i2
    i3 = i3
    Owners <- MCOwners
    Inputs <- MCInputs
    Asks <- MCAsks
    Area <- MCArea
    Plain <- MCPlain
    Objects = {o1, o2, o3}
    MaxActive = 1
    MaxQueued = 2
    OwnerLimit = 2
    MaxStarts = 3
    MaxCleanups = 1
INVARIANTS
    
    NobodyAbandoned
PROPERTIES
    QueueDrains
