\* Two callers share fetches while a pack pins and releases the entry, which may be
\* removed, and puts and removals fail half-way.
SPECIFICATION FairSpec
CONSTANTS
    Callers = {c1, c2}
    Packs = {p1}
    MaxUpstream = 2
INVARIANTS
    IndexMatchesDisk
    PinsKeptByReplacement
PROPERTIES
    Answered
