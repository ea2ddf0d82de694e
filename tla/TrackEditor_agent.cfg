\* One file and an agent that opens it while the user edits.
SPECIFICATION EditorSpec
CONSTANTS
    Files = {f1}
    MaxRevs = 3
    MaxTracks = 2
    MaxLists = 1
CHECK_DEADLOCK FALSE
PROPERTIES
    AgentKeepsEdits
