\* A planner that is left while its route is on the way.
SPECIFICATION PlannerSpec
CONSTANTS
    MaxEdits = 2
    MaxRuns = 5
    MaxAsked = 2
    Generations = {1, 2}
    MaxUploads = 1
CHECK_DEADLOCK FALSE
PROPERTIES
    LoadingEnds
