SPECIFICATION Spec
CONSTANTS
    ContextMayFail = FALSE
    NumProjects = 1
    Docs <- TwoDocs
    Uses = {"batch"}
    MaxRuns = 2
    MaxChats = 4
    MaxTargets = 2
    MaxSteps = 0
INVARIANTS
    BatchKeepsSelection
CHECK_DEADLOCK FALSE
