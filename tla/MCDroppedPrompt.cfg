SPECIFICATION Spec
CONSTANTS
    ContextMayFail = FALSE
    NumProjects = 2
    Docs <- OneDoc
    Uses = {}
    MaxRuns = 2
    MaxChats = 4
    MaxTargets = 1
    MaxSteps = 0
PROPERTIES
    QueuedPromptSubmitted
CHECK_DEADLOCK FALSE
