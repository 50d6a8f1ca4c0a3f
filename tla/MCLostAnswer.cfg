SPECIFICATION Spec
CONSTANTS
    ContextMayFail = FALSE
    NumProjects = 2
    Docs <- OneDoc
    Uses = {}
    MaxRuns = 1
    MaxChats = 5
    MaxTargets = 1
    MaxSteps = 0
PROPERTIES
    AnswerRecorded
CHECK_DEADLOCK FALSE
