SPECIFICATION Spec
CONSTANTS
    ContextMayFail = FALSE
    NumProjects = 2
    Docs <- OneDoc
    Uses = {"batch"}
    MaxRuns = 2
    MaxChats = 4
    MaxTargets = 1
    MaxSteps = 0
INVARIANTS
    AnswerStaysInProject
CHECK_DEADLOCK FALSE
