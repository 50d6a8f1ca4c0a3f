SPECIFICATION Spec
CONSTANTS
    ContextMayFail = FALSE
    NumProjects = 1
    Docs <- TwoDocs
    Uses = {"browse", "regenerate", "delete"}
    MaxRuns = 2
    MaxChats = 3
    MaxTargets = 0
    MaxSteps = 1
INVARIANTS
    TypeOK
    AnswerOnItsWay
    WorkingIsInFlight
PROPERTIES
    SettledEntryIsFinal
    AnswerRecorded
CHECK_DEADLOCK FALSE
