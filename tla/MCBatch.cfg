SPECIFICATION FairSpec
CONSTANTS
    ContextMayFail = TRUE
    NumProjects = 2
    Docs <- OneDoc
    Uses = {"batch", "close"}
    MaxRuns = 3
    MaxChats = 5
    MaxTargets = 3
    MaxSteps = 0
INVARIANTS
    SingleFlight
    NoLostWakeup
    BatchCoupled
    NoUnownedWork
PROPERTIES
    QueuesDrain
    LedgerHonoured
    LedgerKept
    BatchVerdictStable
CHECK_DEADLOCK FALSE
