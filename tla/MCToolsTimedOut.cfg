SPECIFICATION Spec
CONSTANTS
  p = p
  q = q
  a = a
  b = b
  NoProject = NoProject
  Project <- Projects
  Chat <- Chats
  AutoStart = TRUE
  SwitchDuringRun = FALSE
  MaxRuns = 1
  MaxCalls = 1
  MaxTimeouts = 1
  MaxActs = 0
INVARIANT FailedChangesNothing
CHECK_DEADLOCK FALSE
