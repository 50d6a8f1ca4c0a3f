SPECIFICATION Spec
CONSTANTS
  p = p
  q = q
  a = a
  b = b
  NoProject = NoProject
  Project <- Projects
  Chat <- Chats
  AutoStart = TRUE
  SwitchDuringRun = FALSE
  MaxRuns = 2
  MaxCalls = 1
  MaxTimeouts = 0
  MaxActs = 2
INVARIANT PreferenceOfTheChat
CHECK_DEADLOCK FALSE
