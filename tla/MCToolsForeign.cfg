SPECIFICATION Spec
CONSTANTS
  p = p
  q = q
  a = a
  b = b
  NoProject = NoProject
  Project <- Projects
  Chat <- Chats
  AutoStart = TRUE
  SwitchDuringRun = TRUE
  MaxRuns = 1
  MaxCalls = 1
  MaxTimeouts = 0
  MaxActs = 1
PROPERTY CallsStayInProject
CHECK_DEADLOCK FALSE
