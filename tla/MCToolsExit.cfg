SPECIFICATION FairSpec
CONSTANTS
  p = p
  q = q
  a = a
  b = b
  NoProject = NoProject
  Project <- Projects
  Chat <- Chats
  AutoStart = TRUE
  SwitchDuringRun = FALSE
  MaxRuns = 1
  MaxCalls = 1
  MaxTimeouts = 0
  MaxActs = 1
PROPERTY ProgramEnds
CHECK_DEADLOCK FALSE
