SPECIFICATION FairSpec
CONSTANTS
  p = p
  q = q
  a = a
  b = b
  NoProject = NoProject
  Project <- Projects
  Chat <- Chats
  AutoStart = TRUE
  SwitchDuringRun = FALSE
  MaxRuns = 1
  MaxCalls = 2
  MaxTimeouts = 1
  MaxActs = 2
INVARIANTS TypeOK ResultsAreTrue SuccessesAreShown
PROPERTIES SentWithConsent RunsEnd
CHECK_DEADLOCK FALSE
