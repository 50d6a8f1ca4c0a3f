SPECIFICATION FairSpec
CONSTANTS
  MaxThoughtSteps = 2
  MaxToolErrors = 2
  ContextTokens = 100
  ResultTokens = {1}
  MaxCalls = 2
  ProviderIds = TRUE
  MaxPrompts = 2
  MaxTurns = 3
  MaxStops = 1
  None = None
INVARIANTS TypeOK RequestsAreOrdered FailuresAreCounted RecordIsTrue
PROPERTIES EveryRunEnds
CHECK_DEADLOCK FALSE
